------------------------- MODULE EVRStreamSinkProofs -------------------------
(***************************************************************************)
(* Proofs about the timer of a renderer (ScheduleWork) and the stream sink *)
(* that uses it (EVRStreamSink), for any number of chains, calls and       *)
(* requests.                                                               *)
(*                                                                         *)
(* The sink uses the timer as ScheduleWork expects of its user (Linked),   *)
(* so that what is proved of the timer holds in the sink: in particular,   *)
(* there is one chain, and with it one update, until a stop leaves an item *)
(* behind.                                                                 *)
(***************************************************************************)
EXTENDS EVRStreamSink, FiniteSetTheorems, TLAPS

USE ScheduleAssumption

\* A timer that is being started counts as started.
KeyKept ==
    /\ calls \in Nat
    /\ call = "start" => started
    /\ call = "schedule" => started

Typed == TypeOK /\ KeyKept

LEMMA TypedInit == Init => Typed
<1>. SUFFICES ASSUME Init PROVE Typed OBVIOUS
<1>1. started \in BOOLEAN /\ tick \in BOOLEAN BY Zenon DEF Init
<1>2. TypeOK BY <1>1 DEF Init, TypeOK
<1>3. KeyKept BY DEF Init, KeyKept
<1>4. QED BY <1>2, <1>3 DEF Typed

LEMMA TypedWork == ASSUME Typed, NEW c \in Chains, Work(c) PROVE Typed'
<1>1. CASE fire(c)
      BY <1>1 DEF Typed, TypeOK, KeyKept, fire
<1>2. CASE Invoke(c)
      BY <1>2 DEF Typed, TypeOK, KeyKept, Invoke
<1>3. CASE notify(c)
  <2>1. call' \in {"idle", call} BY <1>3 DEF notify, Off
  <2>2. started' \in BOOLEAN
    <3>1. CASE call = "wait" BY <1>3, <3>1, Zenon DEF notify, Off
    <3>2. CASE call # "wait" BY <1>3, <3>2 DEF notify, Typed, TypeOK
    <3>3. QED BY <3>1, <3>2
  <2>3. TypeOK' BY <1>3, <2>1, <2>2 DEF Typed, TypeOK, notify
  <2>4. KeyKept' BY <1>3, <2>1 DEF Typed, TypeOK, KeyKept, notify, Off
  <2>5. QED BY <2>3, <2>4 DEF Typed
<1>4. CASE callback(c)
  <2>1. tick' \in BOOLEAN BY <1>4 DEF callback
  <2>2. TypeOK' BY <1>4, <2>1 DEF Typed, TypeOK, callback
  <2>3. KeyKept' BY <1>4 DEF Typed, KeyKept, callback
  <2>4. QED BY <2>2, <2>3 DEF Typed
<1>5. CASE scheduleAgain(c)
      BY <1>5 DEF Typed, TypeOK, KeyKept, scheduleAgain
<1>6. QED BY <1>1, <1>2, <1>3, <1>4, <1>5 DEF Work

LEMMA TypedNext == ASSUME Typed, [Next]_vars PROVE Typed'
<1>1. CASE ~ started /\ start
  <2>1. started' \in BOOLEAN BY <1>1, Zenon DEF start
  <2>2. TypeOK' BY <1>1, <2>1 DEF Typed, TypeOK, KeyKept, start
  <2>3. KeyKept' BY <1>1 DEF Typed, TypeOK, KeyKept, start
  <2>4. QED BY <2>2, <2>3 DEF Typed
<1>2. CASE mCancelKey # NoChain /\ stop
  <2>1. mStopFlag' \in BOOLEAN BY <1>2, Zenon DEF stop
  <2>2. mCancelKey \in Chains BY <1>2 DEF Typed, TypeOK, KeyKept, stop
  <2>3. TypeOK' BY <1>2, <2>1, <2>2 DEF Typed, TypeOK, stop
  <2>4. KeyKept' BY <1>2, <2>2 DEF Typed, TypeOK, KeyKept, stop
  <2>5. QED BY <2>3, <2>4 DEF Typed
<1>3. CASE clearFlag
  <2>1. mStopFlag' \in BOOLEAN BY <1>3, Zenon DEF clearFlag
  <2>2. TypeOK' BY <1>3, <2>1 DEF Typed, TypeOK, clearFlag
  <2>3. KeyKept' BY <1>3 DEF Typed, KeyKept, clearFlag
  <2>4. QED BY <2>2, <2>3 DEF Typed
<1>4. ASSUME NEW c \in Chains, schedule(c) PROVE Typed'
      BY <1>4 DEF Typed, TypeOK, KeyKept, schedule
<1>fails. CASE scheduleFails
  <2>1. started' \in BOOLEAN BY <1>fails, Zenon DEF scheduleFails, Off
  <2>2. QED BY <1>fails, <2>1 DEF Typed, TypeOK, KeyKept, scheduleFails, Off
<1>5. CASE cancel
  <2>1. item' \in [Chains -> {"none", "scheduled", "invoked", "working", "worked", "stopping"}]
        BY <1>5 DEF Typed, TypeOK, cancel
  <2>2. QED BY <1>5, <2>1 DEF Typed, TypeOK, KeyKept, cancel
<1>6. CASE expire
  <2>1. started' \in BOOLEAN BY <1>6, Zenon DEF expire, Off
  <2>2. QED BY <1>6, <2>1 DEF Typed, TypeOK, KeyKept, expire, Off
<1>7. CASE UNCHANGED vars BY <1>7 DEF Typed, TypeOK, KeyKept, vars
<1>8. QED BY <1>1, <1>2, <1>3, <1>4, <1>5, <1>6, <1>7, <1>fails, TypedWork DEF Next, Proceed

\* All variables of the timer keep their types, and stop always has a key to cancel.
THEOREM TypeCorrect == Spec => []TypeOK
<1>1. Typed => TypeOK BY DEF Typed
<1>2. QED BY TypedInit, TypedNext, <1>1, PTL DEF Spec
-----------------------------------------------------------------------------
(***************************************************************************)
(* A timer that is started goes on, even after stops that have expired.    *)
(***************************************************************************)
Going(c) == item[c] \in {"scheduled", "invoked", "working", "worked"}

\* The flag is only looked at while it is clear, until the next stop.
Running ==
    /\ call = "schedule" => ~ mStopFlag
    /\ started /\ call = "idle" => ~ mStopFlag /\ \E c \in Chains : Going(c)

LEMMA RunningWork ==
  ASSUME Typed, Running, NEW c \in Chains, Work(c) PROVE Running'
<1>. USE DEF Typed, TypeOK, Running, Going
<1>1. CASE fire(c) BY <1>1 DEF fire
<1>2. CASE Invoke(c) BY <1>2 DEF Invoke
<1>3. CASE notify(c)
  <2>1. CASE call = "wait"
        BY <1>3, <2>1 DEF notify, Off
  <2>2. CASE call # "wait"
    <3>1. \A d \in Chains : Going(d) => Going(d)' BY <1>3 DEF notify
    <3>2. UNCHANGED <<call, started, mStopFlag>> BY <1>3, <2>2 DEF notify
    <3>3. QED BY <3>1, <3>2
  <2>3. QED BY <2>1, <2>2
<1>4. CASE callback(c) BY <1>4 DEF callback
<1>5. CASE scheduleAgain(c) BY <1>5 DEF scheduleAgain
<1>6. QED BY <1>1, <1>2, <1>3, <1>4, <1>5 DEF Work

LEMMA RunningNext == ASSUME Typed, Running, [Next]_vars PROVE Running'
<1>. USE DEF Typed, TypeOK, Running, Going
<1>1. CASE ~ started /\ start BY <1>1 DEF start
<1>2. CASE mCancelKey # NoChain /\ stop BY <1>2 DEF stop
<1>3. CASE clearFlag BY <1>3 DEF clearFlag
<1>4. ASSUME NEW c \in Chains, schedule(c) PROVE Running'
      BY <1>4 DEF schedule
<1>fails. CASE scheduleFails BY <1>fails DEF scheduleFails, Off
<1>5. CASE cancel BY <1>5 DEF cancel
<1>6. CASE expire BY <1>6 DEF expire, Off
<1>7. CASE UNCHANGED vars BY <1>7 DEF vars
<1>8. QED BY <1>1, <1>2, <1>3, <1>4, <1>5, <1>6, <1>7, <1>fails, RunningWork DEF Next, Proceed

\* A timer that is started has an item left that will call back, however many stops
\* have expired before it.
THEOREM KeepsRunningCorrect == Spec => []KeepsRunning
<1>1. Init => Running BY DEF Init, Running
<1>2. Running => KeepsRunning BY DEF Running, Going, KeepsRunning, Left
<1>3. QED BY TypedInit, TypedNext, <1>1, RunningNext, <1>2, PTL DEF Spec
-----------------------------------------------------------------------------
(***************************************************************************)
(* The chains, and the stops that leave one.                               *)
(***************************************************************************)
\* Stops are only added to those that have left an item, and each of them has.
LEMMA ExpiredNext ==
  ASSUME Typed, [Next]_vars
  PROVE  /\ expired' = expired \/ (expired' = expired + 1 /\ Left # {})
         /\ expired \in Nat /\ expired' \in Nat
         /\ expired' = 0 => expired = 0
         /\ expired > 0 => expired' > 0
<1>1. expired' = expired \/ (expired' = expired + 1 /\ Left # {})
      BY DEF Next, start, stop, Proceed, clearFlag, schedule, scheduleFails, cancel, expire,
             Work, fire, Invoke, notify, callback, scheduleAgain, vars
<1>2. QED BY <1>1 DEF Typed, TypeOK

\* A chain for each stop that has left an item, and the one of the present start.
Present == started /\ call \notin {"start", "schedule"}
Few == Cardinality(Left) <= expired + (IF Present THEN 1 ELSE 0)

LEMMA LeftFinite ==
  /\ IsFiniteSet(Left) /\ Cardinality(Left) \in Nat
  /\ IsFiniteSet(Left') /\ Cardinality(Left') \in Nat
<1>1. Left \subseteq Chains /\ Left' \subseteq Chains BY DEF Left
<1>2. QED BY <1>1, FS_Subset, FS_CardinalityType

LEMMA FewWork ==
  ASSUME Typed, Few, NEW c \in Chains, Work(c) PROVE Few'
<1>. USE DEF Typed, TypeOK
<1>1. CASE fire(c) \/ Invoke(c) \/ callback(c) \/ scheduleAgain(c)
  <2>1. Left' = Left BY <1>1 DEF fire, Invoke, callback, scheduleAgain, Left
  <2>2. UNCHANGED <<call, started, expired>>
        BY <1>1 DEF fire, Invoke, callback, scheduleAgain
  <2>3. Present' <=> Present BY <2>2 DEF Present
  <2>4. QED BY <2>1, <2>2, <2>3 DEF Few
<1>2. CASE notify(c)
  <2>1. c \in Left /\ Left' = Left \ {c} BY <1>2 DEF notify, Left
  <2>2. Cardinality(Left') = Cardinality(Left) - 1 BY <2>1, LeftFinite, FS_RemoveElement
  <2>3. expired' = expired BY <1>2 DEF notify
  <2>4. CASE call = "wait"
    <3>1. ~ Present' BY <1>2, <2>4 DEF notify, Off, Present
    <3>2. QED BY <2>2, <2>3, <3>1, LeftFinite DEF Few
  <2>5. CASE call # "wait"
    <3>1. Present' <=> Present BY <1>2, <2>5 DEF notify, Present
    <3>2. QED BY <2>2, <2>3, <3>1, LeftFinite DEF Few
  <2>6. QED BY <2>4, <2>5
<1>3. QED BY <1>1, <1>2 DEF Work

LEMMA FewNext == ASSUME Typed, Few, [Next]_vars PROVE Few'
<1>. USE DEF Typed, TypeOK, KeyKept
<1>1. CASE start /\ ~ started
  <2>1. Left' = Left /\ expired' = expired BY <1>1 DEF start, Left
  <2>2. ~ Present /\ ~ Present' BY <1>1 DEF start, Present
  <2>3. QED BY <2>1, <2>2 DEF Few
<1>2. CASE stop \/ clearFlag \/ UNCHANGED vars
  <2>1. Left' = Left /\ expired' = expired BY <1>2 DEF stop, clearFlag, vars, Left
  <2>2. Present' <=> Present BY <1>2 DEF stop, clearFlag, vars, Present
  <2>3. QED BY <2>1, <2>2 DEF Few
<1>3. ASSUME NEW c \in Chains, schedule(c) PROVE Few'
  <2>1. c \notin Left /\ Left' = Left \cup {c} /\ expired' = expired
        BY <1>3 DEF schedule, Left
  <2>2. Cardinality(Left') = Cardinality(Left) + 1 BY <2>1, LeftFinite, FS_AddElement
  <2>3. ~ Present /\ Present' BY <1>3 DEF schedule, Present
  <2>4. QED BY <2>1, <2>2, <2>3, LeftFinite DEF Few
<1>4. CASE scheduleFails
  <2>1. Left' = Left /\ expired' = expired BY <1>4 DEF scheduleFails, Left
  <2>2. ~ Present /\ ~ Present' BY <1>4 DEF scheduleFails, Off, Present
  <2>3. QED BY <2>1, <2>2 DEF Few
<1>5. CASE cancel
  <2>1. Left' \subseteq Left /\ expired' = expired BY <1>5 DEF cancel, Left
  <2>2. Cardinality(Left') <= Cardinality(Left) BY <2>1, LeftFinite, FS_Subset
  <2>3. Present' <=> Present BY <1>5 DEF cancel, Present
  <2>4. QED BY <2>1, <2>2, <2>3, LeftFinite DEF Few
<1>6. CASE expire
  <2>1. Left' = Left /\ ~ Present' BY <1>6 DEF expire, Off, Left, Present
  <2>2. CASE Left = {}
    <3>1. Cardinality(Left) = 0 /\ expired' = expired BY <1>6, <2>2, FS_EmptySet DEF expire
    <3>2. QED BY <2>1, <3>1 DEF Few
  <2>3. CASE Left # {}
    <3>1. expired' = expired + 1 BY <1>6, <2>3 DEF expire
    <3>2. QED BY <2>1, <3>1, LeftFinite DEF Few
  <2>4. QED BY <2>2, <2>3
<1>7. QED BY <1>1, <1>2, <1>3, <1>4, <1>5, <1>6, FewWork DEF Next, Proceed

\* However its stops meet the items and end their waits, and whatever fails to be
\* scheduled, no more chains are left than the present one and one for each stop that
\* has left an item.
THEOREM OneChainCorrect == Spec => []OneChain
<1>1. Init => Few
  <2>1. Init => Left = {} /\ expired = 0 BY DEF Init, Left
  <2>2. QED BY <2>1, FS_EmptySet DEF Few
<1>2. Typed /\ Few => OneChain
      BY LeftFinite DEF Typed, TypeOK, Few, OneChain
<1>3. QED BY TypedInit, TypedNext, <1>1, FewNext, <1>2, PTL DEF Spec

\* Until a stop leaves an item, one is left between start and stop only, and one that
\* has seen the flag is waited for.
Single ==
    /\ \A c, d \in Left : c = d
    /\ Left # {} => started /\ call \notin {"start", "schedule"}
    /\ (mStopFlag \/ \E c \in Left : item[c] = "stopping") /\ Left # {}
         => call \in {"cancel", "wait"}

LEMMA SingleWork ==
  ASSUME Typed, Single, NEW c \in Chains, Work(c) PROVE Single'
<1>. USE DEF Typed, TypeOK, Single, Left
<1>1. CASE fire(c) BY <1>1 DEF fire
<1>2. CASE Invoke(c) BY <1>2 DEF Invoke
<1>3. CASE notify(c)
  <2>1. call = "wait" /\ Left' = {} BY <1>3 DEF notify
  <2>2. QED BY <1>3, <2>1 DEF notify, Off
<1>4. CASE callback(c) BY <1>4 DEF callback
<1>5. CASE scheduleAgain(c) BY <1>5 DEF scheduleAgain
<1>6. QED BY <1>1, <1>2, <1>3, <1>4, <1>5 DEF Work

LEMMA SingleNext ==
  ASSUME Typed, Running, Single, [Next]_vars, expired' = 0 PROVE Single'
<1>. USE DEF Typed, TypeOK, Single, Left
<1>1. CASE ~ started /\ start BY <1>1 DEF start
<1>2. CASE mCancelKey # NoChain /\ stop BY <1>2 DEF stop
<1>3. CASE clearFlag BY <1>3 DEF clearFlag, KeyKept
<1>4. ASSUME NEW c \in Chains, schedule(c) PROVE Single'
      BY <1>4 DEF schedule, Running, KeyKept
<1>fails. CASE scheduleFails BY <1>fails DEF scheduleFails, Off
<1>5. CASE cancel
  <2>1. Left' \subseteq Left BY <1>5 DEF cancel
  <2>2. QED BY <1>5, <2>1 DEF cancel
<1>6. CASE expire BY <1>6 DEF expire, Off
<1>7. CASE UNCHANGED vars BY <1>7 DEF vars
<1>8. QED BY <1>1, <1>2, <1>3, <1>4, <1>5, <1>6, <1>7, <1>fails, SingleWork DEF Next, Proceed

Alone == Typed /\ Running /\ (expired = 0 => Single)

LEMMA AloneAlways == Spec => []Alone
<1>1. Init => Alone BY TypedInit DEF Init, Alone, Running, Single, Left
<1>2. Alone /\ [Next]_vars => Alone'
      BY TypedNext, RunningNext, SingleNext, ExpiredNext DEF Alone
<1>3. QED BY <1>1, <1>2, PTL DEF Spec

LEMMA TickerStep ==
  ASSUME Alone, [Next]_vars PROVE [Timer!Next]_(Timer!vars)
<1>. USE DEF Timer!Next, Timer!vars
<1>typed. started \in BOOLEAN BY DEF Alone, Typed, TypeOK
<1>1. CASE ~ started /\ start BY <1>1 DEF start, Timer!TurnOn
<1>2. CASE stop \/ clearFlag \/ cancel \/ \E c \in Chains : schedule(c)
      BY <1>2 DEF stop, clearFlag, cancel, schedule
<1>fails. CASE scheduleFails
  <2>1. started' = FALSE /\ UNCHANGED <<tick, expired>>
        BY <1>fails, Zenon DEF scheduleFails, Off
  <2>2. (expired > 0)' = (expired > 0) BY <2>1
  <2>3. QED BY <2>1, <2>2, <1>typed, Zenon DEF Timer!TurnOff
<1>3. CASE expire
  <2>1. started' = FALSE /\ UNCHANGED tick BY <1>3, Zenon DEF expire, Off
  <2>2. CASE started
    <3>1. CASE expired' = expired
      <4>1. (expired > 0)' = (expired > 0) BY <3>1
      <4>2. QED BY <2>1, <2>2, <4>1, Zenon DEF Timer!TurnOff
    <3>2. CASE expired' = expired + 1
      <4>1. (expired > 0)' = TRUE BY <3>2, ExpiredNext DEF Alone
      <4>2. QED BY <2>1, <2>2, <4>1, Zenon DEF Timer!TurnOff
    <3>3. QED BY <3>1, <3>2, ExpiredNext DEF Alone
  <2>3. CASE ~ started
    <3>1. expired > 0 <=> expired' > 0
          BY <1>3, <2>3, ExpiredNext DEF expire, Alone, Single
    <3>2. (expired > 0)' = (expired > 0) BY <3>1
    <3>3. QED BY <2>1, <2>3, <3>2, <1>typed, Zenon
  <2>4. QED BY <2>2, <2>3
<1>4. ASSUME NEW c \in Chains, Work(c) PROVE [Timer!Next]_(Timer!vars)
  <2>1. CASE fire(c) \/ Invoke(c) \/ scheduleAgain(c)
        BY <2>1 DEF fire, Invoke, scheduleAgain
  <2>2. CASE notify(c)
    <3>1. UNCHANGED <<tick, expired>> BY <2>2 DEF notify
    <3>2. (expired > 0)' = (expired > 0) BY <3>1
    <3>3. CASE call = "wait"
          BY <2>2, <1>typed, <3>1, <3>2, <3>3, Zenon DEF notify, Off, Timer!TurnOff
    <3>4. CASE call # "wait" BY <2>2, <3>4 DEF notify
    <3>5. QED BY <3>3, <3>4
  <2>3. CASE callback(c)
    <3>1. started \/ expired > 0
          BY <2>3 DEF callback, Alone, Typed, TypeOK, Single, Left
    <3>2. UNCHANGED <<started, expired>> BY <2>3 DEF callback
    <3>3. (expired > 0)' = (expired > 0) BY <3>2
    <3>4. QED BY <2>3, <3>1, <3>2, <3>3, Zenon DEF callback, Timer!Tick
  <2>4. QED BY <1>4, <2>1, <2>2, <2>3 DEF Work
<1>5. CASE UNCHANGED vars BY <1>5 DEF vars
<1>6. QED BY <1>1, <1>2, <1>3, <1>4, <1>5, <1>fails DEF Next, Proceed

\* The timer implements what the sink expects of it: until a stop leaves an item, no
\* callback comes before start or after stop has returned.
THEOREM Refinement == Spec => Timer!Spec
<1>1. Init => Timer!Init
  <2>. SUFFICES ASSUME Init PROVE Timer!Init OBVIOUS
  <2>1. started = FALSE /\ tick \in BOOLEAN BY Zenon DEF Init
  <2>2. (expired > 0) = FALSE BY DEF Init
  <2>3. QED BY <2>1, <2>2 DEF Timer!Init
<1>2. QED BY <1>1, AloneAlways, TickerStep, PTL DEF Spec, Timer!Spec
-----------------------------------------------------------------------------
(***************************************************************************)
(* The sink.                                                               *)
(***************************************************************************)
USE SinkAssumption

\* The methods of the clock against those of the timer.
Linked ==
    /\ call \in {"start", "schedule"} => sinkCall = "start"
    /\ call \in {"cancel", "wait"} => sinkCall \in {"Stoped", "Paused"}
    /\ started /\ call = "idle" => mCancelKey # NoChain
    /\ sinkCall \in {"Stoped", "Paused"} /\ call = "idle" => ~ started
    /\ sinkCall = "no" /\ mStreamState # "Started" => ~ started

TimerKept == UNCHANGED <<call, started, mCancelKey>>
MethodKept == UNCHANGED <<sinkCall, mStreamState>>

LEMMA LinkedClock ==
  ASSUME Typed, Linked, Clock PROVE Linked' /\ [Next]_vars
<1>. USE DEF Typed, TypeOK, Linked
<1>1. CASE OnClockStart BY <1>1 DEF OnClockStart, start, Next, vars
<1>2. ASSUME NEW states, NEW state \in {"Stoped", "Paused"}, leave(states, state)
      PROVE  Linked' /\ [Next]_vars
      BY <1>2 DEF leave, stop, Next, vars
<1>3. CASE pausePipeline \/ restartPipeline
      BY <1>3 DEF pausePipeline, restartPipeline, vars
<1>4. QED BY <1>1, <1>2, <1>3 DEF Clock, OnClockStop, OnClockPause

LEMMA LinkedReturns ==
  ASSUME Typed, Linked, Returns PROVE Linked' /\ [Next]_vars
<1>. USE DEF Typed, TypeOK, KeyKept, Linked
<1>1. CASE Proceed /\ Still
  <2>1. MethodKept /\ Next BY <1>1 DEF Still, clockVars, MethodKept, Next
  <2>2. CASE clearFlag BY <2>1, <2>2 DEF clearFlag, MethodKept
  <2>3. ASSUME NEW c \in Chains, schedule(c) PROVE Linked'
        BY <2>1, <2>3 DEF schedule, MethodKept
  <2>4. CASE scheduleFails BY <2>1, <2>4 DEF scheduleFails, Off, MethodKept
  <2>5. CASE cancel BY <2>1, <2>5 DEF cancel, MethodKept
  <2>6. CASE expire BY <2>1, <2>6 DEF expire, Off, MethodKept
  <2>7. QED BY <1>1, <2>1, <2>2, <2>3, <2>4, <2>5, <2>6 DEF Proceed
<1>2. CASE startReturns BY <1>2 DEF startReturns, vars
<1>3. CASE leaveReturns BY <1>3 DEF leaveReturns, vars
<1>4. QED BY <1>1, <1>2, <1>3 DEF Returns

LEMMA LinkedChain ==
  ASSUME Typed, Linked, NEW c \in Chains, Chain(c) PROVE Linked' /\ [Next]_vars
<1>. USE DEF Typed, TypeOK, KeyKept, Linked
<1>1. MethodKept
      BY DEF Chain, Still, Update, update, takeFlag, checkTimeStamp, putBack, putItem,
             clockVars, MethodKept
<1>2. Work(c) \/ UNCHANGED vars
      BY DEF Chain, TimerMoves, Work, Update, update, takeFlag, checkTimeStamp, putBack,
             putItem, GoTo, UpdateReturns
<1>3. CASE fire(c) \/ Invoke(c) \/ callback(c) \/ UNCHANGED vars
  <2>1. TimerKept BY <1>3 DEF fire, Invoke, callback, vars, TimerKept
  <2>2. QED BY <1>1, <1>2, <2>1 DEF MethodKept, TimerKept, Next
<1>4. CASE notify(c)
  <2>1. Linked'
    <3>1. CASE call = "wait" BY <1>1, <1>4, <3>1 DEF notify, Off, MethodKept
    <3>2. CASE call # "wait" BY <1>1, <1>4, <3>2 DEF notify, MethodKept
    <3>3. QED BY <3>1, <3>2
  <2>2. QED BY <1>2, <2>1 DEF Next
<1>5. CASE scheduleAgain(c)
  <2>1. Linked' BY <1>1, <1>5 DEF scheduleAgain, MethodKept
  <2>2. QED BY <1>2, <2>1 DEF Next
<1>6. QED BY <1>2, <1>3, <1>4, <1>5 DEF Work

LEMMA LinkedNext ==
  ASSUME Typed, Linked, [SinkNext]_sinkVars PROVE Linked' /\ [Next]_vars
<1>1. CASE lose \/ pass \/ Sample \/ InvokeItem \/ UNCHANGED sinkVars
  <2>1. MethodKept /\ UNCHANGED vars
        BY <1>1 DEF lose, pass, Sample, ProcessSample, keepStamp, keepSample, showSample,
                    InvokeItem, sinkVars, clockVars, MethodKept
  <2>2. QED BY <2>1 DEF Linked, MethodKept, vars
<1>2. QED BY <1>1, LinkedClock, LinkedReturns, LinkedChain DEF SinkNext

LEMMA LinkedAlways == SinkSpec => [](Typed /\ Linked)
<1>1. SinkInit => Typed /\ Linked BY TypedInit DEF SinkInit, Init, Linked
<1>2. Typed /\ Linked /\ [SinkNext]_sinkVars => (Typed /\ Linked)'
      BY LinkedNext, TypedNext
<1>3. QED BY <1>1, <1>2, PTL DEF SinkSpec

\* The sink calls its timer as the specification of the timer allows: it never starts
\* one that is started, whichever calls of the clock fail, and cancels no key that it
\* has not been given.
THEOREM UsesTimer == SinkSpec => Spec
<1>1. SinkInit => Init BY DEF SinkInit
<1>2. QED BY <1>1, LinkedAlways, LinkedNext, PTL DEF SinkSpec, Spec

\* However often it is stopped and started, a sink has no more chains of items than one
\* and one for each stop that has left an item.
THEOREM SinkOneChain == SinkSpec => []OneChain
BY UsesTimer, OneChainCorrect, PTL
-----------------------------------------------------------------------------
(***************************************************************************)
(* The requests under way.                                                 *)
(***************************************************************************)
Middle == {"check", "back", "item"}
Seen == \E c \in Chains : updating[c] = "seen"
Busy == {c \in Chains : updating[c] \in Middle}

\* An update runs in an item at work.
Counted ==
    /\ items \in Nat /\ requests \in Nat /\ asked \in Nat
    /\ updating \in [Chains -> {"no", "seen"} \cup Middle]
    /\ \A c \in Chains : updating[c] # "no" => item[c] = "working"

\* Steps of the timer other than the end of a callback.
LEMMA CountedTimer ==
  ASSUME Typed, Counted, UNCHANGED <<updating, items, requests>>, asked' \in Nat,
         \/ UNCHANGED vars \/ start \/ stop \/ Proceed
         \/ \E c \in Chains : TimerMoves(c)
  PROVE  Counted'
<1>. USE DEF Typed, TypeOK, Counted, Middle
<1>1. CASE UNCHANGED vars \/ start \/ stop BY <1>1 DEF vars, start, stop
<1>2. CASE Proceed
  <2>1. \A c \in Chains : item[c] = "working" => item'[c] = "working"
        BY <1>2 DEF Proceed, clearFlag, schedule, scheduleFails, cancel, expire
  <2>2. QED BY <2>1
<1>3. ASSUME NEW c \in Chains, TimerMoves(c) PROVE Counted'
  <2>1. \A d \in Chains : item[d] = "working" => item'[d] = "working"
        BY <1>3 DEF TimerMoves, fire, Invoke, notify, scheduleAgain
  <2>2. QED BY <2>1
<1>4. QED BY <1>1, <1>2, <1>3

LEMMA CountedUpdate ==
  ASSUME Typed, Counted, NEW c \in Chains, Update(c) PROVE Counted'
<1>. USE DEF Typed, TypeOK, Counted, Middle, clockVars
<1>1. items' \in Nat /\ requests' \in Nat /\ asked' \in Nat
      BY DEF Update, update, takeFlag, checkTimeStamp, putBack, putItem
<1>2. CASE UpdateReturns(c) BY <1>1, <1>2 DEF UpdateReturns, callback
<1>3. ASSUME NEW line \in {"seen"} \cup Middle, item[c] = "working", GoTo(c, line)
      PROVE  Counted'
      BY <1>1, <1>3 DEF GoTo, vars
<1>4. CASE update(c) BY <1>2, <1>3, <1>4 DEF update, At
<1>5. CASE takeFlag(c) BY <1>3, <1>5 DEF takeFlag, At
<1>6. CASE checkTimeStamp(c) BY <1>3, <1>6 DEF checkTimeStamp, At
<1>7. CASE putBack(c) \/ putItem(c) BY <1>2, <1>7 DEF putBack, putItem
<1>8. QED BY <1>4, <1>5, <1>6, <1>7 DEF Update

LEMMA CountedNext ==
  ASSUME Typed, Counted, [SinkNext]_sinkVars PROVE Counted'
<1>. USE DEF Counted, Middle, clockVars
<1>1. CASE Clock \/ lose \/ pass \/ startReturns \/ leaveReturns
  <2>1. UNCHANGED vars \/ start \/ stop
        BY <1>1 DEF Clock, OnClockStart, OnClockStop, OnClockPause, leave, pausePipeline,
                    restartPipeline, lose, pass, startReturns, leaveReturns
  <2>2. requests' \in Nat /\ asked' \in Nat /\ UNCHANGED <<updating, items>>
        BY <1>1 DEF Clock, OnClockStart, OnClockStop, OnClockPause, leave, pausePipeline,
                    restartPipeline, lose, pass, startReturns, leaveReturns
  <2>3. QED BY <2>1, <2>2 DEF vars, start, stop
<1>2. CASE Sample \/ InvokeItem \/ UNCHANGED sinkVars
      BY <1>2 DEF Sample, ProcessSample, keepStamp, keepSample, showSample, InvokeItem,
                  sinkVars, vars
<1>3. CASE Proceed /\ Still BY <1>3, CountedTimer DEF Still
<1>4. ASSUME NEW c \in Chains, Chain(c) PROVE Counted'
      BY <1>4, CountedTimer, CountedUpdate DEF Chain, Still
<1>5. QED BY <1>1, <1>2, <1>3, <1>4 DEF SinkNext, Returns

\* What InSink counts, with one update at a time.
LEMMA InSinkIs ==
  ASSUME Counted
  PROVE  /\ Cardinality(Busy) \in Nat
         /\ Cardinality(Busy) = 0 <=> Busy = {}
         /\ \A c \in Chains : Busy = {c} => Cardinality(Busy) = 1
         /\ InSink = items + One(processing # "no") + One(mNewSample \/ Seen)
                           + Cardinality(Busy)
<1>1. IsFiniteSet(Busy) BY FS_Subset DEF Busy, ScheduleAssumption
<1>2. QED BY <1>1, FS_CardinalityType, FS_EmptySet, FS_Singleton
          DEF InSink, Busy, Seen, Middle
Alive == requests > 0 \/ items > 0 \/ processing # "no" \/ mNewSample \/ Seen \/ Busy # {}
GoesOn == mStreamState = "Started" /\ flow => Alive

LEMMA GoesOnUpdate ==
  ASSUME Counted, GoesOn, NEW c \in Chains, Update(c) PROVE GoesOn'
<1>. USE DEF Counted, Middle, At, GoTo, UpdateReturns
<1>1. UNCHANGED <<mStreamState, flow, requests, processing>>
      BY DEF Update, update, takeFlag, checkTimeStamp, putBack, putItem, clockVars
<1>2. \A d \in Chains \ {c} : updating'[d] = updating[d]
      BY DEF Update, update, takeFlag, checkTimeStamp, putBack, putItem
<1>3. CASE update(c)
  <2>1. CASE mNewSample BY <1>3, <2>1 DEF update, sampleVars, GoesOn, Alive
  <2>2. CASE ~ mNewSample
    <3>1. updating' = updating BY <1>3, <2>2 DEF update
    <3>2. UNCHANGED <<items, mNewSample>> BY <1>3 DEF update, sampleVars
    <3>3. QED BY <1>1, <3>1, <3>2 DEF GoesOn, Alive, Seen, Busy
  <2>3. QED BY <2>1, <2>2
<1>4. CASE takeFlag(c) \/ checkTimeStamp(c)
  <2>1. updating'[c] \in Middle BY <1>4 DEF takeFlag, checkTimeStamp
  <2>2. QED BY <2>1 DEF GoesOn, Alive, Busy
<1>5. CASE putBack(c) BY <1>5 DEF putBack, GoesOn, Alive
<1>6. CASE putItem(c) BY <1>6 DEF putItem, GoesOn, Alive
<1>7. QED BY <1>3, <1>4, <1>5, <1>6 DEF Update

LEMMA GoesOnNext ==
  ASSUME Counted, GoesOn, [SinkNext]_sinkVars PROVE GoesOn'
<1>. USE DEF Counted, GoesOn, Alive, Seen, Busy
<1>1. CASE OnClockStart \/ pausePipeline \/ leaveReturns \/ OnClockStop \/ OnClockPause
      BY <1>1 DEF OnClockStart, pausePipeline, leaveReturns, OnClockStop, OnClockPause, leave
<1>2. CASE restartPipeline \/ startReturns
  <2>1. CASE requests' > 0 BY <2>1
  <2>2. CASE ~ (requests' > 0)
    <3>1. UNCHANGED <<mStreamState, flow, requests, items, processing, mNewSample, updating>>
          BY <1>2, <2>2 DEF restartPipeline, startReturns, sampleVars
    <3>2. QED BY <3>1
  <2>3. QED BY <2>1, <2>2
<1>3. CASE lose \/ pass \/ UNCHANGED sinkVars
      BY <1>3 DEF lose, pass, sinkVars, clockVars, sampleVars
<1>4. CASE Sample \/ InvokeItem
  <2>1. CASE ProcessSample \/ keepStamp
        BY <2>1 DEF ProcessSample, keepStamp
  <2>2. CASE keepSample BY <2>2 DEF keepSample
  <2>3. CASE showSample BY <2>3 DEF showSample
  <2>4. CASE InvokeItem BY <2>4 DEF InvokeItem
  <2>5. QED BY <1>4, <2>1, <2>2, <2>3, <2>4 DEF Sample
<1>5. CASE Still BY <1>5 DEF Still, clockVars, sampleVars
<1>6. QED BY <1>1, <1>2, <1>3, <1>4, <1>5, GoesOnUpdate DEF SinkNext, Clock, Returns, Chain

CountedInv == Typed /\ Linked /\ Counted

LEMMA CountedAlways == SinkSpec => []CountedInv
<1>1. SinkInit => Counted BY DEF SinkInit, Counted
<1>2. CountedInv /\ [SinkNext]_sinkVars => CountedInv'
      BY LinkedNext, TypedNext, CountedNext DEF CountedInv
<1>3. SinkInit => Typed /\ Linked BY TypedInit DEF SinkInit, Init, Linked
<1>4. QED BY <1>1, <1>2, <1>3, PTL DEF SinkSpec, CountedInv

\* A sink that is started has a request under way while the session captures, however
\* often it is stopped and started, and even if stops of its timer have expired.
THEOREM RequestsGoOnCorrect == SinkSpec => []RequestsGoOn
<1>1. SinkInit => GoesOn BY DEF SinkInit, GoesOn
<1>2. CountedInv /\ GoesOn /\ [SinkNext]_sinkVars => GoesOn'
      BY GoesOnNext DEF CountedInv
<1>3. ASSUME Counted, GoesOn PROVE RequestsGoOn
  <2>1. CASE Seen \/ mNewSample
        BY <1>3, <2>1, InSinkIs DEF GoesOn, Counted, RequestsGoOn, One
  <2>2. CASE ~ (Seen \/ mNewSample)
        BY <1>3, <2>2, InSinkIs DEF GoesOn, Alive, Counted, RequestsGoOn, One
  <2>3. QED BY <2>1, <2>2
<1>4. QED BY <1>1, <1>2, <1>3, CountedAlways, PTL DEF SinkSpec, CountedInv
-----------------------------------------------------------------------------
(***************************************************************************)
(* No request becomes two.                                                 *)
(***************************************************************************)
Total   == requests + items + One(processing # "no") + One(mNewSample \/ Seen) + Cardinality(Busy)
Bounded == Total <= asked

LEMMA TotalNext ==
  ASSUME CountedInv, Single, Bounded, [SinkNext]_sinkVars PROVE Bounded'
<1>. USE DEF CountedInv, Counted, Bounded
<1>0. Counted' BY CountedNext
<1>1. Cardinality(Busy) \in Nat /\ Cardinality(Busy)' \in Nat
  <2>1. Busy \subseteq Chains /\ Busy' \subseteq Chains BY DEF Busy
  <2>2. IsFiniteSet(Busy) /\ IsFiniteSet(Busy') BY <2>1, FS_Subset
  <2>3. QED BY <2>2, FS_CardinalityType
<1>2. ASSUME UNCHANGED <<updating, mNewSample>>
      PROVE  UNCHANGED <<Seen, Busy>>
      BY <1>2 DEF Seen, Busy
<1>3. CASE \/ OnClockStart \/ OnClockStop \/ OnClockPause \/ pausePipeline \/ leaveReturns
           \/ pass \/ Still \/ UNCHANGED sinkVars
  <2>1. UNCHANGED <<updating, mNewSample, items, requests, asked, processing>>
        BY <1>3 DEF OnClockStart, OnClockStop, OnClockPause, leave, pausePipeline,
                    leaveReturns, pass, Still, sinkVars, clockVars, sampleVars
  <2>2. QED BY <2>1 DEF Total, Seen, Busy
<1>4. CASE restartPipeline \/ startReturns \/ lose
  <2>1. /\ UNCHANGED <<updating, mNewSample, items, processing>>
        /\ requests' + asked <= requests + asked'
        BY <1>4 DEF restartPipeline, startReturns, lose, clockVars, sampleVars
  <2>2. requests' \in Nat /\ asked' \in Nat BY <1>0
  <2>3. UNCHANGED <<One(processing # "no"), One(mNewSample \/ Seen), Cardinality(Busy)>>
        BY <2>1 DEF Seen, Busy
  <2>4. One(processing # "no") \in Nat /\ One(mNewSample \/ Seen) \in Nat BY DEF One
  <2>5. requests \in Nat /\ asked \in Nat /\ items \in Nat OBVIOUS
  <2>. DEFINE rest == items + One(processing # "no") + One(mNewSample \/ Seen)
                           + Cardinality(Busy)
  <2>6. rest \in Nat /\ rest' = rest BY <1>1, <2>1, <2>3, <2>4, <2>5
  <2>7. Total = requests + rest /\ Total' = requests' + rest'
        BY <1>1, <2>1, <2>2, <2>3, <2>4, <2>5 DEF Total
  <2>8. Total <= asked OBVIOUS
  <2>. HIDE DEF rest, CountedInv, Bounded
  <2>9. requests + rest <= asked BY <2>7, <2>8
  <2>10. \A k, r, s, a, b \in Nat : r + k <= a /\ s + a <= r + b => s + k <= b OBVIOUS
  <2>11. requests' + rest <= asked' BY <2>1, <2>2, <2>5, <2>6, <2>9, <2>10
  <2>12. Total' <= asked' BY <2>6, <2>7, <2>11
  <2>13. QED BY <2>12 DEF Bounded
<1>5. CASE Sample \/ InvokeItem
  <2>1. UNCHANGED <<updating, asked>> BY <1>5 DEF Sample, ProcessSample, keepStamp,
            keepSample, showSample, InvokeItem, clockVars
  <2>2. (Seen' <=> Seen) /\ UNCHANGED Cardinality(Busy) BY <2>1 DEF Seen, Busy
  <2>3. QED BY <1>1, <1>5, <2>1, <2>2
            DEF Total, One, Sample, ProcessSample, keepStamp, keepSample, showSample,
                InvokeItem, clockVars, sampleVars
<1>6. ASSUME NEW c \in Chains, Update(c) PROVE Bounded'
  <2>1. item[c] = "working" /\ UNCHANGED <<requests, asked, processing>>
        BY <1>6 DEF Update, update, takeFlag, checkTimeStamp, putBack, putItem, At, clockVars
  <2>2. \A d \in Chains \ {c} : updating[d] = "no" /\ updating'[d] = "no"
    <3>1. \A d \in Chains \ {c} : updating[d] = "no" BY <2>1 DEF Single, Left
    <3>2. QED BY <1>6, <3>1 DEF Update, update, takeFlag, checkTimeStamp, putBack, putItem,
                                GoTo, UpdateReturns
  <2>3. /\ Seen <=> updating[c] = "seen"
        /\ Seen' <=> updating'[c] = "seen"
        BY <2>2 DEF Seen
  <2>4. /\ Cardinality(Busy) = IF updating[c] \in Middle THEN 1 ELSE 0
        /\ Cardinality(Busy)' = IF updating'[c] \in Middle THEN 1 ELSE 0
    <3>1. Busy = IF updating[c] \in Middle THEN {c} ELSE {} BY <2>2 DEF Busy, Middle
    <3>2. Busy' = IF updating'[c] \in Middle THEN {c} ELSE {} BY <2>2 DEF Busy, Middle
    <3>3. QED BY <3>1, <3>2, FS_EmptySet, FS_Singleton
  <2>5. CASE update(c)
        BY <2>1, <2>3, <2>4, <2>5 DEF update, At, GoTo, UpdateReturns, Total, One, Middle,
                                      sampleVars
  <2>6. CASE takeFlag(c)
        BY <2>1, <2>3, <2>4, <2>6 DEF takeFlag, At, GoTo, Total, One, Middle
  <2>7. CASE checkTimeStamp(c)
        BY <2>1, <2>3, <2>4, <2>7 DEF checkTimeStamp, At, GoTo, Total, One, Middle, sampleVars
  <2>8. CASE putBack(c)
        BY <2>1, <2>3, <2>4, <2>8 DEF putBack, At, UpdateReturns, Total, One, Middle
  <2>9. CASE putItem(c)
        BY <2>1, <2>3, <2>4, <2>9 DEF putItem, At, UpdateReturns, Total, One, Middle
  <2>10. QED BY <1>6, <2>5, <2>6, <2>7, <2>8, <2>9 DEF Update
<1>7. QED BY <1>3, <1>4, <1>5, <1>6 DEF SinkNext, Clock, Returns, Chain

\* Until a stop leaves an item, a request does not become two, whichever way update and
\* ProcessSample meet.
THEOREM NotMultipliedCorrect == SinkSpec => []NotMultiplied
<1>. DEFINE Kept == expired = 0 => Bounded
<1>1. SinkInit => Kept
  <2>. SUFFICES ASSUME SinkInit PROVE Bounded OBVIOUS
  <2>1. ~ Seen /\ Busy = {} BY DEF SinkInit, Seen, Busy, Middle
  <2>2. QED BY <2>1, FS_EmptySet DEF SinkInit, Bounded, Total, One
<1>2. SinkSpec => []Alone BY AloneAlways, UsesTimer, PTL
<1>3. ASSUME CountedInv, Alone, Kept, [SinkNext]_sinkVars PROVE Kept'
  <2>. SUFFICES ASSUME expired' = 0 PROVE Bounded' OBVIOUS
  <2>1. expired = 0 BY <1>3, LinkedNext, ExpiredNext DEF CountedInv
  <2>2. QED BY <1>3, <2>1, TotalNext DEF Alone
<1>4. CountedInv /\ Kept => NotMultiplied
      BY InSinkIs DEF CountedInv, Counted, Bounded, Total, NotMultiplied, One
<1>. HIDE DEF Kept
<1>5. QED BY <1>1, <1>2, <1>3, <1>4, CountedAlways, PTL DEF SinkSpec
=============================================================================
