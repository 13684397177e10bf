------------------------ MODULE SessionProcessorProofs ------------------------
(***************************************************************************)
(* Proofs about SessionProcessor, for any number of calls, whatever        *)
(* devices, callbacks and waits do.                                        *)
(*                                                                         *)
(* The waits have no predicate, and may wake without a cause.  What can be *)
(* said of a call therefore depends on what was left of earlier ones when  *)
(* its wait began (fresh): from a fresh wait on, what has not been handled *)
(* is its own event and those of devices (OwnEvents).  mIsStarted is not   *)
(* the state of the session but will be, once the last event of a start or *)
(* a stop that is on its way has been handled (Flag).                      *)
(***************************************************************************)
EXTENDS SessionProcessor, SequenceTheorems, TLAPS
-----------------------------------------------------------------------------
(***************************************************************************)
(* What the application is told, whatever the devices and callbacks do.    *)
(***************************************************************************)
\* Nothing is taken from the queue once Closed has been handled.
Told ==
    /\ posted \in Seq(SessionEvent)
    /\ mEventQueue \in Seq(SessionEvent)
    /\ handling \in SessionEvent \cup {"none"} /\ (phase # "none" => handling \in SessionEvent)
    /\ armed => phase = "none"
    /\ \A i \in 1 .. Len(posted) : posted[i] = "Closed" =>
          i = Len(posted) /\ ~ armed /\ (phase = "handled" => handling = "Closed")
                          /\ phase # "taken"

LEMMA QueueTyped ==
  ASSUME mEventQueue \in Seq(SessionEvent), NEW e \in SessionEvent, Queue(e)
  PROVE  mEventQueue' \in Seq(SessionEvent)
BY DEF Queue

LEMMA ToldClient ==
  ASSUME Told, Requests \/ Client \/ \E e \in Disturbances : Disturb(e) PROVE Told'
<1>1. UNCHANGED <<posted, phase, handling>> /\ (armed' => armed)
      BY DEF Requests, StartCapture, PauseCapture, StopCapture, CloseSession, Client,
             SetTopology, CloseProcessor, CloseFailed, WaitEnds, Return,
             Shutdown, Disturb, callbackVars
<1>2. mEventQueue' \in Seq(SessionEvent)
  <2>1. DeviceEvent \cup {"TopologyReady", "Started", "Paused", "Stopped", "Closed", "Error"}
          \subseteq SessionEvent
        BY DEF SessionEvent, DeviceEvent
  <2>2. ASSUME NEW e \in SessionEvent, Queue(e) PROVE mEventQueue' \in Seq(SessionEvent)
        BY <2>2, QueueTyped DEF Told
  <2>3. CASE UNCHANGED mEventQueue BY <2>3 DEF Told
  <2>4. CASE mEventQueue' = <<>> BY <2>4
  <2>5. CASE Requests
        BY <2>1, <2>2, <2>3, <2>5 DEF Requests, StartCapture, PauseCapture, StopCapture,
                                      CloseSession, Stop
  <2>6. CASE SetTopology \/ CloseProcessor \/ CloseFailed
        BY <2>1, <2>2, <2>3, <2>6 DEF SetTopology, CloseProcessor, CloseFailed, Close
  <2>7. CASE WaitEnds
        BY <2>3, <2>4, <2>7 DEF WaitEnds, Return, Shutdown, sessionVars
  <2>8. ASSUME NEW e \in Disturbances, Disturb(e) PROVE mEventQueue' \in Seq(SessionEvent)
        BY <2>1, <2>2, <2>8, SessionAssumption DEF Disturb
  <2>9. QED BY <2>5, <2>6, <2>7, <2>8 DEF Client
<1>3. QED BY <1>1, <1>2 DEF Told

LEMMA ToldInvoke == ASSUME Told, Invoke PROVE Told'
<1>. USE DEF Told
<1>1. CASE TakeEvent BY <1>1 DEF TakeEvent
<1>2. CASE HandleEvent
  <2>1. /\ phase = "taken" /\ phase' = "handled" /\ handling \in SessionEvent
        /\ UNCHANGED <<armed, handling, mEventQueue>> /\ ~ armed
        /\ posted' = posted \/ posted' = Append(posted, handling)
        BY <1>2 DEF HandleEvent, sessionVars
  <2>2. \A i \in 1 .. Len(posted) : posted[i] # "Closed" BY <2>1
  <2>3. CASE posted' = posted BY <2>1, <2>2, <2>3
  <2>4. CASE posted' = Append(posted, handling)
    <3>1. /\ posted' \in Seq(SessionEvent) /\ Len(posted') = Len(posted) + 1
          /\ \A i \in 1 .. Len(posted) : posted'[i] = posted[i]
          /\ posted'[Len(posted) + 1] = handling /\ Len(posted) \in Nat
          BY <2>1, <2>4, AppendProperties, LenProperties
    <3>2. \A i \in 1 .. Len(posted') : posted'[i] = "Closed" =>
             i = Len(posted') /\ handling = "Closed"
          BY <2>2, <3>1
    <3>3. QED BY <2>1, <3>1, <3>2
  <2>5. QED BY <2>1, <2>3, <2>4
<1>3. CASE FinishEvent
  <2>1. /\ phase = "handled" /\ phase' = "none" /\ handling' = "none"
        /\ UNCHANGED <<posted, mEventQueue>>
        BY <1>3 DEF FinishEvent, sessionVars
  <2>2. armed' => handling # "Closed" BY <1>3, Zenon DEF FinishEvent
  <2>3. QED BY <2>1, <2>2
<1>4. QED BY <1>1, <1>2, <1>3 DEF Invoke

LEMMA ToldAlways == Spec => []Told
<1>1. Init => Told BY DEF Init, Told
<1>2. ASSUME Told, [Next]_vars PROVE Told'
  <2>1. CASE UNCHANGED vars BY <1>2, <2>1 DEF vars, clientVars, sessionVars, callbackVars, Told
  <2>2. QED BY <1>2, <2>1, ToldClient, ToldInvoke DEF Next
<1>3. QED BY <1>1, <1>2, PTL DEF Spec

\* Whatever devices do and however early, late or without a cause waits end, the
\* application hears nothing after it has been told that the session is closed.
THEOREM ClosedIsLastCorrect == Spec => []ClosedIsLast
<1>1. Told => ClosedIsLast BY DEF Told, ClosedIsLast
<1>2. QED BY <1>1, ToldAlways, PTL
-----------------------------------------------------------------------------
(***************************************************************************)
(* What notifies a fresh wait.                                             *)
(***************************************************************************)
Running == mMediaSessionSate \in {"Started", "Paused"}

\* Where the client is, and the state that its call has given the session.
Places ==
    /\ call \in DOMAIN Awaited /\ Awaited[call] \in SessionEvent
    /\ pc = "new" => call = "setTopology" /\ mMediaSessionSate = "None"
    /\ pc \in {"idle", "failed", "closing"} => mMediaSessionSate # "Closed"
    /\ pc = "waiting" => mMediaSessionSate # "Shutdowned"
    /\ pc = "waiting" /\ call \in {"stop", "stopToClose"} => mMediaSessionSate = "Stopped"
    /\ mMediaSessionSate = "Closed" => pc \in {"waiting", "gone"} /\ Awaited[call] = "Closed"
    /\ Running /\ pc # "failed" => mSessionIsInitialised
    /\ mMediaSessionSate = "Shutdowned" => ~ queueOpen
    /\ ~ queueOpen => mMediaSessionSate \in {"Closed", "Shutdowned"}
    /\ disturbed \in Nat

\* A fresh wait is notified by its own event, or by a device.
OwnEvents ==
    /\ pc \in {"waiting", "idle"} /\ fresh => answer \in DeviceNotice \cup {"none", Awaited[call]}
    /\ pc = "waiting" /\ fresh =>
         \A e \in SessionEvent : Pending(e) => e \in DeviceEvent \/ (queueOpen /\ e = Awaited[call])

\* The events of the devices are none that a call waits for.
LEMMA Kinds ==
  /\ DeviceEvent = {"DeviceRemoved", "DevicePreempted", "Error"}
  /\ DeviceNotice = DeviceEvent \ {"Error"}
  /\ SessionEvent = {"TopologyReady", "Started", "Paused", "Stopped", "Closed"} \cup DeviceEvent
  /\ \A c \in DOMAIN Awaited : Awaited[c] \in SessionEvent \ DeviceEvent
BY DEF DeviceEvent, DeviceNotice, SessionEvent, Awaited

\* What the queue and Invoke do to the events that are pending.
LEMMA Queued ==
  ASSUME Told, NEW e \in SessionEvent, Queue(e), UNCHANGED <<phase, handling>>
  PROVE  \A x \in SessionEvent : Pending(x)' => Pending(x) \/ (queueOpen /\ x = e)
<1>1. CASE ~ queueOpen BY <1>1 DEF Queue, Pending
<1>2. CASE queueOpen
  <2>1. mEventQueue' = Append(mEventQueue, e) /\ mEventQueue \in Seq(SessionEvent)
        BY <1>2 DEF Queue, Told
  <2>2. \A i \in DOMAIN mEventQueue' :
             \/ i \in DOMAIN mEventQueue /\ mEventQueue'[i] = mEventQueue[i]
             \/ mEventQueue'[i] = e
        BY <2>1, AppendProperties
  <2>3. QED BY <1>2, <2>2 DEF Pending
<1>3. QED BY <1>1, <1>2

LEMMA Taken ==
  ASSUME Told, TakeEvent
  PROVE  /\ \A x \in SessionEvent : Pending(x)' => Pending(x)
         /\ Pending(handling') /\ handling' \in SessionEvent
<1>1. /\ mEventQueue \in Seq(SessionEvent) /\ mEventQueue # <<>>
      /\ handling' = Head(mEventQueue) /\ mEventQueue' = Tail(mEventQueue) /\ phase' = "taken"
      BY DEF TakeEvent, Told
<1>2. /\ Len(mEventQueue) \in Nat \ {0} /\ DOMAIN mEventQueue = 1 .. Len(mEventQueue)
      /\ handling' = mEventQueue[1] /\ DOMAIN mEventQueue' = 1 .. Len(mEventQueue) - 1
      /\ \A i \in 1 .. Len(mEventQueue) - 1 : mEventQueue'[i] = mEventQueue[i + 1]
      BY <1>1, HeadTailProperties, EmptySeq
<1>3. QED BY <1>1, <1>2 DEF Pending

LEMMA Done ==
  ASSUME phase' # "taken", UNCHANGED mEventQueue
  PROVE  \A x \in SessionEvent : Pending(x)' => Pending(x)
BY DEF Pending

\* A wait that begins, with the event that the call has caused.
LEMMA Begins ==
  ASSUME Told, Wait, call' \in DOMAIN Awaited, Queue(Awaited[call']), UNCHANGED <<phase, handling, queueOpen>>
  PROVE  OwnEvents'
<1>1. pc' = "waiting" /\ answer' = "none" /\ fresh' = Settled BY DEF Wait
<1>2. ASSUME Settled PROVE \A e \in SessionEvent : Pending(e)' => e \in DeviceEvent \/ (queueOpen /\ e = Awaited[call'])
      BY <1>2, Kinds, Queued DEF Settled
<1>3. QED BY <1>1, <1>2 DEF OwnEvents

LEMMA PlacesNext == ASSUME Told, Places, [Next]_vars PROVE Places'
<1>. USE DEF Places, Running, Awaited, SessionEvent
<1>1. CASE UNCHANGED vars BY <1>1 DEF vars, clientVars, sessionVars
<1>2. CASE SetTopology BY <1>2 DEF SetTopology, Wait
<1>3. CASE StartCapture BY <1>3 DEF StartCapture, Call, Wait
<1>4. CASE PauseCapture BY <1>4 DEF PauseCapture, Call, Wait
<1>5. CASE StopCapture BY <1>5 DEF StopCapture, Call, Wait, Stop, Stoppable
<1>6. CASE CloseSession BY <1>6 DEF CloseSession, Call, Wait, Stop, Stoppable
<1>7. CASE CloseProcessor BY <1>7 DEF CloseProcessor, Wait, Close
<1>8. CASE CloseFailed BY <1>8 DEF CloseFailed, Wait, Close
<1>9. CASE WaitEnds BY <1>9 DEF WaitEnds, Return, Shutdown, sessionVars
<1>10. CASE Invoke \/ \E e \in Disturbances : Disturb(e)
       BY <1>10 DEF Invoke, TakeEvent, HandleEvent, FinishEvent, Disturb, clientVars, sessionVars
<1>11. QED BY <1>1, <1>2, <1>3, <1>4, <1>5, <1>6, <1>7, <1>8, <1>9, <1>10
           DEF Next, Requests, Client

LEMMA OwnNext == ASSUME Told, Places, OwnEvents, [Next]_vars PROVE OwnEvents'
<1>1. CASE UNCHANGED vars
  <2>1. UNCHANGED <<pc, call, answer, fresh, phase, handling, mEventQueue, queueOpen>>
        BY <1>1 DEF vars, clientVars, sessionVars, callbackVars
  <2>2. QED BY <2>1 DEF OwnEvents, Pending
<1>2. CASE SetTopology BY <1>2, Begins DEF SetTopology, callbackVars, Places, Awaited
<1>3. CASE Requests
  <2>1. CASE pc' \notin {"waiting", "idle"} BY <2>1 DEF OwnEvents
  <2>2. CASE pc' \in {"waiting", "idle"}
        BY <1>3, <2>2, Begins
           DEF Requests, StartCapture, PauseCapture, StopCapture, CloseSession, Call, Stop,
               callbackVars, Awaited
  <2>3. QED BY <2>1, <2>2
<1>4. CASE CloseProcessor \/ CloseFailed
  <2>1. CASE pc' \notin {"waiting", "idle"} BY <2>1 DEF OwnEvents
  <2>2. CASE pc' \in {"waiting", "idle"}
        BY <1>4, <2>2, Begins DEF CloseProcessor, CloseFailed, Close, callbackVars, Awaited
  <2>3. QED BY <2>1, <2>2
<1>5. CASE WaitEnds
  <2>1. pc = "waiting" /\ pc' # "waiting" /\ UNCHANGED <<call, answer, fresh>>
        BY <1>5 DEF WaitEnds, Return
  <2>2. QED BY <2>1 DEF OwnEvents
<1>6. CASE TakeEvent
  <2>1. UNCHANGED <<pc, call, answer, fresh, queueOpen>> BY <1>6 DEF TakeEvent, clientVars
  <2>2. QED BY <1>6, <2>1, Taken DEF OwnEvents
<1>7. CASE HandleEvent
  <2>1. /\ UNCHANGED <<pc, call, fresh, queueOpen, mEventQueue>> /\ phase' # "taken"
        /\ Pending(handling) /\ handling \in SessionEvent
        BY <1>7 DEF HandleEvent, sessionVars, Told, Pending
  <2>2. \/ answer' = answer
        \/ pc = "waiting" /\ answer' = handling /\ handling # "Error"
        BY <1>7 DEF HandleEvent, Notifies
  <2>3. QED BY <2>1, <2>2, Done, Kinds DEF OwnEvents
<1>8. CASE FinishEvent
  <2>1. UNCHANGED <<pc, call, answer, fresh, queueOpen, mEventQueue>> /\ phase' # "taken"
        BY <1>8 DEF FinishEvent, sessionVars, clientVars
  <2>2. QED BY <2>1, Done DEF OwnEvents
<1>9. ASSUME NEW e \in Disturbances, Disturb(e) PROVE OwnEvents'
  <2>1. UNCHANGED <<pc, call, answer, fresh, queueOpen, phase, handling>> /\ Queue(e)
        BY <1>9 DEF Disturb, clientVars, callbackVars
  <2>2. e \in SessionEvent /\ e \in DeviceEvent BY Kinds, SessionAssumption
  <2>3. QED BY <2>1, <2>2, Queued DEF OwnEvents
<1>10. QED BY <1>1, <1>2, <1>3, <1>4, <1>5, <1>6, <1>7, <1>8, <1>9 DEF Next, Client, Invoke

\* The files are closed when a fresh wait for that is notified by its own event.
Files ==
    /\ finalized \in {"no", "inTime", "late"}
    /\ finalized = "late" => ~ queueOpen
    /\ pc = "waiting" /\ fresh /\ answer = "Closed" => finalized = "inTime"
    /\ FinalizedBeforeShutdown

LEMMA FilesNext == ASSUME Told, Places, OwnEvents, Files, [Next]_vars PROVE Files'
<1>. USE DEF Files, FinalizedBeforeShutdown
<1>1. CASE UNCHANGED vars
      BY <1>1 DEF vars, clientVars, sessionVars, callbackVars
<1>2. CASE SetTopology \/ Requests \/ CloseProcessor \/ CloseFailed
  <2>1. finalized' = finalized /\ queueOpen' = queueOpen
        BY <1>2 DEF SetTopology, Requests, StartCapture, PauseCapture, StopCapture, CloseSession,
                    CloseProcessor, CloseFailed, callbackVars
  <2>2. pc' = "waiting" => answer' = "none"
        BY <1>2 DEF SetTopology, Requests, StartCapture, PauseCapture, StopCapture, CloseSession,
                    CloseProcessor, CloseFailed, Wait
  <2>3. \/ answer' = "none" \/ mMediaSessionSate' # "Shutdowned"
        \/ UNCHANGED <<answer, fresh>> /\ mMediaSessionSate' = mMediaSessionSate
        BY <1>2 DEF SetTopology, Requests, StartCapture, PauseCapture, StopCapture, CloseSession,
                    CloseProcessor, CloseFailed, Wait, Close
  <2>4. QED BY <2>1, <2>2, <2>3
<1>3. CASE WaitEnds
  <2>1. /\ pc = "waiting" /\ pc' # "waiting" /\ UNCHANGED <<answer, fresh, finalized>>
        /\ \/ Awaited[call] = "Closed" /\ ~ queueOpen'
           \/ UNCHANGED <<mMediaSessionSate, queueOpen>>
        BY <1>3 DEF WaitEnds, Return, Shutdown, sessionVars, Awaited
  <2>2. QED BY <2>1 DEF OwnEvents, Places
<1>4. CASE TakeEvent \/ FinishEvent \/ \E e \in Disturbances : Disturb(e)
      BY <1>4 DEF TakeEvent, FinishEvent, Disturb, clientVars, sessionVars, callbackVars
<1>5. CASE HandleEvent
  <2>1. /\ UNCHANGED <<pc, call, fresh, queueOpen, mMediaSessionSate>>
        /\ handling \in SessionEvent /\ Pending(handling)
        /\ answer' = answer \/ (pc = "waiting" /\ answer' = handling)
        /\ finalized' = IF handling # "Closed" \/ finalized # "no" THEN finalized
                        ELSE IF queueOpen THEN "inTime" ELSE "late"
        BY <1>5 DEF HandleEvent, sessionVars, Told, Pending
  <2>2. finalized = "inTime" => finalized' = "inTime" BY <2>1
  <2>3. ASSUME pc = "waiting", fresh, answer' = handling, handling = "Closed"
        PROVE  finalized' = "inTime"
    <3>1. queueOpen BY <2>1, <2>3, Kinds DEF OwnEvents
    <3>2. QED BY <2>1, <2>3, <3>1
  <2>4. QED BY <2>1, <2>2, <2>3 DEF Places
<1>6. QED BY <1>1, <1>2, <1>3, <1>4, <1>5 DEF Next, Client, Invoke
-----------------------------------------------------------------------------
(***************************************************************************)
(* mIsStarted.                                                             *)
(***************************************************************************)
Turn == {"Started", "Stopped"}

\* Is Invoke still to change mIsStarted for the event that it handles?
Turning == handling \in Turn /\ (phase = "taken" \/ (phase = "handled" /\ handling = "Stopped"))

Alive == disturbed = 0 /\ mMediaSessionSate \notin {"Closed", "Shutdowned"}

\* Position i holds the last start or stop of the queue.
LastTurn(i) ==
    /\ i \in 1 .. Len(mEventQueue) /\ mEventQueue[i] \in Turn
    /\ \A j \in 1 .. Len(mEventQueue) : j > i => mEventQueue[j] \notin Turn

NoTurn == \A j \in 1 .. Len(mEventQueue) : mEventQueue[j] \notin Turn

\* The last start or stop that Invoke has not dealt with tells what the session is; when
\* there is none mIsStarted does.
Flag ==
    Alive =>
      /\ \A e \in {"Closed", "DevicePreempted"} : ~ Pending(e) /\ handling # e
      /\ \A i \in 1 .. Len(mEventQueue) : LastTurn(i) => (mEventQueue[i] = "Started" <=> Running)
      /\ NoTurn /\ Turning => (handling = "Started" <=> Running)
      /\ NoTurn /\ ~ Turning => (mIsStarted <=> Running)

\* After a fresh stop nothing sets mIsStarted again.
Stays ==
    /\ (pc = "idle" /\ call \in {"stop", "stopToClose"}) \/ pc = "closing" =>
         (fresh /\ Alive => ~ mIsStarted /\ ~ Pending("Started"))
    /\ NeverRelocks

\* The client's steps that queue nothing, or an event that is no start or stop.
LEMMA FlagOther ==
  ASSUME Told, Flag, NEW e \in SessionEvent, e \notin Turn \cup {"Closed", "DevicePreempted"},
         UNCHANGED mEventQueue \/ mEventQueue' = Append(mEventQueue, e),
         UNCHANGED <<phase, handling, mIsStarted>>, Alive' => Alive,
         Running' <=> Running
  PROVE  Flag'
<1>. SUFFICES ASSUME Alive' PROVE Flag' BY DEF Flag
<1>1. mEventQueue \in Seq(SessionEvent) /\ Alive BY DEF Told
<1>2. CASE UNCHANGED mEventQueue
  <2>1. (NoTurn' <=> NoTurn) /\ (Turning' <=> Turning) /\ \A i : LastTurn(i)' <=> LastTurn(i)
        BY <1>2 DEF NoTurn, Turning, LastTurn
  <2>2. \A x : Pending(x)' <=> Pending(x) BY <1>2 DEF Pending
  <2>3. QED BY <1>1, <1>2, <2>1, <2>2 DEF Flag
<1>3. CASE mEventQueue' = Append(mEventQueue, e)
  <2>1. /\ Len(mEventQueue') = Len(mEventQueue) + 1 /\ Len(mEventQueue) \in Nat
        /\ \A i \in 1 .. Len(mEventQueue) : mEventQueue'[i] = mEventQueue[i]
        /\ mEventQueue'[Len(mEventQueue) + 1] = e
        /\ DOMAIN mEventQueue' = 1 .. Len(mEventQueue')
        /\ DOMAIN mEventQueue = 1 .. Len(mEventQueue)
        BY <1>1, <1>3, AppendProperties
  <2>2. (NoTurn' <=> NoTurn) /\ (Turning' <=> Turning) BY <2>1 DEF NoTurn, Turning
  <2>3. \A i \in 1 .. Len(mEventQueue') :
           LastTurn(i)' => i \in 1 .. Len(mEventQueue) /\ LastTurn(i)
        BY <2>1 DEF LastTurn
  <2>4. \A x : Pending(x)' => Pending(x) \/ x = e BY <2>1 DEF Pending
  <2>5. QED BY <1>1, <2>1, <2>2, <2>3, <2>4 DEF Flag
<1>4. QED BY <1>2, <1>3

\* A start and a stop, which change the session and queue the event at once.
LEMMA FlagTurn ==
  ASSUME Told, Flag, NEW e \in Turn, mEventQueue' = Append(mEventQueue, e),
         UNCHANGED <<phase, handling, mIsStarted>>, Alive' => Alive,
         Running' <=> e = "Started"
  PROVE  Flag'
<1>. SUFFICES ASSUME Alive' PROVE Flag' BY DEF Flag
<1>1. mEventQueue \in Seq(SessionEvent) /\ Alive /\ e \in SessionEvent
      BY DEF Told, Turn, SessionEvent
<1>2. /\ Len(mEventQueue') = Len(mEventQueue) + 1 /\ Len(mEventQueue) \in Nat
      /\ \A i \in 1 .. Len(mEventQueue) : mEventQueue'[i] = mEventQueue[i]
      /\ mEventQueue'[Len(mEventQueue) + 1] = e
      /\ DOMAIN mEventQueue' = 1 .. Len(mEventQueue')
      /\ DOMAIN mEventQueue = 1 .. Len(mEventQueue)
      BY <1>1, AppendProperties
<1>3. ~ NoTurn' BY <1>2 DEF NoTurn
<1>4. \A i : LastTurn(i)' => mEventQueue'[i] = e BY <1>2 DEF LastTurn
<1>5. \A x : Pending(x)' => Pending(x) \/ x = e BY <1>2 DEF Pending
<1>6. QED BY <1>1, <1>3, <1>4, <1>5 DEF Flag, Turn

LEMMA FlagTake == ASSUME Told, Flag, TakeEvent PROVE Flag'
<1>1. /\ mEventQueue \in Seq(SessionEvent) /\ mEventQueue # <<>> /\ phase = "none"
      /\ handling' = Head(mEventQueue) /\ mEventQueue' = Tail(mEventQueue) /\ phase' = "taken"
      /\ UNCHANGED <<mIsStarted, mMediaSessionSate, disturbed>>
      BY DEF TakeEvent, Told
<1>2. /\ Len(mEventQueue) \in Nat \ {0} /\ handling' = mEventQueue[1]
      /\ Len(mEventQueue') = Len(mEventQueue) - 1
      /\ \A i \in 1 .. Len(mEventQueue) - 1 : mEventQueue'[i] = mEventQueue[i + 1]
      /\ DOMAIN mEventQueue = 1 .. Len(mEventQueue)
      BY <1>1, HeadTailProperties, EmptySeq
<1>. SUFFICES ASSUME Alive' PROVE Flag' BY DEF Flag
<1>3. Alive /\ (Running' <=> Running) BY <1>1 DEF Alive, Running
<1>4. \A x \in SessionEvent : Pending(x)' => Pending(x) BY Taken
<1>5. \A i \in 1 .. Len(mEventQueue') :
         LastTurn(i)' => LastTurn(i + 1) /\ mEventQueue'[i] = mEventQueue[i + 1]
               /\ i + 1 \in 1 .. Len(mEventQueue)
  <2>1. SUFFICES ASSUME NEW i \in 1 .. Len(mEventQueue'), LastTurn(i)'
                 PROVE  LastTurn(i + 1) /\ mEventQueue'[i] = mEventQueue[i + 1]
                        /\ i + 1 \in 1 .. Len(mEventQueue)
        OBVIOUS
  <2>2. \A j \in 1 .. Len(mEventQueue) : j > i + 1 => mEventQueue[j] \notin Turn
    <3>1. SUFFICES ASSUME NEW j \in 1 .. Len(mEventQueue), j > i + 1
                   PROVE  mEventQueue[j] \notin Turn
          OBVIOUS
    <3>2. j - 1 \in 1 .. Len(mEventQueue') /\ j - 1 > i /\ mEventQueue'[j - 1] = mEventQueue[j]
          BY <1>2, <2>1, <3>1
    <3>3. QED BY <2>1, <3>2 DEF LastTurn
  <2>3. QED BY <1>2, <2>1, <2>2 DEF LastTurn
<1>6. NoTurn' /\ Turning' => LastTurn(1) /\ handling' = mEventQueue[1]
  <2>1. SUFFICES ASSUME NoTurn', Turning' PROVE LastTurn(1) BY <1>2
  <2>2. ASSUME NEW j \in 1 .. Len(mEventQueue), j > 1 PROVE mEventQueue[j] \notin Turn
    <3>1. j - 1 \in 1 .. Len(mEventQueue') /\ mEventQueue'[j - 1] = mEventQueue[j]
          BY <1>2, <2>2
    <3>2. QED BY <2>1, <3>1 DEF NoTurn
  <2>3. QED BY <1>2, <2>1, <2>2 DEF LastTurn, Turning
<1>7. NoTurn' /\ ~ Turning' => NoTurn /\ ~ Turning
  <2>1. SUFFICES ASSUME NoTurn', ~ Turning' PROVE NoTurn /\ ~ Turning OBVIOUS
  <2>2. ASSUME NEW j \in 1 .. Len(mEventQueue) PROVE mEventQueue[j] \notin Turn
    <3>1. CASE j = 1 BY <1>1, <1>2, <2>1, <3>1 DEF Turning
    <3>2. CASE j > 1
      <4>1. j - 1 \in 1 .. Len(mEventQueue') /\ mEventQueue'[j - 1] = mEventQueue[j]
            BY <1>2, <2>2, <3>2
      <4>2. QED BY <2>1, <4>1 DEF NoTurn
    <3>3. QED BY <2>2, <3>1, <3>2
  <2>3. QED BY <1>1, <2>2 DEF NoTurn, Turning
<1>8. Pending(handling') BY Taken
<1>9. QED BY <1>1, <1>2, <1>3, <1>4, <1>5, <1>6, <1>7, <1>8 DEF Flag, SessionEvent, DeviceEvent, DeviceNotice

LEMMA FlagInvoke == ASSUME Told, Flag, HandleEvent \/ FinishEvent PROVE Flag'
<1>1. /\ phase' # "taken" /\ UNCHANGED <<mEventQueue, mMediaSessionSate, disturbed>>
      BY DEF HandleEvent, FinishEvent, sessionVars
<1>. SUFFICES ASSUME Alive' PROVE Flag' BY DEF Flag
<1>2. Alive /\ (Running' <=> Running) /\ (NoTurn' <=> NoTurn)
      /\ (\A i : LastTurn(i)' <=> LastTurn(i)) /\ \A x \in SessionEvent : Pending(x)' => Pending(x)
      BY <1>1, Done DEF Alive, Running, NoTurn, LastTurn
<1>3. \A e \in {"Closed", "DevicePreempted"} : ~ Pending(e) /\ handling # e
      BY <1>2 DEF Flag
<1>4. CASE HandleEvent
  <2>1. phase = "taken" /\ phase' = "handled" /\ handling' = handling BY <1>4 DEF HandleEvent
  <2>2. mIsStarted' <=> mIsStarted \/ handling = "Started" BY <1>4, Zenon DEF HandleEvent
  <2>3. Turning <=> handling \in Turn BY <2>1 DEF Turning
  <2>4. Turning' <=> handling = "Stopped" BY <2>1 DEF Turning, Turn
  <2>5. NoTurn /\ ~ Turning' => (mIsStarted' <=> Running)
    <3>1. CASE handling = "Started" BY <1>2, <2>2, <2>3, <3>1 DEF Flag, Turn
    <3>2. CASE handling # "Started" BY <1>2, <2>2, <2>3, <2>4, <3>2 DEF Flag, Turn
    <3>3. QED BY <3>1, <3>2
  <2>6. NoTurn /\ Turning' => (handling' = "Started" <=> Running)
        BY <1>2, <2>1, <2>3, <2>4 DEF Flag, Turn
  <2>7. QED BY <1>1, <1>2, <1>3, <2>1, <2>5, <2>6 DEF Flag, SessionEvent, DeviceEvent, DeviceNotice
<1>5. CASE FinishEvent
  <2>1. phase = "handled" /\ phase' = "none" /\ handling' = "none" BY <1>5 DEF FinishEvent
  <2>2. mIsStarted' <=> mIsStarted /\ handling # "Stopped"
        BY <1>3, <1>5, Zenon DEF FinishEvent
  <2>3. (Turning <=> handling = "Stopped") /\ ~ Turning' BY <2>1 DEF Turning, Turn
  <2>4. NoTurn => (mIsStarted' <=> Running)
    <3>1. CASE handling = "Stopped" BY <1>2, <2>2, <2>3, <3>1 DEF Flag
    <3>2. CASE handling # "Stopped" BY <1>2, <2>2, <2>3, <3>2 DEF Flag
    <3>3. QED BY <3>1, <3>2
  <2>5. QED BY <1>1, <1>2, <1>3, <2>1, <2>3, <2>4 DEF Flag, SessionEvent, DeviceEvent, DeviceNotice
<1>6. QED BY <1>4, <1>5

LEMMA FlagClient ==
  ASSUME Told, Places, Flag, Requests \/ Client \/ \E e \in Disturbances : Disturb(e)
  PROVE  Flag'
<1>. USE DEF Queue
<1>1. CASE SetTopology
  <2>1. /\ UNCHANGED <<phase, handling, mIsStarted, disturbed, mMediaSessionSate>>
        /\ UNCHANGED mEventQueue \/ mEventQueue' = Append(mEventQueue, "TopologyReady")
        BY <1>1 DEF SetTopology, callbackVars
  <2>2. (Alive' => Alive) /\ (Running' <=> Running) BY <2>1 DEF Alive, Running
  <2>3. "TopologyReady" \in SessionEvent \ (Turn \cup {"Closed", "DevicePreempted"})
        BY DEF SessionEvent, Turn
  <2>4. QED BY <2>1, <2>2, <2>3, FlagOther
<1>2. CASE StartCapture
  <2>1. UNCHANGED <<phase, handling, mIsStarted, disturbed>> BY <1>2 DEF StartCapture, callbackVars
  <2>2. CASE queueOpen /\ mMediaSessionSate' = "Started" /\ mEventQueue' = Append(mEventQueue, "Started")
    <3>1. (Alive' => Alive) /\ (Running' <=> "Started" = "Started")
          BY <1>2, <2>1, <2>2 DEF StartCapture, Call, Alive, Running, Places
    <3>2. QED BY <2>1, <2>2, <3>1, FlagTurn DEF Turn
  <2>3. CASE /\ mMediaSessionSate' = mMediaSessionSate
             /\ UNCHANGED mEventQueue \/ mEventQueue' = Append(mEventQueue, "Error")
    <3>1. (Alive' => Alive) /\ (Running' <=> Running) BY <2>1, <2>3 DEF Alive, Running
    <3>2. "Error" \in SessionEvent \ (Turn \cup {"Closed", "DevicePreempted"})
          BY DEF SessionEvent, DeviceEvent, Turn
    <3>3. QED BY <2>1, <2>3, <3>1, <3>2, FlagOther
  <2>4. QED BY <1>2, <2>2, <2>3 DEF StartCapture
<1>3. CASE PauseCapture
  <2>1. /\ UNCHANGED <<phase, handling, mIsStarted, disturbed>>
        /\ UNCHANGED mEventQueue \/ mEventQueue' = Append(mEventQueue, "Paused")
        /\ mMediaSessionSate' = IF mMediaSessionSate = "Started" THEN "Paused" ELSE mMediaSessionSate
        BY <1>3 DEF PauseCapture, callbackVars
  <2>2. (Alive' => Alive) /\ (Running' <=> Running) BY <2>1 DEF Alive, Running
  <2>3. "Paused" \in SessionEvent \ (Turn \cup {"Closed", "DevicePreempted"})
        BY DEF SessionEvent, Turn
  <2>4. QED BY <2>1, <2>2, <2>3, FlagOther
<1>4. CASE StopCapture \/ (CloseSession /\ Stoppable)
  <2>1. /\ UNCHANGED <<phase, handling, mIsStarted, disturbed>> /\ Stoppable /\ Stop
        BY <1>4 DEF StopCapture, CloseSession, callbackVars
  <2>2. /\ mEventQueue' = Append(mEventQueue, "Stopped") /\ mMediaSessionSate' = "Stopped"
        /\ mMediaSessionSate \in {"Started", "Paused"}
        BY <2>1 DEF Stop, Stoppable, Places
  <2>3. (Alive' => Alive) /\ (Running' <=> "Stopped" = "Started")
        BY <2>1, <2>2 DEF Alive, Running
  <2>4. QED BY <2>1, <2>2, <2>3, FlagTurn DEF Turn
<1>5. CASE (CloseSession /\ ~ Stoppable) \/ (CloseProcessor /\ mIsStarted)
  <2>1. UNCHANGED <<phase, handling, mIsStarted, disturbed, mMediaSessionSate, mEventQueue>>
        BY <1>5 DEF CloseSession, CloseProcessor, callbackVars
  <2>2. (Alive' => Alive) /\ (Running' <=> Running) BY <2>1 DEF Alive, Running
  <2>3. "Paused" \in SessionEvent \ (Turn \cup {"Closed", "DevicePreempted"})
        BY DEF SessionEvent, Turn
  <2>4. QED BY <2>1, <2>2, <2>3, FlagOther
<1>6. CASE (CloseProcessor /\ ~ mIsStarted) \/ CloseFailed
  <2>1. ~ Alive' BY <1>6 DEF CloseProcessor, CloseFailed, Close, Alive
  <2>2. QED BY <2>1 DEF Flag
<1>7. CASE WaitEnds
  <2>1. /\ UNCHANGED <<phase, handling, disturbed>>
        /\ mIsStarted' <=> mIsStarted /\ call \notin {"stop", "stopToClose"}
        /\ mMediaSessionSate' = "Shutdowned" \/ UNCHANGED <<mMediaSessionSate, mEventQueue>>
        BY <1>7, Zenon DEF WaitEnds, Return, Shutdown, sessionVars
  <2>2. CASE mMediaSessionSate' = "Shutdowned" BY <2>2 DEF Flag, Alive
  <2>3. CASE UNCHANGED <<mMediaSessionSate, mEventQueue>>
    <3>1. /\ (Alive' <=> Alive) /\ (Running' <=> Running) /\ (NoTurn' <=> NoTurn)
          /\ (Turning' <=> Turning) /\ \A i : LastTurn(i)' <=> LastTurn(i)
          /\ \A x : Pending(x)' <=> Pending(x)
          BY <2>1, <2>3 DEF Alive, Running, NoTurn, Turning, LastTurn, Pending
    <3>2. call \in {"stop", "stopToClose"} => ~ Running
          BY <1>7 DEF WaitEnds, Places, Running
    <3>3. (mIsStarted <=> Running) => (mIsStarted' <=> Running') BY <2>1, <3>1, <3>2
    <3>4. QED BY <2>1, <2>3, <3>1, <3>3 DEF Flag
  <2>4. QED BY <2>1, <2>2, <2>3
<1>8. ASSUME NEW e \in Disturbances, Disturb(e) PROVE Flag'
  <2>1. ~ Alive' BY <1>8 DEF Disturb, Alive, Places
  <2>2. QED BY <2>1 DEF Flag
<1>9. QED BY <1>1, <1>2, <1>3, <1>4, <1>5, <1>6, <1>7, <1>8 DEF Requests, Client

LEMMA FlagNext == ASSUME Told, Places, Flag, [Next]_vars PROVE Flag'
<1>1. CASE UNCHANGED vars
  <2>1. UNCHANGED <<phase, handling, mIsStarted, disturbed, mMediaSessionSate, mEventQueue>>
        BY <1>1 DEF vars, sessionVars, callbackVars
  <2>2. QED BY <2>1 DEF Flag, Alive, Running, NoTurn, Turning, LastTurn, Pending
<1>2. QED BY <1>1, FlagClient, FlagTake, FlagInvoke DEF Next, Invoke

\* A session closed when nothing of earlier calls is left has its flag cleared.
LEMMA SettledFlag ==
  ASSUME Told, Places, OwnEvents, Flag, Stays, pc = "idle", ~ Stoppable, Settled, Alive
  PROVE  ~ mIsStarted /\ ~ Pending("Started")
<1>1. ~ Running BY DEF Stoppable, Running, Places
<1>2. \A e \in Turn : ~ Pending(e) BY Kinds DEF Settled, Turn
<1>3. NoTurn
  <2>1. mEventQueue \in Seq(SessionEvent) BY DEF Told
  <2>2. DOMAIN mEventQueue = 1 .. Len(mEventQueue) BY <2>1
  <2>3. QED BY <1>2, <2>2 DEF NoTurn, Pending
<1>4. CASE ~ Turning BY <1>1, <1>2, <1>3, <1>4 DEF Flag, Turn
<1>5. CASE Turning
  <2>1. phase = "handled" /\ handling = "Stopped" /\ fresh /\ answer = "Stopped"
        BY <1>2, <1>5, Kinds DEF Turning, Pending, Settled
  <2>2. Awaited[call] = "Stopped" BY <2>1, Kinds DEF OwnEvents
  <2>3. call \in {"stop", "stopToClose"} BY <2>2 DEF Awaited, Places
  <2>4. QED BY <2>1, <2>3 DEF Stays
<1>6. QED BY <1>4, <1>5

LEMMA StaysNext ==
  ASSUME Told, Places, OwnEvents, Flag, Stays, [Next]_vars PROVE Stays'
<1>. USE DEF NeverRelocks
<1>1. CASE UNCHANGED vars
      BY <1>1 DEF vars, clientVars, sessionVars, callbackVars, Stays, Alive, Pending
<1>2. CASE SetTopology \/ StartCapture \/ PauseCapture \/ StopCapture \/ CloseFailed
           \/ (CloseSession /\ Stoppable)
  <2>1. pc' \in {"waiting", "failed"}
        BY <1>2 DEF SetTopology, StartCapture, PauseCapture, StopCapture, CloseFailed,
                    CloseSession, Wait
  <2>2. QED BY <2>1 DEF Stays
<1>3. CASE CloseSession /\ ~ Stoppable
  <2>1. /\ pc = "idle" /\ pc' = "closing" /\ fresh' = Settled
        /\ UNCHANGED <<phase, handling, mIsStarted, disturbed, mMediaSessionSate, mEventQueue>>
        BY <1>3 DEF CloseSession, Call, callbackVars
  <2>2. (Alive' <=> Alive) /\ (Pending("Started")' <=> Pending("Started"))
        BY <2>1 DEF Alive, Pending
  <2>3. QED BY <1>3, <2>1, <2>2, SettledFlag DEF Stays
<1>4. CASE CloseProcessor
  <2>1. CASE mIsStarted
    <3>1. pc = "closing" /\ pc' = "relock" /\ UNCHANGED <<fresh, disturbed, mMediaSessionSate>>
          BY <1>4, <2>1 DEF CloseProcessor
    <3>2. QED BY <2>1, <3>1 DEF Stays, Alive, Places
  <2>2. CASE ~ mIsStarted
    <3>1. pc' \in {"waiting", "gone"} BY <1>4, <2>2 DEF CloseProcessor, Wait
    <3>2. QED BY <3>1 DEF Stays
  <2>3. QED BY <2>1, <2>2
<1>5. CASE WaitEnds
  <2>1. /\ pc = "waiting" /\ UNCHANGED <<phase, handling, call, fresh, disturbed>>
        /\ mIsStarted' <=> mIsStarted /\ call \notin {"stop", "stopToClose"}
        /\ mMediaSessionSate' = "Shutdowned" \/ UNCHANGED <<mMediaSessionSate, mEventQueue>>
        BY <1>5, Zenon DEF WaitEnds, Return, Shutdown, sessionVars
  <2>2. pc' \in {"failed", "closing", "gone", "idle"} /\ (pc' = "closing" => call = "stopToClose")
        BY <1>5 DEF WaitEnds, Return
  <2>3. call \in {"stop", "stopToClose"} /\ fresh => ~ Pending("Started")
        BY <2>1, Kinds DEF OwnEvents, Awaited
  <2>4. UNCHANGED mEventQueue => (Pending("Started")' <=> Pending("Started"))
        BY <2>1 DEF Pending
  <2>5. QED BY <2>1, <2>2, <2>3, <2>4 DEF Stays, Alive
<1>6. CASE TakeEvent
  <2>1. UNCHANGED <<pc, call, fresh, disturbed, mMediaSessionSate, mIsStarted>>
        BY <1>6 DEF TakeEvent, clientVars
  <2>2. Pending("Started")' => Pending("Started") BY <1>6, Taken DEF SessionEvent
  <2>3. QED BY <2>1, <2>2 DEF Stays, Alive
<1>7. CASE HandleEvent \/ FinishEvent
  <2>1. UNCHANGED <<pc, call, fresh, disturbed, mMediaSessionSate, mEventQueue>> /\ phase' # "taken"
        BY <1>7 DEF HandleEvent, FinishEvent, clientVars, sessionVars
  <2>2. Pending("Started")' => Pending("Started") BY <2>1, Done DEF SessionEvent
  <2>3. mIsStarted' => mIsStarted \/ Pending("Started")
        BY <1>7, Zenon DEF HandleEvent, FinishEvent, Pending
  <2>4. QED BY <2>1, <2>2, <2>3 DEF Stays, Alive
<1>8. ASSUME NEW e \in Disturbances, Disturb(e) PROVE Stays'
  <2>1. disturbed' # 0 BY <1>8 DEF Disturb, Places
  <2>2. QED BY <2>1 DEF Stays, Alive
<1>9. QED BY <1>1, <1>2, <1>3, <1>4, <1>5, <1>6, <1>7, <1>8 DEF Next, Requests, Client, Invoke
-----------------------------------------------------------------------------
IInv == Places /\ OwnEvents /\ Files /\ Flag /\ Stays

LEMMA InductiveAlways == Spec => []IInv
<1>1. Init => IInv
  <2>. SUFFICES ASSUME Init PROVE IInv OBVIOUS
  <2>1. Places BY DEF Init, Places, Running, Awaited, SessionEvent
  <2>2. OwnEvents /\ Files /\ Stays
        BY DEF Init, OwnEvents, Files, FinalizedBeforeShutdown, Stays, NeverRelocks
  <2>3. ~ Turning /\ ~ Running /\ ~ mIsStarted /\ (\A x : ~ Pending(x)) /\ handling = "none"
        /\ 1 .. Len(mEventQueue) = {}
        BY DEF Init, Turning, Running, Pending
  <2>4. Flag BY <2>3 DEF Flag
  <2>5. QED BY <2>1, <2>2, <2>4 DEF IInv
<1>2. ASSUME Told, IInv, [Next]_vars PROVE IInv'
      BY <1>2, PlacesNext, OwnNext, FilesNext, FlagNext, StaysNext DEF IInv
<1>3. QED BY <1>1, <1>2, ToldAlways, PTL DEF Spec

\* Whatever ends waits early or late: one that began when nothing was left of earlier
\* calls is notified by the event that its own call has caused or by a device.
THEOREM AnsweredByOwnEventCorrect == Spec => []AnsweredByOwnEvent
<1>1. IInv => AnsweredByOwnEvent BY DEF IInv, OwnEvents, AnsweredByOwnEvent
<1>2. QED BY <1>1, InductiveAlways, PTL

\* mIsStarted tells between two calls whether an undisturbed session runs, once all
\* events have been handled.
THEOREM StartedFlagAgreesCorrect == Spec => []StartedFlagAgrees
<1>1. ASSUME IInv PROVE StartedFlagAgrees
  <2>1. mEventQueue = <<>> => NoTurn BY DEF NoTurn
  <2>2. phase = "none" => ~ Turning BY DEF Turning
  <2>3. QED BY <1>1, <2>1, <2>2 DEF IInv, Places, Flag, Alive, Running, StartedFlagAgrees
<1>2. QED BY <1>1, InductiveAlways, PTL

\* The files are closed before their sinks are shut down when the session's own event
\* has ended a fresh wait for that.
THEOREM FinalizedBeforeShutdownCorrect == Spec => []FinalizedBeforeShutdown
<1>1. IInv => FinalizedBeforeShutdown BY DEF IInv, Files
<1>2. QED BY <1>1, InductiveAlways, PTL

\* close() locks its mutex twice only where something was left of an earlier call, a
\* pause had failed, or a device interfered.
THEOREM NeverRelocksCorrect == Spec => []NeverRelocks
<1>1. IInv => NeverRelocks BY DEF IInv, Stays
<1>2. QED BY <1>1, InductiveAlways, PTL
=============================================================================
