---------------------------- MODULE StreamProofs ----------------------------
(***************************************************************************)
(* Proofs about the parts of the source streams: the barrier at the start  *)
(* of a session (InitBarrier), for any number of streams and calls, a      *)
(* source of images (ScreenCaptureProcessor), for any number of images and *)
(* operations, and the times of the samples of a stream (SampleTimes), for *)
(* any durations, calls and pauses.                                        *)
(***************************************************************************)
EXTENDS InitBarrier, SampleTimes, ScreenCaptureProcessor, FiniteSetTheorems,
        SequenceTheorems, TLAPS

N == Cardinality(Streams)

\* How many more streams the barrier can still count: a stream that is counted
\* and not yet in the list is no longer one of them.
Pending == IF nextLine = "push" THEN 1 ELSE 0
Missing == Cardinality(Streams \ mMediaStreamList)

\* What removing and adding one stream does to the counts.
LEMMA MissingOne ==
    ASSUME NEW L, L \subseteq Streams, NEW s \in Streams
    PROVE  /\ Cardinality(Streams \ L) \in Nat /\ Cardinality(L) \in Nat /\ N \in Nat
           /\ Cardinality(Streams \ L) <= N /\ Cardinality(L) <= N
           /\ Cardinality(Streams \ {}) = N
           /\ s \notin L => /\ Cardinality(L) <= N - 1
                            /\ Cardinality(Streams \ (L \cup {s})) = Cardinality(Streams \ L) - 1
                            /\ Cardinality(Streams \ L) = 1 => Streams = L \cup {s}
<1>1. IsFiniteSet(Streams) BY BarrierAssumption
<1>2. IsFiniteSet(L) /\ IsFiniteSet(Streams \ L) BY <1>1, FS_Subset
<1>3. /\ N \in Nat /\ Cardinality(Streams \ L) \in Nat /\ Cardinality(L) \in Nat
      BY <1>1, <1>2, FS_CardinalityType DEF N
<1>4. Cardinality(Streams \ L) <= N /\ Cardinality(L) <= N
      BY <1>1, FS_Subset DEF N
<1>5. Streams \ {} = Streams OBVIOUS
<1>6. ASSUME s \notin L
      PROVE  /\ Cardinality(L) <= N - 1
             /\ Cardinality(Streams \ (L \cup {s})) = Cardinality(Streams \ L) - 1
             /\ Cardinality(Streams \ L) = 1 => Streams = L \cup {s}
  <2>1. /\ Cardinality(Streams \ {s}) = N - 1 /\ IsFiniteSet(Streams \ {s})
        BY <1>1, FS_RemoveElement DEF N
  <2>2. L \subseteq Streams \ {s} BY <1>6
  <2>3. Cardinality(L) <= N - 1 BY <2>1, <2>2, FS_Subset
  <2>4. Streams \ (L \cup {s}) = (Streams \ L) \ {s} OBVIOUS
  <2>5. s \in Streams \ L BY <1>6
  <2>6. Cardinality(Streams \ (L \cup {s})) = Cardinality(Streams \ L) - 1
        BY <1>2, <2>4, <2>5, FS_RemoveElement
  <2>7. ASSUME Cardinality(Streams \ L) = 1 PROVE Streams = L \cup {s}
    <3>1. Cardinality(Streams \ (L \cup {s})) = 0 BY <2>6, <2>7
    <3>2. Streams \ (L \cup {s}) = {} BY <3>1, <1>2, <2>4, FS_EmptySet, FS_RemoveElement
    <3>3. QED BY <3>2
  <2>8. QED BY <2>3, <2>6, <2>7
<1>7. QED BY <1>3, <1>4, <1>5, <1>6 DEF N

LEMMA MissingList ==
    ASSUME NEW L, L \subseteq Streams
    PROVE  /\ Cardinality(Streams \ L) \in Nat
           /\ Cardinality(L) \in Nat /\ Cardinality(L) <= N
BY BarrierAssumption, FS_Subset, FS_CardinalityType DEF N

LEMMA CountType == N \in Nat /\ Cardinality(Streams) = N
BY BarrierAssumption, FS_CardinalityType DEF N

-----------------------------------------------------------------------------
(***************************************************************************)
(* The barrier can always open.                                            *)
(***************************************************************************)
\* A thread in checkInitBarier that goes on to count its stream has seen a positive
\* count, which only Stop can have set to -1 since.
Counts ==
    /\ checked = Nobody <=> nextLine = "check"
    /\ nextLine = "decrement" => mInitBarierCount >= -1
    /\ size <= N

\* A stream that is counted is not in the list, unless it was looked up while the
\* list was being cleared; the size read is at most that of the list.
Lookup ==
    /\ checked \in mMediaStreamList => sessionCall = "counted"
    /\ sessionCall = "sized" => size <= Cardinality(mMediaStreamList)

\* While Start has not cleared the list, only the number of streams bounds the count.
Enough ==
    /\ sessionCall = "counted" => mInitBarierCount + Pending <= N
    /\ sessionCall # "counted" /\ mInitBarierCount > 0 => mInitBarierCount + Pending <= Missing

OpenInv == BarrierTypeOK /\ Counts /\ Lookup /\ Enough

LEMMA OpenInit == IBInit => OpenInv
<1>1. Streams \ {} = Streams OBVIOUS
<1>2. Cardinality({}) = 0 BY FS_EmptySet
<1>. SUFFICES ASSUME IBInit PROVE OpenInv OBVIOUS
<1>3. BarrierTypeOK
  <2>1. mSessionIsInitialised \in BOOLEAN /\ failed \in BOOLEAN BY Zenon DEF IBInit
  <2>2. mInitBarierCount \in -2..Cardinality(Streams) BY CountType DEF IBInit
  <2>3. QED BY <2>1, <2>2 DEF IBInit, BarrierTypeOK
<1>4. Counts /\ Lookup BY CountType DEF IBInit, Counts, Lookup
<1>5. Enough BY <1>1, CountType DEF IBInit, Enough, Pending, Missing
<1>6. QED BY <1>3, <1>4, <1>5 DEF OpenInv

LEMMA OpenCheck == ASSUME OpenInv, NEW s \in Streams, check(s) PROVE OpenInv'
<1>1. s # Nobody BY BarrierAssumption
<1>2. BarrierTypeOK' BY DEF OpenInv, BarrierTypeOK, check, sessionVars
<1>3. Counts' BY <1>1, CountType DEF OpenInv, BarrierTypeOK, Counts, check, sessionVars
<1>4. Lookup' BY DEF OpenInv, BarrierTypeOK, Lookup, Counts, check, Found, sessionVars
<1>5. nextLine # "push" /\ nextLine' # "push" BY BarrierAssumption DEF OpenInv, Counts, check
<1>6. Enough' BY <1>5 DEF OpenInv, Enough, Pending, Missing, check, sessionVars
<1>7. QED BY <1>2, <1>3, <1>4, <1>6 DEF OpenInv

LEMMA OpenDecrement == ASSUME OpenInv, NEW s \in Streams, decrement(s) PROVE OpenInv'
<1>1. s # Nobody BY BarrierAssumption
<1>2. mInitBarierCount \in Int /\ mInitBarierCount >= -1 /\ mInitBarierCount <= N
      BY CountType DEF OpenInv, BarrierTypeOK, Counts, decrement
<1>3. BarrierTypeOK' BY <1>2, CountType DEF OpenInv, BarrierTypeOK, decrement, sessionVars
<1>4. Counts' BY <1>1 DEF OpenInv, Counts, decrement, sessionVars
<1>5. Lookup' BY DEF OpenInv, Lookup, decrement, sessionVars
<1>6. Missing \in Nat /\ Missing' = Missing /\ sessionCall' = sessionCall
      BY MissingOne DEF OpenInv, BarrierTypeOK, Missing, decrement, sessionVars
<1>7. /\ Pending = 0 /\ Pending' = 1 /\ mInitBarierCount' = mInitBarierCount - 1
      BY DEF Pending, decrement
<1>8. Enough' BY <1>2, <1>6, <1>7, CountType DEF OpenInv, Enough
<1>9. QED BY <1>3, <1>4, <1>5, <1>8 DEF OpenInv

LEMMA OpenPush == ASSUME OpenInv, NEW s \in Streams, push(s) PROVE OpenInv'
<1>1. BarrierTypeOK' BY DEF OpenInv, BarrierTypeOK, push, sessionVars
<1>2. Counts' BY DEF OpenInv, Counts, push, sessionVars
<1>3. mMediaStreamList \subseteq Streams /\ mMediaStreamList' \subseteq Streams
      BY <1>1 DEF OpenInv, BarrierTypeOK
<1>4. checked' = Nobody /\ sessionCall' = sessionCall /\ size' = size BY DEF push, sessionVars
<1>5. Nobody \notin Streams BY BarrierAssumption
<1>6. Cardinality(mMediaStreamList) <= Cardinality(mMediaStreamList')
  <2>1. IsFiniteSet(mMediaStreamList') BY <1>3, BarrierAssumption, FS_Subset
  <2>2. QED BY <2>1, FS_Subset DEF push
<1>7. /\ Cardinality(mMediaStreamList) \in Nat /\ Cardinality(mMediaStreamList') \in Nat
      BY <1>3, MissingOne
<1>8. Lookup' BY <1>3, <1>4, <1>5, <1>6, <1>7 DEF OpenInv, BarrierTypeOK, Lookup
<1>9. Enough'
  <2>1. Pending = 1 /\ Pending' = 0 /\ mInitBarierCount' = mInitBarierCount
        BY DEF Pending, push
  <2>2. mInitBarierCount \in Int BY CountType DEF OpenInv, BarrierTypeOK
  <2>3. CASE sessionCall = "counted"
        BY <1>4, <2>1, <2>2, <2>3, CountType DEF OpenInv, Enough
  <2>4. CASE sessionCall # "counted"
    <3>1. s \notin mMediaStreamList BY <2>4 DEF OpenInv, Lookup, push
    <3>2. Missing \in Nat /\ Missing' = Missing - 1
          BY <1>3, <3>1, MissingOne DEF Missing, push
    <3>3. QED BY <1>4, <2>1, <2>2, <2>4, <3>2 DEF OpenInv, Enough
  <2>5. QED BY <2>3, <2>4
<1>10. QED BY <1>1, <1>2, <1>8, <1>9 DEF OpenInv

\* The steps of a call that touch neither the count nor the list.
Aside == /\ UNCHANGED <<mInitBarierCount, mMediaStreamList, checked, nextLine, size>>
         /\ sessionCall # "counted" /\ sessionCall' \notin {"counted", "sized"}

LEMMA OpenAside == ASSUME OpenInv, BarrierTypeOK', Aside PROVE OpenInv'
<1>1. Counts' BY DEF OpenInv, Counts, Aside
<1>2. Lookup' BY DEF OpenInv, Lookup, Aside
<1>3. Enough' BY DEF OpenInv, Enough, Pending, Missing, Aside
<1>4. QED BY <1>1, <1>2, <1>3 DEF OpenInv

LEMMA OpenSize == ASSUME OpenInv, sizeOfList PROVE OpenInv'
<1>1. /\ Cardinality(mMediaStreamList) \in Nat /\ Cardinality(mMediaStreamList) <= N
      BY MissingList DEF OpenInv, BarrierTypeOK
<1>2. BarrierTypeOK' BY <1>1 DEF OpenInv, BarrierTypeOK, sizeOfList, checkVars
<1>3. Counts' BY <1>1 DEF OpenInv, Counts, sizeOfList, checkVars
<1>4. Lookup' BY <1>1 DEF OpenInv, Lookup, sizeOfList, SourcesAsked, checkVars
<1>5. Enough' BY DEF OpenInv, Enough, Pending, Missing, sizeOfList, SourcesAsked, checkVars
<1>6. QED BY <1>2, <1>3, <1>4, <1>5 DEF OpenInv

LEMMA OpenSet == ASSUME OpenInv, setCount PROVE OpenInv'
<1>1. size \in Nat /\ size <= N BY DEF OpenInv, BarrierTypeOK, Counts
<1>2. BarrierTypeOK' BY <1>1, CountType DEF OpenInv, BarrierTypeOK, setCount, checkVars
<1>3. Counts' BY <1>1 DEF OpenInv, Counts, setCount, checkVars
<1>4. Lookup' BY DEF OpenInv, Lookup, setCount, checkVars
<1>5. size + Pending <= N
  <2>1. CASE nextLine = "push"
    <3>1. checked \in Streams /\ checked \notin mMediaStreamList
          BY <2>1 DEF OpenInv, BarrierTypeOK, Counts, Lookup, setCount
    <3>2. /\ Cardinality(mMediaStreamList) \in Nat
          /\ Cardinality(mMediaStreamList) <= N - 1
          BY <3>1, MissingOne DEF OpenInv, BarrierTypeOK
    <3>3. size <= Cardinality(mMediaStreamList) BY DEF OpenInv, Lookup, setCount
    <3>4. QED BY <1>1, <2>1, <3>2, <3>3, CountType DEF Pending
  <2>2. CASE nextLine # "push" BY <1>1, <2>2 DEF Pending
  <2>3. QED BY <2>1, <2>2
<1>6. Enough'
  <2>1. mInitBarierCount' = size /\ sessionCall' = "counted" /\ Pending' = Pending
        BY DEF setCount, Pending, checkVars
  <2>2. QED BY <1>5, <2>1 DEF Enough
<1>7. QED BY <1>2, <1>3, <1>4, <1>6 DEF OpenInv

LEMMA OpenClear == ASSUME OpenInv, clearList PROVE OpenInv'
<1>1. BarrierTypeOK' BY DEF OpenInv, BarrierTypeOK, clearList, Finish
<1>2. Counts' BY DEF OpenInv, Counts, clearList, Finish
<1>3. Lookup' BY DEF Lookup, clearList, Finish
<1>4. Missing' = N
  <2>1. Streams \ {} = Streams OBVIOUS
  <2>2. QED BY <2>1 DEF Missing, clearList, N
<1>5. mInitBarierCount' + Pending' <= N
      BY DEF OpenInv, Enough, Pending, clearList, Finish
<1>6. Enough' BY <1>4, <1>5 DEF Enough, clearList, Finish
<1>7. QED BY <1>1, <1>2, <1>3, <1>6 DEF OpenInv

\* Stop shuts the barrier, whatever the thread in checkInitBarier is doing.
LEMMA OpenStop == ASSUME OpenInv, Stop PROVE OpenInv'
<1>1. BarrierTypeOK' BY CountType DEF OpenInv, BarrierTypeOK, Stop, Call, checkVars
<1>2. Counts' BY DEF OpenInv, Counts, Stop, Call, checkVars
<1>3. Lookup' BY DEF OpenInv, Lookup, Stop, Call, checkVars
<1>4. Enough' BY DEF Enough, Stop, Call
<1>5. QED BY <1>1, <1>2, <1>3, <1>4 DEF OpenInv

LEMMA OpenNext == ASSUME OpenInv, [IBNext]_barrierVars PROVE OpenInv'
<1>1. ASSUME NEW s \in Streams, CheckInitBarier(s) PROVE OpenInv'
      BY <1>1, OpenCheck, OpenDecrement, OpenPush DEF CheckInitBarier
<1>2. CASE Start
  <2>1. BarrierTypeOK'
    <3>1. failed' \in BOOLEAN BY <1>2, Zenon DEF Start
    <3>2. QED BY <1>2, <3>1 DEF OpenInv, BarrierTypeOK, Start, Call, checkVars
  <2>2. Aside BY <1>2 DEF Aside, Start, Call, checkVars
  <2>3. QED BY <2>1, <2>2, OpenAside
<1>3. ASSUME NEW s \in Streams, startSource(s) PROVE OpenInv'
  <2>1. BarrierTypeOK' BY <1>3 DEF OpenInv, BarrierTypeOK, startSource, sessionVars, checkVars
  <2>2. Aside BY <1>3 DEF Aside, startSource, sessionVars, checkVars
  <2>3. QED BY <2>1, <2>2, OpenAside
<1>4. CASE startFails
  <2>1. BarrierTypeOK' BY <1>4 DEF OpenInv, BarrierTypeOK, startFails, checkVars
  <2>2. Aside BY <1>4 DEF Aside, startFails, checkVars
  <2>3. QED BY <2>1, <2>2, OpenAside
<1>5. CASE firstStarted
  <2>1. BarrierTypeOK' BY <1>5 DEF OpenInv, BarrierTypeOK, firstStarted, Finish
  <2>2. Aside BY <1>5 DEF Aside, firstStarted, Finish, SourcesAsked
  <2>3. QED BY <2>1, <2>2, OpenAside
<1>6. CASE sizeOfList BY <1>6, OpenSize
<1>7. CASE setCount BY <1>7, OpenSet
<1>8. CASE clearList BY <1>8, OpenClear
<1>9. CASE Pause
  <2>1. BarrierTypeOK' BY <1>9 DEF OpenInv, BarrierTypeOK, Pause, Call, checkVars
  <2>2. Aside BY <1>9 DEF Aside, Pause, Call, checkVars
  <2>3. QED BY <2>1, <2>2, OpenAside
<1>10. CASE Stop BY <1>10, OpenStop
<1>11. ASSUME NEW s \in Streams, acknowledge(s) PROVE OpenInv'
  <2>1. BarrierTypeOK' BY <1>11 DEF OpenInv, BarrierTypeOK, acknowledge, sessionVars, checkVars
  <2>2. Aside BY <1>11 DEF Aside, acknowledge, sessionVars, checkVars
  <2>3. QED BY <2>1, <2>2, OpenAside
<1>12. CASE settled
  <2>1. BarrierTypeOK' BY <1>12 DEF OpenInv, BarrierTypeOK, settled, checkVars
  <2>2. Aside BY <1>12 DEF Aside, settled, checkVars
  <2>3. QED BY <2>1, <2>2, OpenAside
<1>13. CASE UNCHANGED barrierVars
  <2>1. UNCHANGED <<mInitBarierCount, mMediaStreamList, checked, nextLine, size, sessionCall>>
        BY <1>13 DEF barrierVars, sessionVars, checkVars
  <2>2. BarrierTypeOK' BY <1>13 DEF OpenInv, BarrierTypeOK, barrierVars, sessionVars, checkVars
  <2>3. Counts' /\ Lookup' BY <2>1 DEF OpenInv, Counts, Lookup
  <2>4. Enough' BY <2>1 DEF OpenInv, Enough, Pending, Missing
  <2>5. QED BY <2>2, <2>3, <2>4 DEF OpenInv
<1>14. QED
       BY <1>1, <1>2, <1>3, <1>4, <1>5, <1>6, <1>7, <1>8, <1>9, <1>10, <1>11, <1>12, <1>13
       DEF IBNext, Proceed

\* The histories keep their types and forget nothing.
PastKept ==
    /\ early \in BOOLEAN => early' \in BOOLEAN
    /\ overlapped \in BOOLEAN => overlapped' \in BOOLEAN
    /\ (early => early') /\ (overlapped => overlapped')

LEMMA PastChanges == ASSUME [IBNext]_barrierVars PROVE PastKept
<1>1. ASSUME NEW s \in Streams, CheckInitBarier(s) PROVE PastKept
  <2>1. CASE check(s) BY <2>1, Zenon DEF check, PastKept
  <2>2. CASE decrement(s) BY <2>2, Zenon DEF decrement, pastVars, PastKept
  <2>3. CASE push(s) BY <2>3, Zenon DEF push, pastVars, PastKept
  <2>4. QED BY <1>1, <2>1, <2>2, <2>3 DEF CheckInitBarier
<1>2. CASE Start BY <1>2, Zenon DEF Start, Call, PastKept
<1>3. CASE Pause BY <1>3, Zenon DEF Pause, Call, PastKept
<1>4. CASE Stop BY <1>4, Zenon DEF Stop, Call, PastKept
<1>5. CASE sizeOfList BY <1>5, Zenon DEF sizeOfList, PastKept
<1>6. CASE UNCHANGED pastVars BY <1>6, Zenon DEF pastVars, PastKept
<1>7. CASE UNCHANGED barrierVars BY <1>6, <1>7 DEF barrierVars
<1>8. ASSUME NEW s \in Streams, startSource(s) \/ acknowledge(s) PROVE PastKept
      BY <1>6, <1>8 DEF startSource, acknowledge
<1>9. CASE startFails \/ firstStarted \/ setCount \/ clearList \/ settled
      BY <1>6, <1>9 DEF startFails, firstStarted, setCount, clearList, settled, Finish, pastVars
<1>10. QED BY <1>1, <1>2, <1>3, <1>4, <1>5, <1>7, <1>8, <1>9 DEF IBNext, Proceed

\* Everything of the barrier keeps its type; in particular the count stays between -2
\* (a stream counted just after Stop has shut the barrier) and the number of streams.
THEOREM TypeCorrect == IBSpec => []IBTypeOK
<1>. DEFINE Past == early \in BOOLEAN /\ overlapped \in BOOLEAN
<1>1. IBInit => Past BY Zenon DEF IBInit
<1>2. Past /\ [IBNext]_barrierVars => Past' BY PastChanges, Zenon DEF PastKept
<1>3. OpenInv /\ Past => IBTypeOK BY Zenon DEF OpenInv, IBTypeOK
<1>. HIDE DEF Past
<1>4. QED BY OpenInit, OpenNext, <1>1, <1>2, <1>3, PTL DEF IBSpec

\* The barrier never waits for more streams than can still be counted, whenever the
\* application calls and however Start and checkInitBarier overlap.
THEOREM CanOpenCorrect == IBSpec => []CanOpen
<1>1. OpenInv => CanOpen
  <2>1. SUFFICES ASSUME OpenInv, sessionCall = "idle", mInitBarierCount > 0
                 PROVE  mInitBarierCount <= Missing
        BY DEF CanOpen, Missing
  <2>2. mInitBarierCount + Pending <= Missing BY <2>1 DEF OpenInv, Enough
  <2>3. Missing \in Nat BY <2>1, MissingList DEF Missing, OpenInv, BarrierTypeOK
  <2>4. mInitBarierCount \in Int BY <2>1, CountType DEF OpenInv, BarrierTypeOK
  <2>5. QED BY <2>2, <2>3, <2>4 DEF Pending
<1>2. QED BY OpenInit, OpenNext, <1>1, PTL DEF IBSpec

-----------------------------------------------------------------------------
(***************************************************************************)
(* The streams begin together, as long as the application has waited for   *)
(* them and no sample was checked while Start set the barrier up.          *)
(***************************************************************************)
Calm == ~ early /\ ~ overlapped

\* A restart finds all streams in the list, and nobody in checkInitBarier.
Restart ==
    /\ sessionCall = "starting" /\ mSessionIsInitialised => mMediaStreamList = Streams
    /\ sessionCall \in {"sized", "counted"} => checked = Nobody /\ mMediaStreamList = Streams
    /\ sessionCall = "sized" => size = N
    /\ sessionCall = "counted" => mInitBarierCount = N

\* Who is in the list, or about to be, has been heard.
Heard == mMediaStreamList \subseteq heard /\ (checked # Nobody => checked \in heard)

\* Until all streams are in the list, the count is the number of those missing.
Accounts == mMediaStreamList = Streams \/ mInitBarierCount = Missing - Pending

Together == Restart /\ Heard /\ Accounts

LEMMA TogetherInit == IBInit => Together
<1>1. Streams \ {} = Streams OBVIOUS
<1>2. SUFFICES ASSUME IBInit PROVE Together OBVIOUS
<1>3. Restart /\ Heard BY <1>2 DEF IBInit, Restart, Heard
<1>4. Accounts BY <1>1, <1>2, CountType DEF IBInit, Accounts, Missing, Pending
<1>5. QED BY <1>3, <1>4 DEF Together

LEMMA TogetherCheck ==
    ASSUME Calm', OpenInv, Together, NEW s \in Streams, CheckInitBarier(s)
    PROVE  Together'
<1>1. s # Nobody BY BarrierAssumption
<1>2. CASE check(s)
  <2>1. sessionCall \notin {"sized", "counted"} BY <1>2, Zenon DEF Calm, check, SetsUp
  <2>2. UNCHANGED <<sessionCall, mSessionIsInitialised, mMediaStreamList, mInitBarierCount, size>>
        BY <1>2 DEF check, sessionVars
  <2>3. Restart' BY <2>1, <2>2 DEF Together, Restart
  <2>4. Heard' BY <1>1, <1>2 DEF Together, Heard, check
  <2>5. nextLine # "push" /\ nextLine' # "push"
        BY <1>2 DEF OpenInv, Counts, check
  <2>6. Accounts' BY <2>2, <2>5 DEF Together, Accounts, Missing, Pending
  <2>7. QED BY <2>3, <2>4, <2>6 DEF Together
<1>3. CASE decrement(s)
  <2>1. sessionCall \notin {"sized", "counted"} BY <1>1, <1>3 DEF Together, Restart, decrement
  <2>2. /\ UNCHANGED <<sessionCall, mSessionIsInitialised, mMediaStreamList, size, checked, heard>>
        /\ mInitBarierCount' = mInitBarierCount - 1
        BY <1>3 DEF decrement, sessionVars
  <2>3. Restart' /\ Heard' BY <2>1, <2>2 DEF Together, Restart, Heard
  <2>4. Missing \in Nat /\ Missing' = Missing
        BY <2>2, MissingList DEF OpenInv, BarrierTypeOK, Missing
  <2>5. Pending = 0 /\ Pending' = 1 BY <1>3 DEF Pending, decrement
  <2>6. Accounts' BY <2>2, <2>4, <2>5 DEF Together, Accounts
  <2>7. QED BY <2>3, <2>6 DEF Together
<1>4. CASE push(s)
  <2>1. sessionCall \notin {"sized", "counted"} BY <1>1, <1>4 DEF Together, Restart, push
  <2>2. s \notin mMediaStreamList BY <1>4, <2>1 DEF OpenInv, Lookup, push
  <2>3. /\ UNCHANGED <<sessionCall, mSessionIsInitialised, size, heard, mInitBarierCount>>
        /\ mMediaStreamList' = mMediaStreamList \cup {s} /\ checked' = Nobody
        BY <1>4 DEF push, sessionVars
  <2>4. mMediaStreamList # Streams BY <2>2
  <2>5. Restart' BY <2>1, <2>3, <2>4 DEF Together, Restart
  <2>6. Heard' BY <1>1, <1>4, <2>3 DEF Together, Heard, push
  <2>7. Missing \in Nat /\ Missing' = Missing - 1
        BY <2>2, <2>3, MissingOne DEF OpenInv, BarrierTypeOK, Missing
  <2>8. Pending = 1 /\ Pending' = 0 BY <1>4 DEF Pending, push
  <2>9. Accounts' BY <2>3, <2>4, <2>7, <2>8 DEF Together, Accounts
  <2>10. QED BY <2>5, <2>6, <2>9 DEF Together
<1>5. QED BY <1>2, <1>3, <1>4 DEF CheckInitBarier

\* The steps that only move the call on, or shut a barrier that was open.
Moves ==
    /\ UNCHANGED <<mMediaStreamList, checked, nextLine, heard>>
    /\ sessionCall' \notin {"sized", "counted"}
    /\ sessionCall' = "starting" /\ mSessionIsInitialised' => mMediaStreamList = Streams
    /\ mInitBarierCount' = mInitBarierCount \/ mMediaStreamList = Streams

LEMMA TogetherMoves == ASSUME Together, Moves PROVE Together'
<1>1. Restart' BY DEF Restart, Moves
<1>2. Heard' BY DEF Together, Heard, Moves
<1>3. Accounts' BY DEF Together, Accounts, Missing, Pending, Moves
<1>4. QED BY <1>1, <1>2, <1>3 DEF Together

LEMMA TogetherNext ==
    ASSUME Calm', OpenInv, Together, [IBNext]_barrierVars PROVE Together'
<1>1. ASSUME NEW s \in Streams, CheckInitBarier(s) PROVE Together'
      BY <1>1, TogetherCheck
<1>2. CASE Start
  <2>1. Timely BY <1>2, Zenon DEF Calm, Start, Call
  <2>2. Moves BY <1>2, <2>1 DEF Moves, Start, Call, Timely, checkVars
  <2>3. QED BY <2>2, TogetherMoves
<1>3. ASSUME NEW s \in Streams, startSource(s) PROVE Together'
  <2>1. Moves BY <1>3 DEF Together, Restart, Moves, startSource, sessionVars, checkVars
  <2>2. QED BY <2>1, TogetherMoves
<1>4. CASE startFails
  <2>1. Moves BY <1>4 DEF Together, Restart, Moves, startFails, checkVars
  <2>2. QED BY <2>1, TogetherMoves
<1>5. CASE firstStarted
  <2>1. Moves BY <1>5 DEF Moves, firstStarted, Finish
  <2>2. QED BY <2>1, TogetherMoves
<1>6. CASE sizeOfList
  <2>1. /\ mMediaStreamList = Streams /\ checked = Nobody
    <3>1. checked = Nobody BY <1>6, Zenon DEF Calm, sizeOfList
    <3>2. QED BY <1>6, <3>1 DEF Together, Restart, sizeOfList, SourcesAsked
  <2>2. /\ UNCHANGED <<mMediaStreamList, checked, heard>>
        /\ size' = Cardinality(mMediaStreamList) /\ sessionCall' = "sized"
        BY <1>6 DEF sizeOfList, checkVars
  <2>3. QED BY <2>1, <2>2 DEF Together, Restart, Heard, Accounts, N
<1>7. CASE setCount
  <2>1. /\ mMediaStreamList = Streams /\ checked = Nobody /\ size = N
        BY <1>7 DEF Together, Restart, setCount
  <2>2. /\ UNCHANGED <<mMediaStreamList, checked, heard>>
        /\ mInitBarierCount' = size /\ sessionCall' = "counted"
        BY <1>7 DEF setCount, checkVars
  <2>3. QED BY <2>1, <2>2 DEF Together, Restart, Heard, Accounts
<1>8. CASE clearList
  <2>1. checked = Nobody /\ mInitBarierCount = N /\ nextLine = "check"
        BY <1>8 DEF OpenInv, Counts, Together, Restart, clearList
  <2>2. /\ UNCHANGED <<checked, nextLine, mInitBarierCount>>
        /\ mMediaStreamList' = {} /\ heard' = {} /\ sessionCall' = "idle"
        BY <1>8 DEF clearList, Finish
  <2>3. Streams \ {} = Streams OBVIOUS
  <2>4. Missing' = N BY <2>2, <2>3 DEF Missing, N
  <2>5. Restart' /\ Heard' BY <2>1, <2>2 DEF Restart, Heard
  <2>6. Accounts' BY <2>1, <2>2, <2>4, CountType DEF Accounts, Pending
  <2>7. QED BY <2>5, <2>6 DEF Together
<1>9. CASE Pause
  <2>1. Moves BY <1>9 DEF Moves, Pause, Call, checkVars
  <2>2. QED BY <2>1, TogetherMoves
<1>10. CASE Stop
  <2>1. mMediaStreamList = Streams
    <3>1. Timely BY <1>10, Zenon DEF Calm, Stop, Call
    <3>2. QED BY <1>10, <3>1 DEF Stop, Timely
  <2>2. Moves BY <1>10, <2>1 DEF Moves, Stop, Call, checkVars
  <2>3. QED BY <2>2, TogetherMoves
<1>11. ASSUME NEW s \in Streams, acknowledge(s) PROVE Together'
  <2>1. Moves BY <1>11 DEF Moves, acknowledge, sessionVars, checkVars
  <2>2. QED BY <2>1, TogetherMoves
<1>12. CASE settled
  <2>1. Moves BY <1>12 DEF Moves, settled, checkVars
  <2>2. QED BY <2>1, TogetherMoves
<1>13. CASE UNCHANGED barrierVars
  <2>1. UNCHANGED <<mMediaStreamList, mInitBarierCount, checked, nextLine, heard, sessionCall, size,
                    mSessionIsInitialised>>
        BY <1>13 DEF barrierVars, sessionVars, checkVars
  <2>2. Restart' /\ Heard' BY <2>1 DEF Together, Restart, Heard
  <2>3. Accounts' BY <2>1 DEF Together, Accounts, Missing, Pending
  <2>4. QED BY <2>2, <2>3 DEF Together
<1>14. QED
       BY <1>1, <1>2, <1>3, <1>4, <1>5, <1>6, <1>7, <1>8, <1>9, <1>10, <1>11, <1>12, <1>13
       DEF IBNext, Proceed

\* As long as the application has called only after all streams have begun, and no
\* check has met Start between the lines that set the barrier up, a started session
\* passes samples on only after every stream has delivered one.
THEOREM OpensTogetherCorrect == IBSpec => []OpensTogether
<1>1. OpenInv /\ (Calm => Together) /\ [IBNext]_barrierVars => OpenInv' /\ (Calm' => Together')
  <2>1. [IBNext]_barrierVars /\ Calm' => Calm BY PastChanges, Zenon DEF Calm, PastKept
  <2>2. QED BY <2>1, OpenNext, TogetherNext
<1>2. ASSUME ~ Calm PROVE OpensTogether BY <1>2, Zenon DEF Calm, OpensTogether
<1>3. ASSUME OpenInv, Together PROVE OpensTogether
  <2>1. SUFFICES ASSUME mInitBarierCount = 0 PROVE heard = Streams BY DEF OpensTogether
  <2>2. mMediaStreamList \subseteq Streams /\ heard \subseteq Streams
        BY <1>3 DEF OpenInv, BarrierTypeOK
  <2>3. CASE mMediaStreamList = Streams BY <1>3, <2>2, <2>3 DEF Together, Heard
  <2>4. CASE mMediaStreamList # Streams
    <3>1. Missing = Pending
          BY <1>3, <2>1, <2>2, <2>4, MissingList DEF Together, Accounts, Missing, Pending
    <3>2. PICK s \in Streams : s \notin mMediaStreamList BY <2>2, <2>4
    <3>3. IsFiniteSet(Streams \ mMediaStreamList) BY BarrierAssumption, FS_Subset
    <3>4. Missing # 0 BY <3>2, <3>3, FS_EmptySet DEF Missing
    <3>5. nextLine = "push" /\ Missing = 1 BY <3>1, <3>4 DEF Pending
    <3>6. checked \in Streams /\ checked \in heard
          BY <1>3, <3>5 DEF OpenInv, BarrierTypeOK, Counts, Together, Heard
    <3>7. CASE checked \in mMediaStreamList
          BY <1>3, <2>4, <3>6, <3>7, BarrierAssumption
          DEF OpenInv, Lookup, Together, Restart
    <3>8. CASE checked \notin mMediaStreamList
      <4>1. Streams = mMediaStreamList \cup {checked}
            BY <2>2, <3>5, <3>6, <3>8, MissingOne DEF Missing
      <4>2. QED BY <1>3, <2>2, <3>6, <4>1 DEF Together, Heard
    <3>9. QED BY <3>7, <3>8
  <2>5. QED BY <2>3, <2>4
<1>4. OpenInv /\ (Calm => Together) => OpensTogether BY <1>2, <1>3
<1>5. QED BY OpenInit, TogetherInit, <1>1, <1>4, PTL DEF IBSpec
-----------------------------------------------------------------------------
(***************************************************************************)
(* The source of images.                                                   *)
(***************************************************************************)
\* Each operation has its states of the source, and nobody asks for a sample meanwhile.
Lines ==
    /\ operation \in {"none", "configure", "start", "join", "joined", "release"}
    /\ operation = "start" => source \in {"Initialized", "Started", "Stopped", "Paused"}
    /\ operation \in {"join", "joined"} =>
         source \in {"Paused", "Stopping"} /\ mCaptureInvokerState = "Stopped"
    /\ source = "Stopping" => operation \in {"join", "joined"}
    /\ source = "Shutdown" => operation \in {"none", "release"}
    /\ getter # "out" => operation = "none" /\ source = "Started"

\* The thread is there only while the processor is started, which no call but the one
\* that joins it makes an end of.
Joins ==
    /\ mCaptureInvokerState \in {"Started", "Stopped"}
    /\ mCaptureInvokerState = "Started" => mState = "Started"
    /\ mCaptureInvokerState = "Stopped" /\ operation # "join" => grabber = "none"
    /\ operation = "join" => mState = "Started"
    /\ operation = "configure" => mState # "Started"

\* A processor that may be started without being configured has its resources.
HasResources ==
    /\ mState \in {"Uninitialized", "Initialized", "Started", "Paused", "Stopped"}
    /\ mState \in {"Initialized", "Started", "Paused"} => resources
    /\ mState = "Stopped" => source = "Stopped" /\ operation \in {"none", "configure"}
    /\ operation = "joined" /\ source = "Paused" => mState = "Started"
    /\ source \in {"Initialized", "Started", "Paused", "Stopping", "Stopped", "Shutdown"}

\* As long as no processor that is Started was configured anew or shut down.
Runs == misused \/ (Lines /\ Joins /\ HasResources)

\* No image is newer than the last that was grabbed.
Grabbed ==
    /\ images \in Nat /\ before \in Nat /\ given \in Seq(Nat)
    /\ image \in 0 .. images /\ before \in 0 .. images /\ Last \in 0 .. images
    /\ mPtrMediaBuffer \in 0 .. images /\ mUnkSample \in 0 .. images
    /\ mIsDirectX11 \in BOOLEAN /\ IsBufferReady \in BOOLEAN

\* What a getter may take is newer than what was given, and what the thread has in
\* hand is newer still.
Fresher ==
    /\ IsBufferReady /\ ~ mIsDirectX11 => mPtrMediaBuffer > Last
    /\ getter = "ready" => IsBufferReady
    /\ mUnkSample # 0 /\ mIsDirectX11 => mUnkSample > Last
    /\ grabber = "give" =>
         image = images /\ image > Last /\ image > mPtrMediaBuffer /\ image > mUnkSample
    /\ grabber = "notify" => ~ mIsDirectX11

Ascends == misused \/ (Grabbed /\ ImagesAdvance /\ Fresher)

LEMMA RunsInit == SCInit => Runs
BY DEF SCInit, Runs, Lines, Joins, HasResources

\* The history is never forgotten.
LEMMA MisusedStays == ASSUME [SCNext]_screenVars, misused PROVE misused'
<1>1. CASE UNCHANGED screenVars BY <1>1, Zenon DEF screenVars, captureVars
<1>2. CASE Source
  <2>1. CASE internalStart BY <2>1, Zenon DEF internalStart
  <2>2. CASE Shutdown BY <2>2, Zenon DEF Shutdown
  <2>3. CASE UNCHANGED misused BY <2>3, Zenon
  <2>4. QED BY <1>2, <2>1, <2>2, <2>3, Zenon
        DEF Source, setCurrentMediaType, setCurrentMediaTypeFails, startCapture,
            internalPause, internalStop, joinThread, pauseScreen, stopScreen, releaseProcessor
<1>3. CASE Grabber
      BY <1>3, Zenon DEF Grabber, goRound, invoke, grabImage, setBuffer, notify,
                         createSample, Grab, captureVars
<1>4. CASE Getter
      BY <1>4, Zenon DEF Getter, getNewSample, wait_for, wake_spuriously, wait_expires,
                         getBuffer, takeSample, takeNothing, Get, captureVars
<1>5. QED BY <1>1, <1>2, <1>3, <1>4 DEF SCNext

\* What the thread does to the states of the source and the processor.
LEMMA RunsGrabber == ASSUME Runs, Grabber, ~ misused PROVE Runs'
<1>1. /\ UNCHANGED <<source, operation, resources, mState, mCaptureInvokerState>>
      /\ grabber # "none"
      /\ grabber' = "none" => FALSE
      /\ getter' # "out" => getter # "out"
      BY DEF Grabber, goRound, invoke, grabImage, setBuffer, notify, createSample, notify_all,
             Grab, captureVars, stateVars
<1>2. QED BY <1>1 DEF Runs, Lines, Joins, HasResources

LEMMA RunsGetter == ASSUME Runs, Getter, ~ misused PROVE Runs'
<1>1. /\ UNCHANGED <<captureVars, stateVars, invokerVars>>
      /\ getter = "out" => operation = "none" /\ source = "Started"
      BY DEF Getter, getNewSample, wait_for, wake_spuriously, wait_expires, getBuffer,
             takeSample, takeNothing, Get
<1>2. QED BY <1>1
      DEF Runs, Lines, Joins, HasResources, captureVars, stateVars, invokerVars

LEMMA RunsSource == ASSUME Runs, Source, ~ misused PROVE Runs'
<1>. USE DEF Runs, Lines, Joins, HasResources, Operate, captureVars, stateVars, invokerVars
<1>1. CASE internalStart
  <2>1. CASE source # "Paused" /\ mState = "Started"
        BY <1>1, <2>1, Zenon DEF internalStart
  <2>2. CASE ~ (source # "Paused" /\ mState = "Started") BY <1>1, <2>2 DEF internalStart
  <2>3. QED BY <2>1, <2>2
<1>2. CASE setCurrentMediaType BY <1>2 DEF setCurrentMediaType
<1>3. CASE setCurrentMediaTypeFails BY <1>3 DEF setCurrentMediaTypeFails
<1>4. CASE startCapture
  <2>1. CASE startProcessor BY <1>4, <2>1 DEF startCapture, startProcessor
  <2>2. CASE ~ startProcessor BY <1>4, <2>2 DEF startCapture
  <2>3. QED BY <2>1, <2>2
<1>5. CASE internalPause BY <1>5 DEF internalPause, stopInvoker
<1>6. CASE internalStop BY <1>6 DEF internalStop, stopInvoker
<1>7. CASE joinThread BY <1>7 DEF joinThread
<1>8. CASE pauseScreen BY <1>8 DEF pauseScreen
<1>9. CASE stopScreen BY <1>9 DEF stopScreen
<1>10. CASE Shutdown
  <2>1. CASE mState = "Started" BY <1>10, <2>1, Zenon DEF Shutdown
  <2>2. CASE mState # "Started" BY <1>10, <2>2 DEF Shutdown
  <2>3. QED BY <2>1, <2>2
<1>11. CASE releaseProcessor BY <1>11 DEF releaseProcessor
<1>12. QED BY <1>1, <1>2, <1>3, <1>4, <1>5, <1>6, <1>7, <1>8, <1>9, <1>10, <1>11 DEF Source

LEMMA RunsAlways == SCSpec => []Runs
<1>1. Runs /\ [SCNext]_screenVars => Runs'
  <2>1. Runs /\ UNCHANGED screenVars /\ ~ misused => Runs'
        BY DEF screenVars, Runs, Lines, Joins, HasResources, captureVars, stateVars,
               invokerVars
  <2>2. QED BY <2>1, RunsSource, RunsGrabber, RunsGetter, MisusedStays DEF SCNext, Runs
<1>2. QED BY <1>1, RunsInit, PTL DEF SCSpec

\* While the thread grabs an image, what it is drawn with is there and is not made
\* anew (CaptureInvoker is joined by each stop and pause), until a processor that is
\* Started is configured anew or shut down.
THEOREM ResourcesAliveCorrect == SCSpec => []ResourcesAlive
<1>1. Runs => ResourcesAlive
      BY DEF Runs, Lines, Joins, HasResources, ResourcesAlive
<1>2. QED BY <1>1, RunsAlways, PTL

LEMMA GiveOne ==
  ASSUME Grabbed, ImagesAdvance, ~ misused,
         NEW i \in 1 .. images, i > Last, Give(i), before' = before
  PROVE  given' \in Seq(Nat) /\ Last' \in {Last, i} /\ ImagesAdvance'
<1>1. CASE given' = given BY <1>1 DEF Grabbed, Last, ImagesAdvance
<1>2. CASE given' = Append(given, i)
  <2>1. i \in Nat /\ given \in Seq(Nat) /\ before \in Nat BY DEF Grabbed
  <2>2. /\ given' \in Seq(Nat) /\ Len(given') = Len(given) + 1
        /\ \A j \in 1 .. Len(given) : given'[j] = given[j]
        /\ given'[Len(given) + 1] = i /\ Len(given) \in Nat
        BY <1>2, <2>1, AppendProperties, LenProperties
  <2>3. Last' = i BY <2>2 DEF Last
  <2>4. ASSUME NEW j \in 1 .. Len(given')
        PROVE  given'[j] > IF j = 1 THEN before ELSE given'[j - 1]
    <3>1. CASE j \in 1 .. Len(given)
      <4>1. j = 1 \/ j - 1 \in 1 .. Len(given) BY <2>2, <3>1
      <4>2. QED BY <2>2, <3>1, <4>1 DEF ImagesAdvance
    <3>2. CASE j = Len(given) + 1
      <4>1. Len(given) = 0 => given = << >> BY <2>1, EmptySeq
      <4>2. Last = IF Len(given) = 0 THEN before ELSE given[Len(given)]
            BY <2>2, <4>1 DEF Last
      <4>3. Len(given) # 0 => given'[j - 1] = given[Len(given)] /\ j # 1 BY <2>2, <3>2
      <4>4. QED BY <2>2, <3>2, <4>2, <4>3
    <3>3. QED BY <2>2, <3>1, <3>2
  <2>5. QED BY <2>2, <2>3, <2>4 DEF ImagesAdvance
<1>3. QED BY <1>1, <1>2 DEF Give

Ordered == Runs /\ Ascends /\ ~ misused

LEMMA AscendsInit == SCInit => Ascends
<1>. SUFFICES ASSUME SCInit PROVE Ascends OBVIOUS
<1>1. IsBufferReady \in BOOLEAN /\ mIsDirectX11 \in BOOLEAN BY Zenon DEF SCInit
<1>2. given = << >> /\ Len(given) = 0 /\ given \in Seq(Nat) /\ Last = 0 BY DEF SCInit, Last
<1>3. QED BY <1>1, <1>2 DEF SCInit, Ascends, Grabbed, ImagesAdvance, Fresher

LEMMA Cleared ==
  ASSUME clearMediaBuffer
  PROVE  mPtrMediaBuffer' = 0 /\ IsBufferReady' \in BOOLEAN /\ UNCHANGED mUnkSample
BY Zenon DEF clearMediaBuffer

LEMMA AscendsGetter == ASSUME Ordered, Getter PROVE Ascends'
<1>. USE DEF Ordered, Ascends, Grabbed
<1>1. /\ UNCHANGED <<captureVars, stateVars, mIsDirectX11, invokerVars, imageVars, before>>
      BY DEF Getter, getNewSample, wait_for, wake_spuriously, wait_expires, getBuffer,
             takeSample, takeNothing, Get
<1>3. Fresher OBVIOUS
<1>4. CASE UNCHANGED <<keptVars, given>>
  <2>1. Last' = Last /\ ImagesAdvance' BY <1>1, <1>4 DEF Last, ImagesAdvance
  <2>2. getter' = "ready" => getter = "ready" \/ IsBufferReady
        BY DEF Getter, getNewSample, wait_for, wake_spuriously, wait_expires, getBuffer,
             takeSample, takeNothing, Get
  <2>3. QED BY <1>1, <1>3, <1>4, <2>1, <2>2
        DEF Fresher, keptVars, imageVars, captureVars, invokerVars
<1>5. CASE getBuffer
  <2>1. ~ mIsDirectX11 /\ getter' = "out" /\ clearMediaBuffer BY <1>5 DEF getBuffer, Get
  <2>2. /\ given' \in Seq(Nat) /\ Last' \in {Last, mPtrMediaBuffer} /\ ImagesAdvance'
    <3>1. CASE IsBufferReady
      <4>1. mPtrMediaBuffer \in 1 .. images /\ mPtrMediaBuffer > Last
            BY <1>3, <2>1, <3>1 DEF Fresher
      <4>2. Give(mPtrMediaBuffer) /\ before' = before BY <1>1, <1>5, <3>1 DEF getBuffer
      <4>3. QED BY <4>1, <4>2, GiveOne
    <3>2. CASE ~ IsBufferReady
      <4>1. UNCHANGED <<given, before>> BY <1>1, <1>3, <1>5, <3>2 DEF getBuffer, Fresher
      <4>2. QED BY <4>1 DEF Last, ImagesAdvance
    <3>3. QED BY <3>1, <3>2
  <2>3. Grabbed' BY <1>1, <2>1, <2>2, Cleared DEF imageVars
  <2>4. Fresher' BY <1>1, <1>3, <2>1, <2>2
        DEF Fresher, clearMediaBuffer, imageVars, captureVars, invokerVars
  <2>5. QED BY <2>2, <2>3, <2>4
<1>6. CASE takeSample
  <2>1. /\ mIsDirectX11 /\ getter = "woken" /\ getter' = "out" /\ mUnkSample' = 0
        /\ Give(mUnkSample) /\ UNCHANGED <<mPtrMediaBuffer, IsBufferReady>>
        BY <1>6 DEF takeSample, Get
  <2>2. mUnkSample \in 1 .. images /\ mUnkSample > Last
        BY <1>3, <1>6, <2>1 DEF Fresher, takeSample
  <2>3. given' \in Seq(Nat) /\ Last' \in {Last, mUnkSample} /\ ImagesAdvance'
        BY <1>1, <2>1, <2>2, GiveOne
  <2>4. QED BY <1>1, <1>3, <2>1, <2>3 DEF Fresher, imageVars, captureVars, invokerVars
<1>7. QED BY <1>4, <1>5, <1>6
      DEF Getter, getNewSample, wait_for, wake_spuriously, wait_expires, takeNothing

LEMMA AscendsGrabber == ASSUME Ordered, Grabber PROVE Ascends'
<1>. USE DEF Ordered, Ascends, Grabbed, captureVars, givenVars
<1>1. UNCHANGED <<captureVars, mIsDirectX11, givenVars>>
      BY DEF Grabber, goRound, invoke, grabImage, setBuffer, notify, createSample, Grab
<1>2. Last' = Last /\ ImagesAdvance' BY <1>1 DEF Last, ImagesAdvance
<1>3. CASE goRound \/ invoke
      BY <1>1, <1>2, <1>3 DEF goRound, invoke, Grab, Fresher, imageVars, keptVars
<1>4. CASE grabImage BY <1>1, <1>2, <1>4 DEF grabImage, Grab, Fresher, keptVars
<1>5. CASE setBuffer BY <1>1, <1>2, <1>5 DEF setBuffer, Grab, Fresher, imageVars
<1>6. CASE notify BY <1>1, <1>2, <1>6 DEF notify, notify_all, Grab, Fresher, imageVars, keptVars
<1>7. CASE createSample
      BY <1>1, <1>2, <1>7 DEF createSample, notify_all, Grab, Fresher, imageVars
<1>8. QED BY <1>3, <1>4, <1>5, <1>6, <1>7 DEF Grabber

LEMMA AscendsSource == ASSUME Ordered, Source, ~ misused' PROVE Ascends'
<1>. USE DEF Ordered, Ascends, Grabbed
<1>2. Fresher /\ Lines /\ Joins BY DEF Runs
<1>3. getter = "out" /\ UNCHANGED getter
  <2>1. UNCHANGED getter
        BY DEF Source, internalStart, setCurrentMediaType,
               setCurrentMediaTypeFails, startCapture, internalPause, internalStop,
               joinThread, pauseScreen, stopScreen, Shutdown, releaseProcessor
  <2>2. operation # "none" \/ getter = "out"
        BY DEF Operate, Source, internalStart, setCurrentMediaType, stopInvoker,
               setCurrentMediaTypeFails, startCapture, internalPause, internalStop,
               joinThread, pauseScreen, stopScreen, Shutdown, releaseProcessor
  <2>3. QED BY <1>2, <2>1, <2>2 DEF Lines
<1>4. grabber' \in {"give", "notify"} => grabber' = grabber
      BY DEF Source, internalStart, setCurrentMediaType,
             setCurrentMediaTypeFails, startCapture, internalPause, internalStop, joinThread,
             pauseScreen, stopScreen, Shutdown, releaseProcessor, invokerVars, startProcessor,
             stopInvoker
<1>5. mIsDirectX11' = mIsDirectX11
      BY DEF Source, internalStart, setCurrentMediaType,
             setCurrentMediaTypeFails, startCapture, internalPause, internalStop, joinThread,
             pauseScreen, stopScreen, Shutdown, releaseProcessor
<1>6. CASE UNCHANGED <<imageVars, keptVars, givenVars>>
  <2>1. Last' = Last /\ ImagesAdvance' BY <1>6 DEF Last, ImagesAdvance, givenVars
  <2>2. QED BY <1>2, <1>3, <1>4, <1>5, <1>6, <2>1 DEF Fresher, imageVars, keptVars, givenVars
<1>7. CASE setCurrentMediaType
  <2>1. Last' = Last /\ ImagesAdvance'
        BY <1>7 DEF setCurrentMediaType, Last, ImagesAdvance, givenVars
  <2>2. grabber' = "none" BY <1>2, <1>7 DEF setCurrentMediaType, invokerVars, Lines, Joins
  <2>3. QED BY <1>3, <1>5, <1>7, <2>1, <2>2 DEF setCurrentMediaType, Fresher, givenVars
<1>8. CASE stopScreen
  <2>1. grabber' = "none" BY <1>2, <1>8 DEF stopScreen, invokerVars, Lines, Joins
  <2>2. /\ given' = << >> /\ Len(given') = 0 /\ given' \in Seq(Nat) /\ Last' = before'
        /\ before' \in 0 .. images /\ before' = IF mIsDirectX11 THEN Last ELSE images
        BY <1>8 DEF stopScreen, Last
  <2>3. Grabbed' BY <1>5, <1>8, <2>2, Cleared DEF stopScreen, imageVars
  <2>4. Fresher' BY <1>2, <1>3, <1>5, <1>8, <2>1, <2>2
        DEF stopScreen, clearMediaBuffer, Fresher, imageVars
  <2>5. ImagesAdvance' BY <2>2 DEF ImagesAdvance
  <2>6. QED BY <2>3, <2>4, <2>5
<1>9. CASE Shutdown
  <2>1. Last' = Last /\ ImagesAdvance' BY <1>9 DEF Shutdown, Last, ImagesAdvance, givenVars
  <2>2. Grabbed' BY <1>5, <1>9, <2>1, Cleared DEF Shutdown, imageVars, givenVars
  <2>3. grabber' = grabber /\ grabber = "none" /\ IsBufferReady' = FALSE
    <3>1. mState # "Started" BY <1>9, Zenon DEF Shutdown
    <3>2. grabber = "none" BY <1>2, <1>3, <1>9, <3>1 DEF Joins, Shutdown, Operate
    <3>3. QED BY <1>9, <3>2 DEF Shutdown, invokerVars, clearMediaBuffer
  <2>4. Fresher' BY <1>2, <1>3, <1>5, <1>9, <2>1, <2>3
        DEF Shutdown, clearMediaBuffer, Fresher, imageVars
  <2>5. QED BY <2>1, <2>2, <2>4
<1>10. QED BY <1>6, <1>7, <1>8, <1>9
       DEF Source, internalStart, setCurrentMediaTypeFails, startCapture, internalPause,
           internalStop, joinThread, pauseScreen, releaseProcessor

\* No image is given twice or after a later one, nor one of the container after a stop
\* that it was grabbed before, in whichever order setBuffer, createSample and
\* getNewSample come and however its waits end, until a processor that is Started is
\* configured anew.
THEOREM ImagesAdvanceCorrect == SCSpec => []ImagesAdvance
<1>1. Runs /\ Ascends /\ [SCNext]_screenVars => Ascends'
  <2>1. ASSUME Ascends, ~ misused, UNCHANGED screenVars PROVE Ascends'
    <3>1. Last' = Last /\ ImagesAdvance'
          BY <2>1 DEF screenVars, givenVars, Last, Ascends, ImagesAdvance
    <3>2. QED BY <2>1, <3>1
          DEF Ascends, Grabbed, Fresher, screenVars, captureVars, stateVars, invokerVars,
              imageVars, keptVars, givenVars
  <2>2. CASE misused BY <2>2, MisusedStays DEF Ascends
  <2>3. CASE ~ misused /\ misused' BY <2>3 DEF Ascends
  <2>4. CASE ~ misused /\ ~ misused'
        BY <2>1, <2>4, AscendsSource, AscendsGrabber, AscendsGetter DEF SCNext, Ordered
  <2>5. QED BY <2>2, <2>3, <2>4
<1>2. Ascends => ImagesAdvance BY DEF Ascends, ImagesAdvance
<1>3. QED BY <1>1, <1>2, AscendsInit, RunsAlways, PTL DEF SCSpec
-----------------------------------------------------------------------------
(***************************************************************************)
(* The times of the samples, until a callback is overtaken: till then one  *)
(* thread at most is in a callback, and what it has read still holds.      *)
(***************************************************************************)
Handler == [step : {"idle", "read", "prev", "time", "put"}, device : Nat, jump : BOOLEAN,
            time : Int, duration : Int]
Event   == [type : {"sample", "answer"}, device : Nat, jump : BOOLEAN]
Stamp   == [time : Int, duration : Int]

LEMMA TimesTypeInit == Init => TypeOK
<1>. SUFFICES ASSUME Init PROVE TypeOK OBVIOUS
<1>1. /\ overtaken \in BOOLEAN /\ answered \in BOOLEAN
      /\ mIsPaused \in BOOLEAN /\ mFirstSample \in BOOLEAN
      BY Zenon DEF Init
<1>2. Idle \in Handler BY DEF Idle, Handler
<1>3. handler \in [Threads -> Handler] BY <1>2 DEF Init
<1>4. events = << >> /\ work = << >> BY DEF Init
<1>5. QED BY <1>1, <1>3, <1>4, TimesAssumption DEF Init, TypeOK, Handler

LEMMA TimesTypeFrame == ASSUME TypeOK, Frame PROVE TypeOK'
<1>. USE DEF TypeOK
<1>1. now' \in 0 .. MaxTime /\ captured' \in Nat /\ gap' \in Nat BY TimesAssumption DEF Frame
<1>2. events' \in Seq(Event)
  <2>1. CASE events' = events BY <2>1 DEF Event
  <2>2. ASSUME NEW j \in BOOLEAN,
               events' = Append(events, [type |-> "sample", device |-> now', jump |-> j])
        PROVE  events' \in Seq(Event)
    <3>1. [type |-> "sample", device |-> now', jump |-> j] \in Event BY <1>1 DEF Event
    <3>2. events \in Seq(Event) BY DEF Event
    <3>3. QED BY <2>2, <3>1, <3>2, AppendProperties
  <2>3. QED BY <2>1, <2>2 DEF Frame
<1>3. QED BY <1>1, <1>2, Zenon DEF Frame, stampVars, callVars, switchVars, Event

LEMMA TakenType ==
  ASSUME NEW h \in Handler, NEW d \in Nat, NEW j \in BOOLEAN
  PROVE  [h EXCEPT !.step = "read", !.device = d, !.jump = j] \in Handler
BY DEF Handler

LEMMA TimesTypeTake == ASSUME TypeOK, NEW t \in Threads, Take(t) PROVE TypeOK'
<1>1. events \in Seq(Event) /\ events # << >> BY DEF TypeOK, Event, Take
<1>2. Tail(events) \in Seq(Event) /\ Head(events) \in Event BY <1>1, HeadTailProperties
<1>3. answered' \in BOOLEAN /\ overtaken' \in BOOLEAN BY Zenon DEF Take, TypeOK
<1>4. handler' \in [Threads -> Handler]
  <2>1. handler \in [Threads -> Handler] BY DEF TypeOK, Handler
  <2>2. Idle \in Handler /\ Head(events).device \in Nat /\ Head(events).jump \in BOOLEAN
        BY <1>2 DEF Event, Idle, Handler
  <2>3. [Idle EXCEPT !.step = "read", !.device = Head(events).device,
                     !.jump = Head(events).jump] \in Handler
        BY <2>2, TakenType
  <2>4. QED BY <2>1, <2>3, Zenon DEF Take
<1>5. events' \in Seq(Event) BY <1>2 DEF Take
<1>6. QED BY <1>3, <1>4, <1>5, Zenon DEF Take, TypeOK, Handler, Event, stampVars, switchVars

LEMMA TimesTypeCallback == ASSUME TypeOK, NEW t \in Threads, Callback(t) PROVE TypeOK'
<1>1. handler[t] \in Handler /\ handler \in [Threads -> Handler] BY DEF TypeOK, Handler
<1>2. ASSUME NEW h \in Handler, handler' = [handler EXCEPT ![t] = h]
      PROVE  handler' \in [Threads -> Handler]
      BY <1>1, <1>2, Zenon
<1>3. CASE Take(t) BY <1>3, TimesTypeTake
<1>4. CASE ReadTimes(t)
  <2>1. Duration(t) \in Int /\ sampleTime \in Int
        BY <1>1, TimesAssumption DEF Duration, TypeOK, Handler
  <2>2. [handler[t] EXCEPT !.step = "prev", !.time = sampleTime, !.duration = Duration(t)]
          \in Handler
        BY <1>1, <2>1 DEF Handler
  <2>3. handler' \in [Threads -> Handler] BY <1>4, <2>2, <1>1 DEF ReadTimes
  <2>4. QED BY <1>4, <2>3, Zenon
        DEF ReadTimes, TypeOK, sourceVars, stampVars, callVars, switchVars, Handler
<1>5. CASE WritePrev(t)
  <2>1. [handler[t] EXCEPT !.step = "time"] \in Handler BY <1>1 DEF Handler
  <2>2. handler' \in [Threads -> Handler] BY <1>5, <2>1, <1>1 DEF WritePrev
  <2>3. prevTime' \in Nat BY <1>1, <1>5 DEF WritePrev, Handler
  <2>4. QED BY <1>5, <2>2, <2>3, Zenon
        DEF WritePrev, TypeOK, sourceVars, callVars, switchVars, Handler
<1>6. CASE WriteTime(t)
  <2>1. [handler[t] EXCEPT !.step = "put"] \in Handler BY <1>1 DEF Handler
  <2>2. handler' \in [Threads -> Handler] BY <1>6, <2>1, <1>1 DEF WriteTime
  <2>3. sampleTime' \in Int BY <1>1, <1>6 DEF WriteTime, Handler
  <2>4. QED BY <1>6, <2>2, <2>3, Zenon
        DEF WriteTime, TypeOK, sourceVars, callVars, switchVars, Handler
<1>7. CASE Put(t)
  <2>1. Idle \in Handler BY DEF Idle, Handler
  <2>2. handler' \in [Threads -> Handler] BY <1>1, <1>7, <2>1, Zenon DEF Put
  <2>3. [time |-> handler[t].time, duration |-> handler[t].duration] \in Stamp
        BY <1>1 DEF Handler, Stamp
  <2>4. work \in Seq(Stamp) BY DEF TypeOK, Stamp
  <2>5. work' \in Seq(Stamp) BY <1>7, <2>3, <2>4, AppendProperties DEF Put
  <2>6. QED BY <1>7, <2>2, <2>5, Zenon
        DEF Put, TypeOK, sourceVars, stampVars, callVars, switchVars, Handler, Stamp
<1>8. QED BY <1>3, <1>4, <1>5, <1>6, <1>7 DEF Callback

LEMMA TimesTypeSession == ASSUME TypeOK, Session PROVE TypeOK'
<1>. USE DEF TypeOK, sourceVars, stampVars, callVars, switchVars
<1>1. CASE startSources
  <2>1. prevTime' \in Nat /\ captured' \in Nat /\ gap' \in Nat BY <1>1 DEF startSources
  <2>2. QED BY <1>1, <2>1, Zenon DEF startSources
<1>2. ASSUME NEW c \in {"asked", "stopping"}, NEW state \in {"Paused", "Stopped"},
             Request(c, state)
      PROVE  TypeOK'
  <2>1. Answer \in Event /\ events \in Seq(Event) BY DEF Answer, Event
  <2>2. events' \in Seq(Event) BY <1>2, <2>1, AppendProperties DEF Request
  <2>3. answered' \in BOOLEAN BY <1>2, Zenon DEF Request
  <2>4. /\ call' \in {"idle", "asked", "pausing", "stopping"}
        /\ session' \in {"None", "Started", "Paused", "Stopped"}
        BY <1>2 DEF Request
  <2>5. QED BY <1>2, <2>2, <2>3, <2>4, Zenon DEF Request, Event
<1>3. CASE countAgain
  <2>1. answered' \in BOOLEAN BY <1>3, Zenon DEF countAgain
  <2>2. QED BY <1>3, <2>1, Zenon DEF countAgain
<1>4. CASE finishSourceStreamPausing
  <2>1. overtaken' \in BOOLEAN BY <1>4, Zenon DEF finishSourceStreamPausing
  <2>2. gap' \in Nat /\ mCurrentState' \in {"None", "Started", "Paused", "Stopped"}
        BY <1>4 DEF finishSourceStreamPausing
  <2>3. QED BY <1>4, <2>1, <2>2, Zenon DEF finishSourceStreamPausing
<1>5. CASE finishStreamSinkStopping
  <2>1. captured' \in Nat /\ gap' \in Nat /\ sampleTime' \in Int /\ prevTime' \in Nat
        BY <1>5 DEF finishStreamSinkStopping, Ended
  <2>2. overtaken' \in BOOLEAN BY <1>5, Zenon DEF finishStreamSinkStopping, Ended
  <2>3. mCurrentState' \in {"None", "Started", "Paused", "Stopped"}
        BY <1>5 DEF finishStreamSinkStopping, Ended
  <2>4. QED BY <1>5, <2>1, <2>2, <2>3, Zenon DEF finishStreamSinkStopping, Ended
<1>6. QED BY <1>1, <1>2, <1>3, <1>4, <1>5 DEF Session, pauseSources, stopSources

LEMMA TimesTypePush == ASSUME TypeOK, Push PROVE TypeOK'
<1>1. work \in Seq(Stamp) /\ work # << >> BY DEF TypeOK, Stamp, Push
<1>2. Tail(work) \in Seq(Stamp) /\ Head(work) \in Stamp BY <1>1, HeadTailProperties
<1>3. /\ mPauseOffset' \in Int /\ mLastTimeStamp' \in Int
  <2>1. Offset(Head(work)) \in Int BY <1>2 DEF Offset, TypeOK, Stamp
  <2>2. QED BY <1>2, <2>1 DEF Push, ProcessOutput, TypeOK, Stamp
<1>4. mFirstSample' \in BOOLEAN BY Zenon DEF Push, ProcessOutput, TypeOK
<1>5. work' \in Seq(Stamp) BY <1>2 DEF Push
<1>6. QED BY <1>3, <1>4, <1>5, Zenon
      DEF Push, TypeOK, sourceVars, stampVars, callVars, Stamp

LEMMA TimesTypeNext == ASSUME TypeOK, [Next]_vars PROVE TypeOK'
<1>1. CASE pause \/ resume
  <2>1. mIsPaused' \in BOOLEAN /\ mFirstSample' \in BOOLEAN
        BY <1>1, Zenon DEF pause, resume, TypeOK
  <2>2. QED BY <1>1, <2>1, Zenon DEF pause, resume, TypeOK, sourceVars, stampVars, callVars
<1>2. CASE UNCHANGED vars
      BY <1>2, Zenon DEF TypeOK, vars, sourceVars, stampVars, callVars, switchVars
<1>3. QED BY <1>1, <1>2, TimesTypeFrame, TimesTypeSession, TimesTypePush, TimesTypeCallback
      DEF Next

\* The stamps, the events and the samples queued keep their types.
THEOREM TimesTypeCorrect == Spec => []TypeOK
<1>1. QED BY TimesTypeInit, TimesTypeNext, PTL DEF Spec

\* The threads in a callback, of which there is one at most.
Busy  == {t \in Threads : ~ At(t, "idle")}
Alone == \A t, u \in Busy : t = u

\* The callback under way.
H == IF Busy = {} THEN Idle ELSE handler[CHOOSE t \in Busy : TRUE]

\* Nothing comes after the answer to a call, and a call that has its answer leaves
\* nothing behind.  A source that delivers is known to be started.
Answered ==
    /\ running => call = "idle" /\ mCurrentState = "Started"
    /\ running \/ mCurrentState # "Started" => gap = 0
    /\ mCurrentState = "None" => session = "None" /\ call = "idle" /\ prevTime = 0
    /\ \A i \in 1 .. Len(events) : events[i].type = "answer" => i = Len(events) /\ ~ running
    /\ ~ running /\ (call = "idle" \/ answered) => events = <<>> /\ H.step = "idle"

\* What a callback has read is what the stream still says, until it is written.
Stamped ==
    /\ H.step # "put" => sampleTime = lastEnd
    /\ H.step = "put" => H.time = lastEnd /\ sampleTime = H.time + H.duration
    /\ H.step \in {"prev", "time"} => H.time = sampleTime
    /\ H.step = "time" => prevTime = H.device

\* The stamps as they are when the callback under way has written them.
Ends     == sampleTime + (IF H.step \in {"prev", "time"} THEN H.duration ELSE 0)
Previous == IF H.step = "prev" THEN H.device ELSE prevTime

\* The device times of the samples whose durations are not known yet, and the times
\* up to which the source has delivered.
Later == {events[i].device : i \in {j \in 1 .. Len(events) : events[j].type = "sample"}}
Ahead == Later \cup (IF H.step = "read" THEN {H.device} ELSE {})
Until == Ahead \cup (IF running THEN {now} ELSE {})
UntilNoted == Ahead \cup (IF mCurrentState = "Started" THEN {now} ELSE {})

\* Samples are at least a nominal duration apart.
Spread ==
    /\ \A i, j \in 1 .. Len(events) :
         i < j /\ events[j].type = "sample" => events[i].device + Nominal <= events[j].device
    /\ \A x \in Ahead : x <= now /\ (Previous > 0 => Previous + Nominal <= x)
    /\ Previous <= now
    /\ H.step = "read" => \A x \in Later : H.device + Nominal <= x
    /\ H.step \in {"prev", "time"} => H.duration >= 0

\* There is room in time c for all samples to come: up to time x they begin where the
\* last one known was delivered, or a nominal duration before the first.
Fits(ends, previous, ahead, until, c) ==
    /\ ends <= c
    /\ \A x \in until : previous > 0 => ends + x - previous <= c
    /\ \A x \in until, d \in ahead : previous = 0 => ends + Nominal + x - d <= c

\* There is room in the time captured, and while the pipeline is started there is room
\* for a pause as well that it may fail to note.
Room == /\ Fits(Ends, Previous, Ahead, Until, captured)
        /\ Fits(Ends, Previous, Ahead, UntilNoted, captured + gap)

\* The samples in the work queue follow each other up to the last one queued.
NextTime == IF work = <<>> THEN lastEnd ELSE work[1].time

InARow ==
    \A i \in 1 .. Len(work) :
        work[i].time + work[i].duration = IF i = Len(work) THEN lastEnd ELSE work[i + 1].time

\* What has been passed on ends where the times of the switcher say, and a switcher that
\* has not been paused since goes on with the sample that is next.
Passed ==
    /\ passed # 0 => base.time + passed = mLastTimeStamp - mPauseOffset
    /\ passed # 0 => output.time + output.duration = base.time + passed
    /\ passed # 0 /\ ~ mFirstSample /\ ~ mIsPaused => mLastTimeStamp = NextTime

\* A switcher that was never paused has passed on all there was.
AllPassed ==
    switches = 0 =>
        /\ ~ mIsPaused /\ mPauseOffset = 0 /\ passed = NextTime
        /\ mFirstSample => passed = 0 /\ mLastTimeStamp = 0
        /\ passed # 0 => base.time = 0

\* What becomes of the callback under way, when a thread writes its locals.
LEMMA Becomes ==
  ASSUME TypeOK, NEW t \in Threads, \A u \in Threads \ {t} : At(u, "idle"),
         NEW h, handler' = [handler EXCEPT ![t] = h]
  PROVE  Alone' /\ H' = IF h.step = "idle" THEN Idle ELSE h
<1>1. handler \in [Threads -> Handler] BY DEF TypeOK, Handler
<1>2. handler'[t] = h /\ \A u \in Threads \ {t} : handler'[u].step = "idle"
      BY <1>1 DEF At
<1>3. Busy' = IF h.step = "idle" THEN {} ELSE {t} BY <1>2 DEF Busy, At
<1>4. Alone' BY <1>3 DEF Alone
<1>5. (CHOOSE u \in {t} : TRUE) = t OBVIOUS
<1>6. QED BY <1>2, <1>3, <1>4, <1>5 DEF H

\* What the lines of a callback do, as long as none is overtaken.
LEMMA OneCallback ==
  ASSUME TypeOK, Alone, ~ overtaken', NEW t \in Threads
  PROVE  /\ Callback(t) => Alone'
         /\ Take(t) => H.step = "idle"
         /\ Take(t) /\ Head(events).type # "answer" =>
              H'.step = "read" /\ H'.device = Head(events).device /\ H'.jump = Head(events).jump
         /\ ReadTimes(t) =>
              /\ H.step = "read" /\ H'.step = "prev" /\ H'.device = H.device /\ H = handler[t]
              /\ H'.time = sampleTime /\ H'.duration = Duration(t)
         /\ WritePrev(t) =>
              /\ H.step = "prev" /\ H'.step = "time" /\ H'.device = H.device /\ H = handler[t]
              /\ H'.time = H.time /\ H'.duration = H.duration
         /\ WriteTime(t) =>
              /\ H.step = "time" /\ H'.step = "put" /\ H'.time = H.time /\ H = handler[t]
              /\ H'.duration = H.duration
         /\ Put(t) => H.step = "put" /\ H'.step = "idle" /\ H = handler[t]
<1>1. handler \in [Threads -> Handler] /\ handler[t] \in Handler BY DEF TypeOK, Handler
<1>2. ASSUME ~ At(t, "idle") PROVE H = handler[t] /\ \A u \in Threads \ {t} : At(u, "idle")
  <2>1. Busy = {t} BY <1>2 DEF Alone, Busy
  <2>2. (CHOOSE u \in {t} : TRUE) = t OBVIOUS
  <2>3. QED BY <2>1, <2>2 DEF H, Busy
<1>3. ASSUME Take(t) PROVE \A u \in Threads : At(u, "idle")
  <2>1. \A u \in Threads \ {t} : At(u, "idle") BY <1>3, Zenon DEF Take
  <2>2. QED BY <1>3, <2>1 DEF Take
<1>4. Idle.step = "idle" BY DEF Idle
<1>5. ASSUME Take(t), Head(events).type = "answer" PROVE Alone' /\ H.step = "idle"
  <2>1. Busy = {} /\ handler' = handler BY <1>3, <1>5 DEF Busy, Take
  <2>2. QED BY <1>4, <2>1 DEF H, Alone, Busy, At
<1>6. ASSUME Take(t), Head(events).type # "answer"
      PROVE  /\ Alone' /\ H.step = "idle" /\ H'.step = "read"
             /\ H'.device = Head(events).device /\ H'.jump = Head(events).jump
  <2>1. Busy = {} BY <1>3, <1>6 DEF Busy
  <2>2. H.step = "idle" BY <1>4, <2>1 DEF H
  <2>. DEFINE h == [Idle EXCEPT !.step = "read", !.device = Head(events).device,
                                !.jump = Head(events).jump]
  <2>3. handler' = [handler EXCEPT ![t] = h] BY <1>6 DEF Take
  <2>4. h.step = "read" /\ h.device = Head(events).device /\ h.jump = Head(events).jump
        BY DEF Idle
  <2>. HIDE DEF h
  <2>5. Alone' /\ H' = h BY <1>3, <1>6, <2>3, <2>4, Becomes
  <2>6. QED BY <2>2, <2>4, <2>5
<1>7. ASSUME ReadTimes(t)
      PROVE  /\ Alone' /\ H = handler[t]
             /\ H.step = "read" /\ H'.step = "prev" /\ H'.device = H.device
             /\ H'.time = sampleTime /\ H'.duration = Duration(t)
  <2>. DEFINE h == [handler[t] EXCEPT !.step = "prev", !.time = sampleTime,
                                      !.duration = Duration(t)]
  <2>1. handler' = [handler EXCEPT ![t] = h] BY <1>1, <1>7 DEF ReadTimes
  <2>2. /\ h.step = "prev" /\ h.device = handler[t].device
        /\ h.time = sampleTime /\ h.duration = Duration(t)
        BY <1>1 DEF Handler
  <2>. HIDE DEF h
  <2>3. ~ At(t, "idle") /\ handler[t].step = "read" BY <1>7 DEF ReadTimes, At
  <2>4. Alone' /\ H' = h BY <1>2, <2>1, <2>2, <2>3, Becomes
  <2>5. QED BY <1>2, <2>2, <2>3, <2>4
<1>8. ASSUME NEW next, NEW line, At(t, line), line # "idle", next # "idle",
             handler' = [handler EXCEPT ![t].step = next]
      PROVE  /\ Alone' /\ H = handler[t]
             /\ H.step = line /\ H'.step = next /\ H'.device = H.device
             /\ H'.time = H.time /\ H'.duration = H.duration
  <2>. DEFINE h == [handler[t] EXCEPT !.step = next]
  <2>1. handler' = [handler EXCEPT ![t] = h] BY <1>1, <1>8
  <2>2. /\ h.step = next /\ h.device = handler[t].device
        /\ h.time = handler[t].time /\ h.duration = handler[t].duration
        BY <1>1 DEF Handler
  <2>. HIDE DEF h
  <2>3. ~ At(t, "idle") /\ handler[t].step = line BY <1>8 DEF At
  <2>4. Alone' /\ H' = h BY <1>2, <1>8, <2>1, <2>2, <2>3, Becomes
  <2>5. QED BY <1>2, <2>2, <2>3, <2>4
<1>9. ASSUME Put(t) PROVE Alone' /\ H = handler[t] /\ H.step = "put" /\ H'.step = "idle"
  <2>1. ~ At(t, "idle") /\ handler[t].step = "put" BY <1>9 DEF Put, At
  <2>2. Alone' /\ H' = Idle BY <1>2, <1>4, <1>9, <2>1, Becomes DEF Put
  <2>3. QED BY <1>2, <1>4, <2>1, <2>2
<1>10. WritePrev(t) => /\ Alone' /\ H.step = "prev" /\ H'.step = "time" /\ H'.device = H.device
                       /\ H'.time = H.time /\ H'.duration = H.duration /\ H = handler[t]
       BY <1>8 DEF WritePrev
<1>11. WriteTime(t) => /\ Alone' /\ H.step = "time" /\ H'.step = "put" /\ H'.time = H.time
                       /\ H'.duration = H.duration /\ H = handler[t]
       BY <1>8 DEF WriteTime
<1>12. QED BY <1>5, <1>6, <1>7, <1>9, <1>10, <1>11 DEF Callback

LEMMA UnderWay == ASSUME TypeOK PROVE H \in Handler
<1>1. Idle \in Handler BY DEF Idle, Handler
<1>2. handler \in [Threads -> Handler] BY DEF TypeOK, Handler
<1>3. Busy # {} => (CHOOSE t \in Busy : TRUE) \in Threads BY DEF Busy
<1>4. QED BY <1>1, <1>2, <1>3 DEF H

LEMMA StillIdle == ASSUME Still PROVE events = << >> /\ H.step = "idle" /\ Busy = {}
<1>1. Busy = {} BY DEF Still, Busy
<1>2. QED BY <1>1 DEF Still, H, Idle

\* A callback that was overtaken stays so.
LEMMA OvertakenStays == ASSUME [Next]_vars, ~ overtaken' PROVE ~ overtaken
<1>1. CASE Frame \/ Push \/ pause \/ resume \/ startSources \/ pauseSources \/ stopSources \/ countAgain
      BY <1>1, Zenon DEF Frame, Push, pause, resume, startSources, pauseSources, stopSources,
                         Request, countAgain
<1>2. ASSUME NEW t \in Threads, Callback(t) PROVE ~ overtaken
      BY <1>2, Zenon DEF Callback, Take, ReadTimes, WritePrev, WriteTime, Put
<1>3. CASE finishSourceStreamPausing BY <1>3, Zenon DEF finishSourceStreamPausing
<1>4. CASE finishStreamSinkStopping BY <1>4, Zenon DEF finishStreamSinkStopping, Ended
<1>5. CASE UNCHANGED vars BY <1>5, Zenon DEF vars
<1>6. QED BY <1>1, <1>2, <1>3, <1>4, <1>5 DEF Next, Session

\* The events without the first, and with another behind them.
LEMMA EventTail ==
  ASSUME NEW S, NEW q \in Seq(S), q # << >>
  PROVE  /\ Len(q) \in Nat \ {0} /\ Head(q) = q[1] /\ Head(q) \in S
         /\ Tail(q) \in Seq(S) /\ Len(Tail(q)) = Len(q) - 1
         /\ \A i \in 1 .. Len(q) - 1 : Tail(q)[i] = q[i + 1]
         /\ Len(q) = 1 => Tail(q) = << >>
<1>1. Len(q) \in Nat \ {0} BY EmptySeq, LenProperties
<1>2. /\ Head(q) = q[1] /\ Head(q) \in S /\ Tail(q) \in Seq(S) /\ Len(Tail(q)) = Len(q) - 1
      /\ \A i \in 1 .. Len(q) - 1 : Tail(q)[i] = q[i + 1]
      BY HeadTailProperties
<1>3. QED BY <1>1, <1>2, EmptySeq

LEMMA EventAppend ==
  ASSUME NEW S, NEW q \in Seq(S), NEW e \in S
  PROVE  /\ Len(q) \in Nat
         /\ Append(q, e) \in Seq(S) /\ Len(Append(q, e)) = Len(q) + 1
         /\ \A i \in 1 .. Len(q) : Append(q, e)[i] = q[i]
         /\ Append(q, e)[Len(q) + 1] = e
BY AppendProperties, LenProperties

LEMMA AnsweredInit == Init => Alone /\ Answered /\ Stamped
<1>1. Init => Still BY DEF Init, Still, At, Idle
<1>2. Init => H.step = "idle" /\ Alone BY <1>1, StillIdle DEF Alone
<1>3. QED BY <1>2 DEF Init, Answered, Stamped, running

LEMMA AnsweredFrame == ASSUME TypeOK, Answered, Frame PROVE Answered'
<1>1. /\ UNCHANGED <<session, running, mCurrentState, call, answered, prevTime, H>>
      /\ running \/ mCurrentState # "Started" => gap' = gap
      BY DEF Frame, H, Busy, At, stampVars, callVars, running, TypeOK
<1>2. CASE UNCHANGED events BY <1>1, <1>2 DEF Answered
<1>3. ASSUME running, NEW j \in BOOLEAN,
             events' = Append(events, [type |-> "sample", device |-> now', jump |-> j])
      PROVE  Answered'
  <2>1. now' \in Nat BY TimesTypeFrame DEF TypeOK
  <2>2. [type |-> "sample", device |-> now', jump |-> j] \in Event /\ events \in Seq(Event)
        BY <2>1 DEF TypeOK, Event
  <2>3. /\ Len(events) \in Nat /\ Len(events') = Len(events) + 1
        /\ \A i \in 1 .. Len(events) : events'[i] = events[i]
        /\ events'[Len(events) + 1].type = "sample"
        BY <1>3, <2>2, EventAppend
  <2>4. \A i \in 1 .. Len(events') : events'[i].type # "answer"
    <3>1. ASSUME NEW i \in 1 .. Len(events') PROVE events'[i].type # "answer"
      <4>1. CASE i = Len(events) + 1 BY <2>3, <4>1
      <4>2. CASE i # Len(events) + 1
            BY <1>3, <2>3, <4>2 DEF Answered
      <4>3. QED BY <4>1, <4>2
    <3>2. QED BY <3>1
  <2>5. QED BY <1>1, <1>3, <2>4 DEF Answered
<1>4. QED BY <1>2, <1>3 DEF Frame

LEMMA AnsweredCallback ==
  ASSUME TypeOK, ~ overtaken', Alone, Answered, Stamped, NEW t \in Threads, Callback(t)
  PROVE  Alone' /\ Answered' /\ Stamped'
<1>. USE OneCallback
<1>1. CASE Take(t)
  <2>1. events \in Seq(Event) /\ events # << >> BY <1>1 DEF TypeOK, Event, Take
  <2>2. /\ Len(events) \in Nat \ {0} /\ Head(events) = events[1]
        /\ Len(Tail(events)) = Len(events) - 1
        /\ \A i \in 1 .. Len(events) - 1 : Tail(events)[i] = events[i + 1]
        /\ Len(events) = 1 => Tail(events) = << >>
        BY <2>1, EventTail
  <2>3. UNCHANGED <<session, running, mCurrentState, call, gap, prevTime, sampleTime, lastEnd>>
        /\ events' = Tail(events)
        BY <1>1 DEF Take, stampVars, running
  <2>4. CASE Head(events).type = "answer"
    <3>1. H' = H /\ H.step = "idle" BY <1>1, <2>4 DEF Take, H, Busy, At
    <3>2. 1 \in 1 .. Len(events) BY <2>2
    <3>3. Len(events) = 1 /\ ~ running BY <2>2, <2>4, <3>2 DEF Answered
    <3>4. events' = << >> /\ Len(events') = 0 BY <2>2, <2>3, <3>3
    <3>5. Answered' BY <2>3, <3>1, <3>3, <3>4 DEF Answered
    <3>6. Stamped' BY <2>3, <3>1 DEF Stamped
    <3>7. QED BY <1>1, <3>5, <3>6 DEF Callback
  <2>5. CASE Head(events).type # "answer"
    <3>1. answered' = answered /\ H'.step = "read" /\ H.step = "idle"
          BY <1>1, <2>5 DEF Take
    <3>2. running \/ (call # "idle" /\ ~ answered) BY <2>1 DEF Answered
    <3>3. \A i \in 1 .. Len(events') :
            events'[i].type = "answer" => i = Len(events') /\ ~ running'
      <4>1. ASSUME NEW i \in 1 .. Len(events'), events'[i].type = "answer"
            PROVE  i = Len(events') /\ ~ running'
        <5>1. /\ i + 1 \in 1 .. Len(events) /\ i \in 1 .. Len(events) - 1
              /\ Len(events') = Len(events) - 1
              BY <2>2, <2>3
        <5>2. events[i + 1].type = "answer" BY <2>2, <2>3, <4>1, <5>1
        <5>3. i + 1 = Len(events) /\ ~ running BY <5>1, <5>2 DEF Answered
        <5>4. i = Len(events') BY <5>1, <5>3
        <5>5. QED BY <2>3, <5>3, <5>4, Zenon
      <4>2. QED BY <4>1
    <3>4. Answered' BY <2>3, <3>1, <3>2, <3>3 DEF Answered
    <3>5. QED BY <1>1, <2>3, <3>1, <3>4 DEF Stamped, Callback
  <2>6. QED BY <2>4, <2>5
<1>2. ASSUME UNCHANGED <<session, events, mCurrentState, call, answered, gap>>,
             H.step # "idle", mCurrentState # "None" \/ UNCHANGED prevTime
      PROVE  Answered'
      BY <1>2 DEF Answered, running
<1>3. mCurrentState = "None" => H.step = "idle" BY DEF Answered, running
<1>4. CASE ReadTimes(t)
  <2>1. Answered' BY <1>2, <1>4 DEF ReadTimes, sourceVars, stampVars, callVars
  <2>2. QED BY <1>4, <2>1 DEF Stamped, ReadTimes, stampVars, Callback
<1>5. CASE WritePrev(t)
  <2>1. Answered' BY <1>2, <1>3, <1>5 DEF WritePrev, sourceVars, callVars
  <2>2. prevTime' = H.device BY <1>5 DEF WritePrev
  <2>3. QED BY <1>5, <2>1, <2>2 DEF Stamped, WritePrev, Callback
<1>6. CASE WriteTime(t)
  <2>1. Answered' BY <1>2, <1>6 DEF WriteTime, sourceVars, callVars
  <2>2. sampleTime' = H.time + H.duration BY <1>6 DEF WriteTime
  <2>3. QED BY <1>6, <2>1, <2>2 DEF Stamped, WriteTime, Callback
<1>7. CASE Put(t)
  <2>1. Answered' BY <1>2, <1>7 DEF Put, sourceVars, stampVars, callVars
  <2>2. lastEnd' = H.time + H.duration BY <1>7 DEF Put
  <2>3. QED BY <1>7, <2>1, <2>2 DEF Stamped, Put, stampVars, Callback
<1>8. QED BY <1>1, <1>4, <1>5, <1>6, <1>7 DEF Callback

\* Calls that return find the stream still.
LEMMA Returns ==
  ASSUME ~ overtaken'
  PROVE  /\ finishSourceStreamPausing => Still
         /\ Ended => Still /\ work = << >>
<1>1. finishSourceStreamPausing => Still BY Zenon DEF finishSourceStreamPausing
<1>2. Ended => Still /\ work = << >> BY Zenon DEF Ended
<1>3. QED BY <1>1, <1>2

LEMMA AnsweredSession ==
  ASSUME ~ overtaken', TypeOK, Alone, Answered, Stamped, Session
  PROVE  Alone' /\ Answered' /\ Stamped'
<1>1. H' = H /\ Alone'
      BY DEF Session, startSources, pauseSources, stopSources, Request, countAgain,
             finishSourceStreamPausing, finishStreamSinkStopping, Ended, H, Busy, At, Alone
<1>2. CASE startSources
  <2>1. running' /\ UNCHANGED <<events, sampleTime, lastEnd, call>> /\ gap' = 0
        /\ call = "idle" /\ mCurrentState' = "Started"
        /\ (mCurrentState = "Started" => prevTime' = prevTime)
        BY <1>2 DEF startSources, running
  <2>2. CASE running
    <3>1. mCurrentState = "Started" BY <2>2 DEF Answered
    <3>2. \A i \in 1 .. Len(events) : events[i].type # "answer" BY <2>2 DEF Answered
    <3>3. QED BY <1>1, <2>1, <3>1, <3>2 DEF Answered, Stamped
  <2>3. CASE ~ running
    <3>1. events = << >> /\ Len(events) = 0 /\ H.step = "idle" BY <2>1, <2>3 DEF Answered
    <3>2. QED BY <1>1, <2>1, <3>1 DEF Answered, Stamped
  <2>4. QED BY <2>2, <2>3
<1>3. ASSUME NEW c \in {"asked", "stopping"}, NEW state \in {"Paused", "Stopped"},
             session # "None", Request(c, state)
      PROVE  Alone' /\ Answered' /\ Stamped'
  <2>1. Answer \in Event /\ Answer.type = "answer" /\ events \in Seq(Event)
        BY DEF TypeOK, Answer, Event
  <2>2. /\ Len(events) \in Nat /\ Len(events') = Len(events) + 1
        /\ \A i \in 1 .. Len(events) : events'[i] = events[i]
        BY <1>3, <2>1, EventAppend DEF Request
  <2>3. \A i \in 1 .. Len(events) : events[i].type # "answer"
        BY <1>3, <2>2, EmptySeq DEF Answered, Request
  <2>4. ~ running' BY <1>3 DEF Request, running
  <2>5. \A i \in 1 .. Len(events') :
          events'[i].type = "answer" => i = Len(events') /\ ~ running'
        BY <2>2, <2>3, <2>4
  <2>6. /\ UNCHANGED <<mCurrentState, gap, prevTime, sampleTime, lastEnd>>
        /\ call' # "idle" /\ ~ answered' /\ mCurrentState # "None"
        BY <1>3 DEF Request, stampVars, Answered
  <2>7. Answered' BY <1>1, <2>4, <2>5, <2>6 DEF Answered
  <2>8. QED BY <1>1, <2>6, <2>7 DEF Stamped
<1>4. CASE countAgain
  <2>1. /\ UNCHANGED <<session, events, gap, mCurrentState, stampVars, lastEnd>>
        /\ call = "asked" /\ call' = "pausing" /\ ~ answered'
        BY <1>4 DEF countAgain, sourceVars
  <2>2. QED BY <1>1, <2>1 DEF Answered, Stamped, running, stampVars
<1>5. CASE finishSourceStreamPausing
  <2>1. events = << >> /\ Len(events) = 0 /\ H.step = "idle" BY <1>5, Returns, StillIdle
  <2>2. /\ UNCHANGED <<session, events, stampVars, lastEnd>> /\ call = "pausing"
        /\ call' = "idle"
        /\ \/ mCurrentState' = "Paused" /\ gap' = 0
           \/ UNCHANGED <<mCurrentState, gap>>
        BY <1>5 DEF finishSourceStreamPausing
  <2>3. ~ running BY <2>2 DEF Answered
  <2>4. QED BY <1>1, <2>1, <2>2, <2>3 DEF Answered, Stamped, running, stampVars
<1>6. CASE finishStreamSinkStopping
  <2>1. events = << >> /\ Len(events) = 0 /\ H.step = "idle"
        BY <1>6, Returns, StillIdle DEF finishStreamSinkStopping
  <2>2. /\ UNCHANGED <<session, events>> /\ call = "stopping" /\ call' = "idle"
        /\ gap' = 0 /\ sampleTime' = 0 /\ prevTime' = 0 /\ lastEnd' = 0
        /\ mCurrentState' \in {"Stopped", mCurrentState}
        BY <1>6 DEF finishStreamSinkStopping, Ended
  <2>3. ~ running BY <2>2 DEF Answered
  <2>4. mCurrentState # "None" BY <2>2 DEF Answered
  <2>5. QED BY <1>1, <2>1, <2>2, <2>3, <2>4 DEF Answered, Stamped, running
<1>7. QED BY <1>2, <1>3, <1>4, <1>5, <1>6 DEF Session, pauseSources, stopSources, running

Tidy == Alone /\ Answered /\ Stamped

LEMMA AnsweredAlways == Spec => [](TypeOK /\ (~ overtaken => Tidy))
<1>1. TypeOK /\ (~ overtaken => Tidy) /\ [Next]_vars => (~ overtaken' => Tidy')
  <2>. SUFFICES ASSUME TypeOK, ~ overtaken => Tidy, [Next]_vars, ~ overtaken' PROVE Tidy'
       OBVIOUS
  <2>1. Alone /\ Answered /\ Stamped BY OvertakenStays DEF Tidy
  <2>. USE DEF Tidy
  <2>2. CASE Push \/ pause \/ resume \/ UNCHANGED vars
    <3>1. UNCHANGED <<sourceVars, handler, stampVars, callVars, lastEnd>>
          BY <2>2 DEF Push, pause, resume, vars
    <3>2. QED BY <2>1, <3>1
          DEF Alone, Answered, Stamped, running, H, Busy, At, sourceVars, stampVars, callVars
  <2>3. CASE Frame
    <3>1. UNCHANGED <<sampleTime, prevTime, lastEnd, H, Busy>>
          BY <2>3 DEF Frame, stampVars, H, Busy, At
    <3>2. QED BY <2>1, <2>3, <3>1, AnsweredFrame DEF Stamped, Alone
  <2>4. QED BY <2>1, <2>2, <2>3, AnsweredCallback, AnsweredSession DEF Next
<1>2. Init => Tidy BY AnsweredInit DEF Tidy
<1>3. QED BY <1>1, <1>2, TimesTypeInit, TimesTypeNext, PTL DEF Spec

\* Each sample begins where the one before has ended, the first after a stop at zero,
\* across pauses, restarts and waits that expire, until a callback is overtaken: nothing
\* else can mix the stamps, which are read and written without a lock.
THEOREM ContiguousCorrect == Spec => Contiguous
<1>1. TypeOK /\ (~ overtaken => Tidy) /\ [Next]_vars =>
        (\A t \in Threads : Put(t) /\ ~ overtaken => handler[t].time = lastEnd)
  <2>. SUFFICES ASSUME TypeOK, Tidy, ~ overtaken, NEW t \in Threads, Put(t)
                PROVE  handler[t].time = lastEnd
       OBVIOUS
  <2>1. ~ overtaken' BY Zenon DEF Put
  <2>2. QED BY <2>1, OneCallback DEF Tidy, Stamped
<1>2. QED BY <1>1, AnsweredAlways, PTL DEF Contiguous, Spec

Dated == Spread /\ Room

LEMMA DatedTypes ==
  ASSUME TypeOK
  PROVE  /\ now \in Nat /\ Nominal \in Nat /\ captured \in Nat /\ gap \in Nat
         /\ sampleTime \in Int /\ prevTime \in Nat /\ H \in Handler
         /\ Later \subseteq Nat /\ Ahead \subseteq Nat
         /\ Until \subseteq Nat /\ UntilNoted \subseteq Nat
         /\ Ends \in Int /\ Previous \in Nat
<1>1. H \in Handler BY UnderWay
<1>2. now \in Nat /\ Nominal \in Nat /\ captured \in Nat /\ gap \in Nat
      /\ sampleTime \in Int /\ prevTime \in Nat
      BY TimesAssumption DEF TypeOK
<1>3. H.device \in Nat /\ H.duration \in Int BY <1>1 DEF Handler
<1>4. Later \subseteq Nat
  <2>1. events \in Seq(Event) BY DEF TypeOK, Event
  <2>2. \A i \in 1 .. Len(events) : events[i] \in Event BY <2>1
  <2>3. \A e \in Event : e.device \in Nat BY DEF Event
  <2>4. QED BY <2>2, <2>3 DEF Later
<1>5. Ahead \subseteq Nat BY <1>3, <1>4 DEF Ahead
<1>6. Until \subseteq Nat /\ UntilNoted \subseteq Nat BY <1>2, <1>5 DEF Until, UntilNoted
<1>7. Ends \in Int /\ Previous \in Nat BY <1>2, <1>3 DEF Ends, Previous
<1>8. QED BY <1>1, <1>2, <1>4, <1>5, <1>6, <1>7

\* Room stays when less is to come, when time goes on that is captured, and when a
\* sample is given its duration.
LEMMA FitsFewer ==
  ASSUME NEW e \in Int, NEW p \in Nat, NEW c \in Nat, NEW ahead, NEW until,
         NEW fewer, NEW earlier, fewer \subseteq ahead, earlier \subseteq until,
         Fits(e, p, ahead, until, c)
  PROVE  Fits(e, p, fewer, earlier, c)
BY DEF Fits

LEMMA FitsGrows ==
  ASSUME NEW e \in Int, NEW p \in Nat, NEW c \in Nat, NEW m \in Nat,
         NEW ahead \in SUBSET Nat, NEW until \in SUBSET Nat,
         m \in until, \A x \in until : x <= m, Fits(e, p, ahead, until, c),
         NEW more, NEW longer,
         more \subseteq ahead \cup {m + Nominal}, longer \subseteq until \cup {m + Nominal}
  PROVE  Fits(e, p, more, longer, c + Nominal)
<1>1. Nominal \in Nat BY TimesAssumption
<1>2. e <= c /\ e <= c + Nominal BY <1>1 DEF Fits
<1>3. ASSUME NEW x \in longer, p > 0 PROVE e + x - p <= c + Nominal
  <2>1. e + m - p <= c /\ (x \in until => e + x - p <= c) BY <1>3 DEF Fits
  <2>2. QED BY <1>1, <1>3, <2>1
<1>4. ASSUME NEW x \in longer, NEW d \in more, p = 0 PROVE e + Nominal + x - d <= c + Nominal
  <2>1. x \in Nat /\ d \in Nat /\ x <= m + Nominal BY <1>1
  <2>2. CASE d \in ahead
    <3>1. /\ e + Nominal + m - d <= c
          /\ x \in until => e + Nominal + x - d <= c
          BY <1>4, <2>2 DEF Fits
    <3>2. QED BY <1>1, <2>1, <3>1
  <2>3. CASE d = m + Nominal BY <1>1, <1>2, <2>1, <2>3
  <2>4. QED BY <2>2, <2>3
<1>5. QED BY <1>2, <1>3, <1>4 DEF Fits

LEMMA FitsRead ==
  ASSUME NEW e \in Int, NEW p \in Nat, NEW c \in Nat, NEW d \in Nat, NEW length \in Int,
         NEW ahead \in SUBSET Nat, NEW until \in SUBSET Nat,
         d \in ahead, ahead \subseteq until, p > 0 => p + Nominal <= d,
         Fits(e, p, ahead, until, c),
         length = Nominal \/ length = d - p, p = 0 => length = Nominal,
         NEW later \in SUBSET Nat, \A x \in later : d + Nominal <= x,
         NEW earlier, earlier \subseteq until
  PROVE  Fits(e + length, d, later, earlier, c)
<1>1. Nominal \in Nat /\ d \in until BY TimesAssumption
<1>2. CASE p > 0
  <2>1. e + d - p <= c BY <1>1, <1>2 DEF Fits
  <2>2. length >= 0 /\ length <= d - p /\ d > 0 BY <1>1, <1>2
  <2>3. ASSUME NEW x \in earlier PROVE (e + length) + x - d <= c
    <3>1. x \in Nat /\ e + x - p <= c BY <1>2 DEF Fits
    <3>2. QED BY <2>2, <3>1
  <2>4. e + length <= c BY <2>1, <2>2
  <2>5. QED BY <2>2, <2>3, <2>4 DEF Fits
<1>3. CASE p = 0
  <2>1. length = Nominal /\ e + Nominal + d - d <= c BY <1>1, <1>3 DEF Fits
  <2>2. e + length <= c /\ length >= 0 BY <1>1, <2>1
  <2>3. ASSUME NEW x \in earlier PROVE x \in Nat /\ e + Nominal + x - d <= c
        BY <1>3 DEF Fits
  <2>4. \A x \in earlier : d > 0 => (e + length) + x - d <= c BY <1>1, <2>1, <2>3
  <2>5. ASSUME NEW x \in earlier, NEW y \in later, d = 0
        PROVE  (e + length) + Nominal + x - y <= c
    <3>1. x \in Nat /\ y \in Nat /\ Nominal <= y /\ e + Nominal + x - d <= c BY <1>1, <2>3, <2>5
    <3>2. QED BY <1>1, <2>1, <2>5, <3>1
  <2>6. QED BY <2>2, <2>4, <2>5 DEF Fits
<1>4. QED BY <1>2, <1>3

\* A step that leaves the stamps and has nothing more to come.
LEMMA DatedKeeps ==
  ASSUME TypeOK, TypeOK', Dated,
         UNCHANGED <<Ends, Previous, captured, gap>>, now <= now',
         Ahead' \subseteq Ahead, Until' \subseteq Until, UntilNoted' \subseteq UntilNoted
  PROVE  /\ Room' /\ Previous' <= now'
         /\ \A x \in Ahead' : x <= now' /\ (Previous' > 0 => Previous' + Nominal <= x)
<1>1. now' \in Nat /\ Nominal \in Nat /\ captured + gap \in Nat BY DatedTypes DEF TypeOK
<1>2. Room' BY <1>1, DatedTypes, FitsFewer DEF Dated, Room
<1>3. \A x \in Ahead' : x <= now' /\ (Previous' > 0 => Previous' + Nominal <= x)
      BY <1>1, DatedTypes DEF Dated, Spread
<1>4. Previous' <= now' BY <1>1, DatedTypes DEF Dated, Spread
<1>5. QED BY <1>2, <1>3, <1>4

LEMMA DatedInit == ASSUME Init PROVE Dated
<1>1. Still BY DEF Init, Still, At, Idle
<1>2. H.step = "idle" BY <1>1, StillIdle
<1>3. events = << >> /\ Len(events) = 0 /\ ~ running /\ sampleTime = 0 /\ captured = 0
      /\ prevTime = 0 /\ now = 0 /\ gap = 0 /\ mCurrentState = "None"
      BY DEF Init, running
<1>4. Ahead = {} /\ Until = {} /\ UntilNoted = {} /\ Ends = 0 /\ Previous = 0
      BY <1>2, <1>3 DEF Later, Ahead, Until, UntilNoted, Ends, Previous
<1>5. QED BY <1>2, <1>3, <1>4 DEF Dated, Spread, Room, Fits, Ahead

LEMMA DatedFrame == ASSUME TypeOK, TypeOK', Tidy, Dated, Frame PROVE Dated'
<1>1. /\ UNCHANGED <<session, running, mCurrentState, H, sampleTime, prevTime, Ends, Previous>>
      /\ now' = now + Nominal /\ captured' = captured + IF running THEN Nominal ELSE 0
      /\ gap' = gap + IF ~ running /\ mCurrentState = "Started" THEN Nominal ELSE 0
      BY DEF Frame, H, Busy, At, stampVars, callVars, Ends, Previous, running
<1>2. /\ now \in Nat /\ Nominal \in Nat /\ captured \in Nat /\ gap \in Nat
      /\ Ends \in Int /\ Previous \in Nat
      /\ Later \subseteq Nat /\ Ahead \subseteq Nat /\ Until \subseteq Nat
      /\ UntilNoted \subseteq Nat /\ captured + gap \in Nat
      BY DatedTypes
<1>3. \A x \in Ahead : x <= now BY DEF Dated, Spread
<1>4. ASSUME Later' \subseteq Later \cup (IF running THEN {now'} ELSE {}) PROVE Room'
  <2>1. \A x \in Until \cup UntilNoted : x <= now BY <1>2, <1>3 DEF Until, UntilNoted
  <2>2. running => mCurrentState = "Started" BY DEF Tidy, Answered
  <2>3. Ahead' \subseteq Ahead \cup (IF running THEN {now'} ELSE {}) BY <1>1, <1>4 DEF Ahead
  <2>4. Fits(Ends, Previous, Ahead, Until, captured)'
    <3>1. CASE running
      <4>1. Ahead' \subseteq Ahead \cup {now + Nominal} /\ Until' \subseteq Until \cup {now + Nominal}
            /\ now \in Until /\ captured' = captured + Nominal
            BY <1>1, <2>3, <3>1 DEF Until
      <4>2. Fits(Ends, Previous, Ahead', Until', captured + Nominal)
            BY <1>2, <2>1, <4>1, FitsGrows DEF Dated, Room
      <4>3. QED BY <1>1, <4>1, <4>2
    <3>2. CASE ~ running
      <4>1. Ahead' \subseteq Ahead /\ Until' \subseteq Until /\ captured' = captured
            BY <1>1, <1>2, <2>3, <3>2 DEF Until
      <4>2. QED BY <1>1, <1>2, <4>1, FitsFewer DEF Dated, Room
    <3>3. QED BY <3>1, <3>2
  <2>5. Fits(Ends, Previous, Ahead, UntilNoted, captured + gap)'
    <3>1. CASE mCurrentState = "Started"
      <4>1. /\ Ahead' \subseteq Ahead \cup {now + Nominal}
            /\ UntilNoted' \subseteq UntilNoted \cup {now + Nominal}
            /\ now \in UntilNoted
            BY <1>1, <2>3, <3>1 DEF UntilNoted
      <4>2. captured' + gap' = (captured + gap) + Nominal BY <1>1, <1>2, <3>1
      <4>3. Fits(Ends, Previous, Ahead', UntilNoted', (captured + gap) + Nominal)
            BY <1>2, <2>1, <4>1, FitsGrows DEF Dated, Room
      <4>4. QED BY <1>1, <4>2, <4>3
    <3>2. CASE mCurrentState # "Started"
      <4>1. Ahead' \subseteq Ahead /\ UntilNoted' \subseteq UntilNoted
            /\ captured' + gap' = captured + gap
            BY <1>1, <1>2, <2>2, <2>3, <3>2 DEF UntilNoted
      <4>2. QED BY <1>1, <1>2, <4>1, FitsFewer DEF Dated, Room
    <3>3. QED BY <3>1, <3>2
  <2>6. QED BY <2>4, <2>5 DEF Room
<1>5. CASE UNCHANGED events
  <2>1. Later' = Later /\ Ahead' = Ahead BY <1>1, <1>5 DEF Later, Ahead
  <2>2. Room' BY <1>4, <2>1
  <2>3. Previous' <= now' /\ \A x \in Ahead' : x <= now'
        BY <1>1, <1>2, <1>3, <2>1 DEF Dated, Spread
  <2>4. QED BY <1>1, <1>5, <2>1, <2>2, <2>3 DEF Dated, Spread
<1>6. ASSUME running, NEW j \in BOOLEAN,
             events' = Append(events, [type |-> "sample", device |-> now', jump |-> j])
      PROVE  Dated'
  <2>1. now' \in Nat BY <1>1, <1>2
  <2>2. [type |-> "sample", device |-> now', jump |-> j] \in Event /\ events \in Seq(Event)
        BY <2>1 DEF TypeOK, Event
  <2>3. /\ Len(events) \in Nat /\ Len(events') = Len(events) + 1
        /\ \A i \in 1 .. Len(events) : events'[i] = events[i]
        /\ events'[Len(events) + 1].device = now'
        BY <1>6, <2>2, EventAppend
  <2>4. Later' \subseteq Later \cup {now'} BY <2>3 DEF Later
  <2>5. Room' BY <1>4, <1>6, <2>4
  <2>6. \A i \in 1 .. Len(events) : events[i].type = "sample"
    <3>1. \A i \in 1 .. Len(events) : events[i] \in Event /\ events[i].type # "answer"
          BY <1>6, <2>2 DEF Tidy, Answered
    <3>2. QED BY <3>1 DEF Event
  <2>7. \A i \in 1 .. Len(events) : events[i].device \in Later BY <2>6 DEF Later
  <2>8. ASSUME NEW i \in 1 .. Len(events'), NEW k \in 1 .. Len(events'),
               i < k, events'[k].type = "sample"
        PROVE  events'[i].device + Nominal <= events'[k].device
    <3>1. i \in 1 .. Len(events) /\ events'[i] = events[i] BY <2>3, <2>8
    <3>2. CASE k \in 1 .. Len(events) BY <2>3, <2>8, <3>1, <3>2 DEF Dated, Spread
    <3>3. CASE k = Len(events) + 1
      <4>1. events[i].device \in Nat /\ events[i].device <= now
            BY <1>2, <1>3, <2>7, <3>1 DEF Ahead
      <4>2. QED BY <1>1, <1>2, <2>3, <3>1, <3>3, <4>1
    <3>4. QED BY <2>3, <3>2, <3>3
  <2>9. Ahead' \subseteq Ahead \cup {now'} BY <1>1, <2>4 DEF Ahead
  <2>10. /\ Previous <= now /\ Previous' <= now' /\ Previous + Nominal <= now'
         /\ H.step = "read" => H.device + Nominal <= now'
    <3>1. H.step = "read" => H.device \in Ahead BY DEF Ahead
    <3>2. H.step = "read" => H.device \in Nat /\ H.device <= now BY <1>2, <1>3, <3>1
    <3>3. Previous <= now BY DEF Dated, Spread
    <3>4. H.step = "read" => H.device + Nominal <= now' BY <1>1, <1>2, <3>2
    <3>5. Previous' <= now' /\ Previous + Nominal <= now' BY <1>1, <1>2, <3>3
    <3>6. QED BY <3>3, <3>4, <3>5
  <2>11. \A x \in Ahead' : x <= now' /\ (Previous' > 0 => Previous' + Nominal <= x)
    <3>1. ASSUME NEW x \in Ahead'
          PROVE  x <= now' /\ (Previous' > 0 => Previous' + Nominal <= x)
      <4>1. CASE x = now' BY <1>1, <1>2, <2>10, <4>1
      <4>2. CASE x \in Ahead
        <5>1. x \in Nat /\ x <= now /\ (Previous > 0 => Previous + Nominal <= x)
              BY <1>2, <1>3, <4>2 DEF Dated, Spread
        <5>2. QED BY <1>1, <1>2, <5>1
      <4>3. QED BY <2>9, <4>1, <4>2
    <3>2. QED BY <3>1
  <2>12. H'.step = "read" => \A x \in Later' : H'.device + Nominal <= x
         BY <1>1, <2>4, <2>10 DEF Dated, Spread
  <2>13. H'.step \in {"prev", "time"} => H'.duration >= 0 BY <1>1 DEF Dated, Spread
  <2>14. QED BY <2>5, <2>8, <2>10, <2>11, <2>12, <2>13 DEF Dated, Spread
<1>7. QED BY <1>5, <1>6 DEF Frame

LEMMA DatedTake ==
  ASSUME TypeOK, TypeOK', ~ overtaken', Tidy, Dated, NEW t \in Threads, Take(t) PROVE Dated'
<1>1. events \in Seq(Event) /\ events # << >> BY DEF TypeOK, Event, Take
<1>2. /\ Len(events) \in Nat \ {0} /\ Head(events) = events[1] /\ Head(events) \in Event
      /\ Len(events') = Len(events) - 1
      /\ \A i \in 1 .. Len(events) - 1 : events'[i] = events[i + 1]
      BY <1>1, EventTail DEF Take
<1>3. /\ UNCHANGED <<now, running, mCurrentState, captured, gap, sampleTime, prevTime>>
      /\ H.step = "idle"
      BY OneCallback DEF Take, stampVars, running, Tidy
<1>4. ASSUME NEW i \in 1 .. Len(events')
      PROVE  i + 1 \in 1 .. Len(events) /\ events'[i] = events[i + 1]
      BY <1>2
<1>5. Later' \subseteq Later BY <1>4 DEF Later
<1>6. \A i, j \in 1 .. Len(events') :
        i < j /\ events'[j].type = "sample" =>
          events'[i].device + Nominal <= events'[j].device
  <2>1. ASSUME NEW i \in 1 .. Len(events'), NEW j \in 1 .. Len(events'),
               i < j, events'[j].type = "sample"
        PROVE  events'[i].device + Nominal <= events'[j].device
    <3>1. i + 1 < j + 1 BY <2>1
    <3>2. QED BY <1>4, <2>1, <3>1 DEF Dated, Spread
  <2>2. QED BY <2>1
<1>7. CASE Head(events).type = "answer"
  <2>1. H' = H BY <1>7 DEF Take, H, Busy, At
  <2>2. /\ UNCHANGED <<Ends, Previous>> /\ Ahead' \subseteq Ahead /\ Until' \subseteq Until
        /\ UntilNoted' \subseteq UntilNoted
        BY <1>3, <1>5, <2>1 DEF Ends, Previous, Ahead, Until, UntilNoted
  <2>3. now <= now' BY <1>3, DatedTypes
  <2>4. QED BY <1>3, <1>6, <2>1, <2>2, <2>3, DatedKeeps DEF Dated, Spread
<1>8. CASE Head(events).type # "answer"
  <2>1. H'.step = "read" /\ H'.device = events[1].device /\ events[1].type = "sample"
        BY <1>2, <1>8, OneCallback DEF Event, Tidy
  <2>2. events[1].device \in Later BY <1>2, <2>1 DEF Later
  <2>3. UNCHANGED <<Ends, Previous>> BY <1>3, <2>1 DEF Ends, Previous
  <2>4. Ahead' \subseteq Ahead /\ Until' \subseteq Until /\ UntilNoted' \subseteq UntilNoted
        BY <1>3, <1>5, <2>1, <2>2 DEF Ahead, Until, UntilNoted
  <2>5. ASSUME NEW x \in Later' PROVE H'.device + Nominal <= x
    <3>1. PICK i \in 1 .. Len(events') : events'[i].type = "sample" /\ x = events'[i].device
          BY DEF Later
    <3>2. 1 \in 1 .. Len(events) /\ 1 < i + 1 BY <1>2
    <3>3. QED BY <1>4, <2>1, <3>1, <3>2 DEF Dated, Spread
  <2>6. now <= now' BY <1>3, DatedTypes
  <2>7. QED BY <1>3, <1>6, <2>1, <2>3, <2>4, <2>5, <2>6, DatedKeeps DEF Dated, Spread
<1>9. QED BY <1>7, <1>8

\* The duration of a sample is paid for by the time that was captured up to it.
LEMMA DatedRead ==
  ASSUME TypeOK, TypeOK', ~ overtaken', Tidy, Dated, NEW t \in Threads, ReadTimes(t)
  PROVE  Dated'
<1>. DEFINE d == H.device
            length == Duration(t)
<1>1. /\ UNCHANGED <<now, running, mCurrentState, captured, gap, events, sampleTime, prevTime>>
      /\ H.step = "read" /\ H'.step = "prev" /\ H'.device = d /\ H = handler[t]
      /\ H'.time = sampleTime /\ H'.duration = length
      BY OneCallback DEF ReadTimes, sourceVars, stampVars, callVars, running, Tidy
<1>2. /\ now \in Nat /\ Nominal \in Nat /\ captured \in Nat /\ prevTime \in Nat
      /\ captured + gap \in Nat /\ sampleTime \in Int /\ d \in Nat
      /\ Later \subseteq Nat /\ Ahead \subseteq Nat /\ Until \subseteq Nat
      /\ UntilNoted \subseteq Nat
      BY DatedTypes DEF Handler
<1>3. /\ Ends = sampleTime /\ Previous = prevTime /\ d \in Ahead /\ Ahead \subseteq Until
      /\ Ahead \subseteq UntilNoted
  <2>1. Ends = sampleTime BY <1>1, <1>2 DEF Ends
  <2>2. Previous = prevTime BY <1>1 DEF Previous
  <2>3. d \in Ahead /\ Ahead \subseteq Until /\ Ahead \subseteq UntilNoted
        BY <1>1 DEF Ahead, Until, UntilNoted
  <2>4. QED BY <2>1, <2>2, <2>3
<1>4. Ends' = sampleTime + length /\ Previous' = d BY <1>1 DEF Ends, Previous
<1>5. /\ Later' = Later /\ Ahead' = Later /\ Ahead' \subseteq Ahead
      /\ Until' \subseteq Until /\ UntilNoted' \subseteq UntilNoted
      BY <1>1 DEF Later, Ahead, Until, UntilNoted
<1>6. \A x \in Later : d + Nominal <= x BY <1>1 DEF Dated, Spread
<1>7. length \in Int /\ (prevTime = 0 => length = Nominal)
      /\ (length = Nominal \/ length = d - prevTime)
      BY <1>1, <1>2 DEF Duration
<1>8. prevTime > 0 => prevTime + Nominal <= d BY <1>3 DEF Dated, Spread
<1>. HIDE DEF d, length
<1>9. Fits(sampleTime + length, d, Later, Until', captured)
  <2>1. Fits(sampleTime, prevTime, Ahead, Until, captured) BY <1>3 DEF Dated, Room
  <2>2. QED BY <1>2, <1>3, <1>5, <1>6, <1>7, <1>8, <2>1, FitsRead
<1>10. Fits(sampleTime + length, d, Later, UntilNoted', captured + gap)
  <2>1. Fits(sampleTime, prevTime, Ahead, UntilNoted, captured + gap) BY <1>3 DEF Dated, Room
  <2>2. QED BY <1>2, <1>3, <1>5, <1>6, <1>7, <1>8, <2>1, FitsRead
<1>11. Room' BY <1>1, <1>4, <1>5, <1>9, <1>10 DEF Room
<1>12. length >= 0 BY <1>2, <1>7, <1>8, TimesAssumption
<1>13. Previous' <= now' BY <1>1, <1>3, <1>4 DEF Dated, Spread
<1>14. \A x \in Ahead' : x <= now' /\ (Previous' > 0 => Previous' + Nominal <= x)
       BY <1>1, <1>4, <1>5, <1>6 DEF Dated, Spread
<1>15. \A i, j \in 1 .. Len(events') :
         i < j /\ events'[j].type = "sample" =>
           events'[i].device + Nominal <= events'[j].device
       BY <1>1 DEF Dated, Spread
<1>16. QED BY <1>1, <1>11, <1>12, <1>13, <1>14, <1>15 DEF Dated, Spread

LEMMA DatedCallback ==
  ASSUME TypeOK, TypeOK', ~ overtaken', Tidy, Dated, NEW t \in Threads, Callback(t)
  PROVE  Dated'
<1>1. CASE WritePrev(t) \/ WriteTime(t) \/ Put(t)
  <2>1. /\ UNCHANGED <<now, running, mCurrentState, captured, gap, events>>
        /\ H.step \in {"prev", "time", "put"} /\ H'.step \in {"time", "put", "idle"}
        /\ H'.step = "time" => H'.duration = H.duration /\ H.step = "prev"
        BY <1>1, OneCallback DEF WritePrev, WriteTime, Put, sourceVars, callVars, running, Tidy
  <2>2. UNCHANGED <<Later, Ahead, Until, UntilNoted>> BY <2>1 DEF Later, Ahead, Until, UntilNoted
  <2>3. sampleTime \in Int /\ H.duration \in Int /\ now \in Nat BY DatedTypes DEF Handler
  <2>4. UNCHANGED Previous
        BY <1>1, <2>1, OneCallback
        DEF Previous, WritePrev, WriteTime, Put, stampVars, Tidy, Stamped
  <2>5. UNCHANGED Ends
    <3>1. CASE WritePrev(t) BY <3>1, <2>1, OneCallback DEF WritePrev, Ends, Tidy
    <3>2. CASE WriteTime(t)
      <4>1. sampleTime' = H.time + H.duration /\ H.time = sampleTime /\ H'.step = "put"
            /\ H.step = "time"
            BY <3>2, OneCallback DEF WriteTime, Tidy, Stamped
      <4>2. QED BY <2>3, <4>1 DEF Ends
    <3>3. CASE Put(t) BY <3>3, <2>1, OneCallback DEF Put, stampVars, Ends, Tidy
    <3>4. QED BY <1>1, <3>1, <3>2, <3>3
  <2>6. now <= now' BY <2>1, <2>3
  <2>7. Room' /\ Previous' <= now'
        /\ \A x \in Ahead' : x <= now' /\ (Previous' > 0 => Previous' + Nominal <= x)
        BY <2>1, <2>2, <2>4, <2>5, <2>6, DatedKeeps
  <2>8. H'.step \in {"prev", "time"} => H'.duration >= 0 BY <2>1 DEF Dated, Spread
  <2>9. QED BY <2>1, <2>7, <2>8 DEF Dated, Spread
<1>2. QED BY <1>1, DatedTake, DatedRead DEF Callback

LEMMA DatedSame ==
  ASSUME Dated, UNCHANGED <<sourceVars, stampVars, mCurrentState, H>> PROVE Dated'
<1>1. UNCHANGED <<Later, Ahead, Until, UntilNoted, Ends, Previous, captured, gap, events, now>>
      BY DEF sourceVars, stampVars, running, Later, Ahead, Until, UntilNoted, Ends, Previous
<1>2. QED BY <1>1 DEF Dated, Spread, Room

LEMMA DatedSession ==
  ASSUME TypeOK, TypeOK', ~ overtaken', Tidy, Dated, Session PROVE Dated'
<1>1. H' = H /\ now' = now /\ now \in Nat /\ now <= now'
  <2>1. handler' = handler /\ now' = now
        BY DEF Session, startSources, pauseSources, stopSources, Request, countAgain,
               finishSourceStreamPausing, finishStreamSinkStopping, Ended, sourceVars
  <2>2. H' = H BY <2>1 DEF H, Busy, At
  <2>3. QED BY <2>1, <2>2, DatedTypes
<1>2. /\ captured \in Nat /\ gap \in Nat /\ captured + gap \in Nat /\ Ends \in Int
      /\ Previous \in Nat
      BY DatedTypes
<1>3. CASE startSources
  <2>1. /\ UNCHANGED <<events, sampleTime>> /\ call = "idle"
        /\ captured' = captured + gap /\ gap' = 0 /\ running' /\ mCurrentState' = "Started"
        /\ prevTime' = IF mCurrentState \in {"Paused", "Stopped"} THEN 0 ELSE prevTime
        BY <1>3 DEF startSources, running
  <2>2. Later' = Later /\ Ahead' = Ahead /\ Ends' = Ends BY <1>1, <2>1 DEF Later, Ahead, Ends
  <2>3. captured' + gap' = captured + gap BY <1>2, <2>1
  <2>4. Until' = Ahead \cup {now} /\ UntilNoted' = Ahead \cup {now}
        BY <1>1, <2>1, <2>2 DEF Until, UntilNoted
  <2>5. CASE mCurrentState = "Started"
    <3>1. Previous' = Previous BY <1>1, <2>1, <2>5 DEF Previous
    <3>2. UntilNoted = Ahead \cup {now} BY <2>5 DEF UntilNoted
    <3>3. Fits(Ends, Previous, Ahead, Ahead \cup {now}, captured + gap)
          BY <3>2 DEF Dated, Room
    <3>4. Room' BY <2>1, <2>2, <2>3, <2>4, <3>1, <3>3 DEF Room
    <3>5. QED BY <1>1, <2>1, <2>2, <3>1, <3>4 DEF Dated, Spread
  <2>6. CASE mCurrentState # "Started"
    <3>1. H.step = "idle" /\ events = << >> /\ Len(events) = 0
          BY <2>1, <2>6 DEF Tidy, Answered
    <3>2. prevTime' = 0 BY <2>1, <2>6 DEF Tidy, Answered, TypeOK
    <3>3. Ahead' = {} /\ Later' = {} /\ Previous' = 0
          BY <1>1, <2>1, <2>2, <3>1, <3>2 DEF Later, Ahead, Previous
    <3>4. Ends' <= captured' BY <1>2, <2>1, <2>2 DEF Dated, Room, Fits
    <3>5. Room' BY <2>1, <2>3, <3>3, <3>4 DEF Room, Fits
    <3>6. QED BY <1>1, <2>1, <3>1, <3>3, <3>5 DEF Dated, Spread
  <2>7. QED BY <2>5, <2>6
<1>4. ASSUME NEW c \in {"asked", "stopping"}, NEW state \in {"Paused", "Stopped"},
             Request(c, state)
      PROVE  Dated'
  <2>1. Answer \in Event /\ Answer.type = "answer" /\ events \in Seq(Event)
        BY DEF TypeOK, Answer, Event
  <2>2. /\ Len(events) \in Nat /\ Len(events') = Len(events) + 1
        /\ \A i \in 1 .. Len(events) : events'[i] = events[i]
        /\ events'[Len(events) + 1] = Answer
        BY <1>4, <2>1, EventAppend DEF Request
  <2>3. \A i \in 1 .. Len(events') : events'[i].type = "sample" => i \in 1 .. Len(events)
        BY <2>1, <2>2
  <2>4. Later' \subseteq Later BY <2>2, <2>3 DEF Later
  <2>5. UNCHANGED <<captured, gap, sampleTime, prevTime, mCurrentState>> /\ ~ running'
        BY <1>4 DEF Request, stampVars, running
  <2>6. UNCHANGED <<Ends, Previous>> /\ Ahead' \subseteq Ahead /\ Until' \subseteq Until
        /\ UntilNoted' \subseteq UntilNoted
        BY <1>1, <2>4, <2>5 DEF Ends, Previous, Ahead, Until, UntilNoted
  <2>7. ASSUME NEW i \in 1 .. Len(events'), NEW j \in 1 .. Len(events'),
               i < j, events'[j].type = "sample"
        PROVE  events'[i].device + Nominal <= events'[j].device
    <3>1. j \in 1 .. Len(events) /\ i \in 1 .. Len(events) BY <2>2, <2>3, <2>7
    <3>2. QED BY <2>2, <2>7, <3>1 DEF Dated, Spread
  <2>8. Room' /\ Previous' <= now'
        /\ \A x \in Ahead' : x <= now' /\ (Previous' > 0 => Previous' + Nominal <= x)
        BY <1>1, <2>5, <2>6, DatedKeeps
  <2>9. /\ H'.step = "read" => \A x \in Later' : H'.device + Nominal <= x
        /\ H'.step \in {"prev", "time"} => H'.duration >= 0
        BY <1>1, <2>4 DEF Dated, Spread
  <2>10. QED BY <2>7, <2>8, <2>9 DEF Dated, Spread
<1>5. CASE countAgain
  <2>1. UNCHANGED <<sourceVars, stampVars, mCurrentState>> BY <1>5 DEF countAgain
  <2>2. QED BY <1>1, <2>1, DatedSame
<1>6. CASE finishSourceStreamPausing
  <2>1. events = << >> /\ Len(events) = 0 /\ H.step = "idle" BY <1>6, Returns, StillIdle
  <2>2. /\ UNCHANGED <<session, running, events, captured, stampVars>>
        /\ \/ mCurrentState' = "Paused" /\ gap' = 0
           \/ UNCHANGED <<mCurrentState, gap>>
        BY <1>6 DEF finishSourceStreamPausing, running
  <2>3. UNCHANGED <<Later, Ahead, Until, Ends, Previous>>
        BY <1>1, <2>2 DEF stampVars, Later, Ahead, Until, Ends, Previous
  <2>4. Room'
    <3>1. CASE UNCHANGED <<mCurrentState, gap>>
      <4>1. UntilNoted' = UntilNoted BY <1>1, <2>3, <3>1 DEF UntilNoted
      <4>2. QED BY <2>2, <2>3, <3>1, <4>1 DEF Dated, Room
    <3>2. CASE mCurrentState' = "Paused" /\ gap' = 0
      <4>1. UntilNoted' = Ahead /\ Ahead \subseteq Until /\ captured' + gap' = captured
            BY <1>2, <2>2, <2>3, <3>2 DEF UntilNoted, Until
      <4>2. Fits(Ends, Previous, Ahead, Ahead, captured)
            BY <1>2, <4>1, FitsFewer DEF Dated, Room
      <4>3. QED BY <2>2, <2>3, <4>1, <4>2 DEF Dated, Room
    <3>3. QED BY <2>2, <3>1, <3>2
  <2>5. QED BY <1>1, <2>2, <2>3, <2>4 DEF Dated, Spread
<1>7. CASE finishStreamSinkStopping
  <2>1. events = << >> /\ Len(events) = 0 /\ H.step = "idle"
        BY <1>7, Returns, StillIdle DEF finishStreamSinkStopping
  <2>2. events' = events /\ prevTime' = 0 /\ sampleTime' = 0 /\ captured' = 0 /\ gap' = 0
        BY <1>7 DEF finishStreamSinkStopping, Ended
  <2>3. Later' = {} /\ Ahead' = {} /\ Previous' = 0 /\ Ends' = 0
        BY <1>1, <2>1, <2>2 DEF Later, Ahead, Previous, Ends
  <2>4. QED BY <1>1, <2>1, <2>2, <2>3 DEF Dated, Spread, Room, Fits
<1>8. QED BY <1>3, <1>4, <1>5, <1>6, <1>7 DEF Session, pauseSources, stopSources

LEMMA DatedAlways == Spec => [](~ overtaken => Dated)
<1>1. /\ TypeOK /\ (~ overtaken => Tidy) /\ TypeOK' /\ (~ overtaken => Dated) /\ [Next]_vars
      => (~ overtaken' => Dated')
  <2>. SUFFICES ASSUME TypeOK, ~ overtaken => Tidy, TypeOK', ~ overtaken => Dated, [Next]_vars,
                       ~ overtaken'
                PROVE  Dated'
       OBVIOUS
  <2>1. Tidy /\ Dated BY OvertakenStays
  <2>2. CASE Push \/ pause \/ resume \/ UNCHANGED vars
    <3>1. UNCHANGED <<sourceVars, handler, stampVars, mCurrentState>>
          BY <2>2 DEF Push, pause, resume, vars, callVars
    <3>2. H' = H BY <3>1 DEF H, Busy, At
    <3>3. QED BY <2>1, <3>1, <3>2, DatedSame
  <2>3. QED BY <2>1, <2>2, DatedFrame, DatedCallback, DatedSession DEF Next
<1>2. QED BY <1>1, AnsweredAlways, DatedInit, PTL DEF Spec

\* A recording is not longer than what the source has delivered since the stop and the
\* pauses that the pipeline has not noted, until a callback is overtaken: whatever samples
\* were under way, whether or not the device tells of a jump, and whichever waits have
\* lost their answers.
THEOREM RecordsCaptureCorrect == Spec => []RecordsCapture
<1>1. TypeOK /\ (~ overtaken => Dated) => RecordsCapture
  <2>. SUFFICES ASSUME TypeOK, Dated PROVE sampleTime <= captured BY DEF RecordsCapture
  <2>1. sampleTime \in Int /\ captured \in Nat /\ H.duration \in Int
        BY DatedTypes DEF Handler
  <2>2. Ends <= captured /\ (H.step \in {"prev", "time"} => H.duration >= 0)
        BY DEF Dated, Room, Fits, Spread
  <2>3. QED BY <2>1, <2>2 DEF Ends
<1>2. QED BY <1>1, AnsweredAlways, DatedAlways, PTL

\* What a switcher has passed on, in the types of the stamps.
Accounted ==
    /\ passed \in Int /\ lastEnd \in Int /\ switches \in Nat
    /\ base \in Stamp /\ output \in Stamp

Switched == Accounted /\ InARow /\ Passed /\ AllPassed

LEMMA SwitchedInit == Init => Switched
<1>. SUFFICES ASSUME Init PROVE Switched OBVIOUS
<1>1. work = << >> /\ Len(work) = 0 /\ NextTime = 0 BY DEF Init, NextTime
<1>2. None \in Stamp /\ None.time = 0 BY DEF None, Stamp
<1>3. QED BY <1>1, <1>2 DEF Init, Switched, Accounted, InARow, Passed, AllPassed

LEMMA SwitchedPut ==
  ASSUME TypeOK, ~ overtaken', Tidy, Switched, NEW t \in Threads, Put(t) PROVE Switched'
<1>. DEFINE s == [time |-> handler[t].time, duration |-> handler[t].duration]
<1>1. /\ work' = Append(work, s) /\ lastEnd' = s.time + s.duration /\ s \in Stamp
      /\ s.time = lastEnd
      BY OneCallback, UnderWay DEF Put, Tidy, Stamped, Handler, Stamp
<1>2. work \in Seq(Stamp) BY DEF TypeOK, Stamp
<1>. HIDE DEF s
<1>3. /\ Len(work) \in Nat /\ Len(work') = Len(work) + 1
      /\ \A i \in 1 .. Len(work) : work'[i] = work[i]
      /\ work'[Len(work) + 1] = s
      BY <1>1, <1>2, EventAppend
<1>4. work = << >> <=> Len(work) = 0 BY <1>2, EmptySeq
<1>5. NextTime' = NextTime
  <2>1. work' # << >> BY <1>1, <1>2, <1>3, EmptySeq, AppendProperties
  <2>2. CASE work = << >> BY <1>1, <1>3, <1>4, <2>1, <2>2 DEF NextTime
  <2>3. CASE work # << >>
    <3>1. 1 \in 1 .. Len(work) BY <1>3, <1>4, <2>3
    <3>2. QED BY <1>3, <2>1, <2>3, <3>1 DEF NextTime
  <2>4. QED BY <2>2, <2>3
<1>6. InARow'
  <2>1. ASSUME NEW i \in 1 .. Len(work')
        PROVE  work'[i].time + work'[i].duration =
                 IF i = Len(work') THEN lastEnd' ELSE work'[i + 1].time
    <3>1. CASE i = Len(work') BY <1>1, <1>3, <3>1
    <3>2. CASE i = Len(work) /\ i # Len(work')
      <4>1. work[i].time + work[i].duration = lastEnd BY <1>3, <2>1, <3>2 DEF Switched, InARow
      <4>2. QED BY <1>1, <1>3, <2>1, <3>2, <4>1
    <3>3. CASE i \in 1 .. Len(work) /\ i # Len(work)
      <4>1. work[i].time + work[i].duration = work[i + 1].time
            BY <3>3 DEF Switched, InARow
      <4>2. i + 1 \in 1 .. Len(work) BY <1>3, <3>3
      <4>3. QED BY <1>3, <3>3, <4>1, <4>2
    <3>4. QED BY <1>3, <3>1, <3>2, <3>3
  <2>2. QED BY <2>1 DEF InARow
<1>7. Accounted' BY <1>1 DEF Put, Switched, Accounted, Stamp, outputVars, switchVars
<1>8. Passed' /\ AllPassed'
      BY <1>5 DEF Put, Switched, Passed, AllPassed, outputVars, switchVars
<1>9. QED BY <1>6, <1>7, <1>8 DEF Switched

LEMMA SwitchedPush == ASSUME TypeOK, Switched, Push PROVE Switched'
<1>. DEFINE s == Head(work)
<1>1. work \in Seq(Stamp) /\ work # << >> BY DEF TypeOK, Stamp, Push
<1>2. /\ Len(work) \in Nat \ {0} /\ s = work[1] /\ s \in Stamp
      /\ work' \in Seq(Stamp) /\ Len(work') = Len(work) - 1
      /\ \A i \in 1 .. Len(work) - 1 : work'[i] = work[i + 1]
      BY <1>1, EventTail DEF Push
<1>. HIDE DEF s
<1>3. lastEnd' = lastEnd /\ switches' = switches /\ mIsPaused' = mIsPaused BY DEF Push
<1>4. s.time \in Int /\ s.duration \in Int /\ s.time = NextTime
      BY <1>1, <1>2 DEF NextTime, Stamp
<1>5. s.time + s.duration = NextTime'
  <2>1. 1 \in 1 .. Len(work) BY <1>2
  <2>2. s.time + s.duration = IF 1 = Len(work) THEN lastEnd ELSE work[2].time
        BY <1>2, <2>1 DEF Switched, InARow
  <2>3. work' = << >> <=> Len(work) = 1 BY <1>2, EmptySeq
  <2>4. Len(work) # 1 => 1 \in 1 .. Len(work) - 1 BY <1>2
  <2>5. Len(work) # 1 => work'[1] = work[2] BY <1>2, <2>4
  <2>6. QED BY <1>3, <2>2, <2>3, <2>5 DEF NextTime
<1>6. InARow'
  <2>1. ASSUME NEW i \in 1 .. Len(work')
        PROVE  work'[i].time + work'[i].duration =
                 IF i = Len(work') THEN lastEnd' ELSE work'[i + 1].time
    <3>1. i \in 1 .. Len(work) - 1 /\ i + 1 \in 1 .. Len(work) BY <1>2
    <3>2. work'[i].time + work'[i].duration =
            IF i + 1 = Len(work) THEN lastEnd ELSE work[(i + 1) + 1].time
          BY <1>2, <3>1 DEF Switched, InARow
    <3>3. i + 1 = Len(work) <=> i = Len(work') BY <1>2, <3>1
    <3>4. i # Len(work') => i + 1 \in 1 .. Len(work) - 1 BY <1>2, <3>1
    <3>5. i # Len(work') => work'[i + 1] = work[(i + 1) + 1] BY <1>2, <3>4
    <3>6. QED BY <1>3, <3>2, <3>3, <3>5
  <2>2. QED BY <2>1 DEF InARow
<1>7. CASE mIsPaused
  <2>1. UNCHANGED <<mFirstSample, mPauseOffset, mLastTimeStamp, base, output, passed>>
        BY <1>7 DEF Push, outputVars
  <2>2. Accounted' BY <1>3, <2>1 DEF Switched, Accounted
  <2>3. Passed' BY <1>3, <1>7, <2>1 DEF Switched, Passed
  <2>4. AllPassed' BY <1>3, <1>7, <2>1 DEF Switched, AllPassed
  <2>5. QED BY <1>6, <2>2, <2>3, <2>4 DEF Switched
<1>8. CASE ~ mIsPaused
  <2>. DEFINE o == Offset(s)
              p == [time |-> s.time - o, duration |-> s.duration]
  <2>1. /\ mPauseOffset' = o /\ mFirstSample' = FALSE
        /\ mLastTimeStamp' = s.time + s.duration /\ output' = p
        /\ base' = (IF passed = 0 THEN p ELSE base) /\ passed' = passed + s.duration
        BY <1>8 DEF Push, ProcessOutput, s
  <2>2. /\ mPauseOffset \in Int /\ mLastTimeStamp \in Int /\ passed \in Int
        /\ base \in Stamp /\ base.time \in Int
        BY DEF TypeOK, Switched, Accounted, Stamp
  <2>3. o = IF mFirstSample THEN mPauseOffset + (s.time - mLastTimeStamp) ELSE mPauseOffset
        BY <1>4, <2>2 DEF Offset
  <2>4. o \in Int BY <1>4, <2>2, <2>3
  <2>5. p \in Stamp /\ p.time = s.time - o /\ p.duration = s.duration
        BY <1>4, <2>4 DEF Stamp
  <2>. HIDE DEF o, p
  <2>6. Accounted' BY <1>3, <1>4, <2>1, <2>2, <2>5 DEF Switched, Accounted
  <2>7. passed # 0 => base.time + passed = s.time - o
    <3>1. passed # 0 => base.time + passed = mLastTimeStamp - mPauseOffset
                        /\ (~ mFirstSample => mLastTimeStamp = s.time)
          BY <1>4, <1>8 DEF Switched, Passed
    <3>2. QED BY <1>4, <2>2, <2>3, <3>1
  <2>8. base'.time + passed' = (s.time - o) + s.duration
    <3>1. CASE passed = 0 BY <1>4, <2>1, <2>4, <2>5, <3>1
    <3>2. CASE passed # 0 BY <1>4, <2>1, <2>2, <2>4, <2>7, <3>2
    <3>3. QED BY <3>1, <3>2
  <2>9. Passed' BY <1>4, <1>5, <2>1, <2>4, <2>5, <2>8 DEF Passed
  <2>10. AllPassed'
    <3>1. ASSUME switches = 0
          PROVE  /\ ~ mIsPaused /\ mPauseOffset = 0 /\ passed = s.time
                 /\ mFirstSample => passed = 0 /\ mLastTimeStamp = 0
                 /\ passed # 0 => base.time = 0
          BY <1>4, <3>1 DEF Switched, AllPassed
    <3>2. ASSUME switches = 0 PROVE o = 0
          BY <1>4, <2>3, <3>1, <3>2
    <3>3. ASSUME switches = 0 PROVE passed' = NextTime' /\ base'.time = 0
          BY <1>4, <1>5, <2>1, <2>5, <3>1, <3>2, <3>3
    <3>4. QED BY <1>3, <2>1, <3>1, <3>2, <3>3 DEF AllPassed
  <2>11. QED BY <1>6, <2>6, <2>9, <2>10 DEF Switched
<1>9. QED BY <1>7, <1>8

LEMMA SwitchedAlways == Spec => [](~ overtaken => Switched)
<1>1. /\ TypeOK /\ (~ overtaken => Tidy) /\ (~ overtaken => Switched) /\ [Next]_vars
      => (~ overtaken' => Switched')
  <2>. SUFFICES ASSUME TypeOK, ~ overtaken => Tidy, ~ overtaken => Switched, [Next]_vars,
                       ~ overtaken'
                PROVE  Switched'
       OBVIOUS
  <2>1. Tidy /\ Switched BY OvertakenStays
  <2>2. CASE UNCHANGED <<work, lastEnd, switchVars, outputVars>>
        BY <2>1, <2>2
        DEF Switched, Accounted, InARow, Passed, AllPassed, NextTime, switchVars, outputVars
  <2>3. CASE finishStreamSinkStopping
    <3>1. work = << >> /\ work' = << >> BY <2>3, Returns DEF finishStreamSinkStopping, Ended
    <3>2. Len(work') = 0 /\ NextTime' = 0
          BY <2>3, <3>1 DEF finishStreamSinkStopping, Ended, NextTime
    <3>3. None \in Stamp BY DEF None, Stamp
    <3>4. QED BY <2>1, <2>3, <3>2, <3>3
          DEF finishStreamSinkStopping, Ended, switchVars, Switched, Accounted, InARow, Passed,
              AllPassed
  <2>4. CASE pause
    <3>1. UNCHANGED <<work, lastEnd, mFirstSample, mPauseOffset, mLastTimeStamp, outputVars>>
          /\ switches' = switches + 1 /\ mIsPaused'
          BY <2>4 DEF pause
    <3>2. switches \in Nat BY <2>1 DEF Switched, Accounted
    <3>3. switches' \in Nat /\ switches' # 0 BY <3>1, <3>2
    <3>4. QED BY <2>1, <3>1, <3>3
          DEF Switched, Accounted, InARow, Passed, AllPassed, NextTime, outputVars
  <2>5. CASE resume
    <3>1. UNCHANGED <<work, lastEnd, mPauseOffset, mLastTimeStamp, switches, outputVars>>
          /\ mIsPaused /\ mFirstSample'
          BY <2>5 DEF resume
    <3>2. QED BY <2>1, <3>1
          DEF Switched, Accounted, InARow, Passed, AllPassed, NextTime, outputVars
  <2>6. CASE \/ Frame \/ startSources \/ pauseSources \/ stopSources \/ countAgain
             \/ finishSourceStreamPausing
        BY <2>2, <2>6 DEF Frame, startSources, pauseSources, stopSources, Request, countAgain,
                          finishSourceStreamPausing
  <2>7. ASSUME NEW t \in Threads, Callback(t), ~ Put(t) PROVE Switched'
        BY <2>2, <2>7 DEF Callback, Take, ReadTimes, WritePrev, WriteTime
  <2>8. CASE UNCHANGED vars BY <2>2, <2>8 DEF vars
  <2>9. QED BY <2>1, <2>3, <2>4, <2>5, <2>6, <2>7, <2>8, SwitchedPut, SwitchedPush
        DEF Next, Session
<1>2. QED BY <1>1, AnsweredAlways, SwitchedInit, PTL DEF Spec

\* What a switcher passes on between two stops has neither gaps nor overlaps, whatever
\* is dropped while it is paused, and whatever offset it has brought along, until a
\* callback is overtaken.
THEOREM SeamlessRunCorrect == Spec => []SeamlessRun
<1>1. (~ overtaken => Switched) => SeamlessRun
      BY DEF Switched, Accounted, Passed, SeamlessRun
<1>2. QED BY <1>1, SwitchedAlways, PTL

\* The recording of a switcher that has never been paused begins at zero after each stop,
\* until a callback is overtaken.
THEOREM BeginsAtZeroCorrect == Spec => []BeginsAtZero
<1>1. (~ overtaken => Switched) => BeginsAtZero
      BY DEF Switched, Accounted, AllPassed, BeginsAtZero
<1>2. QED BY <1>1, SwitchedAlways, PTL
=============================================================================
