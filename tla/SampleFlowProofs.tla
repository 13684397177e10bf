-------------------------- MODULE SampleFlowProofs --------------------------
(***************************************************************************)
(* Proofs about SampleFlow, for any number of sinks, calls and switches.   *)
(***************************************************************************)
EXTENDS SampleFlow, FiniteSetTheorems, SequenceTheorems, TLAPS

Item      == [request : {"pull", "push"}, node : Node]
Operation == {"Start", "Pause", "Stop", "Need"}

\* Nodes, and what the thread of the queue does at them, differ.
LEMMA Nodes ==
  /\ Stream \in Node /\ (TeeNode \in Node <=> Tee) /\ Stream # TeeNode /\ Idle \in Worker
  /\ \A k : Switcher(k) \notin {Stream, TeeNode} /\ Output(k) \notin {Stream, TeeNode}
  /\ \A k \in Switched : Switcher(k) \in Node /\ <<"ProcessOutput", k>> \in Worker
  /\ \A k \in Sinks : Output(k) \in Node /\ <<"ProcessSample", k>> \in Worker
  /\ \A k : <<"ProcessOutput", k>> # Idle /\ <<"ProcessSample", k>> # Idle
  /\ \A j, k : <<"ProcessOutput", j>> # <<"ProcessSample", k>>
BY FlowAssumption DEF Node, Fork, Stream, TeeNode, Switcher, Output, Idle, Worker

LEMMA Items ==
  /\ \A n \in Node : Pull(n) \in Item /\ Push(n) \in Item
  /\ \A n : Pull(n).node = n /\ Push(n).node = n
  /\ \A m, n : Pull(m) # Push(n)
BY DEF Item, Pull, Push

LEMMA Branching ==
  /\ \A k \in Sinks : Branch(k) \in Node \ {Stream, TeeNode}
  /\ Fork \in Node /\ BelowStream \in Node
  /\ IF Tee THEN Fork = TeeNode /\ BelowStream = TeeNode
            ELSE Fork = Stream /\ BelowStream \notin {Stream, TeeNode}
<1>1. \A k \in Sinks : Branch(k) \in Node \ {Stream, TeeNode} BY Nodes DEF Branch
<1>2. (CHOOSE k \in Sinks : TRUE) \in Sinks BY FlowAssumption
<1>3. QED BY <1>1, <1>2, Nodes DEF Fork, BelowStream, Node

\* The tee has a branch, and hands a sample to branches only.
LEMMA BranchesAre ==
  /\ Branches \in Seq(Item) /\ Len(Branches) \in Nat \ {0}
  /\ \A i \in 1 .. Len(Branches) :
       Branches[i] \in Item /\ Branches[i].node \notin {Stream, TeeNode}
<1>. DEFINE n == Cardinality(Sinks)
<1>1. n \in Nat /\ n # 0 BY FlowAssumption, FS_CardinalityType, FS_EmptySet
<1>2. SetToSeq(Sinks) \in [1 .. n -> Sinks]
  <2>1. \E f \in [1 .. n -> Sinks] : IsInjective(f)
    <3>1. ExistsBijection(1 .. n, Sinks) BY FlowAssumption, FS_CardinalityType
    <3>2. PICK f : f \in Bijection(1 .. n, Sinks) BY <3>1 DEF ExistsBijection
    <3>3. f \in [1 .. n -> Sinks] /\ IsInjective(f) BY <3>2 DEF Bijection, Injection
    <3>4. QED BY <3>3
  <2>2. QED BY <2>1 DEF SetToSeq
<1>3. Branches = [i \in 1 .. n |-> Push(Branch(SetToSeq(Sinks)[i]))] BY DEF Branches
<1>. HIDE DEF n
<1>4. ASSUME NEW i \in 1 .. n
      PROVE  Push(Branch(SetToSeq(Sinks)[i])) \in Item
             /\ Push(Branch(SetToSeq(Sinks)[i])).node \notin {Stream, TeeNode}
  <2>1. SetToSeq(Sinks)[i] \in Sinks BY <1>2
  <2>2. QED BY <2>1, Branching, Items
<1>5. Branches \in Seq(Item) BY <1>1, <1>3, <1>4, IsASeq
<1>6. Len(Branches) = n BY <1>1, <1>3, <1>5, LenProperties
<1>7. QED BY <1>1, <1>3, <1>4, <1>5, <1>6

LEMMA SeqTail ==
  ASSUME NEW S, NEW q \in Seq(S), q # << >>
  PROVE  /\ Len(q) \in Nat \ {0} /\ Head(q) = q[1] /\ Head(q) \in S
         /\ Tail(q) \in Seq(S) /\ Len(Tail(q)) = Len(q) - 1
         /\ \A i \in 1 .. Len(q) - 1 : Tail(q)[i] = q[i + 1]
<1>1. Len(q) \in Nat \ {0} BY EmptySeq, LenProperties
<1>2. QED BY <1>1, HeadTailProperties

LEMMA SeqAppend ==
  ASSUME NEW S, NEW q \in Seq(S), NEW e \in S
  PROVE  /\ Len(q) \in Nat
         /\ Append(q, e) \in Seq(S) /\ Len(Append(q, e)) = Len(q) + 1
         /\ \A i \in 1 .. Len(q) : Append(q, e)[i] = q[i]
         /\ Append(q, e)[Len(q) + 1] = e
BY AppendProperties, LenProperties

(***************************************************************************)
(* Counting in a queue.                                                    *)
(***************************************************************************)
At(q, S) == {i \in DOMAIN q : q[i] \in S}

LEMMA CountOf ==
  ASSUME NEW T, NEW q \in Seq(T), NEW S
  PROVE  /\ DOMAIN q = 1 .. Len(q) /\ Len(q) \in Nat
         /\ IsFiniteSet(At(q, S)) /\ Count(q, S) = Cardinality(At(q, S)) /\ Count(q, S) \in Nat
         /\ Count(q, S) > 0 <=> \E i \in DOMAIN q : q[i] \in S
<1>1. DOMAIN q = 1 .. Len(q) /\ Len(q) \in Nat BY LenProperties
<1>2. IsFiniteSet(At(q, S))
  <2>1. IsFiniteSet(1 .. Len(q)) BY <1>1, FS_Interval
  <2>2. At(q, S) \in SUBSET (1 .. Len(q)) BY <1>1 DEF At
  <2>3. QED BY <2>1, <2>2, FS_Subset
<1>3. Count(q, S) = Cardinality(At(q, S)) BY DEF Count, At
<1>4. Count(q, S) \in Nat /\ (Count(q, S) = 0 <=> At(q, S) = {})
      BY <1>2, <1>3, FS_CardinalityType, FS_EmptySet
<1>5. At(q, S) = {} <=> ~ \E i \in DOMAIN q : q[i] \in S BY DEF At
<1>6. QED BY <1>1, <1>2, <1>3, <1>4, <1>5

LEMMA CountAppend ==
  ASSUME NEW T, NEW q \in Seq(T), NEW e \in T, NEW S
  PROVE  Count(Append(q, e), S) = Count(q, S) + (IF e \in S THEN 1 ELSE 0)
<1>. DEFINE n == Len(q)
            a == Append(q, e)
<1>1. n \in Nat /\ a \in Seq(T) /\ Len(a) = n + 1 /\ a[n + 1] = e
      /\ \A i \in 1 .. n : a[i] = q[i]
      BY SeqAppend
<1>2. DOMAIN q = 1 .. n /\ IsFiniteSet(At(q, S)) /\ Count(q, S) = Cardinality(At(q, S))
      /\ Count(q, S) \in Nat
      BY CountOf
<1>3. DOMAIN a = 1 .. n + 1 /\ Count(a, S) = Cardinality(At(a, S)) BY <1>1, CountOf
<1>. HIDE DEF n, a
<1>4. CASE e \in S
  <2>1. At(a, S) = At(q, S) \cup {n + 1} BY <1>1, <1>2, <1>3, <1>4 DEF At
  <2>2. n + 1 \notin At(q, S) BY <1>1, <1>2 DEF At
  <2>3. Cardinality(At(a, S)) = Cardinality(At(q, S)) + 1 BY <1>2, <2>1, <2>2, FS_AddElement
  <2>4. QED BY <1>2, <1>3, <1>4, <2>3 DEF a
<1>5. CASE e \notin S
  <2>1. At(a, S) = At(q, S) BY <1>1, <1>2, <1>3, <1>5 DEF At
  <2>2. QED BY <1>2, <1>3, <1>5, <2>1 DEF a
<1>6. QED BY <1>4, <1>5

LEMMA CountTail ==
  ASSUME NEW T, NEW q \in Seq(T), q # << >>, NEW S
  PROVE  Count(Tail(q), S) = Count(q, S) - (IF Head(q) \in S THEN 1 ELSE 0)
<1>. DEFINE n == Len(q)
            t == Tail(q)
            rest == At(q, S) \ {1}
            f == [i \in At(t, S) |-> i + 1]
<1>1. n \in Nat \ {0} /\ Head(q) = q[1] /\ t \in Seq(T) /\ Len(t) = n - 1
      /\ \A i \in 1 .. n - 1 : t[i] = q[i + 1]
      BY SeqTail
<1>2. DOMAIN q = 1 .. n /\ IsFiniteSet(At(q, S)) /\ Count(q, S) = Cardinality(At(q, S))
      /\ Count(q, S) \in Nat
      BY CountOf
<1>3. DOMAIN t = 1 .. n - 1 /\ IsFiniteSet(At(t, S)) /\ Count(t, S) = Cardinality(At(t, S))
      BY <1>1, CountOf
<1>. HIDE DEF n, t
<1>4. f \in Bijection(At(t, S), rest)
  <2>1. f \in [At(t, S) -> rest] BY <1>1, <1>2, <1>3 DEF At
  <2>2. \A i, j \in At(t, S) : f[i] = f[j] => i = j BY <1>3 DEF At
  <2>3. \A j \in rest : \E i \in At(t, S) : f[i] = j
    <3>1. TAKE j \in rest
    <3>2. j \in 1 .. n /\ j # 1 /\ q[j] \in S BY <1>2 DEF At
    <3>3. j - 1 \in 1 .. n - 1 /\ (j - 1) + 1 = j BY <1>1, <3>2
    <3>4. j - 1 \in At(t, S) BY <1>1, <1>3, <3>2, <3>3 DEF At
    <3>5. f[j - 1] = j BY <3>3, <3>4
    <3>6. QED BY <3>4, <3>5
  <2>. HIDE DEF f, rest
  <2>4. f \in Injection(At(t, S), rest) BY <2>1, <2>2, Zenon DEF Injection, IsInjective
  <2>5. f \in Surjection(At(t, S), rest) BY <2>1, <2>3, Zenon DEF Surjection
  <2>6. QED BY <2>4, <2>5 DEF Bijection
<1>5. Cardinality(rest) = Cardinality(At(t, S)) BY <1>3, <1>4, FS_Bijection DEF ExistsBijection
<1>6. Cardinality(rest) = IF 1 \in At(q, S) THEN Cardinality(At(q, S)) - 1 ELSE Cardinality(At(q, S))
      BY <1>2, FS_RemoveElement
<1>7. 1 \in At(q, S) <=> Head(q) \in S BY <1>1, <1>2 DEF At
<1>8. QED BY <1>2, <1>3, <1>5, <1>6, <1>7 DEF t

LEMMA CountOthers ==
  ASSUME NEW T, NEW q \in Seq(T), NEW r \in Seq(T), NEW S,
         \A i \in 1 .. Len(r) : r[i] \notin S
  PROVE  Count(q \o r, S) = Count(q, S)
<1>1. /\ q \o r \in Seq(T) /\ Len(q) \in Nat /\ Len(r) \in Nat /\ Len(q \o r) = Len(q) + Len(r)
      /\ \A i \in 1 .. Len(q) + Len(r) :
           (q \o r)[i] = IF i <= Len(q) THEN q[i] ELSE r[i - Len(q)]
      BY ConcatProperties, LenProperties
<1>2. DOMAIN q = 1 .. Len(q) /\ DOMAIN (q \o r) = 1 .. Len(q) + Len(r) BY <1>1, CountOf
<1>3. \A i \in 1 .. Len(q) : i \in 1 .. Len(q) + Len(r) /\ (q \o r)[i] = q[i] BY <1>1
<1>4. \A i \in 1 .. Len(q) + Len(r) : i \notin 1 .. Len(q) => (q \o r)[i] \notin S
  <2>1. TAKE i \in 1 .. Len(q) + Len(r)
  <2>2. HAVE i \notin 1 .. Len(q)
  <2>3. i - Len(q) \in 1 .. Len(r) /\ ~ i <= Len(q) BY <1>1, <2>2
  <2>4. QED BY <1>1, <2>3
<1>5. At(q \o r, S) = At(q, S) BY <1>2, <1>3, <1>4 DEF At
<1>6. QED BY <1>5 DEF Count, At
-----------------------------------------------------------------------------
(***************************************************************************)
(* Types.                                                                  *)
(***************************************************************************)
\* The queues of the source and of the pipeline after each action.
LEMMA TypeInit == Init => TypeOK
<1>. SUFFICES ASSUME Init PROVE TypeOK OBVIOUS
<1>1. /\ mFinishBarierState \in BOOLEAN /\ mMediaStreamList \in BOOLEAN
      /\ m_processSampleAccess \in BOOLEAN /\ postponed \in BOOLEAN /\ announced \in BOOLEAN
      /\ listened \in BOOLEAN /\ mIsReady \in BOOLEAN
      BY Zenon DEF Init
<1>2. mIsPaused \in [Switched -> BOOLEAN] /\ mSample \in [Switched -> BOOLEAN]
      BY Zenon DEF Init
<1>3. requests \in [Sinks -> Nat] BY DEF Init
<1>4. operations = << >> /\ queue = << >> BY DEF Init
<1>5. worker \in Worker BY Nodes DEF Init
<1>6. QED BY <1>1, <1>2, <1>3, <1>4, <1>5, FlowAssumption DEF Init, TypeOK

LEMMA TypeRequest ==
  ASSUME TypeOK, NEW op \in Operation PROVE Append(operations, op) \in Seq(Operation)
BY AppendProperties DEF TypeOK, Operation

LEMMA TypeSource == ASSUME TypeOK, SourceInvoke PROVE TypeOK'
<1>1. operations' \in Seq(Operation)
  <2>1. operations \in Seq(Operation) /\ operations # << >> BY DEF TypeOK, Operation, SourceInvoke
  <2>2. QED BY <2>1, HeadTailProperties DEF SourceInvoke
<1>2. /\ device' \in {"Initialized", "Started", "Paused", "Stopped"}
      /\ streamState' \in {"Started", "Paused", "Stopped"}
      BY DEF TypeOK, SourceInvoke, SourceStart, SourcePause, SourceStop, SourceAnswer
<1>3. samples' \in Nat BY DEF TypeOK, SourceInvoke, SourceStart, SourcePause, SourceStop, SourceAnswer
<1>4. postponed' \in BOOLEAN /\ announced' \in BOOLEAN
      BY Zenon DEF TypeOK, SourceInvoke, SourceStart, SourcePause, SourceStop, SourceAnswer
<1>5. QED BY <1>1, <1>2, <1>3, <1>4
      DEF SourceInvoke, TypeOK, Operation, controlVars, barrierVars, nodeVars

LEMMA TypeEvents ==
  ASSUME TypeOK, HandleNewStream \/ HandleSample \/ \E k \in Sinks : HandleSinkRequest(k)
  PROVE  TypeOK'
<1>. USE DEF controlVars, barrierVars, deviceVars, streamVars, nodeVars
<1>1. Append(operations, "Need") \in Seq(Operation) BY TypeRequest DEF Operation
<1>2. queue \in Seq(Item) BY DEF TypeOK, Item
<1>3. ASSUME NEW n \in Node
      PROVE  Append(queue, Push(n)) \in Seq(Item) /\ Append(queue, Pull(n)) \in Seq(Item)
      BY <1>2, Items, AppendProperties
<1>4. CASE HandleNewStream
  <2>1. announced' \in BOOLEAN /\ listened' \in BOOLEAN BY <1>4, Zenon DEF HandleNewStream
  <2>2. operations' \in Seq(Operation) BY <1>1, <1>4 DEF HandleNewStream, RequestSample
  <2>3. QED BY <1>4, <2>1, <2>2 DEF HandleNewStream, TypeOK, Operation
<1>5. CASE HandleSample
  <2>1. operations' \in Seq(Operation)
        BY <1>1, <1>5 DEF HandleSample, RequestSample, TypeOK, Operation
  <2>2. queue' \in Seq(Item) BY <1>2, <1>3, <1>5, Branching DEF HandleSample
  <2>3. samples' \in Nat /\ mInitBarierCount' \in {-1, 0, 1} BY <1>5 DEF HandleSample, TypeOK
  <2>4. mMediaStreamList' \in BOOLEAN BY <1>5, Zenon DEF HandleSample, TypeOK
  <2>5. QED BY <1>5, <2>1, <2>2, <2>3, <2>4 DEF HandleSample, TypeOK, Operation, Item
<1>6. ASSUME NEW k \in Sinks, HandleSinkRequest(k) PROVE TypeOK'
  <2>1. requests[k] - 1 \in Nat /\ requests \in [Sinks -> Nat]
        BY <1>6 DEF HandleSinkRequest, TypeOK
  <2>2. requests' \in [Sinks -> Nat] BY <1>6, <2>1 DEF HandleSinkRequest
  <2>3. queue' \in Seq(Item) BY <1>3, <1>6, Branching, Nodes DEF HandleSinkRequest
  <2>4. QED BY <1>6, <2>2, <2>3 DEF HandleSinkRequest, TypeOK, Item
<1>7. QED BY <1>4, <1>5, <1>6

LEMMA TypeWork == ASSUME TypeOK, Work PROVE TypeOK'
<1>. USE DEF controlVars, barrierVars, deviceVars, streamVars, nodeVars
<1>1. queue \in Seq(Item) BY DEF TypeOK, Item
<1>2. ASSUME NEW item, Take(item) PROVE Tail(queue) \in Seq(Item)
      BY <1>1, <1>2, HeadTailProperties DEF Take
<1>3. ASSUME NEW q \in Seq(Item), NEW n \in Node
      PROVE  Append(q, Pull(n)) \in Seq(Item) /\ Append(q, Push(n)) \in Seq(Item)
      BY Items, AppendProperties
<1>4. CASE PullFromStream
  <2>1. operations' \in Seq(Operation)
        BY <1>4, TypeRequest DEF PullFromStream, RequestSample, Operation
  <2>2. queue' \in Seq(Item) BY <1>2, <1>4 DEF PullFromStream
  <2>3. QED BY <1>4, <2>1, <2>2 DEF PullFromStream, TypeOK, Item, Operation
<1>5. CASE PullFromTee
  <2>1. queue' \in Seq(Item) BY <1>2, <1>3, <1>5, Nodes DEF PullFromTee
  <2>2. mIsReady' \in BOOLEAN BY <1>5, Zenon DEF PullFromTee
  <2>3. QED BY <1>5, <2>1, <2>2 DEF PullFromTee, TypeOK, Item
<1>6. CASE PushToTee
  <2>1. queue' \in Seq(Item) BY <1>2, <1>6, BranchesAre, ConcatProperties DEF PushToTee
  <2>2. mIsReady' \in BOOLEAN BY <1>6, Zenon DEF PushToTee
  <2>3. QED BY <1>6, <2>1, <2>2 DEF PushToTee, TypeOK, Item
<1>7. ASSUME NEW k \in Switched, WorkOnSwitcher(k) PROVE TypeOK'
  <2>1. queue' \in Seq(Item) BY <1>2, <1>7 DEF WorkOnSwitcher
  <2>2. worker' \in Worker BY <1>7, Nodes DEF WorkOnSwitcher
  <2>3. mSample' \in [Switched -> BOOLEAN]
    <3>1. mSample \in [Switched -> BOOLEAN] /\ (~ mIsPaused[k]) \in BOOLEAN
          BY Zenon DEF TypeOK
    <3>2. QED BY <1>7, <3>1, Zenon DEF WorkOnSwitcher
  <2>4. QED BY <1>7, <2>1, <2>2, <2>3 DEF WorkOnSwitcher, TypeOK, Item
<1>8. ASSUME NEW k \in Switched, ProcessOutput(k) PROVE TypeOK'
  <2>1. k \in Sinks BY FlowAssumption
  <2>2. queue' \in Seq(Item)
    <3>1. Fork \in Node /\ Output(k) \in Node BY <2>1, Branching, Nodes
    <3>2. queue' \in {queue, Append(queue, Pull(Fork)), Append(queue, Push(Output(k)))}
      <4>1. mSample[k] \in BOOLEAN /\ mIsPaused[k] \in BOOLEAN BY Zenon DEF TypeOK
      <4>2. CASE ~ mSample[k] BY <1>8, <4>1, <4>2 DEF ProcessOutput
      <4>3. CASE mSample[k] /\ ~ mIsPaused[k] BY <1>8, <4>1, <4>3 DEF ProcessOutput
      <4>4. CASE mSample[k] /\ mIsPaused[k] BY <1>8, <4>1, <4>4 DEF ProcessOutput
      <4>5. QED BY <4>1, <4>2, <4>3, <4>4
    <3>3. QED BY <1>1, <1>3, <3>1, <3>2
  <2>3. worker' \in Worker BY <1>8, Nodes DEF ProcessOutput
  <2>4. mSample' \in [Switched -> BOOLEAN] BY <1>8, Zenon DEF ProcessOutput, TypeOK
  <2>5. QED BY <1>8, <2>2, <2>3, <2>4 DEF ProcessOutput, TypeOK, Item
<1>9. ASSUME NEW k \in Sinks, PushToOutput(k) PROVE TypeOK'
  <2>1. queue' \in Seq(Item) BY <1>2, <1>9 DEF PushToOutput
  <2>2. worker' \in Worker BY <1>9, Nodes DEF PushToOutput
  <2>3. QED BY <1>9, <2>1, <2>2 DEF PushToOutput, TypeOK, Item
<1>10. ASSUME NEW k \in Sinks, ProcessSample(k) PROVE TypeOK'
  <2>1. requests[k] + 1 \in Nat /\ requests \in [Sinks -> Nat] BY DEF TypeOK
  <2>2. requests' \in [Sinks -> Nat] BY <1>10, <2>1 DEF ProcessSample
  <2>3. worker' \in Worker /\ late' \in Nat BY <1>10, Nodes DEF ProcessSample, TypeOK
  <2>4. QED BY <1>10, <2>2, <2>3 DEF ProcessSample, TypeOK
<1>11. QED BY <1>4, <1>5, <1>6, <1>7, <1>8, <1>9, <1>10 DEF Work

LEMMA TypeCalls ==
  ASSUME TypeOK, StartSources \/ PauseSources \/ StopSources \/ Continue PROVE TypeOK'
<1>. USE DEF controlVars, barrierVars, deviceVars, streamVars, nodeVars
<1>1. \A op \in Operation : Append(operations, op) \in Seq(Operation) BY TypeRequest
<1>2. calls < MaxCalls => calls + 1 \in 0 .. MaxCalls BY FlowAssumption DEF TypeOK
<1>3. CASE StartSources
  <2>1. operations' \in Seq(Operation) BY <1>1, <1>3 DEF StartSources, Operation
  <2>2. mFinishBarierState' \in BOOLEAN /\ m_processSampleAccess' \in BOOLEAN
        BY <1>3, Zenon DEF StartSources
  <2>3. QED BY <1>2, <1>3, <2>1, <2>2 DEF StartSources, Call, TypeOK, Operation
<1>4. CASE PauseSources
  <2>1. operations' \in Seq(Operation) BY <1>1, <1>4 DEF PauseSources, TypeOK, Operation
  <2>2. mFinishBarierState' \in BOOLEAN /\ m_processSampleAccess' \in BOOLEAN
        BY <1>4, Zenon DEF PauseSources
  <2>3. QED BY <1>2, <1>4, <2>1, <2>2 DEF PauseSources, Call, TypeOK, Operation
<1>5. CASE StopSources
  <2>1. operations' \in Seq(Operation) BY <1>1, <1>5 DEF StopSources, Operation
  <2>2. mFinishBarierState' \in BOOLEAN /\ m_processSampleAccess' \in BOOLEAN
        BY <1>5, Zenon DEF StopSources
  <2>3. QED BY <1>2, <1>5, <2>1, <2>2 DEF StopSources, Call, TypeOK, Operation
<1>6. CASE StartWaitEnds
  <2>1. mIsReady' \in BOOLEAN BY <1>6, Zenon DEF StartWaitEnds
  <2>2. QED BY <1>6, <2>1 DEF StartWaitEnds, TypeOK
<1>7. CASE SetInitBarier
  <2>1. mMediaStreamList' \in BOOLEAN BY <1>7, Zenon DEF SetInitBarier
  <2>2. QED BY <1>7, <2>1 DEF SetInitBarier, TypeOK
<1>8. CASE StartClock
  <2>1. requests' \in [Sinks -> Nat]
    <3>1. requests \in [Sinks -> Nat] BY DEF TypeOK
    <3>2. \A k \in Sinks : requests[k] + 2 \in Nat BY <3>1
    <3>3. QED BY <1>8, <3>1, <3>2 DEF StartClock
  <2>2. operations' \in Seq(Operation)
        BY <1>1, <1>8 DEF StartClock, RequestSample, TypeOK, Operation
  <2>3. m_processSampleAccess' \in BOOLEAN BY <1>8, Zenon DEF StartClock, TypeOK
  <2>4. QED BY <1>8, <2>1, <2>2, <2>3 DEF StartClock, TypeOK, Operation
<1>9. CASE WaitEnds BY <1>9 DEF WaitEnds, TypeOK
<1>10. QED BY <1>3, <1>4, <1>5, <1>6, <1>7, <1>8, <1>9 DEF Continue

LEMMA TypeSwitch == ASSUME TypeOK, NEW k \in Switched, SwitchOver(k) PROVE TypeOK'
<1>1. mIsPaused \in [Switched -> BOOLEAN] /\ mSample \in [Switched -> BOOLEAN]
      BY Zenon DEF TypeOK
<1>2. mIsPaused' \in [Switched -> BOOLEAN]
  <2>1. mIsPaused' = [mIsPaused EXCEPT ![k] = ~ mIsPaused[k]] BY DEF SwitchOver
  <2>2. (~ mIsPaused[k]) \in BOOLEAN OBVIOUS
  <2>3. QED BY <1>1, <2>1, <2>2, Zenon
<1>3. mSample' \in [Switched -> BOOLEAN] BY <1>1, Zenon DEF SwitchOver
<1>4. switches' \in 0 .. MaxSwitches BY FlowAssumption DEF TypeOK, SwitchOver
<1>5. QED BY <1>2, <1>3, <1>4
      DEF SwitchOver, TypeOK, controlVars, barrierVars, deviceVars, streamVars

LEMMA TypeNext == ASSUME TypeOK, [Next]_vars PROVE TypeOK'
<1>1. CASE UNCHANGED vars
      BY <1>1 DEF vars, TypeOK, controlVars, barrierVars, deviceVars, streamVars, nodeVars
<1>2. QED BY <1>1, TypeSource, TypeEvents, TypeWork, TypeCalls, TypeSwitch DEF Next

\* The queues hold what the threads that serve them know how to do.
THEOREM TypeCorrect == Spec => []TypeOK
<1>1. Init => TypeOK BY TypeInit
<1>2. TypeOK /\ [Next]_vars => TypeOK' BY TypeNext
<1>3. QED BY <1>1, <1>2, PTL DEF Spec
-----------------------------------------------------------------------------
(***************************************************************************)
(* The gate.                                                               *)
(***************************************************************************)
Starting == pc \in {"startWait", "startBarrier", "startClock"}

\* The gate and the barrier at the end are open from a start to the next pause or stop.
Open ==
    Starting \/ sessionState = "Started" => m_processSampleAccess /\ ~ mFinishBarierState

InHand == \E k \in Sinks : worker = <<"ProcessSample", k>>

\* While it is open nothing is late, and once it is shut only what the thread of the
\* queue has in hand can be.
Lateness ==
    /\ late \in {0, 1}
    /\ late = 1 => ~ m_processSampleAccess /\ ~ InHand

Gated == TypeOK /\ Open /\ Lateness

LEMMA GatedInit == Init => Gated
<1>. SUFFICES ASSUME Init PROVE Gated OBVIOUS
<1>1. Open /\ Lateness BY DEF Init, Open, Starting, Lateness
<1>2. QED BY <1>1, TypeInit DEF Gated

LEMMA GatedNext == ASSUME Gated, [Next]_vars PROVE Gated'
<1>1. TypeOK' BY TypeNext DEF Gated
<1>. USE DEF controlVars, barrierVars, deviceVars, streamVars, nodeVars
<1>2. Open'
  <2>1. CASE UNCHANGED vars BY <2>1 DEF vars, Gated, Open, Starting
  <2>2. CASE SourceInvoke BY <2>2 DEF SourceInvoke, Gated, Open, Starting
  <2>3. CASE HandleNewStream \/ HandleSample \/ \E k \in Sinks : HandleSinkRequest(k)
        BY <2>3 DEF HandleNewStream, HandleSample, HandleSinkRequest, Gated, Open, Starting
  <2>4. CASE Work
        BY <2>4 DEF Work, PullFromStream, PullFromTee, PushToTee, WorkOnSwitcher, ProcessOutput,
                    PushToOutput, ProcessSample, Gated, Open, Starting
  <2>5. CASE StartSources \/ PauseSources \/ StopSources
        BY <2>5 DEF StartSources, PauseSources, StopSources, Call, Open, Starting
  <2>6. CASE Continue
        BY <2>6 DEF Continue, StartWaitEnds, SetInitBarier, StartClock, WaitEnds, Gated, Open,
                    Starting
  <2>7. CASE \E k \in Switched : SwitchOver(k)
        BY <2>7 DEF SwitchOver, Gated, Open, Starting
  <2>8. QED BY <2>1, <2>2, <2>3, <2>4, <2>5, <2>6, <2>7 DEF Next
<1>3. Lateness'
  <2>1. CASE UNCHANGED vars BY <2>1 DEF vars, Gated, Lateness, InHand
  <2>2. CASE SourceInvoke BY <2>2 DEF SourceInvoke, Gated, Lateness, InHand
  <2>3. CASE HandleNewStream \/ HandleSample \/ \E k \in Sinks : HandleSinkRequest(k)
        BY <2>3 DEF HandleNewStream, HandleSample, HandleSinkRequest, Gated, Lateness, InHand
  <2>4. CASE Work
    <3>1. CASE PullFromStream \/ PullFromTee \/ PushToTee
          BY <3>1 DEF PullFromStream, PullFromTee, PushToTee, Gated, Lateness, InHand
    <3>2. ASSUME NEW k \in Switched, WorkOnSwitcher(k) \/ ProcessOutput(k) PROVE Lateness'
      <4>1. ~ InHand' BY <3>2, Nodes DEF WorkOnSwitcher, ProcessOutput, InHand
      <4>2. QED BY <3>2, <4>1 DEF WorkOnSwitcher, ProcessOutput, Gated, Lateness
    <3>3. ASSUME NEW k \in Sinks, PushToOutput(k) PROVE Lateness'
      <4>1. ~ m_processSampleAccess => ~ InHand' BY <3>3, Nodes DEF PushToOutput, InHand
      <4>2. QED BY <3>3, <4>1 DEF PushToOutput, Gated, Lateness
    <3>4. ASSUME NEW k \in Sinks, ProcessSample(k) PROVE Lateness'
      <4>1. InHand /\ ~ InHand' BY <3>4, Nodes DEF ProcessSample, InHand
      <4>2. QED BY <3>4, <4>1 DEF ProcessSample, Gated, Lateness
    <3>5. QED BY <2>4, <3>1, <3>2, <3>3, <3>4 DEF Work
  <2>5. CASE StartSources BY <2>5 DEF StartSources, Lateness
  <2>6. CASE PauseSources \/ StopSources
        BY <2>6 DEF PauseSources, StopSources, Gated, Open, Lateness, InHand
  <2>7. CASE Continue
        BY <2>7 DEF Continue, StartWaitEnds, SetInitBarier, StartClock, WaitEnds, Gated, Open,
                    Starting, Lateness, InHand
  <2>8. CASE \E k \in Switched : SwitchOver(k)
        BY <2>8 DEF SwitchOver, Gated, Lateness, InHand
  <2>9. QED BY <2>1, <2>2, <2>3, <2>4, <2>5, <2>6, <2>7, <2>8 DEF Next
<1>4. QED BY <1>1, <1>2, <1>3 DEF Gated

\* A pause or a stop lets one sample slip through at most, however many sinks there are
\* and however long the queue is when the gate is shut.
THEOREM AtMostOneLateCorrect == Spec => []AtMostOneLate
<1>1. Init => Gated BY GatedInit
<1>2. Gated /\ [Next]_vars => Gated' BY GatedNext
<1>3. Gated => AtMostOneLate BY DEF Gated, Lateness, AtMostOneLate
<1>4. QED BY <1>1, <1>2, <1>3, PTL DEF Spec
-----------------------------------------------------------------------------
(***************************************************************************)
(* How requests and samples move.                                          *)
(***************************************************************************)
Rising  == {Pull(Stream), Push(TeeNode)}
Falling == {item \in Item : item = Pull(TeeNode) \/ item.node \notin {Stream, TeeNode}}

OnItsWay == AboveFork > 0 \/ BelowFork

LEMMA Above ==
  ASSUME TypeOK
  PROVE  /\ operations \in Seq(Operation) /\ queue \in Seq(Item)
         /\ samples \in Nat /\ Count(operations, {"Need"}) \in Nat /\ Count(queue, Rising) \in Nat
         /\ AboveFork = samples + Count(operations, {"Need"}) + Count(queue, Rising)
<1>1. operations \in Seq(Operation) /\ queue \in Seq(Item) /\ samples \in Nat
      BY DEF TypeOK, Operation, Item
<1>2. QED BY <1>1, CountOf DEF AboveFork, Rising

LEMMA Below ==
  ASSUME TypeOK
  PROVE  BelowFork <=> \/ worker # Idle
                       \/ \E k \in Sinks : requests[k] > 0
                       \/ Count(queue, Falling) > 0
<1>1. queue \in Seq(Item) BY DEF TypeOK, Item
<1>2. \A i \in DOMAIN queue :
        queue[i] \in Falling <=> queue[i] = Pull(TeeNode) \/ queue[i].node \notin {Stream, TeeNode}
  <2>1. \A i \in DOMAIN queue : queue[i] \in Item BY <1>1
  <2>2. QED BY <2>1 DEF Falling
<1>3. Count(queue, Falling) > 0 <=> \E i \in DOMAIN queue : queue[i] \in Falling BY <1>1, CountOf
<1>4. QED BY <1>2, <1>3 DEF BelowFork

\* What an item says of the request or sample it carries.
LEMMA Kinds ==
  /\ Pull(Stream) \in Rising /\ Pull(Stream) \notin Falling
  /\ Push(TeeNode) \in Rising /\ Push(TeeNode) \notin Falling
  /\ Pull(TeeNode) \notin Rising /\ (Tee => Pull(TeeNode) \in Falling)
  /\ \A n \in Node \ {Stream, TeeNode} :
       /\ Pull(n) \notin Rising /\ Pull(n) \in Falling
       /\ Push(n) \notin Rising /\ Push(n) \in Falling
<1>1. Pull(Stream).node = Stream /\ Push(TeeNode).node = TeeNode /\ Pull(TeeNode).node = TeeNode
      /\ Pull(Stream) # Pull(TeeNode) /\ Push(TeeNode) # Pull(TeeNode) /\ Pull(TeeNode) # Push(TeeNode)
      BY Items, Nodes
<1>2. \A n : Pull(n).node = n /\ Push(n).node = n BY Items
<1>3. \A n \in Node : Pull(n) \in Item /\ Push(n) \in Item BY Items
<1>4. QED BY <1>1, <1>2, <1>3, Nodes, Zenon DEF Rising, Falling

LEMMA AboveNext ==
  AboveFork' = samples' + Count(operations', {"Need"}) + Count(queue', Rising)
BY DEF AboveFork, Rising

LEMMA BelowNext ==
  ASSUME TypeOK'
  PROVE  BelowFork' <=> \/ worker' # Idle
                        \/ \E k \in Sinks : requests'[k] > 0
                        \/ Count(queue', Falling) > 0
<1>1. queue' \in Seq(Item) BY DEF TypeOK, Item
<1>2. \A i \in DOMAIN queue' :
        queue'[i] \in Falling <=> queue'[i] = Pull(TeeNode) \/ queue'[i].node \notin {Stream, TeeNode}
  <2>1. \A i \in DOMAIN queue' : queue'[i] \in Item BY <1>1
  <2>2. QED BY <2>1 DEF Falling
<1>3. Count(queue', Falling) > 0 <=> \E i \in DOMAIN queue' : queue'[i] \in Falling
      BY <1>1, CountOf
<1>4. QED BY <1>2, <1>3 DEF BelowFork

\* A request is added to the operations of the source.
LEMMA MovesRequest ==
  ASSUME TypeOK, RequestSample
  PROVE  Count(operations', {"Need"}) = Count(operations, {"Need"}) + 1
BY Above, CountAppend DEF RequestSample, Operation

\* An item is added to a queue of the pipeline.
LEMMA MovesItem ==
  ASSUME NEW q \in Seq(Item), NEW item \in Item
  PROVE  /\ Append(q, item) \in Seq(Item) /\ Count(q, Rising) \in Nat /\ Count(q, Falling) \in Nat
         /\ Count(Append(q, item), Rising) = Count(q, Rising) + (IF item \in Rising THEN 1 ELSE 0)
         /\ Count(Append(q, item), Falling)
              = Count(q, Falling) + (IF item \in Falling THEN 1 ELSE 0)
BY CountAppend, CountOf, AppendProperties

\* The thread of the queue takes the item at its head.
LEMMA MovesTaken ==
  ASSUME TypeOK, NEW item, Take(item)
  PROVE  /\ Tail(queue) \in Seq(Item) /\ item \in Item
         /\ Count(Tail(queue), Rising) = Count(queue, Rising) - (IF item \in Rising THEN 1 ELSE 0)
         /\ Count(Tail(queue), Rising) \in Nat
<1>1. queue \in Seq(Item) /\ queue # << >> /\ Head(queue) = item BY Above DEF Take
<1>2. Tail(queue) \in Seq(Item) /\ item \in Item BY <1>1, SeqTail
<1>3. Count(Tail(queue), Rising) = Count(queue, Rising) - (IF item \in Rising THEN 1 ELSE 0)
      BY <1>1, CountTail
<1>4. QED BY <1>2, <1>3, CountOf

LEMMA MovesSource ==
  ASSUME TypeOK, SourceInvoke
  PROVE  /\ AboveFork' <= AboveFork
         /\ Head(operations) # "Need" \/ device = "Started" => AboveFork' = AboveFork
         /\ Head(operations) = "Need" => device' = device
         /\ Head(operations) = "Need" /\ device = "Started" => AboveFork > 0
<1>1. operations \in Seq(Operation) /\ operations # << >> BY Above DEF SourceInvoke
<1>2. Count(operations', {"Need"})
        = Count(operations, {"Need"}) - (IF Head(operations) = "Need" THEN 1 ELSE 0)
      BY <1>1, CountTail DEF SourceInvoke
<1>3. Count(operations', {"Need"}) \in Nat BY <1>1, CountOf, SeqTail DEF SourceInvoke
<1>4. queue' = queue BY DEF SourceInvoke
<1>5. CASE Head(operations) = "Need"
  <2>1. SourceAnswer BY <1>5 DEF SourceInvoke
  <2>2. /\ device' = device /\ samples' \in Nat /\ samples \in Nat
        /\ device = "Started" => samples' = samples + 1
        /\ device # "Started" => samples' = samples
        BY <2>1, Above DEF SourceAnswer
  <2>3. Count(operations', {"Need"}) = Count(operations, {"Need"}) - 1 BY <1>2, <1>5
  <2>4. AboveFork \in Nat /\ AboveFork > 0 BY <1>3, <2>3, Above
  <2>5. CASE device = "Started"
    <3>1. AboveFork' = AboveFork BY <1>4, <2>2, <2>3, <2>5, Above, AboveNext
    <3>2. QED BY <2>2, <2>4, <2>5, <3>1
  <2>6. CASE device # "Started"
    <3>1. AboveFork' = AboveFork - 1 BY <1>4, <2>2, <2>3, <2>6, Above, AboveNext
    <3>2. QED BY <1>5, <2>2, <2>4, <2>6, <3>1
  <2>7. QED BY <2>5, <2>6
<1>6. CASE Head(operations) # "Need"
  <2>1. samples' = samples
        BY <1>6 DEF SourceInvoke, SourceStart, SourcePause, SourceStop
  <2>2. QED BY <1>2, <1>4, <1>6, <2>1, Above, AboveNext
<1>7. QED BY <1>5, <1>6

LEMMA MovesNewStream ==
  ASSUME TypeOK, HandleNewStream PROVE AboveFork' = AboveFork + 1 /\ AboveFork \in Nat
<1>1. RequestSample /\ samples' = samples /\ queue' = queue
      BY DEF HandleNewStream, streamVars
<1>2. QED BY <1>1, MovesRequest, Above, AboveNext

LEMMA MovesSample ==
  ASSUME TypeOK, TypeOK', HandleSample
  PROVE  (Tee => AboveFork' = AboveFork) /\ OnItsWay'
<1>1. samples > 0 /\ samples' = samples - 1 BY DEF HandleSample
<1>2. queue \in Seq(Item) /\ Push(BelowStream) \in Item BY Above, Branching, Items
<1>3. CASE RequestSample /\ queue' = queue
  <2>1. AboveFork' = AboveFork BY <1>1, <1>3, MovesRequest, Above, AboveNext
  <2>2. AboveFork > 0 BY <1>1, Above
  <2>3. QED BY <2>1, <2>2 DEF OnItsWay
<1>4. CASE operations' = operations /\ queue' = Append(queue, Push(BelowStream))
  <2>1. CASE Tee
    <3>1. Push(BelowStream) \in Rising BY <2>1, Branching, Kinds
    <3>2. Count(queue', Rising) = Count(queue, Rising) + 1 BY <1>2, <1>4, <3>1, MovesItem
    <3>3. AboveFork' = AboveFork /\ AboveFork > 0 BY <1>1, <1>4, <3>2, Above, AboveNext
    <3>4. QED BY <3>3 DEF OnItsWay
  <2>2. CASE ~ Tee
    <3>1. Push(BelowStream) \in Falling BY <2>2, Branching, Kinds
    <3>2. Count(queue', Falling) > 0 BY <1>2, <1>4, <3>1, MovesItem
    <3>3. QED BY <2>2, <3>2, BelowNext DEF OnItsWay
  <2>3. QED BY <2>1, <2>2
<1>5. QED BY <1>3, <1>4 DEF HandleSample

LEMMA MovesSinkRequest ==
  ASSUME TypeOK, TypeOK', NEW k \in Sinks, HandleSinkRequest(k)
  PROVE  (Tee => AboveFork' = AboveFork) /\ OnItsWay'
<1>. DEFINE n == IF k \in Switched THEN Switcher(k) ELSE Fork
<1>1. samples' = samples /\ operations' = operations /\ queue' = Append(queue, Pull(n))
      BY DEF HandleSinkRequest, streamVars
<1>2. n \in Node BY Branching, Nodes
<1>3. queue \in Seq(Item) /\ Pull(n) \in Item BY <1>2, Above, Branching, Items
<1>. HIDE DEF n
<1>4. CASE n = Stream /\ ~ Tee
  <2>1. Count(queue', Rising) = Count(queue, Rising) + 1 BY <1>1, <1>3, <1>4, MovesItem, Kinds
  <2>2. AboveFork' > 0 BY <1>1, <2>1, Above, AboveNext
  <2>3. QED BY <1>4, <2>2 DEF OnItsWay
<1>5. CASE Pull(n) \notin Rising /\ Pull(n) \in Falling
  <2>1. Count(queue', Rising) = Count(queue, Rising) /\ Count(queue', Falling) > 0
        BY <1>1, <1>3, <1>5, MovesItem
  <2>2. AboveFork' = AboveFork BY <1>1, <2>1, Above, AboveNext
  <2>3. QED BY <2>1, <2>2, BelowNext DEF OnItsWay
<1>6. QED
  <2>1. CASE k \in Switched
    <3>1. n \in Node \ {Stream, TeeNode} BY <2>1, Nodes DEF n
    <3>2. QED BY <1>5, <3>1, Kinds
  <2>2. CASE k \notin Switched
    <3>1. n = IF Tee THEN TeeNode ELSE Stream BY <2>2 DEF n, Fork
    <3>2. QED BY <1>4, <1>5, <3>1, Kinds, FlowAssumption
  <2>3. QED BY <2>1, <2>2

\* What the thread of the queue does to the requests above the fork: only the tee
\* adds one, once for each time it gets ready, and only the tee takes a sample away.
Asked ==
  Tee => \/ AboveFork' = AboveFork /\ mIsReady' = mIsReady
         \/ AboveFork' = AboveFork + 1 /\ ~ mIsReady /\ mIsReady'
         \/ AboveFork' = AboveFork - 1 /\ ~ mIsReady'

LEMMA MovesStream ==
  ASSUME TypeOK, TypeOK', PullFromStream PROVE Asked /\ OnItsWay'
<1>1. Take(Pull(Stream)) /\ queue' = Tail(queue) /\ RequestSample /\ samples' = samples
      /\ mIsReady' = mIsReady
      BY DEF PullFromStream, streamVars, nodeVars
<1>2. Count(queue', Rising) = Count(queue, Rising) - 1 /\ Count(queue', Rising) \in Nat
      BY <1>1, MovesTaken, Kinds
<1>3. AboveFork' = AboveFork /\ AboveFork > 0
      BY <1>1, <1>2, MovesRequest, Above, AboveNext
<1>4. QED BY <1>1, <1>3 DEF Asked, OnItsWay

LEMMA MovesPullTee ==
  ASSUME TypeOK, TypeOK', PullFromTee
  PROVE  /\ Asked /\ Tee /\ AboveFork \in Nat
         /\ AboveFork' = IF mIsReady THEN AboveFork ELSE AboveFork + 1
<1>1. Take(Pull(TeeNode)) /\ samples' = samples /\ operations' = operations
      BY DEF PullFromTee, streamVars
<1>2. /\ Tail(queue) \in Seq(Item) /\ Pull(TeeNode) \in Item
      /\ Count(Tail(queue), Rising) = Count(queue, Rising)
      BY <1>1, MovesTaken, Kinds, Above
<1>3. Tee
  <2>1. TeeNode \in Node BY <1>2, Items DEF Item
  <2>2. QED BY <2>1, Nodes
<1>4. CASE mIsReady
  <2>1. queue' = Tail(queue) /\ mIsReady' = mIsReady BY <1>4, Zenon DEF PullFromTee
  <2>2. AboveFork' = AboveFork BY <1>1, <1>2, <2>1, Above, AboveNext
  <2>3. QED BY <1>3, <1>4, <2>1, <2>2, Above DEF Asked
<1>5. CASE ~ mIsReady
  <2>1. queue' = Append(Tail(queue), Pull(Stream)) /\ mIsReady' BY <1>5, Zenon DEF PullFromTee
  <2>2. Count(queue', Rising) = Count(queue, Rising) + 1
        BY <1>2, <2>1, MovesItem, Kinds, Items, Nodes
  <2>3. AboveFork' = AboveFork + 1 BY <1>1, <2>2, Above, AboveNext
  <2>4. Asked BY <1>5, <2>1, <2>3, Zenon DEF Asked
  <2>5. QED BY <1>3, <1>5, <2>3, <2>4, Above
<1>6. QED BY <1>4, <1>5

LEMMA MovesPushTee ==
  ASSUME TypeOK, TypeOK', PushToTee PROVE Asked /\ OnItsWay' /\ ~ mIsReady'
<1>1. Take(Push(TeeNode)) /\ queue' = Tail(queue) \o Branches /\ ~ mIsReady'
      /\ samples' = samples /\ operations' = operations
      BY DEF PushToTee, streamVars
<1>2. Tail(queue) \in Seq(Item) /\ Count(Tail(queue), Rising) = Count(queue, Rising) - 1
      BY <1>1, MovesTaken, Kinds
<1>3. \A i \in 1 .. Len(Branches) : Branches[i] \notin Rising
      BY BranchesAre, Items, Zenon DEF Rising
<1>4. Count(queue', Rising) = Count(Tail(queue), Rising)
      BY <1>1, <1>2, <1>3, BranchesAre, CountOthers
<1>5. AboveFork' = AboveFork - 1 BY <1>1, <1>2, <1>4, Above, AboveNext
<1>6. Count(queue', Falling) > 0
  <2>. DEFINE n == Len(Tail(queue)) + 1
  <2>1. n \in 1 .. Len(queue') /\ queue' \in Seq(Item) /\ queue'[n] = Branches[1]
        BY <1>1, <1>2, BranchesAre, ConcatProperties, LenProperties
  <2>2. Branches[1] \in Falling BY BranchesAre DEF Falling
  <2>. HIDE DEF n
  <2>3. QED BY <2>1, <2>2, CountOf
<1>7. QED BY <1>1, <1>5, <1>6, BelowNext DEF Asked, OnItsWay

LEMMA MovesSwitcher ==
  ASSUME TypeOK, TypeOK', NEW k \in Switched, WorkOnSwitcher(k) PROVE Asked /\ OnItsWay'
<1>1. Switcher(k) \in Node \ {Stream, TeeNode} BY Nodes
<1>2. queue' = Tail(queue) /\ samples' = samples /\ operations' = operations
      /\ mIsReady' = mIsReady /\ worker' = <<"ProcessOutput", k>>
      BY DEF WorkOnSwitcher, streamVars
<1>3. Count(queue', Rising) = Count(queue, Rising)
  <2>1. CASE Take(Pull(Switcher(k))) BY <1>1, <1>2, <2>1, MovesTaken, Kinds, Above
  <2>2. CASE Take(Push(Switcher(k))) BY <1>1, <1>2, <2>2, MovesTaken, Kinds, Above
  <2>3. QED BY <2>1, <2>2 DEF WorkOnSwitcher
<1>4. AboveFork' = AboveFork BY <1>2, <1>3, Above, AboveNext
<1>5. worker' # Idle BY <1>2, Nodes
<1>6. QED BY <1>2, <1>4, <1>5, BelowNext DEF Asked, OnItsWay

LEMMA MovesOutput ==
  ASSUME TypeOK, TypeOK', NEW k \in Switched, ProcessOutput(k)
  PROVE  Asked /\ (Audio => OnItsWay')
<1>1. queue \in Seq(Item) /\ k \in Sinks /\ samples' = samples /\ operations' = operations
      /\ mIsReady' = mIsReady
      BY Above, FlowAssumption DEF ProcessOutput, streamVars
<1>2. Pull(Fork) \in Item /\ Push(Output(k)) \in Item BY <1>1, Branching, Nodes, Items
<1>3. CASE queue' = Append(queue, Pull(Fork))
  <2>1. CASE Tee
    <3>1. Pull(Fork) \notin Rising /\ Pull(Fork) \in Falling BY <2>1, Branching, Kinds
    <3>2. Count(queue', Rising) = Count(queue, Rising) /\ Count(queue', Falling) > 0
          BY <1>1, <1>2, <1>3, <3>1, MovesItem
    <3>3. AboveFork' = AboveFork BY <1>1, <3>2, Above, AboveNext
    <3>4. QED BY <1>1, <3>2, <3>3, BelowNext DEF Asked, OnItsWay
  <2>2. CASE ~ Tee
    <3>1. Pull(Fork) \in Rising BY <2>2, Branching, Kinds
    <3>2. Count(queue', Rising) = Count(queue, Rising) + 1
          BY <1>1, <1>2, <1>3, <3>1, MovesItem
    <3>3. AboveFork' > 0 BY <1>1, <3>2, Above, AboveNext
    <3>4. QED BY <2>2, <3>3 DEF Asked, OnItsWay
  <2>3. QED BY <2>1, <2>2
<1>4. CASE queue' = Append(queue, Push(Output(k)))
  <2>1. Push(Output(k)) \notin Rising /\ Push(Output(k)) \in Falling BY <1>1, Nodes, Kinds
  <2>2. Count(queue', Rising) = Count(queue, Rising) /\ Count(queue', Falling) > 0
        BY <1>1, <1>2, <1>4, <2>1, MovesItem
  <2>3. AboveFork' = AboveFork BY <1>1, <2>2, Above, AboveNext
  <2>4. QED BY <1>1, <2>2, <2>3, BelowNext DEF Asked, OnItsWay
<1>5. CASE queue' = queue /\ ~ Audio
  <2>1. AboveFork' = AboveFork BY <1>1, <1>5, Above, AboveNext
  <2>2. QED BY <1>1, <1>5, <2>1 DEF Asked
<1>6. QED
  <2>1. mSample[k] \in BOOLEAN /\ mIsPaused[k] \in BOOLEAN BY Zenon DEF TypeOK
  <2>2. CASE ~ mSample[k] BY <1>3, <2>1, <2>2 DEF ProcessOutput
  <2>3. CASE mSample[k] /\ ~ mIsPaused[k] BY <1>4, <2>1, <2>3 DEF ProcessOutput
  <2>4. CASE mSample[k] /\ mIsPaused[k] BY <1>3, <1>5, <2>1, <2>4 DEF ProcessOutput
  <2>5. QED BY <2>1, <2>2, <2>3, <2>4

LEMMA MovesSink ==
  ASSUME TypeOK, TypeOK', NEW k \in Sinks, PushToOutput(k) \/ ProcessSample(k)
  PROVE  Asked /\ (m_processSampleAccess /\ ~ mFinishBarierState => OnItsWay')
<1>1. Output(k) \in Node \ {Stream, TeeNode} BY Nodes
<1>2. samples' = samples /\ operations' = operations /\ mIsReady' = mIsReady
      BY DEF PushToOutput, ProcessSample, streamVars, nodeVars
<1>3. CASE PushToOutput(k)
  <2>1. Count(queue', Rising) = Count(queue, Rising)
        BY <1>1, <1>3, MovesTaken, Kinds, Above DEF PushToOutput
  <2>2. AboveFork' = AboveFork BY <1>2, <2>1, Above, AboveNext
  <2>3. m_processSampleAccess /\ ~ mFinishBarierState => worker' # Idle
        BY <1>3, Nodes DEF PushToOutput
  <2>4. QED BY <1>2, <2>2, <2>3, BelowNext DEF Asked, OnItsWay
<1>4. CASE ProcessSample(k)
  <2>1. AboveFork' = AboveFork BY <1>2, <1>4, Above, AboveNext DEF ProcessSample
  <2>2. requests \in [Sinks -> Nat] BY DEF TypeOK
  <2>3. requests'[k] > 0 BY <1>4, <2>2 DEF ProcessSample
  <2>4. QED BY <1>2, <2>1, <2>3, BelowNext DEF Asked, OnItsWay
<1>5. QED BY <1>3, <1>4

\* A call of the session asks for nothing before its clock runs.
LEMMA MovesCall ==
  ASSUME TypeOK, StartSources \/ PauseSources \/ StopSources PROVE AboveFork' = AboveFork
<1>1. samples' = samples /\ queue' = queue
      BY DEF StartSources, PauseSources, StopSources, streamVars
<1>2. \/ operations' = operations
      \/ \E op \in Operation \ {"Need"} : operations' = Append(operations, op)
      BY DEF StartSources, PauseSources, StopSources, Operation
<1>3. Count(operations', {"Need"}) = Count(operations, {"Need"})
  <2>1. CASE operations' = operations BY <2>1
  <2>2. ASSUME NEW op \in Operation \ {"Need"}, operations' = Append(operations, op)
        PROVE  Count(operations', {"Need"}) = Count(operations, {"Need"})
        BY <2>2, Above, CountAppend
  <2>3. QED BY <1>2, <2>1, <2>2
<1>4. QED BY <1>1, <1>3, Above, AboveNext

LEMMA MovesStartClock ==
  ASSUME TypeOK, TypeOK', StartClock
  PROVE  /\ OnItsWay' /\ AboveFork \in Nat
         /\ AboveFork' = AboveFork + (IF sessionState = "Paused" THEN 1 ELSE 0)
<1>1. samples' = samples /\ queue' = queue BY DEF StartClock, streamVars
<1>2. CASE sessionState = "Paused"
  <2>1. RequestSample BY <1>2 DEF StartClock
  <2>2. AboveFork' = AboveFork + 1 BY <1>1, <2>1, MovesRequest, Above, AboveNext
  <2>3. QED BY <1>2, <2>2, Above DEF OnItsWay
<1>3. CASE sessionState # "Paused"
  <2>1. operations' = operations /\ requests' = [k \in Sinks |-> requests[k] + 2]
        BY <1>3 DEF StartClock
  <2>2. AboveFork' = AboveFork BY <1>1, <2>1, Above, AboveNext
  <2>3. PICK k \in Sinks : TRUE BY FlowAssumption
  <2>4. requests'[k] > 0
    <3>1. requests[k] \in Nat BY DEF TypeOK
    <3>2. QED BY <2>1, <3>1
  <2>5. QED BY <1>3, <2>2, <2>4, BelowNext, Above DEF OnItsWay
<1>4. QED BY <1>2, <1>3
-----------------------------------------------------------------------------
(***************************************************************************)
(* The flow does not dry up.                                               *)
(***************************************************************************)
\* Only the call under way has an operation in the queue of the source, and a session
\* that is Started has none.
Operating ==
    /\ \A i \in DOMAIN operations :
         \/ operations[i] = "Need"
         \/ pc = "startWait" /\ operations[i] = "Start"
         \/ pc = "pauseWait" /\ operations[i] = "Pause"
         \/ pc = "stopWait"  /\ operations[i] = "Stop"
    /\ sessionState = "Started" => pc = "idle"

Active == pc \in {"startBarrier", "startClock"} \/ (pc = "idle" /\ sessionState = "Started")

\* A tee that was asked since it was reset has passed the request up, and there it stays
\* while the source answers.
Ready == Active /\ device = "Started" /\ Tee /\ mIsReady => AboveFork > 0

Alive == Running => OnItsWay

Flows == Gated /\ Operating /\ Ready /\ Alive

LEMMA OperatingNext == ASSUME TypeOK, Operating, [Next]_vars PROVE Operating'
<1>. USE DEF controlVars, barrierVars, deviceVars, streamVars, nodeVars
<1>1. operations \in Seq(Operation) /\ DOMAIN operations = 1 .. Len(operations)
      /\ Len(operations) \in Nat
      BY Above, CountOf
<1>2. ASSUME NEW op \in Operation, operations' = Append(operations, op)
      PROVE  \A i \in DOMAIN operations' :
               operations'[i] = op \/ \E j \in DOMAIN operations : operations'[i] = operations[j]
  <2>1. /\ operations' \in Seq(Operation) /\ Len(operations') = Len(operations) + 1
        /\ \A i \in 1 .. Len(operations) : operations'[i] = operations[i]
        /\ operations'[Len(operations) + 1] = op
        BY <1>1, <1>2, SeqAppend
  <2>2. DOMAIN operations' = 1 .. Len(operations) + 1 BY <2>1, CountOf
  <2>3. TAKE i \in DOMAIN operations'
  <2>4. CASE i \in 1 .. Len(operations) BY <1>1, <2>1, <2>4
  <2>5. CASE i = Len(operations) + 1 BY <2>1, <2>5
  <2>6. QED BY <1>1, <2>2, <2>4, <2>5
<1>3. ASSUME operations' = operations \/ RequestSample, UNCHANGED <<pc, sessionState>>
      PROVE  Operating'
  <2>1. CASE operations' = operations BY <1>3, <2>1 DEF Operating
  <2>2. CASE RequestSample BY <1>2, <1>3, <2>2 DEF Operating, RequestSample, Operation
  <2>3. QED BY <1>3, <2>1, <2>2
<1>4. CASE UNCHANGED vars BY <1>3, <1>4 DEF vars
<1>5. CASE SourceInvoke
  <2>1. operations' = Tail(operations) /\ operations # << >> /\ UNCHANGED <<pc, sessionState>>
        BY <1>5 DEF SourceInvoke
  <2>2. /\ Len(operations) \in Nat \ {0}
        /\ operations' \in Seq(Operation) /\ Len(operations') = Len(operations) - 1
        /\ \A i \in 1 .. Len(operations) - 1 : operations'[i] = operations[i + 1]
        BY <1>1, <2>1, SeqTail
  <2>3. DOMAIN operations' = 1 .. Len(operations) - 1 BY <2>2, CountOf
  <2>4. \A i \in DOMAIN operations' : \E j \in DOMAIN operations : operations'[i] = operations[j]
    <3>1. TAKE i \in DOMAIN operations'
    <3>2. i + 1 \in DOMAIN operations BY <1>1, <2>2, <2>3
    <3>3. QED BY <2>2, <2>3, <3>2
  <2>5. QED BY <2>1, <2>4 DEF Operating
<1>6. CASE HandleNewStream \/ HandleSample \/ \E k \in Sinks : HandleSinkRequest(k)
      BY <1>3, <1>6 DEF HandleNewStream, HandleSample, HandleSinkRequest
<1>7. CASE Work
      BY <1>3, <1>7 DEF Work, PullFromStream, PullFromTee, PushToTee, WorkOnSwitcher,
                        ProcessOutput, PushToOutput, ProcessSample
<1>8. CASE StartSources
      BY <1>2, <1>8 DEF StartSources, Call, Operating, Operation
<1>9. CASE PauseSources
      BY <1>2, <1>9 DEF PauseSources, Call, Operating, Operation
<1>10. CASE StopSources
      BY <1>2, <1>10 DEF StopSources, Call, Operating, Operation
<1>11. CASE Continue
  <2>1. CASE StartWaitEnds \/ WaitEnds
        BY <2>1 DEF StartWaitEnds, WaitEnds, Executed, Operating
  <2>2. CASE SetInitBarier BY <2>2 DEF SetInitBarier, Operating
  <2>3. CASE StartClock
    <3>1. CASE operations' = operations BY <2>3, <3>1 DEF StartClock, Operating
    <3>2. CASE RequestSample
          BY <1>2, <2>3, <3>2 DEF StartClock, Operating, RequestSample, Operation
    <3>3. QED BY <2>3, <3>1, <3>2 DEF StartClock
  <2>4. QED BY <1>11, <2>1, <2>2, <2>3 DEF Continue
<1>12. CASE \E k \in Switched : SwitchOver(k) BY <1>3, <1>12 DEF SwitchOver
<1>13. QED
  BY <1>4, <1>5, <1>6, <1>7, <1>8, <1>9, <1>10, <1>11, <1>12 DEF Next

LEMMA ReadyKept ==
  ASSUME TypeOK, Ready, Asked, UNCHANGED <<pc, sessionState, device>> PROVE Ready'
<1>1. AboveFork \in Nat BY Above
<1>. SUFFICES ASSUME Active', device' = "Started", Tee, mIsReady' PROVE AboveFork' > 0
     BY DEF Ready
<1>2. Active /\ device = "Started" BY DEF Active
<1>3. CASE AboveFork' = AboveFork /\ mIsReady BY <1>2, <1>3 DEF Ready
<1>4. CASE AboveFork' = AboveFork + 1 BY <1>1, <1>4
<1>5. QED BY <1>3, <1>4 DEF Asked

LEMMA FlowsNext ==
  ASSUME Switched = {} \/ Audio, Flows, [Next]_vars PROVE Flows'
<1>1. TypeOK /\ Gated' /\ TypeOK' /\ Operating' BY GatedNext, OperatingNext DEF Flows, Gated
<1>. SUFFICES Ready' /\ Alive' BY <1>1 DEF Flows
<1>2. Running => m_processSampleAccess /\ ~ mFinishBarierState
      BY DEF Flows, Gated, Open, Running
<1>3. AboveFork \in Nat BY <1>1, Above
<1>. USE DEF controlVars, barrierVars, deviceVars, streamVars, nodeVars
<1>4. ASSUME UNCHANGED <<pc, sessionState, device>>, Asked, Running => OnItsWay'
      PROVE  Ready' /\ Alive'
      BY <1>1, <1>4, ReadyKept DEF Flows, Alive, Running
<1>5. ASSUME ~ Active' PROVE Ready' /\ Alive' BY <1>5 DEF Active, Ready, Alive, Running
<1>6. CASE UNCHANGED vars \/ \E k \in Switched : SwitchOver(k)
  <2>1. UNCHANGED <<pc, sessionState, device, samples, operations, queue, worker, requests, mIsReady>>
        BY <1>6 DEF vars, SwitchOver
  <2>2. AboveFork' = AboveFork BY <1>1, <2>1, Above, AboveNext
  <2>3. BelowFork' <=> BelowFork BY <1>1, <2>1, Below, BelowNext
  <2>4. QED BY <1>4, <2>1, <2>2, <2>3 DEF Flows, Alive, OnItsWay, Asked
<1>7. CASE SourceInvoke
  <2>1. UNCHANGED <<pc, sessionState, mIsReady>> BY <1>7 DEF SourceInvoke
  <2>2. ASSUME Active PROVE Head(operations) = "Need"
    <3>1. operations # << >> BY <1>7 DEF SourceInvoke
    <3>2. Head(operations) = operations[1] /\ 1 \in DOMAIN operations
          BY <1>1, <3>1, Above, SeqTail, CountOf
    <3>3. QED BY <2>2, <3>2 DEF Flows, Operating, Active
  <2>3. Active /\ device' = "Started" => AboveFork' > 0
        BY <1>1, <1>7, <2>2, MovesSource
  <2>4. QED BY <2>1, <2>3 DEF Ready, Alive, Active, Running, OnItsWay
<1>8. CASE HandleNewStream
  <2>1. AboveFork' > 0 BY <1>1, <1>8, MovesNewStream
  <2>2. QED BY <2>1 DEF Ready, Alive, OnItsWay
<1>9. CASE HandleSample \/ \E k \in Sinks : HandleSinkRequest(k)
  <2>1. (Tee => AboveFork' = AboveFork) /\ OnItsWay'
        BY <1>1, <1>9, MovesSample, MovesSinkRequest
  <2>2. UNCHANGED <<pc, sessionState, device, mIsReady>>
        BY <1>9 DEF HandleSample, HandleSinkRequest
  <2>3. QED BY <1>4, <2>1, <2>2 DEF Asked
<1>10. CASE Work
  <2>1. UNCHANGED <<pc, sessionState, device>>
        BY <1>10 DEF Work, PullFromStream, PullFromTee, PushToTee, WorkOnSwitcher, ProcessOutput,
                     PushToOutput, ProcessSample
  <2>2. CASE PullFromStream BY <1>1, <1>4, <2>1, <2>2, MovesStream
  <2>3. CASE PullFromTee
    <3>1. /\ Asked /\ Tee
          /\ AboveFork' = IF mIsReady THEN AboveFork ELSE AboveFork + 1
          BY <1>1, <2>3, MovesPullTee
    <3>2. Running /\ mIsReady => AboveFork > 0 BY <3>1 DEF Flows, Ready, Active, Running
    <3>3. Running => AboveFork' > 0 BY <1>3, <3>1, <3>2
    <3>4. QED BY <1>4, <2>1, <3>1, <3>3 DEF OnItsWay
  <2>4. CASE PushToTee BY <1>1, <1>4, <2>1, <2>4, MovesPushTee
  <2>5. ASSUME NEW k \in Switched, WorkOnSwitcher(k) \/ ProcessOutput(k) PROVE Ready' /\ Alive'
        BY <1>1, <1>4, <2>1, <2>5, MovesSwitcher, MovesOutput
  <2>6. ASSUME NEW k \in Sinks, PushToOutput(k) \/ ProcessSample(k) PROVE Ready' /\ Alive'
        BY <1>1, <1>2, <1>4, <2>1, <2>6, MovesSink
  <2>7. QED BY <1>10, <2>2, <2>3, <2>4, <2>5, <2>6 DEF Work
<1>11. CASE StartSources \/ PauseSources \/ StopSources
  <2>1. ~ Active' BY <1>11 DEF StartSources, PauseSources, StopSources, Active
  <2>2. QED BY <1>5, <2>1
<1>12. CASE StartWaitEnds
  <2>1. ~ mIsReady' /\ pc' # "idle" BY <1>12 DEF StartWaitEnds
  <2>2. QED BY <2>1 DEF Ready, Alive, Running
<1>13. CASE SetInitBarier
  <2>1. pc = "startBarrier" /\ pc' # "idle" /\ UNCHANGED <<device, mIsReady, samples, operations, queue>>
        BY <1>13 DEF SetInitBarier
  <2>2. AboveFork' = AboveFork BY <1>1, <2>1, Above, AboveNext
  <2>3. QED BY <2>1, <2>2 DEF Flows, Ready, Active, Alive, Running
<1>14. CASE StartClock
  <2>1. pc = "startClock" /\ UNCHANGED <<device, mIsReady>> BY <1>14 DEF StartClock
  <2>2. OnItsWay' /\ (AboveFork > 0 => AboveFork' > 0) BY <1>1, <1>14, MovesStartClock
  <2>3. QED BY <2>1, <2>2 DEF Flows, Ready, Active, Alive
<1>15. CASE WaitEnds
  <2>1. ~ Active' BY <1>15 DEF WaitEnds, Active, Flows, Operating
  <2>2. QED BY <1>5, <2>1
<1>16. QED
  BY <1>6, <1>7, <1>8, <1>9, <1>10, <1>11, <1>12, <1>13, <1>14, <1>15 DEF Next, Continue

\* Whatever pauses, stops and restarts there were, in a session that runs a request or a
\* sample is always under way, and a tee that waits for a sample waits for one of them.
\* Only a paused switcher of a session for video takes it away.
THEOREM FlowAliveCorrect ==
  ASSUME Switched = {} \/ Audio PROVE Spec => []FlowAlive
<1>1. Init => Flows
  <2>. SUFFICES ASSUME Init PROVE Flows OBVIOUS
  <2>1. Gated BY GatedInit
  <2>2. Operating /\ Ready /\ Alive
        BY DEF Init, Operating, Ready, Active, Alive, Running
  <2>3. QED BY <2>1, <2>2 DEF Flows
<1>2. Flows /\ [Next]_vars => Flows' BY FlowsNext
<1>3. Flows => FlowAlive
      BY DEF Flows, Ready, Alive, Active, Running, OnItsWay, FlowAlive
<1>4. QED BY <1>1, <1>2, <1>3, PTL DEF Spec
-----------------------------------------------------------------------------
(***************************************************************************)
(* Requests do not pile up above a tee.                                    *)
(***************************************************************************)
\* Before the first call nothing is under way.
Nothing ==
    calls = 0 =>
        /\ pc = "idle" /\ sessionState = "None" /\ ~ announced /\ ~ listened
        /\ samples = 0 /\ operations = << >> /\ queue = << >> /\ worker = Idle
        /\ \A k \in Sinks : requests[k] = 0

\* What the tee, the announcement of the stream and the start under way may still add to
\* the requests above the fork.
Spare   == IF mIsReady THEN 0 ELSE 1
Opening == IF announced \/ ~ listened THEN 1 ELSE 0
Reset   == IF pc = "startWait" THEN 1 ELSE 0
Restart == IF Starting /\ sessionState = "Paused" THEN 1 ELSE 0
Credit  == AboveFork + Spare + Opening + Reset + Restart

\* A start pays for the pause or the stop that ends it as well.
Paid   == calls + (IF Starting \/ sessionState = "Started" THEN 1 ELSE 0)
Budget == calls > 0 => Credit <= 1 + 2 * (Paid \div 2)

Bounded == TypeOK /\ Nothing /\ Budget

LEMMA NothingNext == ASSUME TypeOK, Nothing, [Next]_vars PROVE Nothing'
<1>. SUFFICES ASSUME calls' = 0 PROVE Nothing' BY DEF Nothing
<1>. USE DEF controlVars, barrierVars, deviceVars, streamVars, nodeVars
<1>1. calls \in Nat BY FlowAssumption DEF TypeOK
<1>2. ~ Call BY <1>1 DEF Call
<1>3. calls = 0
      BY <1>2 DEF Next, vars, StartSources, PauseSources, StopSources, Continue, StartWaitEnds,
         SetInitBarier, StartClock, WaitEnds, SourceInvoke, HandleNewStream, HandleSample, Work,
         PullFromStream, PullFromTee, PushToTee, WorkOnSwitcher, ProcessOutput, PushToOutput,
         ProcessSample, HandleSinkRequest, SwitchOver
<1>4. /\ pc = "idle" /\ sessionState = "None" /\ ~ announced /\ ~ listened
      /\ samples = 0 /\ operations = << >> /\ queue = << >> /\ worker = Idle
      /\ \A k \in Sinks : requests[k] = 0
      BY <1>3 DEF Nothing
<1>5. ~ Work
      BY <1>4, Nodes DEF Work, Take, PullFromStream, PullFromTee, PushToTee, WorkOnSwitcher,
         ProcessOutput, PushToOutput, ProcessSample
<1>6. UNCHANGED vars \/ \E k \in Switched : SwitchOver(k)
      BY <1>2, <1>4, <1>5 DEF Next, StartSources, PauseSources, StopSources, Continue,
         StartWaitEnds, SetInitBarier, StartClock, WaitEnds, SourceInvoke, HandleNewStream,
         HandleSample, HandleSinkRequest
<1>7. UNCHANGED <<pc, sessionState, announced, listened, samples, operations, queue, worker, requests>>
      BY <1>6 DEF vars, SwitchOver
<1>8. QED BY <1>4, <1>7 DEF Nothing

LEMMA Credits ==
  ASSUME TypeOK
  PROVE  /\ AboveFork \in Nat /\ calls \in Nat /\ Paid \in Nat /\ Credit \in Nat
         /\ Spare \in Nat /\ Opening \in Nat /\ Reset \in Nat /\ Restart \in Nat
         /\ Spare <= 1 /\ Opening <= 1 /\ Reset <= 1 /\ Restart <= 1
<1>1. AboveFork \in Nat BY Above
<1>2. calls \in Nat BY FlowAssumption DEF TypeOK
<1>3. Spare \in Nat /\ Opening \in Nat /\ Reset \in Nat /\ Restart \in Nat
      /\ Spare <= 1 /\ Opening <= 1 /\ Reset <= 1 /\ Restart <= 1
      BY DEF Spare, Opening, Reset, Restart
<1>4. QED BY <1>1, <1>2, <1>3 DEF Paid, Credit

LEMMA Sums ==
  /\ \A n \in Nat : n + 0 \in Nat /\ n + 1 \in Nat
  /\ \A a, b, c, d, e \in Nat : a + b + c + d + e \in Nat
  /\ \A a, b, aa, bb \in Nat : aa <= a /\ bb = b => aa + bb <= a + b
  /\ \A a, b, c, d, e, aa, bb, cc, dd, ee \in Nat :
       aa + bb <= a + b /\ cc = c /\ dd = d /\ ee = e => aa + bb + cc + dd + ee <= a + b + c + d + e
OBVIOUS

\* A step that adds nothing to the credit keeps to the budget.
LEMMA WithinBudget ==
  ASSUME TypeOK, Budget, calls > 0, Paid' >= Paid, Credit' <= Credit, Credit' \in Nat,
         Paid' \in Nat
  PROVE  Budget'
<1>1. \A m, n \in Nat : n >= m => n \div 2 >= m \div 2 OBVIOUS
<1>2. \A n \in Nat : n \div 2 \in Nat OBVIOUS
<1>3. \A c, d, x, y \in Nat : d <= c /\ c <= 1 + 2 * x /\ y >= x => d <= 1 + 2 * y OBVIOUS
<1>4. Credit \in Nat /\ Paid \in Nat BY Credits
<1>5. Credit <= 1 + 2 * (Paid \div 2) BY DEF Budget
<1>6. Paid \div 2 \in Nat /\ Paid' \div 2 \in Nat /\ Paid' \div 2 >= Paid \div 2
      BY <1>1, <1>2, <1>4
<1>7. Credit' <= 1 + 2 * (Paid' \div 2) BY <1>3, <1>4, <1>5, <1>6, Zenon
<1>8. QED BY <1>7 DEF Budget

LEMMA BudgetNext ==
  ASSUME Tee, Bounded, [Next]_vars PROVE Budget'
<1>. USE DEF controlVars, barrierVars, deviceVars, streamVars, nodeVars
<1>1. TypeOK /\ TypeOK' /\ Nothing /\ Budget BY TypeNext DEF Bounded
<1>2. /\ AboveFork \in Nat /\ Paid \in Nat /\ calls \in Nat
      /\ Spare \in Nat /\ Opening \in Nat /\ Reset \in Nat /\ Restart \in Nat
      /\ Spare <= 1 /\ Opening <= 1 /\ Reset <= 1 /\ Restart <= 1
      BY <1>1, Credits
<1>3. /\ AboveFork' \in Nat /\ Paid' \in Nat /\ calls' \in Nat /\ Credit' \in Nat
      /\ Spare' \in Nat /\ Opening' \in Nat /\ Reset' \in Nat /\ Restart' \in Nat
      /\ Spare' <= 1 /\ Opening' <= 1 /\ Reset' <= 1 /\ Restart' <= 1
  <2>1. samples' \in Nat /\ operations' \in Seq(Operation) /\ queue' \in Seq(Item)
        BY <1>1 DEF TypeOK, Operation, Item
  <2>2. Count(operations', {"Need"}) \in Nat /\ Count(queue', Rising) \in Nat BY <2>1, CountOf
  <2>3. AboveFork' \in Nat BY <2>1, <2>2, AboveNext
  <2>4. calls' \in Nat BY <1>1, FlowAssumption DEF TypeOK
  <2>5. Spare' \in Nat /\ Opening' \in Nat /\ Reset' \in Nat /\ Restart' \in Nat
        /\ Spare' <= 1 /\ Opening' <= 1 /\ Reset' <= 1 /\ Restart' <= 1
        BY DEF Spare, Opening, Reset, Restart
  <2>6. Paid' \in Nat
    <3>1. Paid' = calls' + 0 \/ Paid' = calls' + 1 BY DEF Paid
    <3>2. QED BY <2>4, <3>1, Sums, Zenon
  <2>7. Credit' \in Nat BY <2>3, <2>5, Sums, Zenon DEF Credit
  <2>8. QED BY <2>3, <2>4, <2>5, <2>6, <2>7
<1>4. Credit = AboveFork + Spare + Opening + Reset + Restart
      /\ Credit' = AboveFork' + Spare' + Opening' + Reset' + Restart'
      BY DEF Credit
<1>. HIDE DEF Credit, Paid, AboveFork, Spare, Opening, Reset, Restart
<1>5. ASSUME calls' = calls, Paid' >= Paid,
             AboveFork' + Spare' + Opening' + Reset' + Restart'
               <= AboveFork + Spare + Opening + Reset + Restart
      PROVE  Budget'
  <2>1. CASE calls = 0 BY <1>5, <2>1 DEF Budget
  <2>2. CASE calls > 0 BY <1>1, <1>3, <1>4, <1>5, <2>2, WithinBudget
  <2>3. QED BY <1>2, <2>1, <2>2
<1>6. CASE SourceInvoke
  <2>1. AboveFork' <= AboveFork BY <1>1, <1>6, MovesSource
  <2>2. UNCHANGED <<pc, sessionState, calls, mIsReady, listened>> BY <1>6 DEF SourceInvoke
  <2>3. Opening' = Opening
    <3>1. CASE ~ listened BY <2>2, <3>1 DEF Opening
    <3>2. CASE listened
      <4>1. announced \in BOOLEAN BY <1>1, Zenon DEF TypeOK
      <4>2. announced' = announced
            BY <1>6, <3>2, <4>1 DEF SourceInvoke, SourceStart, SourcePause, SourceStop, SourceAnswer
      <4>3. QED BY <2>2, <4>2 DEF Opening
    <3>3. QED BY <3>1, <3>2
  <2>4. Spare' = Spare /\ Reset' = Reset /\ Restart' = Restart /\ Paid' = Paid
        BY <2>2 DEF Spare, Reset, Restart, Paid, Starting
  <2>5. AboveFork' + Spare' + Opening' + Reset' + Restart'
          <= AboveFork + Spare + Opening + Reset + Restart
    <3>1. AboveFork' + Spare' <= AboveFork + Spare BY <1>2, <1>3, <2>1, <2>4, Sums, Zenon
    <3>2. QED BY <1>2, <1>3, <2>3, <2>4, <3>1, Sums, Zenon
  <2>6. Paid' >= Paid BY <1>2, <2>4
  <2>7. QED BY <1>5, <2>2, <2>5, <2>6
<1>7. CASE HandleNewStream
  <2>1. AboveFork' = AboveFork + 1 BY <1>1, <1>7, MovesNewStream
  <2>2. Opening = 1 /\ Opening' = 0 BY <1>7 DEF HandleNewStream, Opening
  <2>3. Spare' = Spare /\ Reset' = Reset /\ Restart' = Restart /\ Paid' = Paid /\ calls' = calls
        BY <1>7 DEF HandleNewStream, Spare, Reset, Restart, Paid, Starting
  <2>4. QED BY <1>2, <1>5, <2>1, <2>2, <2>3
<1>8. CASE HandleSample \/ (\E k \in Sinks : HandleSinkRequest(k)) \/ UNCHANGED vars
           \/ \E k \in Switched : SwitchOver(k)
  <2>1. AboveFork' = AboveFork
    <3>1. CASE HandleSample \/ \E k \in Sinks : HandleSinkRequest(k)
          BY <1>1, <3>1, MovesSample, MovesSinkRequest
    <3>2. CASE UNCHANGED vars \/ \E k \in Switched : SwitchOver(k)
      <4>1. UNCHANGED <<samples, operations, queue>> BY <3>2 DEF vars, SwitchOver
      <4>2. QED BY <1>1, <4>1, Above, AboveNext
    <3>3. QED BY <1>8, <3>1, <3>2
  <2>2. UNCHANGED <<pc, sessionState, calls, mIsReady, announced, listened>>
        BY <1>8 DEF HandleSample, HandleSinkRequest, vars, SwitchOver
  <2>3. Spare' = Spare /\ Opening' = Opening /\ Reset' = Reset /\ Restart' = Restart /\ Paid' = Paid
        BY <2>2 DEF Spare, Opening, Reset, Restart, Paid, Starting
  <2>4. QED BY <1>2, <1>5, <2>1, <2>2, <2>3
<1>9. CASE Work
  <2>1. UNCHANGED <<pc, sessionState, calls, announced, listened>>
        BY <1>9 DEF Work, PullFromStream, PullFromTee, PushToTee, WorkOnSwitcher, ProcessOutput,
                    PushToOutput, ProcessSample
  <2>2. Opening' = Opening /\ Reset' = Reset /\ Restart' = Restart /\ Paid' = Paid
        BY <2>1 DEF Opening, Reset, Restart, Paid, Starting
  <2>3. Asked
        BY <1>1, <1>9, MovesStream, MovesPullTee, MovesPushTee, MovesSwitcher, MovesOutput,
           MovesSink DEF Work
  <2>4. AboveFork' + Spare' <= AboveFork + Spare
    <3>1. CASE AboveFork' = AboveFork /\ mIsReady' = mIsReady BY <1>2, <3>1 DEF Spare
    <3>2. CASE AboveFork' = AboveFork + 1 /\ ~ mIsReady /\ mIsReady'
      <4>1. Spare = 1 /\ Spare' = 0 BY <3>2 DEF Spare
      <4>2. QED BY <1>2, <3>2, <4>1
    <3>3. CASE AboveFork' = AboveFork - 1 /\ ~ mIsReady'
      <4>1. Spare' = 1 BY <3>3 DEF Spare
      <4>2. QED BY <1>2, <3>3, <4>1
    <3>4. QED BY <2>3, <3>1, <3>2, <3>3 DEF Asked
  <2>5. AboveFork' + Spare' + Opening' + Reset' + Restart'
          <= AboveFork + Spare + Opening + Reset + Restart
        BY <1>2, <1>3, <2>2, <2>4, Sums, Zenon
  <2>6. QED BY <1>2, <1>5, <2>1, <2>2, <2>5
<1>10. CASE StartSources
  <2>1. /\ pc = "idle" /\ pc' = "startWait" /\ sessionState # "Started"
        /\ calls' = calls + 1 /\ UNCHANGED <<sessionState, mIsReady, announced, listened>>
        BY <1>10 DEF StartSources, Call
  <2>2. AboveFork' = AboveFork BY <1>1, <1>10, MovesCall
  <2>3. Spare' = Spare /\ Opening' = Opening /\ Reset' = 1 /\ Reset = 0 /\ Restart = 0
        BY <2>1 DEF Spare, Opening, Reset, Restart, Starting
  <2>4. Paid = calls /\ Paid' = calls + 2 BY <1>2, <2>1 DEF Paid, Starting
  <2>5. CASE calls = 0
    <3>1. AboveFork = 0
      <4>1. samples = 0 /\ operations = << >> /\ queue = << >> BY <1>1, <2>5 DEF Nothing
      <4>2. DOMAIN operations = {} /\ DOMAIN queue = {} BY <4>1
      <4>3. Count(operations, {"Need"}) = 0 /\ Count(queue, Rising) = 0
            BY <4>2, FS_EmptySet DEF Count
      <4>4. QED BY <1>1, <4>1, <4>3, Above
    <3>2. Restart' = 0 BY <1>1, <2>1, <2>5 DEF Restart, Nothing
    <3>3. Credit' <= 3 BY <1>2, <1>4, <2>2, <2>3, <3>1, <3>2
    <3>4. Paid' \div 2 = 1 BY <2>4, <2>5
    <3>5. QED BY <3>3, <3>4 DEF Budget
  <2>6. CASE calls > 0
    <3>1. Credit' <= Credit + 2
      <4>1. Restart' = 0 \/ Restart' = 1 BY DEF Restart
      <4>2. QED BY <1>2, <1>4, <2>2, <2>3, <4>1
    <3>2. Paid' \div 2 = (Paid \div 2) + 1 BY <1>2, <2>4
    <3>3. Credit <= 1 + 2 * (Paid \div 2) BY <1>1, <2>6 DEF Budget
    <3>4. \A c, d, x, y \in Nat : d <= c + 2 /\ c <= 1 + 2 * x /\ y = x + 1 => d <= 1 + 2 * y
          OBVIOUS
    <3>5. \A n \in Nat : n \div 2 \in Nat OBVIOUS
    <3>6. Credit \in Nat BY <1>1, Credits
    <3>7. Credit' <= 1 + 2 * (Paid' \div 2)
          BY <1>2, <1>3, <3>1, <3>2, <3>3, <3>4, <3>5, <3>6, Zenon
    <3>8. QED BY <3>7 DEF Budget
  <2>7. QED BY <1>2, <2>5, <2>6
<1>11. CASE PauseSources \/ StopSources
  <2>1. /\ pc = "idle" /\ pc' \in {"pauseWait", "stopWait"} /\ sessionState \in {"Started", "Paused"}
        /\ sessionState' \in {"Paused", "Stopped"} /\ calls' = calls + 1
        /\ UNCHANGED <<mIsReady, announced, listened>>
        BY <1>11 DEF PauseSources, StopSources, Call
  <2>2. AboveFork' = AboveFork BY <1>1, <1>11, MovesCall
  <2>3. /\ Spare' = Spare /\ Opening' = Opening /\ Reset' = 0 /\ Reset = 0
        /\ Restart = 0 /\ Restart' = 0
        BY <2>1 DEF Spare, Opening, Reset, Restart, Starting
  <2>4. Paid' = calls + 1 /\ Paid <= calls + 1 BY <1>2, <2>1 DEF Paid, Starting
  <2>5. calls > 0 BY <1>1, <1>2, <2>1 DEF Nothing
  <2>6. Credit' = Credit BY <1>4, <2>2, <2>3
  <2>7. Credit' <= Credit /\ Paid' >= Paid BY <1>2, <1>3, <2>4, <2>6
  <2>8. QED BY <1>1, <1>3, <2>5, <2>7, WithinBudget
<1>12. CASE Continue
  <2>1. CASE StartWaitEnds
    <3>1. pc = "startWait" /\ pc' \in {"startClock", "startBarrier"}
          /\ UNCHANGED <<sessionState, calls, announced, listened, samples, operations, queue>>
          BY <2>1 DEF StartWaitEnds
    <3>2. AboveFork' = AboveFork BY <1>1, <3>1, Above, AboveNext
    <3>3. /\ Spare' = 1 /\ Opening' = Opening /\ Reset = 1 /\ Reset' = 0
          /\ Restart' = Restart /\ Paid' = Paid
          BY <2>1, <3>1 DEF StartWaitEnds, Spare, Opening, Reset, Restart, Paid, Starting
    <3>4. QED BY <1>2, <1>3, <1>5, <3>1, <3>2, <3>3
  <2>2. CASE SetInitBarier
    <3>1. pc = "startBarrier" /\ pc' = "startClock"
          /\ UNCHANGED <<sessionState, calls, mIsReady, announced, listened, samples, operations, queue>>
          BY <2>2 DEF SetInitBarier
    <3>2. AboveFork' = AboveFork BY <1>1, <3>1, Above, AboveNext
    <3>3. Spare' = Spare /\ Opening' = Opening /\ Reset' = Reset /\ Restart' = Restart /\ Paid' = Paid
          BY <3>1 DEF Spare, Opening, Reset, Restart, Paid, Starting
    <3>4. QED BY <1>2, <1>5, <3>1, <3>2, <3>3
  <2>3. CASE StartClock
    <3>1. pc = "startClock" /\ pc' = "idle" /\ sessionState' = "Started"
          /\ UNCHANGED <<calls, mIsReady, announced, listened>>
          BY <2>3 DEF StartClock
    <3>2. AboveFork' = AboveFork + Restart
          BY <1>1, <2>3, <3>1, MovesStartClock DEF Restart, Starting
    <3>3. /\ Spare' = Spare /\ Opening' = Opening /\ Reset' = Reset /\ Restart' = 0
          /\ Paid' = Paid
          BY <3>1 DEF Spare, Opening, Reset, Restart, Paid, Starting
    <3>4. QED BY <1>2, <1>5, <3>1, <3>2, <3>3
  <2>4. CASE WaitEnds
    <3>1. pc \in {"pauseWait", "stopWait"} /\ pc' = "idle"
          /\ UNCHANGED <<sessionState, calls, mIsReady, announced, listened, samples, operations, queue>>
          BY <2>4 DEF WaitEnds
    <3>2. AboveFork' = AboveFork BY <1>1, <3>1, Above, AboveNext
    <3>3. Spare' = Spare /\ Opening' = Opening /\ Reset' = Reset /\ Restart' = Restart /\ Paid' = Paid
          BY <3>1 DEF Spare, Opening, Reset, Restart, Paid, Starting
    <3>4. QED BY <1>2, <1>5, <3>1, <3>2, <3>3
  <2>5. QED BY <1>12, <2>1, <2>2, <2>3, <2>4 DEF Continue
<1>13. QED BY <1>6, <1>7, <1>8, <1>9, <1>10, <1>11, <1>12 DEF Next

\* However many sinks ask a tee, and however they hurry, no more requests are above it
\* than the announcement of the stream and two for each start.
THEOREM RequestsBoundedCorrect ==
  ASSUME Tee PROVE Spec => []RequestsBounded
<1>1. Init => Bounded
  <2>. SUFFICES ASSUME Init PROVE Bounded OBVIOUS
  <2>1. Nothing /\ Budget BY DEF Init, Nothing, Budget
  <2>2. QED BY <2>1, TypeInit DEF Bounded
<1>2. Bounded /\ [Next]_vars => Bounded' BY TypeNext, NothingNext, BudgetNext DEF Bounded
<1>3. Bounded => RequestsBounded
  <2>. SUFFICES ASSUME Bounded PROVE RequestsBounded OBVIOUS
  <2>1. /\ AboveFork \in Nat /\ calls \in Nat /\ Paid \in Nat /\ Paid <= calls + 1
        /\ Spare \in Nat /\ Opening \in Nat /\ Reset \in Nat /\ Restart \in Nat
    <3>1. calls \in Nat BY Credits DEF Bounded
    <3>2. Paid <= calls + 1 BY <3>1 DEF Paid
    <3>3. QED BY <3>1, <3>2, Credits DEF Bounded
  <2>2. CASE calls = 0
    <3>1. samples = 0 /\ operations = << >> /\ queue = << >> BY <2>2 DEF Bounded, Nothing
    <3>2. DOMAIN operations = {} /\ DOMAIN queue = {} BY <3>1
    <3>3. Count(operations, {"Need"}) = 0 /\ Count(queue, Rising) = 0
          BY <3>2, FS_EmptySet DEF Count
    <3>4. AboveFork = 0 BY <3>1, <3>3, Above DEF Bounded
    <3>5. (calls + 1) \div 2 = 0 BY <2>2
    <3>6. QED BY <3>4, <3>5 DEF RequestsBounded
  <2>3. CASE calls > 0
    <3>1. Credit <= 1 + 2 * (Paid \div 2) BY <2>3 DEF Bounded, Budget
    <3>2. AboveFork <= Credit BY <2>1 DEF Credit
    <3>3. \A m, n \in Nat : n >= m => n \div 2 >= m \div 2 OBVIOUS
    <3>4. \A n \in Nat : n \div 2 \in Nat OBVIOUS
    <3>5. \A a, c, x, y \in Nat : a <= c /\ c <= 1 + 2 * x /\ y >= x => a <= 1 + 2 * y OBVIOUS
    <3>6. (calls + 1) \div 2 >= Paid \div 2 BY <2>1, <3>3
    <3>7. Credit \in Nat /\ Paid \div 2 \in Nat /\ (calls + 1) \div 2 \in Nat
          BY <2>1, <3>4, Credits DEF Bounded
    <3>8. QED BY <2>1, <3>1, <3>2, <3>5, <3>6, <3>7, Zenon DEF RequestsBounded
  <2>4. QED BY <2>1, <2>2, <2>3
<1>4. QED BY <1>1, <1>2, <1>3, PTL DEF Spec
=============================================================================
