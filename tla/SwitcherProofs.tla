---------------------------- MODULE SwitcherProofs ----------------------------
(***************************************************************************)
(* Proofs about Switcher: types and the switchers' readiness for any       *)
(* number of branches, and a seamless recording for the first branch,      *)
(* which gets every sample before anybody else has changed its time.       *)
(***************************************************************************)
EXTENDS Switcher, TLAPS

\* Every variable keeps its type, for any number of branches.
THEOREM TypeCorrect == Spec => []TypeOK
<1> USE SwitcherAssumption DEF Branch, Sample, Nothing
<1>1. Init => TypeOK
  BY SMT DEF Init, TypeOK
<1>2. TypeOK /\ [Next]_vars => TypeOK'
  <2> SUFFICES ASSUME TypeOK, [Next]_vars PROVE TypeOK'
    OBVIOUS
  <2> USE DEF TypeOK
  <2>1. ASSUME NEW d \in Durations, NewSample(d) PROVE TypeOK'
    <3> HIDE DEF TypeOK, Branch
    <3>1. d \in Int /\ sampleTime \in Int
      BY DEF TypeOK
    <3>2. sample' \in Sample
      BY <2>1, <3>1, Zenon DEF NewSample
    <3>3. sampleTime' \in Int /\ next' \in 1..(N + 1)
      <4>1. sampleTime' = sampleTime + d /\ next' = 1
        BY <2>1, Zenon DEF NewSample
      <4> QED
        BY <3>1, <4>1
    <3> QED
      BY <2>1, <3>2, <3>3, Zenon DEF TypeOK, NewSample, switcherVars, outputVars
  <2>2. ASSUME NEW k \in Branch, ProcessInput(k) PROVE TypeOK'
    <3>1. mSample' \in [Branch -> BOOLEAN]
      BY <2>2, Zenon DEF ProcessInput
    <3> QED
      BY <2>2, <3>1 DEF ProcessInput, outputVars
  <2>3. ASSUME NEW k \in Branch, ProcessOutput(k) PROVE TypeOK'
    <3>1. Offset(k) \in Int
      <4> HIDE DEF TypeOK, Sample, Branch
      <4>1. mPauseOffset[k] \in Int /\ mLastTimeStamp[k] \in Int
        BY DEF TypeOK
      <4>2. sample.time \in Int
        BY DEF TypeOK, Sample
      <4> QED
        BY <4>1, <4>2 DEF Offset
    <3>2. ASSUME PassOn(k)
          PROVE  /\ sample' \in Sample
                 /\ mFirstSample' \in [Branch -> BOOLEAN]
                 /\ mPauseOffset' \in [Branch -> Int]
                 /\ mLastTimeStamp' \in [Branch -> Int]
                 /\ output' \in [Branch -> Sample]
                 /\ passed' \in [Branch -> Int]
      <4>1. sample' \in Sample
        <5>1. sample' = [time |-> sample.time - Offset(k), duration |-> sample.duration]
          BY <3>2 DEF PassOn
        <5> QED
          BY <3>1, <5>1
      <4>2. mFirstSample' \in [Branch -> BOOLEAN]
        BY <3>2, Zenon DEF PassOn
      <4>3. mPauseOffset' \in [Branch -> Int]
        BY <3>1, <3>2 DEF PassOn
      <4>4. mLastTimeStamp' \in [Branch -> Int] /\ passed' \in [Branch -> Int]
        BY <3>2 DEF PassOn
      <4>5. output' \in [Branch -> Sample]
        BY <3>2, <4>1, Zenon DEF PassOn
      <4> QED
        BY <4>1, <4>2, <4>3, <4>4, <4>5
    <3>3. /\ sample' \in Sample
          /\ mFirstSample' \in [Branch -> BOOLEAN]
          /\ mPauseOffset' \in [Branch -> Int]
          /\ mLastTimeStamp' \in [Branch -> Int]
          /\ output' \in [Branch -> Sample]
          /\ passed' \in [Branch -> Int]
      BY <2>3, <3>2 DEF ProcessOutput, outputVars
    <3>4. next' \in 1..(N + 1) /\ step' \in {"ProcessInput", "ProcessOutput"}
      BY <2>3 DEF ProcessOutput, Served
    <3>5. mSample' \in [Branch -> BOOLEAN]
      BY <2>3, Zenon DEF ProcessOutput
    <3> QED
      BY <2>3, <3>3, <3>4, <3>5, Zenon DEF ProcessOutput
  <2>4. ASSUME NEW k \in Branch, pause(k) PROVE TypeOK'
    BY <2>4 DEF pause, outputVars
  <2>5. ASSUME NEW k \in Branch, resume(k) PROVE TypeOK'
    BY <2>5 DEF resume, outputVars
  <2>6. ASSUME NEW k \in Branch, reset(k) PROVE TypeOK'
    <3> HIDE DEF TypeOK, Branch, Sample, Nothing
    <3>1. mSample' \in [Branch -> BOOLEAN] /\ mIsPaused' \in [Branch -> BOOLEAN]
      BY <2>6, Zenon DEF reset, TypeOK
    <3>2. mFirstSample' \in [Branch -> BOOLEAN]
      BY <2>6, Zenon DEF reset, TypeOK
    <3>3. mPauseOffset' \in [Branch -> Int] /\ mLastTimeStamp' \in [Branch -> Int]
      BY <2>6 DEF reset, TypeOK
    <3>4. passed' \in [Branch -> Int]
      BY <2>6 DEF reset, TypeOK
    <3>5. Nothing \in Sample
      BY DEF Nothing, Sample
    <3>6. output' \in [Branch -> Sample]
      BY <2>6, <3>5, Zenon DEF reset, TypeOK
    <3>7. touched' \subseteq Branch
      BY <2>6 DEF reset, TypeOK
    <3> QED
      BY <2>6, <3>1, <3>2, <3>3, <3>4, <3>6, <3>7, Zenon DEF reset, TypeOK
  <2>7. CASE UNCHANGED vars
    BY <2>7 DEF vars, switcherVars, outputVars
  <2> QED
    BY <2>1, <2>2, <2>3, <2>4, <2>5, <2>6, <2>7, Zenon DEF Next
<1> QED
  BY <1>1, <1>2, PTL DEF Spec
-----------------------------------------------------------------------------
\* The switchers accept every sample, however many branches there are.
THEOREM AlwaysAccepts == Spec => []NeverRefused
<1>1. Init => NeverRefused
  BY Zenon DEF Init, NeverRefused
<1>2. TypeOK /\ NeverRefused /\ [Next]_vars => NeverRefused'
  <2> SUFFICES ASSUME TypeOK, NeverRefused, [Next]_vars PROVE NeverRefused'
    OBVIOUS
  <2> USE SwitcherAssumption DEF NeverRefused, TypeOK
  <2>1. ASSUME NEW d \in Durations, NewSample(d) PROVE NeverRefused'
    BY <2>1 DEF NewSample, switcherVars, Branch
  <2>2. ASSUME NEW k \in Branch, ProcessInput(k) PROVE NeverRefused'
    BY <2>2 DEF ProcessInput
  <2>3. ASSUME NEW k \in Branch, ProcessOutput(k) PROVE NeverRefused'
    BY <2>3 DEF ProcessOutput, Served
  <2>4. ASSUME NEW k \in Branch, pause(k) PROVE NeverRefused'
    BY <2>4 DEF pause
  <2>5. ASSUME NEW k \in Branch, resume(k) PROVE NeverRefused'
    BY <2>5 DEF resume
  <2>6. ASSUME NEW k \in Branch, reset(k) PROVE NeverRefused'
    BY <2>6 DEF reset
  <2>7. CASE UNCHANGED vars
    BY <2>7 DEF vars, switcherVars
  <2> HIDE DEF NeverRefused, TypeOK
  <2> QED
    BY <2>1, <2>2, <2>3, <2>4, <2>5, <2>6, <2>7, Zenon DEF Next
<1> QED
  BY <1>1, <1>2, TypeCorrect, PTL DEF Spec
-----------------------------------------------------------------------------
\* Where the sample that the first branch sees next begins.
Position == IF next = 1 THEN sample.time ELSE sampleTime

\* What the switcher has taken out of the timeline is what its offset says.
OffsetAccounts == mLastTimeStamp[1] - mPauseOffset[1] = passed[1]

\* A switcher that is on, and not about to take its first sample, goes on where it
\* has stopped.
GoesOn == ~ mFirstSample[1] /\ ~ mIsPaused[1] => mLastTimeStamp[1] = Position

\* Such a switcher does hold the sample for which ProcessOutput is called.
HoldsSample ==
    next = 1 /\ step = "ProcessOutput" /\ ~ mFirstSample[1] /\ ~ mIsPaused[1] => mSample[1]

\* The sample under way ends where the next one will begin.
StampsMeet == next = 1 => sample.time + sample.duration = sampleTime

\* The thread is not inside a branch when it asks for the next sample.
BetweenCalls == next = N + 1 => step = "ProcessInput"

IInv == /\ TypeOK /\ BetweenCalls /\ StampsMeet
        /\ OffsetAccounts /\ GoesOn /\ HoldsSample
        /\ NeverRefused /\ Seamless(1)

\* The invariant of the first branch is inductive.
THEOREM Inductive == Spec => []IInv
<1> USE SwitcherAssumption
<1>0. 1 \in Branch /\ Branch \subseteq Nat /\ N + 1 \notin Branch
  BY DEF Branch
<1>1. Init => IInv
  BY <1>0 DEF Init, IInv, TypeOK, Sample, Nothing, BetweenCalls, StampsMeet, OffsetAccounts,
              GoesOn, HoldsSample, NeverRefused, Seamless
<1>2. TypeOK' /\ NeverRefused' /\ IInv /\ [Next]_vars => IInv'
  <2> SUFFICES ASSUME TypeOK', NeverRefused', IInv, [Next]_vars PROVE IInv'
    OBVIOUS
  <2> DEFINE Rest == /\ BetweenCalls /\ StampsMeet /\ OffsetAccounts /\ GoesOn
                     /\ HoldsSample /\ Seamless(1)
  <2>a. IInv' <=> TypeOK' /\ NeverRefused' /\ Rest'
    BY DEF IInv
  <2>b. TypeOK
    BY DEF IInv
  <2> USE <1>0, <2>b DEF IInv, TypeOK, Sample, Nothing, BetweenCalls, StampsMeet, OffsetAccounts,
              GoesOn, HoldsSample, NeverRefused, Seamless, Position
  <2>1. ASSUME NEW d \in Durations, NewSample(d) PROVE Rest'
    <3>1. d \in Int
      OBVIOUS
    <3> QED
      BY <2>1, <3>1 DEF NewSample, switcherVars, outputVars
  <2>2. ASSUME NEW k \in Branch, ProcessInput(k) PROVE Rest'
    BY <2>2 DEF ProcessInput, outputVars
  <2>3. ASSUME NEW k \in Branch, ProcessOutput(k) PROVE Rest'
    <3>1. CASE mSample[k] /\ ~ mIsPaused[k] /\ PassOn(k)
      BY <2>3, <3>1 DEF ProcessOutput, Served, PassOn, Offset
    <3>2. CASE /\ ~ mSample[k] \/ mIsPaused[k]
               /\ UNCHANGED <<sample, mFirstSample, mPauseOffset, mLastTimeStamp, outputVars>>
      BY <2>3, <3>2 DEF ProcessOutput, Served, outputVars
    <3> QED
      BY <2>3, <3>1, <3>2 DEF ProcessOutput
  <2>4. ASSUME NEW k \in Branch, pause(k) PROVE Rest'
    BY <2>4 DEF pause, outputVars
  <2>5. ASSUME NEW k \in Branch, resume(k) PROVE Rest'
    BY <2>5 DEF resume, outputVars
  <2>6. ASSUME NEW k \in Branch, reset(k) PROVE Rest'
    BY <2>6 DEF reset
  <2>7. ASSUME UNCHANGED vars PROVE Rest'
    BY <2>7 DEF vars, switcherVars, outputVars
  <2> HIDE DEF Rest, IInv, TypeOK
  <2>8. Rest'
    BY <2>1, <2>2, <2>3, <2>4, <2>5, <2>6, <2>7, Zenon DEF Next
  <2> QED
    BY <2>a, <2>8
<1> QED
  BY <1>1, <1>2, TypeCorrect, AlwaysAccepts, PTL DEF Spec

\* The first branch of a tee is recorded without gaps or overlaps, whatever is
\* done to its switcher and to those of the branches after it.
THEOREM FirstBranchSeamless == Spec => []Seamless(1)
<1>1. IInv => Seamless(1)
  BY DEF IInv
<1> QED
  BY <1>1, Inductive, PTL

\* The only branch of a stream is recorded without gaps or overlaps, whenever it
\* is paused, resumed or reset.
THEOREM SeamlessRecording == N = 1 /\ Spec => []Contiguous
<1> SUFFICES ASSUME N = 1 PROVE Spec => []Contiguous
  OBVIOUS
<1>1. IInv => Contiguous
  BY DEF IInv, Contiguous, Branch
<1> QED
  BY <1>1, Inductive, PTL
=============================================================================
