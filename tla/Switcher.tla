------------------------------- MODULE Switcher -------------------------------
(***************************************************************************)
(* Pausing and resuming the branches of a recording (Switcher).            *)
(*                                                                         *)
(* The pipeline stamps the samples of a stream so that each begins where   *)
(* the one before has ended.  A switcher takes a part out of this timeline *)
(* while it is paused, and moves the samples that follow back by the time  *)
(* that has been left out.  The thread of the work queue hands a sample to *)
(* the switchers of all branches of a tee, one after the other, by two     *)
(* calls each; an application may pause, resume or reset a switcher        *)
(* between any two of them.  All branches get the same IMFSample, whose    *)
(* time a switcher changes in place.  Only what happens between two stops  *)
(* of the session is modelled: a stop sets the stamps back to zero and     *)
(* leaves the switchers as they are.                                       *)
(***************************************************************************)
EXTENDS Integers

CONSTANTS
    N,           \* number of branches, in the order in which the tee serves them
    Durations,   \* durations of the samples
    MaxTime      \* bound: the stamps that are explored

ASSUME SwitcherAssumption ==
    N \in Nat \ {0} /\ Durations \subseteq Int /\ MaxTime \in Int

VARIABLES
    sampleTime,   \* mSampleTimes of the stream: the stamp of the next sample
    sample,       \* the sample under way: its present time and its duration
    next, step,   \* the branch the thread serves, and the call it makes next
    mIsPaused, mFirstSample, mPauseOffset, mLastTimeStamp,
    mSample,      \* does the switcher hold the sample?
    output,       \* the last sample each switcher has passed on
    passed,       \* total duration of those it has passed on since its last reset
    touched       \* switchers that have ever been paused, resumed or reset

switcherVars == <<mIsPaused, mFirstSample, mPauseOffset, mLastTimeStamp, mSample>>
outputVars   == <<output, passed>>
vars == <<sampleTime, sample, next, step, switcherVars, outputVars, touched>>

Branch == 1..N
Sample == [time : Int, duration : Int]

TypeOK ==
    /\ sampleTime \in Int /\ sample \in Sample
    /\ next \in 1..(N + 1) /\ step \in {"ProcessInput", "ProcessOutput"}
    /\ mIsPaused \in [Branch -> BOOLEAN] /\ mFirstSample \in [Branch -> BOOLEAN]
    /\ mPauseOffset \in [Branch -> Int] /\ mLastTimeStamp \in [Branch -> Int]
    /\ mSample \in [Branch -> BOOLEAN]
    /\ output \in [Branch -> Sample] /\ passed \in [Branch -> Int]
    /\ touched \subseteq Branch

Nothing == [time |-> 0, duration |-> 0]

Init ==
    /\ sampleTime = 0 /\ sample = Nothing
    /\ next = N + 1 /\ step = "ProcessInput"
    /\ mIsPaused = [k \in Branch |-> FALSE] /\ mFirstSample = [k \in Branch |-> TRUE]
    /\ mPauseOffset = [k \in Branch |-> 0] /\ mLastTimeStamp = [k \in Branch |-> 0]
    /\ mSample = [k \in Branch |-> FALSE]
    /\ output = [k \in Branch |-> Nothing] /\ passed = [k \in Branch |-> 0]
    /\ touched = {}
-----------------------------------------------------------------------------
\* handleSourceStreamRequest stamps the next sample of the stream; the tee
\* hands it to the first branch.
NewSample(d) ==
    /\ next = N + 1 /\ sampleTime + d <= MaxTime
    /\ sample' = [time |-> sampleTime, duration |-> d]
    /\ sampleTime' = sampleTime + d
    /\ next' = 1
    /\ UNCHANGED <<step, switcherVars, outputVars, touched>>

\* A switcher that is paused takes no sample.
ProcessInput(k) ==
    /\ next = k /\ step = "ProcessInput"
    /\ mSample' = [mSample EXCEPT ![k] = @ \/ ~ mIsPaused[k]]
    /\ step' = "ProcessOutput"
    /\ UNCHANGED <<sampleTime, sample, next, mIsPaused, mFirstSample, mPauseOffset,
                   mLastTimeStamp, outputVars, touched>>

\* The thread goes on to the next branch.
Served(k) == next = k /\ step = "ProcessOutput" /\ next' = k + 1 /\ step' = "ProcessInput"

\* The first sample after a pause moves the offset on to where the last sample
\* passed has ended.
Offset(k) == IF mFirstSample[k] THEN mPauseOffset[k] + (sample.time - mLastTimeStamp[k])
                                ELSE mPauseOffset[k]

PassOn(k) ==
    /\ mPauseOffset' = [mPauseOffset EXCEPT ![k] = Offset(k)]
    /\ mFirstSample' = [mFirstSample EXCEPT ![k] = FALSE]
    /\ mLastTimeStamp' = [mLastTimeStamp EXCEPT ![k] = sample.time + sample.duration]
    /\ sample' = [sample EXCEPT !.time = @ - Offset(k)]
    /\ output' = [output EXCEPT ![k] = sample']
    /\ passed' = [passed EXCEPT ![k] = @ + sample.duration]

\* Mutant of ProcessOutput: a switcher paused meanwhile keeps its sample.
ProcessOutput_KeepsSample(k) ==
    /\ Served(k)
    /\ \/ mSample[k] /\ ~ mIsPaused[k] /\ PassOn(k)
          /\ mSample' = [mSample EXCEPT ![k] = FALSE]
       \/ /\ ~ mSample[k] \/ mIsPaused[k]
          /\ UNCHANGED <<sample, mFirstSample, mPauseOffset, mLastTimeStamp, outputVars, mSample>>
    /\ UNCHANGED <<sampleTime, mIsPaused, touched>>

\* A switcher passes on the sample it holds; if it has been paused since it
\* took the sample, the sample is dropped.
ProcessOutput(k) ==
    /\ Served(k)
    /\ \/ mSample[k] /\ ~ mIsPaused[k] /\ PassOn(k)
       \/ /\ ~ mSample[k] \/ mIsPaused[k]
          /\ UNCHANGED <<sample, mFirstSample, mPauseOffset, mLastTimeStamp, outputVars>>
    /\ mSample' = [mSample EXCEPT ![k] = FALSE]
    /\ UNCHANGED <<sampleTime, mIsPaused, touched>>

pause(k) ==
    /\ mIsPaused' = [mIsPaused EXCEPT ![k] = TRUE]
    /\ touched' = touched \cup {k}
    /\ UNCHANGED <<sampleTime, sample, next, step, mFirstSample, mPauseOffset,
                   mLastTimeStamp, mSample, outputVars>>

\* Mutant of resume: the offset is left as it was.
resume_SameOffset(k) ==
    /\ mSample' = [mSample EXCEPT ![k] = FALSE]
    /\ mIsPaused' = [mIsPaused EXCEPT ![k] = FALSE]
    /\ touched' = touched \cup {k}
    /\ UNCHANGED <<sampleTime, sample, next, step, mFirstSample, mPauseOffset,
                   mLastTimeStamp, outputVars>>

resume(k) ==
    /\ mSample' = [mSample EXCEPT ![k] = FALSE]
    /\ mIsPaused' = [mIsPaused EXCEPT ![k] = FALSE]
    /\ mFirstSample' = [mFirstSample EXCEPT ![k] = TRUE]
    /\ touched' = touched \cup {k}
    /\ UNCHANGED <<sampleTime, sample, next, step, mPauseOffset, mLastTimeStamp, outputVars>>

\* A switcher that is resumed after it was detached begins a new recording.
reset(k) ==
    /\ mSample' = [mSample EXCEPT ![k] = FALSE]
    /\ mPauseOffset' = [mPauseOffset EXCEPT ![k] = 0]
    /\ mLastTimeStamp' = [mLastTimeStamp EXCEPT ![k] = 0]
    /\ mIsPaused' = [mIsPaused EXCEPT ![k] = FALSE]
    /\ mFirstSample' = [mFirstSample EXCEPT ![k] = TRUE]
    /\ output' = [output EXCEPT ![k] = Nothing] /\ passed' = [passed EXCEPT ![k] = 0]
    /\ touched' = touched \cup {k}
    /\ UNCHANGED <<sampleTime, sample, next, step>>

Next == \/ \E d \in Durations : NewSample(d)
        \/ \E k \in Branch : \/ ProcessInput(k) \/ ProcessOutput(k)
                             \/ pause(k) \/ resume(k) \/ reset(k)

Spec == Init /\ [][Next]_vars
-----------------------------------------------------------------------------
(***************************************************************************)
(* Properties.                                                             *)
(***************************************************************************)
Seamless(k) == output[k].time + output[k].duration = passed[k]

\* What a branch passes on has neither gaps nor overlaps: the last sample ends
\* where the durations of all samples passed on add up to, whenever the branch
\* was paused, resumed or reset, be it between the two calls for one sample.
Contiguous == \A k \in Branch : Seamless(k)

\* A switcher is never given a sample while it holds another: ProcessInput would
\* refuse it with MF_E_NOTACCEPTING and the branch would lose its request.
NeverRefused == \A k \in Branch : mSample[k] => next = k /\ step = "ProcessOutput"

\* "Pause selected switcher in the session" (CaptureManagerTypeInfo.idl): what is
\* done to one switcher leaves the recording of the others as it was.
OnlySelected == \A k \in Branch \ touched : Seamless(k)
=============================================================================
