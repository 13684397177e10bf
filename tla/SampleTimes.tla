----------------------------- MODULE SampleTimes -----------------------------
(***************************************************************************)
(* The stamps of a video stream, across pauses and stops of the session.   *)
(*                                                                         *)
(* The callback of a stream asks for the next event before it works on     *)
(* the present one.  It reads the stamp of the stream (mSampleTimes) and   *)
(* the device time of the sample before (mPrevSampleTimes), makes of them  *)
(* the time and the duration of the sample, and writes both back, without  *)
(* a lock, so that another callback, or the end of a stop, can come        *)
(* between.  A stop sets both to zero when it has waited for the stream; a *)
(* start sets the second to zero if the pipeline knows of a pause: it does *)
(* not when the wait of the pause has expired, as it does when the stream  *)
(* was so quick that its answer was not counted.  The samples go to a      *)
(* switcher, which keeps times of its own and is not told of the stop.     *)
(***************************************************************************)
EXTENDS Integers, Sequences

CONSTANTS
    Threads,     \* threads that run callbacks of the stream at a time
    Nominal,     \* the duration that the device gives its samples
    MaxTime,     \* bound on the device clock
    MaxCalls,    \* bound on the calls of the session
    MaxSwitches  \* bound on the pauses of the switcher

ASSUME TimesAssumption ==
    /\ Threads # {} /\ Nominal \in Nat /\ MaxTime \in Nat /\ MaxCalls \in Nat /\ MaxSwitches \in Nat

VARIABLES
    now,                 \* the device clock
    session,             \* state of the session: the source delivers while it is Started
    events,              \* of the source, not yet taken
    handler,             \* of each thread: the line of the callback, and its locals
    sampleTime, prevTime,\* mSampleTimes and mPrevSampleTimes of the stream
    work,                \* samples in the serial work queue
    mCurrentState, call, \* of the pipeline, and the call that waits for the stream
    answered,            \* has the event that the call waits for been handled?
    calls,
    mIsPaused, mFirstSample, mPauseOffset, mLastTimeStamp,   \* the switcher
    switches,
    lastEnd,             \* where the last sample has ended that was queued since the stop
    captured,            \* how long the source has delivered since the stop
    gap,                 \* how long it has not, while the pipeline is Started
    overtaken,           \* has a callback been overtaken, by another or by a call?
    base, output, passed \* first and last sample passed on since the stop, and their duration

sourceVars == <<now, session, events, captured, gap>>
stampVars  == <<sampleTime, prevTime>>
callVars   == <<mCurrentState, call, answered, calls>>
switchVars == <<mIsPaused, mFirstSample, mPauseOffset, mLastTimeStamp, switches>>
outputVars == <<base, output, passed>>
vars == <<sourceVars, handler, stampVars, work, callVars, switchVars, lastEnd, outputVars,
          overtaken>>

running == session = "Started"

Idle   == [step |-> "idle", device |-> 0, jump |-> FALSE, time |-> 0, duration |-> 0]
None   == [time |-> 0, duration |-> 0]
Answer == [type |-> "answer", device |-> 0, jump |-> FALSE]

TypeOK ==
    /\ now \in 0..MaxTime /\ captured \in Nat /\ gap \in Nat /\ overtaken \in BOOLEAN
    /\ session \in {"None", "Started", "Paused", "Stopped"}
    /\ events \in Seq([type : {"sample", "answer"}, device : Nat, jump : BOOLEAN])
    /\ handler \in [Threads -> [step : {"idle", "read", "prev", "time", "put"}, device : Nat,
                                jump : BOOLEAN, time : Int, duration : Int]]
    /\ sampleTime \in Int /\ prevTime \in Nat
    /\ work \in Seq([time : Int, duration : Int])
    /\ mCurrentState \in {"None", "Started", "Paused", "Stopped"}
    /\ call \in {"idle", "asked", "pausing", "stopping"} /\ answered \in BOOLEAN
    /\ mIsPaused \in BOOLEAN /\ mFirstSample \in BOOLEAN
    /\ mPauseOffset \in Int /\ mLastTimeStamp \in Int

Init ==
    /\ now = 0 /\ session = "None" /\ events = <<>> /\ captured = 0 /\ gap = 0
    /\ overtaken = FALSE
    /\ handler = [t \in Threads |-> Idle]
    /\ sampleTime = 0 /\ prevTime = 0 /\ work = <<>>
    /\ mCurrentState = "None" /\ call = "idle" /\ answered = FALSE /\ calls = 0
    /\ mIsPaused = FALSE /\ mFirstSample = TRUE
    /\ mPauseOffset = 0 /\ mLastTimeStamp = 0 /\ switches = 0
    /\ lastEnd = 0 /\ base = None /\ output = None /\ passed = 0
-----------------------------------------------------------------------------
(***************************************************************************)
(* The device.                                                             *)
(***************************************************************************)
\* A frame is delivered, or nobody has asked for it; after that the device may tell
\* of a jump.
Frame ==
    /\ now + Nominal <= MaxTime /\ now' = now + Nominal
    /\ captured' = captured + IF running THEN Nominal ELSE 0
    /\ gap' = gap + IF ~ running /\ mCurrentState = "Started" THEN Nominal ELSE 0
    /\ \/ running /\ \E j \in BOOLEAN :
             events' = Append(events, [type |-> "sample", device |-> now', jump |-> j])
       \/ UNCHANGED events
    /\ UNCHANGED <<session, handler, stampVars, work, callVars, switchVars, lastEnd,
                   outputVars, overtaken>>
-----------------------------------------------------------------------------
(***************************************************************************)
(* handleSourceStreamRequest.                                              *)
(***************************************************************************)
At(t, step) == handler[t].step = step

Take(t) ==
    /\ At(t, "idle") /\ events # <<>>
    /\ events' = Tail(events)
    /\ overtaken' = (overtaken \/ \E u \in Threads \ {t} : ~ At(u, "idle"))
    /\ IF Head(events).type = "answer"
       THEN answered' = TRUE /\ UNCHANGED handler
       ELSE /\ handler' = [handler EXCEPT ![t] = [Idle EXCEPT !.step = "read",
                              !.device = Head(events).device, !.jump = Head(events).jump]]
            /\ UNCHANGED answered
    /\ UNCHANGED <<now, session, captured, gap, stampVars, work, mCurrentState, call,
                   calls, switchVars, lastEnd, outputVars>>

\* The duration that the device gives counts for the first sample only, and after
\* a jump.
Duration(t) == IF ~ handler[t].jump /\ prevTime > 0 THEN handler[t].device - prevTime
                                                     ELSE Nominal

ReadTimes(t) ==
    /\ At(t, "read")
    /\ handler' = [handler EXCEPT ![t].step = "prev", ![t].time = sampleTime,
                                  ![t].duration = Duration(t)]
    /\ UNCHANGED <<sourceVars, stampVars, work, callVars, switchVars, lastEnd, outputVars,
                   overtaken>>

WritePrev(t) ==
    /\ At(t, "prev")
    /\ prevTime' = handler[t].device
    /\ handler' = [handler EXCEPT ![t].step = "time"]
    /\ UNCHANGED <<sourceVars, sampleTime, work, callVars, switchVars, lastEnd, outputVars,
                   overtaken>>

WriteTime(t) ==
    /\ At(t, "time")
    /\ sampleTime' = handler[t].time + handler[t].duration
    /\ handler' = [handler EXCEPT ![t].step = "put"]
    /\ UNCHANGED <<sourceVars, prevTime, work, callVars, switchVars, lastEnd, outputVars,
                   overtaken>>

Put(t) ==
    /\ At(t, "put")
    /\ work' = Append(work, [time |-> handler[t].time, duration |-> handler[t].duration])
    /\ lastEnd' = handler[t].time + handler[t].duration
    /\ handler' = [handler EXCEPT ![t] = Idle]
    /\ UNCHANGED <<sourceVars, stampVars, callVars, switchVars, outputVars, overtaken>>

Callback(t) == Take(t) \/ ReadTimes(t) \/ WritePrev(t) \/ WriteTime(t) \/ Put(t)
-----------------------------------------------------------------------------
(***************************************************************************)
(* The calls of the session.                                               *)
(***************************************************************************)
\* Mutant of startSources: the time before a pause is remembered.
startSources_KeepsPrev ==
    /\ call = "idle" /\ calls < MaxCalls /\ calls' = calls + 1
    /\ mCurrentState' = "Started" /\ session' = "Started"
    /\ captured' = captured + gap /\ gap' = 0
    /\ UNCHANGED <<now, events, handler, stampVars, work, call, answered, switchVars, lastEnd,
                   outputVars, overtaken>>

\* Mutant of startSources: both collections are set to zero, as at the end of a stop.
startSources_ResetsTime ==
    /\ call = "idle" /\ calls < MaxCalls /\ calls' = calls + 1
    /\ prevTime' = IF mCurrentState \in {"Paused", "Stopped"} THEN 0 ELSE prevTime
    /\ sampleTime' = IF mCurrentState \in {"Paused", "Stopped"} THEN 0 ELSE sampleTime
    /\ mCurrentState' = "Started" /\ session' = "Started"
    /\ captured' = captured + gap /\ gap' = 0
    /\ UNCHANGED <<now, events, handler, work, call, answered, switchVars, lastEnd, outputVars,
                   overtaken>>

\* A start of a session that is started already is not refused.
startSources ==
    /\ call = "idle" /\ calls < MaxCalls /\ calls' = calls + 1
    /\ prevTime' = IF mCurrentState \in {"Paused", "Stopped"} THEN 0 ELSE prevTime
    /\ mCurrentState' = "Started" /\ session' = "Started"
    /\ captured' = captured + gap /\ gap' = 0
    /\ UNCHANGED <<now, events, handler, sampleTime, work, call, answered, switchVars, lastEnd,
                   outputVars, overtaken>>

\* The session notes the call, and the sources are asked.
Request(c, state) ==
    /\ call = "idle" /\ calls < MaxCalls /\ calls' = calls + 1
    /\ session' = state /\ call' = c /\ answered' = FALSE
    /\ events' = Append(events, Answer)
    /\ UNCHANGED <<now, captured, gap, handler, stampVars, work, mCurrentState, switchVars,
                   lastEnd, outputVars, overtaken>>

pauseSources == running /\ Request("asked", "Paused")
stopSources  == session \in {"Started", "Paused"} /\ Request("stopping", "Stopped")

\* The count of answers is set once more before the wait: one that is there is lost.
countAgain ==
    /\ call = "asked" /\ call' = "pausing" /\ answered' = FALSE
    /\ UNCHANGED <<sourceVars, handler, stampVars, work, mCurrentState, calls, switchVars,
                   lastEnd, outputVars, overtaken>>

\* Nothing of the stream is under way.
Still == events = <<>> /\ \A t \in Threads : At(t, "idle")

\* The wait for the stream ends with its answer, or expires: then the pipeline does not
\* note that it is paused, as the session has done.
finishSourceStreamPausing ==
    /\ call = "pausing" /\ call' = "idle"
    /\ \/ answered /\ mCurrentState' = "Paused" /\ gap' = 0
       \/ ~ answered /\ UNCHANGED <<mCurrentState, gap>>
    /\ overtaken' = (overtaken \/ ~ Still)
    /\ UNCHANGED <<now, session, events, captured, handler, stampVars, work, answered,
                   calls, switchVars, lastEnd, outputVars>>

\* The stop has ended, or its waits have expired: the accounts begin anew.
Ended ==
    /\ call = "stopping" /\ call' = "idle"
    /\ mCurrentState' = IF answered THEN "Stopped" ELSE mCurrentState
    /\ overtaken' = (overtaken \/ ~ Still \/ work # <<>>)
    /\ captured' = 0 /\ gap' = 0 /\ lastEnd' = 0
    /\ base' = None /\ output' = None /\ passed' = 0
    /\ UNCHANGED <<now, session, events, handler, work, answered, calls, switchVars>>

\* Mutant of finishStreamSinkStopping: the stamp is not set back.
finishStreamSinkStopping_KeepsTime == Ended /\ prevTime' = 0 /\ UNCHANGED sampleTime

finishStreamSinkStopping == Ended /\ sampleTime' = 0 /\ prevTime' = 0

Session == startSources \/ pauseSources \/ stopSources \/ countAgain
           \/ finishSourceStreamPausing \/ finishStreamSinkStopping
-----------------------------------------------------------------------------
(***************************************************************************)
(* The switcher, with both calls of the serial queue for a sample at once. *)
(***************************************************************************)
Offset(s) == mPauseOffset + IF mFirstSample THEN s.time - mLastTimeStamp ELSE 0

\* Mutant of ProcessOutput: the end of the sample is not noted.
ProcessOutput_KeepsLast(s) ==
    /\ mPauseOffset' = Offset(s) /\ mFirstSample' = FALSE
    /\ output' = [time |-> s.time - Offset(s), duration |-> s.duration]
    /\ base' = IF passed = 0 THEN output' ELSE base
    /\ passed' = passed + s.duration
    /\ UNCHANGED mLastTimeStamp

ProcessOutput(s) ==
    /\ mPauseOffset' = Offset(s) /\ mFirstSample' = FALSE
    /\ mLastTimeStamp' = s.time + s.duration
    /\ output' = [time |-> s.time - Offset(s), duration |-> s.duration]
    /\ base' = IF passed = 0 THEN output' ELSE base
    /\ passed' = passed + s.duration

Push ==
    /\ work # <<>> /\ work' = Tail(work)
    /\ IF mIsPaused THEN UNCHANGED <<mFirstSample, mPauseOffset, mLastTimeStamp, outputVars>>
                    ELSE ProcessOutput(Head(work))
    /\ UNCHANGED <<sourceVars, handler, stampVars, callVars, mIsPaused, switches, lastEnd,
                   overtaken>>

pause ==
    /\ ~ mIsPaused /\ switches < MaxSwitches
    /\ mIsPaused' = TRUE /\ switches' = switches + 1
    /\ UNCHANGED <<sourceVars, handler, stampVars, work, callVars, mFirstSample, mPauseOffset,
                   mLastTimeStamp, lastEnd, outputVars, overtaken>>

resume ==
    /\ mIsPaused
    /\ mIsPaused' = FALSE /\ mFirstSample' = TRUE
    /\ UNCHANGED <<sourceVars, handler, stampVars, work, callVars, mPauseOffset,
                   mLastTimeStamp, switches, lastEnd, outputVars, overtaken>>

Next == \/ Frame \/ Session \/ Push \/ pause \/ resume
        \/ \E t \in Threads : Callback(t)

Spec == Init /\ [][Next]_vars
-----------------------------------------------------------------------------
(***************************************************************************)
(* Properties.                                                             *)
(***************************************************************************)
\* Each sample begins where the one before has ended, the first after a stop at zero,
\* across pauses, restarts and waits that expire, as long as no callback has been
\* overtaken: the stamps are read and written without a lock, so that it is the order
\* of the callbacks alone that keeps them from being mixed.
Contiguous ==
    [][\A t \in Threads : Put(t) /\ ~ overtaken => handler[t].time = lastEnd]_vars

\* A recording is not longer than the source has delivered since the stop, except by the
\* pauses that the pipeline has not noted because their waits have expired: each of those
\* is in the recording once, however many samples are under way.
RecordsCapture == ~ overtaken => sampleTime <= captured

\* What a switcher passes on between two stops has neither gaps nor overlaps, whatever
\* offset it has brought along, as long as no callback has been overtaken.
SeamlessRun == passed > 0 /\ ~ overtaken => output.time + output.duration = base.time + passed

\* The recording of a switcher that has never been paused begins at zero after each stop,
\* as long as no callback has been overtaken.  One that was paused brings an offset along.
BeginsAtZero == passed > 0 /\ switches = 0 /\ ~ overtaken => base.time = 0
=============================================================================
