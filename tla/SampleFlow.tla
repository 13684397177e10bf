----------------------------- MODULE SampleFlow -----------------------------
(***************************************************************************)
(* How samples get from a capture source to the sinks of a session.        *)
(*                                                                         *)
(* Nothing flows unless it is asked for.  A sink asks with an event, the   *)
(* pipeline passes the request up as a Pull item of its serial work queue, *)
(* the source answers with an event, and the sample comes down as Push     *)
(* items; a sink that is given a sample asks for the next.  So the session *)
(* lives on a few requests that go round and round: one that is dropped on *)
(* the way is gone for good.  Requests are dropped while a session is      *)
(* paused or stopped, and every start has to put new ones into the loop.   *)
(*                                                                         *)
(* The topology is one source stream, a tee if there are several sinks,    *)
(* and in front of some sinks a switcher.  Encoders answer every sample    *)
(* with a sample here and are left out.  The calls of the session wait for *)
(* sources that answer in time (see MediaPipelineProcessor).               *)
(***************************************************************************)
EXTENDS Integers, Sequences, FiniteSets, SequencesExt

CONSTANTS
    Sinks,        \* the stream sinks
    Switched,     \* the sinks that have a switcher
    Tee,          \* is there a tee?
    Audio,        \* is mGUIDMajorType audio?
    MaxCalls,     \* bound: calls of the session
    MaxRequests,  \* bound: events a sink may have queued when it is given a sample
    MaxSwitches   \* bound: calls that pause or resume a switcher

ASSUME FlowAssumption ==
    /\ IsFiniteSet(Sinks) /\ Sinks # {} /\ Switched \subseteq Sinks
    /\ Tee \in BOOLEAN /\ Audio \in BOOLEAN
    /\ ~ Tee => Cardinality(Sinks) = 1
    /\ MaxCalls \in Nat /\ MaxRequests \in Nat /\ MaxSwitches \in Nat

VARIABLES
    pc, sessionState, calls,      \* the call of the session under way
    mFinishBarierState, mInitBarierCount,
    mMediaStreamList,             \* has the stream been counted by the barrier?
    m_processSampleAccess,
    device, streamState, postponed,  \* CaptureSource::mState; CaptureStream
    operations,                   \* work queue of the source
    announced, listened,          \* MENewStream queued; stream in mMediaStreams
    samples,                      \* MEMediaSample events the stream has queued
    requests,                     \* MEStreamSinkRequestSample each sink has queued
    queue, worker,                \* mSyncWorkerQueue and what its thread is doing
    mIsReady,                     \* of the tee: has it asked for a sample?
    mIsPaused, mSample,           \* of the switchers
    switches, late                \* late: samples given to sinks since the gate was shut

controlVars == <<pc, sessionState, calls>>
barrierVars == <<mFinishBarierState, mInitBarierCount, mMediaStreamList>>
deviceVars  == <<device, streamState, postponed>>
streamVars  == <<announced, listened, samples>>
nodeVars    == <<mIsReady, mIsPaused, mSample>>
vars == <<controlVars, barrierVars, m_processSampleAccess, deviceVars, operations,
          streamVars, requests, queue, worker, nodeVars, switches, late>>

\* The nodes of the topology.
Stream      == <<"stream">>
TeeNode     == <<"tee">>
Switcher(k) == <<"switcher", k>>
Output(k)   == <<"output", k>>
\* The first node of a branch, the node above the branches and the one below
\* the stream.
Branch(k)   == IF k \in Switched THEN Switcher(k) ELSE Output(k)
Fork        == IF Tee THEN TeeNode ELSE Stream
BelowStream == IF Tee THEN TeeNode ELSE Branch(CHOOSE k \in Sinks : TRUE)
Node == {Stream, Fork} \cup {Switcher(k) : k \in Switched} \cup {Output(k) : k \in Sinks}

Pull(node) == [request |-> "pull", node |-> node]
Push(node) == [request |-> "push", node |-> node]

\* The Push items with which the tee hands a sample to its branches, in order.
Branches == [i \in 1..Cardinality(Sinks) |-> Push(Branch(SetToSeq(Sinks)[i]))]

Idle == <<"idle">>
Worker == {Idle} \cup {<<"ProcessOutput", k>> : k \in Switched}
                 \cup {<<"ProcessSample", k>> : k \in Sinks}

TypeOK ==
    /\ pc \in {"idle", "startWait", "startBarrier", "startClock", "pauseWait", "stopWait"}
    /\ sessionState \in {"None", "Started", "Paused", "Stopped"}
    /\ calls \in 0..MaxCalls /\ switches \in 0..MaxSwitches
    /\ mFinishBarierState \in BOOLEAN /\ mMediaStreamList \in BOOLEAN
    /\ mInitBarierCount \in {-1, 0, 1}
    /\ m_processSampleAccess \in BOOLEAN
    /\ device \in {"Initialized", "Started", "Paused", "Stopped"}
    /\ streamState \in {"Started", "Paused", "Stopped"}
    /\ postponed \in BOOLEAN /\ announced \in BOOLEAN /\ listened \in BOOLEAN
    /\ operations \in Seq({"Start", "Pause", "Stop", "Need"})
    /\ samples \in Nat /\ late \in Nat
    /\ requests \in [Sinks -> Nat]
    /\ queue \in Seq([request : {"pull", "push"}, node : Node])
    /\ worker \in Worker
    /\ mIsReady \in BOOLEAN
    /\ mIsPaused \in [Switched -> BOOLEAN] /\ mSample \in [Switched -> BOOLEAN]

Init ==
    /\ pc = "idle" /\ sessionState = "None" /\ calls = 0
    /\ mFinishBarierState = FALSE /\ mInitBarierCount = 1 /\ mMediaStreamList = FALSE
    /\ m_processSampleAccess = FALSE
    /\ device = "Initialized" /\ streamState = "Stopped" /\ postponed = FALSE
    /\ operations = << >>
    /\ announced = FALSE /\ listened = FALSE /\ samples = 0
    /\ requests = [k \in Sinks |-> 0]
    /\ queue = << >> /\ worker = Idle
    /\ mIsReady = FALSE
    /\ mIsPaused = [k \in Switched |-> FALSE] /\ mSample = [k \in Switched |-> FALSE]
    /\ switches = 0 /\ late = 0
-----------------------------------------------------------------------------
(***************************************************************************)
(* The source.                                                             *)
(***************************************************************************)
\* MENewStream is only heard the first time: MESourceStopped ends the
\* pipeline's subscription to the source.
SourceStart ==
    /\ device' = IF streamState = "Paused" /\ postponed THEN device ELSE "Started"
    /\ streamState' = "Started"
    /\ announced' = (announced \/ (~ listened /\ streamState = "Stopped"))
    /\ UNCHANGED <<postponed, samples>>

SourcePause ==
    /\ device' = "Paused"
    /\ streamState' = IF streamState = "Stopped" THEN "Stopped" ELSE "Paused"
    /\ UNCHANGED <<postponed, announced, samples>>

SourceStop ==
    /\ device' = "Stopped" /\ streamState' = "Stopped"
    /\ UNCHANGED <<postponed, announced, samples>>

\* requestSample: a Started source answers (getNewSample blocks until it has a
\* sample), a Paused one keeps one request and any other forgets it.
SourceAnswer ==
    /\ samples' = IF device = "Started" THEN samples + 1 ELSE samples
    /\ postponed' = (postponed \/ (device = "Paused" /\ streamState = "Paused"))
    /\ UNCHANGED <<device, streamState, announced>>

\* CaptureSource::Invoke.
SourceInvoke ==
    /\ operations # << >>
    /\ operations' = Tail(operations)
    /\ \/ Head(operations) = "Start" /\ SourceStart
       \/ Head(operations) = "Pause" /\ SourcePause
       \/ Head(operations) = "Stop"  /\ SourceStop
       \/ Head(operations) = "Need"  /\ SourceAnswer
    /\ UNCHANGED <<controlVars, barrierVars, m_processSampleAccess, listened, requests,
                   queue, worker, nodeVars, switches, late>>

\* CaptureStream::RequestSample
RequestSample == operations' = Append(operations, "Need")
-----------------------------------------------------------------------------
(***************************************************************************)
(* Events of the source, its stream and the sinks.                         *)
(***************************************************************************)
\* handleSourceRequest, MENewStream.
HandleNewStream ==
    /\ announced
    /\ announced' = FALSE /\ listened' = TRUE
    /\ RequestSample
    /\ UNCHANGED <<controlVars, barrierVars, m_processSampleAccess, deviceVars, samples,
                   requests, queue, worker, nodeVars, switches, late>>

\* handleSourceStreamRequest, MEMediaSample, with checkInitBarier: until every
\* stream has delivered once, samples are dropped and asked for again.
HandleSample ==
    /\ samples > 0 /\ samples' = samples - 1
    /\ \/ /\ mInitBarierCount = 0
          /\ queue' = Append(queue, Push(BelowStream))
          /\ UNCHANGED <<mInitBarierCount, mMediaStreamList, operations>>
       \/ /\ mInitBarierCount # 0
          /\ IF mInitBarierCount > 0 /\ ~ mMediaStreamList
             THEN mInitBarierCount' = mInitBarierCount - 1 /\ mMediaStreamList' = TRUE
             ELSE UNCHANGED <<mInitBarierCount, mMediaStreamList>>
          /\ RequestSample
          /\ UNCHANGED queue
    /\ UNCHANGED <<controlVars, mFinishBarierState, m_processSampleAccess, deviceVars,
                   announced, listened, requests, worker, nodeVars, switches, late>>

\* handleStreamSinkRequest, MEStreamSinkRequestSample.
HandleSinkRequest(k) ==
    /\ requests[k] > 0
    /\ requests' = [requests EXCEPT ![k] = @ - 1]
    /\ queue' = Append(queue, Pull(IF k \in Switched THEN Switcher(k) ELSE Fork))
    /\ UNCHANGED <<controlVars, barrierVars, m_processSampleAccess, deviceVars, operations,
                   streamVars, worker, nodeVars, switches, late>>
-----------------------------------------------------------------------------
(***************************************************************************)
(* The thread of the serial work queue.                                    *)
(***************************************************************************)
Take(item) == worker = Idle /\ queue # << >> /\ Head(queue) = item

\* pullNewSampleFromSourceStream
PullFromStream ==
    /\ Take(Pull(Stream)) /\ queue' = Tail(queue)
    /\ RequestSample
    /\ UNCHANGED <<controlVars, barrierVars, m_processSampleAccess, deviceVars, streamVars,
                   requests, worker, nodeVars, switches, late>>

\* Mutant of PullFromTee: every request is passed up.
PullFromTee_Always ==
    /\ Take(Pull(TeeNode))
    /\ queue' = Append(Tail(queue), Pull(Stream)) /\ mIsReady' = TRUE
    /\ UNCHANGED <<controlVars, barrierVars, m_processSampleAccess, deviceVars, operations,
                   streamVars, requests, worker, mIsPaused, mSample, switches, late>>

\* The tee asks for a sample once, whichever branch asks first.
PullFromTee ==
    /\ Take(Pull(TeeNode))
    /\ queue' = IF mIsReady THEN Tail(queue) ELSE Append(Tail(queue), Pull(Stream))
    /\ mIsReady' = TRUE
    /\ UNCHANGED <<controlVars, barrierVars, m_processSampleAccess, deviceVars, operations,
                   streamVars, requests, worker, mIsPaused, mSample, switches, late>>

\* The tee gives each branch the sample.
PushToTee ==
    /\ Take(Push(TeeNode))
    /\ queue' = Tail(queue) \o Branches
    /\ mIsReady' = FALSE
    /\ UNCHANGED <<controlVars, barrierVars, m_processSampleAccess, deviceVars, operations,
                   streamVars, requests, worker, mIsPaused, mSample, switches, late>>

\* pullPushNewSampleFromToTransform up to ProcessInput, which stores nothing in a
\* paused switcher.
WorkOnSwitcher(k) ==
    /\ \/ /\ Take(Pull(Switcher(k)))
          /\ UNCHANGED mSample
       \/ /\ Take(Push(Switcher(k)))
          /\ mSample' = [mSample EXCEPT ![k] = ~ mIsPaused[k]]
    /\ queue' = Tail(queue) /\ worker' = <<"ProcessOutput", k>>
    /\ UNCHANGED <<controlVars, barrierVars, m_processSampleAccess, deviceVars, operations,
                   streamVars, requests, mIsReady, mIsPaused, switches, late>>

\* Switcher::ProcessOutput and what the pipeline makes of its result: it asks
\* for more input (no sample), forgets both the sample and the request (S_FALSE
\* of a switcher paused meanwhile; one for audio asks for more), or goes on.
ProcessOutput(k) ==
    /\ worker = <<"ProcessOutput", k>> /\ worker' = Idle
    /\ mSample' = [mSample EXCEPT ![k] = FALSE]
    /\ queue' = CASE ~ mSample[k]                    -> Append(queue, Pull(Fork))
                  [] mSample[k] /\ ~ mIsPaused[k]    -> Append(queue, Push(Output(k)))
                  [] OTHER -> IF Audio THEN Append(queue, Pull(Fork)) ELSE queue
    /\ UNCHANGED <<controlVars, barrierVars, m_processSampleAccess, deviceVars, operations,
                   streamVars, requests, mIsReady, mIsPaused, switches, late>>

\* Mutant of PushToOutput: the gate is not looked at.
PushToOutput_Unguarded(k) ==
    /\ Take(Push(Output(k))) /\ queue' = Tail(queue)
    /\ worker' = <<"ProcessSample", k>>
    /\ UNCHANGED <<controlVars, barrierVars, m_processSampleAccess, deviceVars, operations,
                   streamVars, requests, nodeVars, switches, late>>

\* pushNewSampleToOutputNode: checkFinishBarier and the gate, read without a
\* lock that would keep them as they are until ProcessSample is called.
PushToOutput(k) ==
    /\ Take(Push(Output(k))) /\ queue' = Tail(queue)
    /\ worker' = IF mFinishBarierState \/ ~ m_processSampleAccess
                 THEN Idle ELSE <<"ProcessSample", k>>
    /\ UNCHANGED <<controlVars, barrierVars, m_processSampleAccess, deviceVars, operations,
                   streamVars, requests, nodeVars, switches, late>>

\* EVRStreamSink::ProcessSample: the sink takes the sample and asks for the next.
ProcessSample(k) ==
    /\ worker = <<"ProcessSample", k>> /\ worker' = Idle
    /\ requests[k] < MaxRequests
    /\ requests' = [requests EXCEPT ![k] = @ + 1]
    /\ late' = IF m_processSampleAccess THEN late ELSE late + 1
    /\ UNCHANGED <<controlVars, barrierVars, m_processSampleAccess, deviceVars, operations,
                   streamVars, queue, nodeVars, switches>>
-----------------------------------------------------------------------------
(***************************************************************************)
(* The calls of the session.                                               *)
(***************************************************************************)
Call == pc = "idle" /\ calls < MaxCalls /\ calls' = calls + 1

\* Start() of a session that is not running, up to the wait of startSources.
StartSources ==
    /\ Call /\ sessionState # "Started"
    /\ pc' = "startWait"
    /\ mFinishBarierState' = FALSE /\ m_processSampleAccess' = TRUE
    /\ operations' = Append(operations, "Start")
    /\ late' = 0
    /\ UNCHANGED <<sessionState, mInitBarierCount, mMediaStreamList, deviceVars, streamVars,
                   requests, queue, worker, nodeVars, switches>>

Executed(op) == \A i \in DOMAIN operations : operations[i] # op

\* Mutant of StartWaitEnds: the tee is not reset.
StartWaitEnds_NoReset ==
    /\ pc = "startWait" /\ Executed("Start") /\ listened
    /\ pc' = IF sessionState = "None" THEN "startClock" ELSE "startBarrier"
    /\ UNCHANGED <<sessionState, calls, barrierVars, m_processSampleAccess, deviceVars, operations,
                   streamVars, requests, queue, worker, nodeVars, switches, late>>

\* finishSourceStreamStarting, and startSources resets the tee.
StartWaitEnds ==
    /\ pc = "startWait" /\ Executed("Start") /\ listened
    /\ pc' = IF sessionState = "None" THEN "startClock" ELSE "startBarrier"
    /\ mIsReady' = FALSE
    /\ UNCHANGED <<sessionState, calls, barrierVars, m_processSampleAccess, deviceVars, operations,
                   streamVars, requests, queue, worker, mIsPaused, mSample, switches, late>>

\* Only a start of a session that has run before sets the barrier again.
SetInitBarier ==
    /\ pc = "startBarrier" /\ pc' = "startClock"
    /\ mInitBarierCount' = IF mMediaStreamList THEN 1 ELSE 0
    /\ mMediaStreamList' = FALSE
    /\ UNCHANGED <<sessionState, calls, mFinishBarierState, m_processSampleAccess, deviceVars,
                   operations, streamVars, requests, queue, worker, nodeVars, switches, late>>

\* Mutant of StartClock: a resumed session asks for no sample.
StartClock_NoRequest ==
    /\ pc = "startClock" /\ pc' = "idle" /\ sessionState' = "Started"
    /\ m_processSampleAccess' = TRUE
    /\ requests' = [k \in Sinks |-> requests[k] + (IF sessionState = "Paused" THEN 0 ELSE 2)]
    /\ UNCHANGED <<calls, barrierVars, deviceVars, operations, streamVars, queue, worker, nodeVars,
                   switches, late>>

\* The clock: OnClockRestart calls restart() of the pipeline, which asks the
\* stream; OnClockStart calls the sinks, each of which asks twice (the pipeline
\* takes MEStreamSinkStarted for a request as well).
StartClock ==
    /\ pc = "startClock" /\ pc' = "idle" /\ sessionState' = "Started"
    /\ \/ /\ sessionState = "Paused"
          /\ m_processSampleAccess' = TRUE /\ RequestSample
          /\ UNCHANGED requests
       \/ /\ sessionState # "Paused"
          /\ requests' = [k \in Sinks |-> requests[k] + 2]
          /\ UNCHANGED <<m_processSampleAccess, operations>>
    /\ UNCHANGED <<calls, barrierVars, deviceVars, streamVars, queue, worker, nodeVars,
                   switches, late>>

\* Pause(): CaptureSource::Pause does nothing unless the source is Started.
PauseSources ==
    /\ Call /\ sessionState = "Started"
    /\ pc' = "pauseWait" /\ sessionState' = "Paused"
    /\ mFinishBarierState' = FALSE /\ m_processSampleAccess' = FALSE
    /\ operations' = IF device = "Started" THEN Append(operations, "Pause") ELSE operations
    /\ UNCHANGED <<mInitBarierCount, mMediaStreamList, deviceVars, streamVars, requests, queue,
                   worker, nodeVars, switches, late>>

\* Stop(): the barrier lets nothing through until the next start.
StopSources ==
    /\ Call /\ sessionState \in {"Started", "Paused"}
    /\ pc' = "stopWait" /\ sessionState' = "Stopped"
    /\ mFinishBarierState' = TRUE /\ mInitBarierCount' = -1
    /\ m_processSampleAccess' = FALSE
    /\ operations' = Append(operations, "Stop")
    /\ UNCHANGED <<mMediaStreamList, deviceVars, streamVars, requests, queue, worker, nodeVars,
                   switches, late>>

\* finishSourceStreamPausing, finishSourceStreamStopping.
WaitEnds ==
    /\ \/ pc = "pauseWait" /\ Executed("Pause")
       \/ pc = "stopWait"  /\ Executed("Stop")
    /\ pc' = "idle"
    /\ UNCHANGED <<sessionState, calls, barrierVars, m_processSampleAccess, deviceVars, operations,
                   streamVars, requests, queue, worker, nodeVars, switches, late>>

\* Switcher::pause and Switcher::resume, called at any time.
SwitchOver(k) ==
    /\ switches < MaxSwitches /\ switches' = switches + 1
    /\ mIsPaused' = [mIsPaused EXCEPT ![k] = ~ @]
    /\ mSample' = IF mIsPaused[k] THEN [mSample EXCEPT ![k] = FALSE] ELSE mSample
    /\ UNCHANGED <<controlVars, barrierVars, m_processSampleAccess, deviceVars, operations,
                   streamVars, requests, queue, worker, mIsReady, late>>
-----------------------------------------------------------------------------
Continue == StartWaitEnds \/ SetInitBarier \/ StartClock \/ WaitEnds

Work == \/ PullFromStream \/ PullFromTee \/ PushToTee
        \/ \E k \in Switched : WorkOnSwitcher(k) \/ ProcessOutput(k)
        \/ \E k \in Sinks : PushToOutput(k) \/ ProcessSample(k)

Next == \/ StartSources \/ PauseSources \/ StopSources \/ Continue
        \/ SourceInvoke \/ HandleNewStream \/ HandleSample \/ Work
        \/ \E k \in Sinks : HandleSinkRequest(k)
        \/ \E k \in Switched : SwitchOver(k)

Spec == Init /\ [][Next]_vars

\* Calls go on, and all queues are served.
FairSpec ==
    /\ Spec
    /\ WF_vars(Continue) /\ WF_vars(SourceInvoke) /\ WF_vars(Work)
    /\ WF_vars(HandleNewStream) /\ WF_vars(HandleSample)
    /\ \A k \in Sinks : WF_vars(HandleSinkRequest(k))
-----------------------------------------------------------------------------
(***************************************************************************)
(* Properties.                                                             *)
(***************************************************************************)
Count(seq, S) == Cardinality({i \in DOMAIN seq : seq[i] \in S})

\* Requests between the fork and the source, with the samples that answer them.
AboveFork ==
    samples + Count(operations, {"Need"})
            + Count(queue, {Pull(Stream), Push(TeeNode)})

\* Is there a request or a sample between the fork and the sinks?
BelowFork ==
    \/ worker # Idle
    \/ \E k \in Sinks : requests[k] > 0
    \/ \E i \in DOMAIN queue : \/ queue[i] = Pull(TeeNode)
                             \/ queue[i].node \notin {Stream, TeeNode}

\* The session runs, and so does its source.
Running == pc = "idle" /\ sessionState = "Started" /\ device = "Started"

\* While the session runs there is always a request or a sample under way, and
\* a tee that waits for a sample waits for one of them.
FlowAlive == Running => AboveFork > 0 \/ (BelowFork /\ ~ (Tee /\ mIsReady))

\* However many branches ask, a tee passes up one request: of those above it one
\* came from the announcement of the stream and at most two from each start.
RequestsBounded == AboveFork <= 1 + 2 * ((calls + 1) \div 2)

\* The gate is read before ProcessSample is called, so a sample may be given to a
\* sink after pause or stop has shut it, even after the call has returned; but
\* only the one that the work queue's thread had let through.
AtMostOneLate == late <= 1

\* As long as the session runs, every sink that is not switched off is given
\* samples, whatever pauses and stops there have been.
Flowing ==
    \A k \in Sinks : <>[](Running /\ ~ (k \in Switched /\ mIsPaused[k]))
                         => []<><<ProcessSample(k)>>_vars

\* "Resume all switchers in the session" (CaptureManagerTypeInfo.idl): when no
\* switcher is paused and the session runs, some sample is on its way.
ResumedSwitchersFlow ==
    Running /\ (\A k \in Switched : ~ mIsPaused[k]) => AboveFork > 0 \/ BelowFork
=============================================================================
