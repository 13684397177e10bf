------------------------ MODULE MediaPipelineProcessor ------------------------
(***************************************************************************)
(* The start / pause / stop handshake of CustomisedMediaPipelineProcessor. *)
(*                                                                         *)
(* One control thread (a call of CustomisedMediaSession, which holds       *)
(* mAccesseMutex for the whole call) asks every media source to change     *)
(* state and then blocks on a condition variable until a counter reaches   *)
(* zero.  The counters are decremented by callbacks that Media Foundation  *)
(* runs on its own threads, one for each event a stream or a stream sink   *)
(* queues.  A source executes its operations on a work queue of its own    *)
(* (CaptureSource), so an acknowledgement may come before, during or after *)
(* the wait it is meant for.                                               *)
(***************************************************************************)
EXTENDS Integers, Sequences, FiniteSets

CONSTANTS
    Sources,        \* the source nodes of the topology, one media stream each
    Sinks,          \* the stream sinks of the topology
    FaultySources,  \* the sources whose Start may fail
    SlowSources,    \* may a wait expire while an acknowledgement is under way?
    HastySources,   \* the sources whose samples may be requested while they are paused
    MaxCalls        \* bound: calls of the session that are explored

ASSUME PipelineAssumption ==
    /\ IsFiniteSet(Sources) /\ Sources # {}
    /\ IsFiniteSet(Sinks) /\ Sinks # {}
    /\ FaultySources \subseteq Sources
    /\ HastySources \subseteq Sources
    /\ SlowSources \in BOOLEAN
    /\ MaxCalls \in Nat

VARIABLES
    pc,             \* where the control thread is
    todo,           \* sources the control thread's for loop has still to call
    lresult,        \* lresult of the control thread: "S_OK" or a failure
    sessionState,   \* mMediaSessionSate of the session
    calls,          \* number of calls made so far (bounds the model)
    mCurrentState,  \* State of the pipeline
    mSourceStreamCount, mSourceStreamPausingCount, mStreamSinkCount,
    m_processSampleAccess,
    mediaStreams,   \* mMediaStreams: the streams announced and listened to
    sourceArmed,    \* sources with a BeginGetEvent outstanding
    device,         \* CaptureSource::mState, one for each source
    active,         \* CaptureStream::mIsActive of the stream of each source
    streamState,    \* CaptureStream::mState of the stream of each source
    postponed,      \* has the stream a mPostponedRequestContainer?
    operations,     \* work queue of each source
    sourceEvents,   \* event queue of each source
    streamEvents,   \* event queue of the stream of each source
    sinkEvents      \* number of MEStreamSinkStopped each sink has queued

controlVars == <<pc, todo, lresult, sessionState, calls, mCurrentState>>
counterVars == <<mSourceStreamCount, mSourceStreamPausingCount, mStreamSinkCount>>
streamVars  == <<active, streamState, postponed>>
sourceVars  == <<device, streamVars, operations, sourceEvents, streamEvents>>
listenVars  == <<mediaStreams, sourceArmed>>
vars == <<controlVars, counterVars, m_processSampleAccess, listenVars,
          sourceVars, sinkEvents>>

SourceCount == Cardinality(Sources)
SinkCount   == Cardinality(Sinks)

Operation   == {"Start", "Pause", "Stop"}
SourceEvent == {"MENewStream", "MEUpdatedStream", "MESourceStopped"}
StreamEvent == {"MEStreamStarted", "MEStreamPaused", "MEStreamStopped"}
Location == {"idle", "starting", "startWait", "startFailed",
             "pausing", "pauseReset", "pauseWait", "clockPause", "sinkPauseWait",
             "stopping", "stopWait", "clockStop", "sinkStopWait", "closed"}

TypeOK ==
    /\ pc \in Location
    /\ todo \subseteq Sources
    /\ lresult \in {"S_OK", "E_FAIL", "MF_E_HW_MFT_FAILED_START_STREAMING",
                    "CONTEXT_E_SYNCH_TIMEOUT"}
    /\ sessionState \in {"None", "Started", "Paused", "Stopped"}
    /\ calls \in 0..MaxCalls
    /\ mCurrentState \in {"None", "Started", "Paused", "Stopped"}
    /\ mSourceStreamCount \in Int
    /\ mSourceStreamPausingCount \in Int
    /\ mStreamSinkCount \in Int
    /\ m_processSampleAccess \in BOOLEAN
    /\ mediaStreams \subseteq Sources
    /\ sourceArmed \subseteq Sources
    /\ device \in [Sources -> {"Uninitialized", "Initialized", "Started", "Paused", "Stopped"}]
    /\ active \in [Sources -> BOOLEAN]
    /\ streamState \in [Sources -> {"Started", "Paused", "Stopped"}]
    /\ postponed \in [Sources -> BOOLEAN]
    /\ operations \in [Sources -> Seq(Operation)]
    /\ sourceEvents \in [Sources -> Seq(SourceEvent)]
    /\ streamEvents \in [Sources -> Seq(StreamEvent)]
    /\ sinkEvents \in [Sinks -> Nat]

\* A pipeline whose init() has run: it listens to its sources and sinks.
Init ==
    /\ pc = "idle" /\ todo = {} /\ lresult = "S_OK" /\ calls = 0
    /\ sessionState = "None" /\ mCurrentState = "None"
    /\ mSourceStreamCount = 0 /\ mSourceStreamPausingCount = 0
    /\ mStreamSinkCount = SinkCount
    /\ m_processSampleAccess = FALSE
    /\ mediaStreams = {} /\ sourceArmed = Sources
    /\ device = [s \in Sources |-> "Uninitialized"]
    /\ active = [s \in Sources |-> FALSE]
    /\ streamState = [s \in Sources |-> "Stopped"]
    /\ postponed = [s \in Sources |-> FALSE]
    /\ operations = [s \in Sources |-> << >>]
    /\ sourceEvents = [s \in Sources |-> << >>]
    /\ streamEvents = [s \in Sources |-> << >>]
    /\ sinkEvents = [k \in Sinks |-> 0]
-----------------------------------------------------------------------------
(***************************************************************************)
(* The media sources (CaptureSource and CaptureStream).                    *)
(***************************************************************************)
Put(op, s) == operations' = [operations EXCEPT ![s] = Append(@, op)]

\* CaptureSource::internalStart, selectStream and CaptureStream::start.  A stream
\* that resumes with a postponed request looks for its token, which the pipeline
\* never gives: the stream has started, but its source stays Paused.  A device
\* that does not come up leaves no event at all.
SourceStart(s) ==
    \/ /\ device' = IF streamState[s] = "Paused" /\ postponed[s]
                    THEN device ELSE [device EXCEPT ![s] = "Started"]
       /\ active' = [active EXCEPT ![s] = TRUE]
       /\ streamState' = [streamState EXCEPT ![s] = "Started"]
       /\ sourceEvents' = [sourceEvents EXCEPT ![s] =
              Append(@, IF active[s] THEN "MEUpdatedStream" ELSE "MENewStream")]
       /\ streamEvents' = [streamEvents EXCEPT ![s] = Append(@, "MEStreamStarted")]
    \/ /\ s \in FaultySources
       /\ UNCHANGED <<device, active, streamState, sourceEvents, streamEvents>>

\* CaptureSource::internalPause and CaptureStream::pause.
SourcePause(s) ==
    /\ device' = [device EXCEPT ![s] = "Paused"]
    /\ IF active[s]
       THEN /\ streamState' = [streamState EXCEPT ![s] = "Paused"]
            /\ streamEvents' = [streamEvents EXCEPT ![s] = Append(@, "MEStreamPaused")]
       ELSE UNCHANGED <<streamState, streamEvents>>
    /\ UNCHANGED <<active, sourceEvents>>

\* CaptureSource::internalStop and CaptureStream::stop.
SourceStop(s) ==
    /\ device' = [device EXCEPT ![s] = "Stopped"]
    /\ active' = [active EXCEPT ![s] = FALSE]
    /\ IF active[s]
       THEN /\ streamState' = [streamState EXCEPT ![s] = "Stopped"]
            /\ streamEvents' = [streamEvents EXCEPT ![s] = Append(@, "MEStreamStopped")]
       ELSE UNCHANGED <<streamState, streamEvents>>
    /\ sourceEvents' = [sourceEvents EXCEPT ![s] = Append(@, "MESourceStopped")]

\* CaptureSource::Invoke: the next operation of the source's work queue.
SourceInvoke(s) ==
    /\ operations[s] # << >>
    /\ operations' = [operations EXCEPT ![s] = Tail(@)]
    /\ \/ Head(operations[s]) = "Start" /\ SourceStart(s)
       \/ Head(operations[s]) = "Pause" /\ SourcePause(s)
       \/ Head(operations[s]) = "Stop"  /\ SourceStop(s)
    /\ UNCHANGED <<controlVars, counterVars, m_processSampleAccess, listenVars,
                   postponed, sinkEvents>>

\* CaptureSource::requestSample of a source that is Paused keeps the request for
\* the stream's next start and never drops it.  (The requests that a source
\* answers, drops or refuses with MEError change nothing here.)
RequestWhilePaused(s) ==
    /\ s \in HastySources /\ s \in mediaStreams
    /\ device[s] = "Paused" /\ streamState[s] = "Paused"
    /\ postponed' = [postponed EXCEPT ![s] = TRUE]
    /\ UNCHANGED <<controlVars, counterVars, m_processSampleAccess, listenVars, device, active,
                   streamState, operations, sourceEvents, streamEvents, sinkEvents>>
-----------------------------------------------------------------------------
(***************************************************************************)
(* The callbacks of the pipeline.                                          *)
(***************************************************************************)
\* Mutant of HandleSourceEvent: MESourceStopped re-arms as well.
HandleSourceEvent_AlwaysRearms(s) ==
    /\ s \in sourceArmed /\ sourceEvents[s] # << >>
    /\ sourceEvents' = [sourceEvents EXCEPT ![s] = Tail(@)]
    /\ mediaStreams' = IF Head(sourceEvents[s]) = "MENewStream"
                       THEN mediaStreams \cup {s} ELSE mediaStreams
    /\ UNCHANGED <<controlVars, counterVars, m_processSampleAccess, sourceArmed,
                   device, streamVars, operations, streamEvents, sinkEvents>>

\* handleSourceRequest: MENewStream subscribes to the stream; every event but
\* MESourceStopped re-arms the subscription to the source.
HandleSourceEvent(s) ==
    /\ s \in sourceArmed /\ sourceEvents[s] # << >>
    /\ sourceEvents' = [sourceEvents EXCEPT ![s] = Tail(@)]
    /\ \/ /\ Head(sourceEvents[s]) = "MENewStream" /\ s \notin mediaStreams
          /\ mediaStreams' = mediaStreams \cup {s}
          /\ UNCHANGED sourceArmed
       \/ \* BeginGetEvent refuses a stream it already listens to
          /\ Head(sourceEvents[s]) = "MENewStream" /\ s \in mediaStreams
          /\ sourceArmed' = sourceArmed \ {s}
          /\ UNCHANGED mediaStreams
       \/ /\ Head(sourceEvents[s]) = "MEUpdatedStream"
          /\ UNCHANGED <<mediaStreams, sourceArmed>>
       \/ /\ Head(sourceEvents[s]) = "MESourceStopped"
          /\ sourceArmed' = sourceArmed \ {s}
          /\ UNCHANGED mediaStreams
    /\ UNCHANGED <<controlVars, counterVars, m_processSampleAccess,
                   device, streamVars, operations, streamEvents, sinkEvents>>

\* handleSourceStreamRequest, the branches that acknowledge a state change.
HandleStreamEvent(s) ==
    /\ s \in mediaStreams /\ streamEvents[s] # << >>
    /\ streamEvents' = [streamEvents EXCEPT ![s] = Tail(@)]
    /\ \/ /\ Head(streamEvents[s]) \in {"MEStreamStarted", "MEStreamStopped"}
          /\ mSourceStreamCount' = mSourceStreamCount - 1
          /\ UNCHANGED mSourceStreamPausingCount
       \/ /\ Head(streamEvents[s]) = "MEStreamPaused"
          /\ mSourceStreamPausingCount' = mSourceStreamPausingCount - 1
          /\ UNCHANGED mSourceStreamCount
    /\ UNCHANGED <<controlVars, mStreamSinkCount, m_processSampleAccess, listenVars,
                   device, streamVars, operations, sourceEvents, sinkEvents>>

\* handleStreamSinkRequest, branch MEStreamSinkStopped.  (MEStreamSinkPaused would
\* count the same, but the clock pauses only the pipelines, never the sinks.)
HandleSinkEvent(k) ==
    /\ sinkEvents[k] > 0
    /\ sinkEvents' = [sinkEvents EXCEPT ![k] = @ - 1]
    /\ mStreamSinkCount' = mStreamSinkCount - 1
    /\ UNCHANGED <<controlVars, mSourceStreamCount, mSourceStreamPausingCount,
                   m_processSampleAccess, listenVars, sourceVars>>
-----------------------------------------------------------------------------
(***************************************************************************)
(* The control thread.                                                     *)
(***************************************************************************)
\* No operation, acknowledgement or announcement is under way.
Quiet ==
    /\ \A s \in Sources : /\ operations[s] = << >>
                          /\ ~ (s \in mediaStreams /\ streamEvents[s] # << >>)
                          /\ ~ (s \in sourceArmed /\ sourceEvents[s] # << >>)
    /\ \A k \in Sinks : sinkEvents[k] = 0

\* A timed wait expires after seconds; prompt sources answer long before.
MayExpire == SlowSources \/ Quiet

\* The loop over the sources issues call(s) for one of those left.
NextSource(s) == s \in todo /\ todo' = todo \ {s}

Call == calls < MaxCalls /\ calls' = calls + 1

\* startSources: the counter is set before the first source is asked to start.
StartSources ==
    /\ pc = "idle" /\ Call
    /\ pc' = "starting" /\ todo' = Sources /\ lresult' = "S_OK"
    /\ m_processSampleAccess' = TRUE
    /\ mSourceStreamCount' = SourceCount
    /\ UNCHANGED <<sessionState, mCurrentState, mSourceStreamPausingCount, mStreamSinkCount,
                   listenVars, sourceVars, sinkEvents>>

\* The hardware error ends the loop, any other failure only lets the next
\* source overwrite lresult.
StartSource(s) ==
    /\ pc = "starting"
    /\ \/ /\ NextSource(s) /\ Put("Start", s) /\ lresult' = "S_OK"
          /\ device' = IF device[s] = "Uninitialized"
                       THEN [device EXCEPT ![s] = "Initialized"] ELSE device
       \/ /\ s \in FaultySources /\ NextSource(s)
          /\ lresult' = "E_FAIL" /\ UNCHANGED <<device, operations>>
       \/ /\ s \in FaultySources /\ s \in todo /\ todo' = {}
          /\ lresult' = "MF_E_HW_MFT_FAILED_START_STREAMING"
          /\ UNCHANGED <<device, operations>>
    /\ UNCHANGED <<pc, sessionState, calls, mCurrentState, counterVars,
                   m_processSampleAccess, listenVars, streamVars,
                   sourceEvents, streamEvents, sinkEvents>>

StartLoopEnds ==
    /\ pc = "starting" /\ todo = {}
    /\ pc' = IF lresult = "S_OK" THEN "startWait" ELSE "startFailed"
    /\ UNCHANGED <<todo, lresult, sessionState, calls, mCurrentState, counterVars,
                   m_processSampleAccess, listenVars, sourceVars, sinkEvents>>

\* Mutant of StartWaitSucceeds: the counter is not set for the stop to come.
StartWaitSucceeds_NoReset ==
    /\ pc = "startWait" /\ mSourceStreamCount = 0
    /\ mCurrentState' = "Started" /\ sessionState' = "Started"
    /\ pc' = "idle"
    /\ UNCHANGED <<todo, lresult, calls, counterVars, m_processSampleAccess,
                   listenVars, sourceVars, sinkEvents>>

\* finishSourceStreamStarting returns S_OK; the session then starts the clock.
StartWaitSucceeds ==
    /\ pc = "startWait" /\ mSourceStreamCount = 0
    /\ mSourceStreamCount' = Cardinality(mediaStreams)
    /\ mCurrentState' = "Started" /\ sessionState' = "Started"
    /\ pc' = "idle"
    /\ UNCHANGED <<todo, lresult, calls, mSourceStreamPausingCount, mStreamSinkCount,
                   m_processSampleAccess, listenVars, sourceVars, sinkEvents>>

\* Mutant of StartWaitExpires: a wait without a limit.
StartWaitExpires_Never == pc = "startWait" /\ MayExpire /\ UNCHANGED vars

StartWaitExpires ==
    /\ pc = "startWait" /\ mSourceStreamCount # 0 /\ MayExpire
    /\ mSourceStreamCount' = Cardinality(mediaStreams)
    /\ lresult' = "MF_E_HW_MFT_FAILED_START_STREAMING"
    /\ pc' = "startFailed"
    /\ UNCHANGED <<todo, sessionState, calls, mCurrentState, mSourceStreamPausingCount,
                   mStreamSinkCount, m_processSampleAccess, listenVars, sourceVars, sinkEvents>>

\* pauseSources, called by a session that is Started.
PauseSources ==
    /\ pc = "idle" /\ sessionState = "Started" /\ Call
    /\ pc' = "pausing" /\ todo' = Sources /\ lresult' = "S_OK"
    /\ sessionState' = "Paused"
    /\ m_processSampleAccess' = FALSE
    /\ mSourceStreamPausingCount' = SourceCount
    /\ UNCHANGED <<mCurrentState, mSourceStreamCount, mStreamSinkCount,
                   listenVars, sourceVars, sinkEvents>>

\* CaptureSource::Pause does nothing unless the source is Started.
PauseSource(s) ==
    /\ pc = "pausing" /\ NextSource(s)
    /\ IF device[s] = "Started" THEN Put("Pause", s) ELSE UNCHANGED operations
    /\ pc' = IF todo' = {} THEN "pauseReset" ELSE pc
    /\ UNCHANGED <<lresult, sessionState, calls, mCurrentState, counterVars,
                   m_processSampleAccess, listenVars, device, streamVars,
                   sourceEvents, streamEvents, sinkEvents>>

\* finishSourceStreamPausing sets the counter again, whatever came in since.
PauseCounterReset ==
    /\ pc = "pauseReset"
    /\ mSourceStreamPausingCount' = SourceCount
    /\ pc' = "pauseWait"
    /\ UNCHANGED <<todo, lresult, sessionState, calls, mCurrentState, mSourceStreamCount,
                   mStreamSinkCount, m_processSampleAccess, listenVars, sourceVars, sinkEvents>>

\* Mutant of PauseWaitSucceeds: goes on before the last stream has paused.
PauseWaitSucceeds_OffByOne ==
    /\ pc = "pauseWait" /\ mSourceStreamPausingCount <= 1
    /\ mCurrentState' = "Paused"
    /\ pc' = "clockPause"
    /\ UNCHANGED <<todo, lresult, sessionState, calls, counterVars,
                   m_processSampleAccess, listenVars, sourceVars, sinkEvents>>

PauseWaitSucceeds ==
    /\ pc = "pauseWait" /\ mSourceStreamPausingCount = 0
    /\ mCurrentState' = "Paused"
    /\ pc' = "clockPause"
    /\ UNCHANGED <<todo, lresult, sessionState, calls, counterVars,
                   m_processSampleAccess, listenVars, sourceVars, sinkEvents>>

\* The session ignores the error and pauses the clock all the same.
PauseWaitExpires ==
    /\ pc = "pauseWait" /\ mSourceStreamPausingCount # 0 /\ MayExpire
    /\ lresult' = "CONTEXT_E_SYNCH_TIMEOUT"
    /\ pc' = "clockPause"
    /\ UNCHANGED <<todo, sessionState, calls, mCurrentState, counterVars,
                   m_processSampleAccess, listenVars, sourceVars, sinkEvents>>

\* Clock -> OnClockPause -> pause(): the counter is brought down to zero (to
\* one below where it was when it is not positive).
ClockPause ==
    /\ pc = "clockPause"
    /\ mStreamSinkCount' = IF mStreamSinkCount > 0 THEN 0 ELSE mStreamSinkCount - 1
    /\ m_processSampleAccess' = FALSE
    /\ pc' = "sinkPauseWait"
    /\ UNCHANGED <<todo, lresult, sessionState, calls, mCurrentState, mSourceStreamCount,
                   mSourceStreamPausingCount, listenVars, sourceVars, sinkEvents>>

\* finishStreamSinkPausing: S_OK whether the wait succeeds or expires.
SinkPauseWaitEnds ==
    /\ pc = "sinkPauseWait"
    /\ mStreamSinkCount = 0 \/ MayExpire
    /\ mStreamSinkCount' = SinkCount
    /\ pc' = "idle"
    /\ UNCHANGED <<todo, lresult, sessionState, calls, mCurrentState, mSourceStreamCount,
                   mSourceStreamPausingCount, m_processSampleAccess, listenVars,
                   sourceVars, sinkEvents>>

\* Mutant of EnterStop: the gate stays as it is.
EnterStop_GateOpen ==
    /\ pc' = "stopping" /\ todo' = Sources
    /\ mSourceStreamPausingCount' = SourceCount
    /\ UNCHANGED <<mCurrentState, mSourceStreamCount, mStreamSinkCount,
                   m_processSampleAccess, listenVars, sourceVars, sinkEvents>>

\* stopSources relies on the value that the last start left in
\* mSourceStreamCount.
EnterStop ==
    /\ pc' = "stopping" /\ todo' = Sources
    /\ m_processSampleAccess' = FALSE
    /\ mSourceStreamPausingCount' = SourceCount
    /\ UNCHANGED <<mCurrentState, mSourceStreamCount, mStreamSinkCount,
                   listenVars, sourceVars, sinkEvents>>

\* Stop() of a session that is Started or Paused.
StopSources ==
    /\ pc = "idle" /\ sessionState \in {"Started", "Paused"} /\ Call
    /\ sessionState' = "Stopped" /\ lresult' = "S_OK"
    /\ EnterStop

\* Start() stops the sources again when startSources has failed.
StopAfterFailure ==
    /\ pc = "startFailed"
    /\ EnterStop
    /\ UNCHANGED <<calls, sessionState, lresult>>

\* CaptureSource::Stop does nothing if the source is Stopped and fails if it was
\* never initialized: the loop, and stopSources with it, ends there.
StopSource(s) ==
    /\ pc = "stopping"
    /\ \/ /\ device[s] # "Uninitialized" /\ NextSource(s)
          /\ IF device[s] # "Stopped" THEN Put("Stop", s) ELSE UNCHANGED operations
          /\ pc' = IF todo' = {} THEN "stopWait" ELSE pc
       \/ /\ device[s] = "Uninitialized" /\ s \in todo /\ todo' = {}
          /\ pc' = "closed" /\ UNCHANGED operations
    /\ UNCHANGED <<lresult, sessionState, calls, mCurrentState, counterVars,
                   m_processSampleAccess, listenVars, device, streamVars,
                   sourceEvents, streamEvents, sinkEvents>>

\* Mutant of StopWaitEnds: does not wait.
StopWaitEnds_NoWait ==
    /\ pc = "stopWait"
    /\ mSourceStreamCount' = Cardinality(mediaStreams)
    /\ mCurrentState' = "Stopped"
    /\ pc' = IF lresult = "S_OK" THEN "clockStop" ELSE "closed"
    /\ UNCHANGED <<todo, lresult, sessionState, calls, mSourceStreamPausingCount,
                   mStreamSinkCount, m_processSampleAccess, listenVars, sourceVars, sinkEvents>>

\* finishSourceStreamStopping: S_OK whether the wait succeeds or expires.  A
\* failed Start() ends here: the session reports the error and is closed.
StopWaitEnds ==
    /\ pc = "stopWait"
    /\ mSourceStreamCount = 0 \/ MayExpire
    /\ mSourceStreamCount' = Cardinality(mediaStreams)
    /\ mCurrentState' = "Stopped"
    /\ pc' = IF lresult = "S_OK" THEN "clockStop" ELSE "closed"
    /\ UNCHANGED <<todo, lresult, sessionState, calls, mSourceStreamPausingCount,
                   mStreamSinkCount, m_processSampleAccess, listenVars, sourceVars, sinkEvents>>

\* Clock -> OnClockStop of the sinks, each of which answers with an event.
ClockStop ==
    /\ pc = "clockStop"
    /\ sinkEvents' = [k \in Sinks |-> sinkEvents[k] + 1]
    /\ pc' = "sinkStopWait"
    /\ UNCHANGED <<todo, lresult, sessionState, calls, mCurrentState, counterVars,
                   m_processSampleAccess, listenVars, sourceVars>>

\* finishStreamSinkStopping: S_OK whether the wait succeeds or expires.
SinkStopWaitEnds ==
    /\ pc = "sinkStopWait"
    /\ mStreamSinkCount = 0 \/ MayExpire
    /\ mStreamSinkCount' = SinkCount
    /\ pc' = "idle"
    /\ UNCHANGED <<todo, lresult, sessionState, calls, mCurrentState, mSourceStreamCount,
                   mSourceStreamPausingCount, m_processSampleAccess, listenVars,
                   sourceVars, sinkEvents>>
-----------------------------------------------------------------------------
\* A step of a call under way; a new call is the application's choice.
Continue ==
    \/ StartLoopEnds \/ StartWaitSucceeds \/ StartWaitExpires
    \/ PauseCounterReset \/ PauseWaitSucceeds \/ PauseWaitExpires
    \/ ClockPause \/ SinkPauseWaitEnds
    \/ StopAfterFailure \/ StopWaitEnds \/ ClockStop \/ SinkStopWaitEnds
    \/ \E s \in Sources : StartSource(s) \/ PauseSource(s) \/ StopSource(s)

Request == StartSources \/ PauseSources \/ StopSources

Callback ==
    \/ \E s \in Sources : \/ SourceInvoke(s) \/ RequestWhilePaused(s)
                          \/ HandleSourceEvent(s) \/ HandleStreamEvent(s)
    \/ \E k \in Sinks : HandleSinkEvent(k)

Next == Request \/ Continue \/ Callback

Spec == Init /\ [][Next]_vars

\* The control thread runs on, and its timed waits end; every operation a source
\* has accepted is executed and every event delivered.
Fairness ==
    /\ WF_vars(Continue)
    /\ \A s \in Sources : /\ WF_vars(SourceInvoke(s))
                           /\ WF_vars(HandleSourceEvent(s))
                           /\ WF_vars(HandleStreamEvent(s))
    /\ \A k \in Sinks : WF_vars(HandleSinkEvent(k))

FairSpec == Spec /\ Fairness
-----------------------------------------------------------------------------
(***************************************************************************)
(* Properties.                                                             *)
(***************************************************************************)
\* The sources that have not acknowledged the request being made: not asked
\* yet, asked, or with their acknowledgement still in the stream's queue.
Outstanding == {s \in Sources : \/ s \in todo
                                \/ operations[s] # << >>
                                \/ streamEvents[s] # << >>}

\* While startSources or stopSources runs, mSourceStreamCount is exactly the
\* number of sources whose acknowledgement has not been handled: none counted
\* twice, none lost, none left over from an earlier call.
CounterIsOutstanding ==
    pc \in {"starting", "startWait", "stopping", "stopWait"}
        => mSourceStreamCount = Cardinality(Outstanding)

\* When a call has returned, every source is in the state the session reports
\* and no acknowledgement of sources or sinks is still under way that the next
\* call could take for its own, though the wait of a pause may have expired.
IdleSettled ==
    pc = "idle" =>
        /\ Outstanding = {}
        /\ \A k \in Sinks : sinkEvents[k] = 0
        /\ sessionState # "None" => \A s \in Sources : device[s] = sessionState

\* "Start session which is referenced by session descriptor."
\* (CaptureManagerTypeInfo.idl): when a start has returned, the sources run.
StartedSessionCaptures ==
    pc = "idle" /\ sessionState = "Started" => \A s \in Sources : device[s] = "Started"

\* A call that has returned leaves the samples' gate open if and only if the
\* session is Started, whatever failed or expired on the way.
GateFollowsSession ==
    pc \in {"idle", "closed"}
        => (m_processSampleAccess <=> pc = "idle" /\ sessionState = "Started")

\* A stream is announced to the pipeline once, however often its source is
\* stopped and started: a second MENewStream would give the source node a
\* MediaStreamID beyond the end of mMediaStreams before BeginGetEvent refuses it.
StreamAnnouncedOnce ==
    \A s \in sourceArmed \cap mediaStreams :
        sourceEvents[s] # << >> => Head(sourceEvents[s]) # "MENewStream"

\* Every call of the session returns, also when acknowledgements are lost, late
\* or counted for another call.
CallsReturn == pc # "idle" ~> pc \in {"idle", "closed"}

(***************************************************************************)
(* With sources that do not fail and answer within the waits, the pipeline *)
(* implements CaptureControl.                                              *)
(***************************************************************************)
Requested ==
    CASE pc \in {"starting", "startWait", "startFailed"} -> "Started"
      [] pc \in {"pausing", "pauseReset", "pauseWait", "clockPause", "sinkPauseWait"} -> "Paused"
      [] pc \in {"stopping", "stopWait", "clockStop", "sinkStopWait"} -> "Stopped"
      [] OTHER -> "none"

Reported == [s \in Sources |-> IF device[s] \in {"Uninitialized", "Initialized"}
                               THEN "None" ELSE device[s]]

Control == INSTANCE CaptureControl WITH request <- Requested, state <- Reported

\* The handshake of counters and condition variables changes all the sources
\* as one request, and every request is eventually granted.
ImplementsControl == Control!FairSpec
=============================================================================
