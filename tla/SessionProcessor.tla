--------------------------- MODULE SessionProcessor ---------------------------
(***************************************************************************)
(* SessionProcessor turns the asynchronous CustomisedMediaSession into     *)
(* synchronous calls.  A client call, made through SessionProcessorManager *)
(* by one thread, asks the session for something while it holds mMutex and *)
(* then waits on one condition variable; Invoke, run by Media Foundation   *)
(* for one session event at a time, posts the application's callback and   *)
(* notifies that condition variable.  The waits have a limit but no        *)
(* predicate: whatever is notified first ends the wait under way, and a    *)
(* wakeup that nobody caused does as well.  A call that returned early     *)
(* leaves its event to be handled during a later one.                      *)
(***************************************************************************)
EXTENDS Naturals, Sequences

CONSTANTS
    MaxCalls,         \* bound: calls of the client that are explored
    StartMayFail,     \* may the session's Start fail?
    Disturbances,     \* events that devices may cause at any time
    MaxDisturbances   \* bound: how many of them

\* Events that no call waits for; all but the error notify a wait.
DeviceNotice == {"DeviceRemoved", "DevicePreempted"}
DeviceEvent  == DeviceNotice \cup {"Error"}

ASSUME SessionAssumption ==
    /\ MaxCalls \in Nat /\ MaxDisturbances \in Nat
    /\ StartMayFail \in BOOLEAN
    /\ Disturbances \subseteq DeviceEvent

VARIABLES
    pc,                     \* where the client thread is
    call,                   \* the call it is in, or was in last
    answer,                 \* the event that notified the wait first, or "none"
    fresh,                  \* history: no earlier call's event was left when it began
    calls, disturbed,       \* calls and disturbances so far (bound the model)
    mIsStarted,
    mMediaSessionSate,      \* state of CustomisedMediaSession
    mSessionIsInitialised,
    mEventQueue,            \* events the session has queued
    queueOpen,              \* has the session an event queue still?
    armed,                  \* is a BeginGetEvent outstanding?
    handling, phase,        \* the event Invoke is working on, and how far it is
    posted,                 \* the callbacks handed to the application's work queue
    finalized               \* has postEncodingUpdate closed the files: "no", "inTime", "late"

clientVars   == <<pc, call, answer, calls, fresh>>
sessionVars  == <<mMediaSessionSate, mSessionIsInitialised, mEventQueue, queueOpen>>
callbackVars == <<armed, handling, phase, posted, finalized>>
vars == <<clientVars, disturbed, mIsStarted, sessionVars, callbackVars>>

SessionEvent == {"TopologyReady", "Started", "Paused", "Stopped", "Closed"} \cup DeviceEvent

\* The calls, and the event each of them waits for.  Closing has three forms:
\* the client's, and those of a start or a pause that has failed.
Awaited == [setTopology |-> "TopologyReady", start |-> "Started", pause |-> "Paused",
            stop |-> "Stopped", stopToClose |-> "Stopped", close |-> "Closed",
            closeAfterStart |-> "Closed", closeAfterPause |-> "Closed"]

TypeOK ==
    /\ pc \in {"new", "idle", "waiting", "failed", "closing", "relock", "gone"}
    /\ call \in DOMAIN Awaited
    /\ answer \in SessionEvent \cup {"none"} /\ fresh \in BOOLEAN
    /\ calls \in 0..MaxCalls /\ disturbed \in 0..MaxDisturbances
    /\ mIsStarted \in BOOLEAN
    /\ mMediaSessionSate \in {"None", "Started", "Paused", "Stopped", "Closed", "Shutdowned"}
    /\ mSessionIsInitialised \in BOOLEAN
    /\ mEventQueue \in Seq(SessionEvent)
    /\ queueOpen \in BOOLEAN /\ armed \in BOOLEAN
    /\ handling \in SessionEvent \cup {"none"}
    /\ phase \in {"none", "taken", "handled"}
    /\ posted \in Seq(SessionEvent)
    /\ finalized \in {"no", "inTime", "late"}

\* createSession has made the processor and called BeginGetEvent.
Init ==
    /\ pc = "new" /\ call = "setTopology" /\ answer = "none" /\ fresh = TRUE
    /\ calls = 0 /\ disturbed = 0
    /\ mIsStarted = FALSE
    /\ mMediaSessionSate = "None" /\ mSessionIsInitialised = FALSE
    /\ mEventQueue = << >> /\ queueOpen = TRUE
    /\ armed = TRUE /\ handling = "none" /\ phase = "none"
    /\ posted = << >> /\ finalized = "no"
-----------------------------------------------------------------------------
(***************************************************************************)
(* The session's answers.                                                  *)
(***************************************************************************)
\* A session that has been shut down has no queue: its events are lost.
Queue(e) == mEventQueue' = IF queueOpen THEN Append(mEventQueue, e) ELSE mEventQueue

\* An event that Invoke has not handled yet.
Pending(e) == (phase = "taken" /\ handling = e) \/ \E i \in DOMAIN mEventQueue : mEventQueue[i] = e

\* No event of an earlier call is left: none is to be handled, and Invoke is done with
\* those handled, but for the one that answered the last call, if that was fresh too.
Settled ==
    /\ \A e \in SessionEvent : Pending(e) => e \in DeviceEvent
    /\ phase = "handled" => handling \in DeviceEvent \/ (fresh /\ handling = answer)

Wait == pc' = "waiting" /\ answer' = "none" /\ fresh' = Settled

\* CustomisedMediaSession::Shutdown: the queue goes, with what is in it.
Shutdown ==
    /\ mMediaSessionSate' = "Shutdowned" /\ mSessionIsInitialised' = FALSE
    /\ mEventQueue' = << >> /\ queueOpen' = FALSE /\ armed' = FALSE

\* CustomisedMediaSession::Close: MESessionClosed is queued on every call.
Close == mMediaSessionSate' = "Closed" /\ Queue("Closed")

\* CustomisedMediaSession::Stop has nothing to do in the other states.
Stoppable == mSessionIsInitialised /\ mMediaSessionSate \in {"Started", "Paused"}

Stop == mMediaSessionSate' = "Stopped" /\ Queue("Stopped")
-----------------------------------------------------------------------------
(***************************************************************************)
(* The client's calls.  Each holds mMutex from its first statement to the  *)
(* wait, so no event is handled in between.                                *)
(***************************************************************************)
Call(c) ==
    /\ pc = "idle" /\ calls < MaxCalls
    /\ calls' = calls + 1 /\ call' = c

SetTopology ==
    /\ pc = "new"
    /\ Queue("TopologyReady") /\ Wait
    /\ UNCHANGED <<call, calls, disturbed, mIsStarted, mMediaSessionSate,
                   mSessionIsInitialised, queueOpen, callbackVars>>

StartCapture ==
    /\ Call("start")
    /\ \/ /\ queueOpen
          /\ mMediaSessionSate' = "Started" /\ mSessionIsInitialised' = TRUE
          /\ Queue("Started") /\ Wait
       \/ \* MEError only; the sources of a session shut down cannot start
          /\ StartMayFail \/ ~ queueOpen
          /\ mSessionIsInitialised' = FALSE
          /\ Queue("Error") /\ pc' = "failed"
          /\ UNCHANGED <<mMediaSessionSate, answer, fresh>>
    /\ UNCHANGED <<disturbed, mIsStarted, queueOpen, callbackVars>>

\* Pause queues MESessionPaused whatever the state it finds.
PauseCapture ==
    /\ Call("pause")
    /\ mMediaSessionSate' = IF mMediaSessionSate = "Started" THEN "Paused"
                            ELSE mMediaSessionSate
    /\ Queue("Paused")
    /\ IF queueOpen THEN Wait ELSE pc' = "failed" /\ UNCHANGED <<answer, fresh>>
    /\ UNCHANGED <<disturbed, mIsStarted, mSessionIsInitialised, queueOpen, callbackVars>>

StopCapture ==
    /\ Call("stop") /\ Stoppable
    /\ Stop /\ Wait
    /\ UNCHANGED <<disturbed, mIsStarted, mSessionIsInitialised, queueOpen, callbackVars>>

\* closeSession of the manager: stopCapture, then close.
CloseSession ==
    /\ Call("stopToClose")
    /\ \/ Stoppable /\ Stop /\ Wait
       \/ /\ ~ Stoppable
          /\ pc' = "closing" /\ answer' = "none" /\ fresh' = Settled
          /\ UNCHANGED <<mMediaSessionSate, mEventQueue>>
    /\ UNCHANGED <<disturbed, mIsStarted, mSessionIsInitialised, queueOpen, callbackVars>>

\* close() with mIsStarted set calls stopCapture, which locks mMutex again.
CloseProcessor ==
    /\ pc = "closing"
    /\ call' = "close"
    /\ \/ /\ mIsStarted
          /\ pc' = "relock" /\ UNCHANGED <<answer, fresh, mMediaSessionSate, mEventQueue>>
       \/ /\ ~ mIsStarted
          /\ Close
          /\ IF queueOpen THEN Wait ELSE pc' = "gone" /\ UNCHANGED <<answer, fresh>>
    /\ UNCHANGED <<calls, disturbed, mIsStarted, mSessionIsInitialised, queueOpen, callbackVars>>

\* startCapture and pauseCapture close a session that has failed them.
CloseFailed ==
    /\ pc = "failed"
    /\ call' = IF call = "start" THEN "closeAfterStart" ELSE "closeAfterPause"
    /\ Close /\ Wait
    /\ UNCHANGED <<calls, disturbed, mIsStarted, mSessionIsInitialised, queueOpen, callbackVars>>

\* Mutant of Return: a stop leaves mIsStarted to Invoke.
Return_KeepsStarted(ok) ==
    /\ pc' = CASE call \in {"start", "pause"} /\ ~ ok           -> "failed"
               [] call = "stopToClose"                          -> "closing"
               [] call \in {"close", "closeAfterStart"}         -> "gone"
               [] call = "setTopology" /\ ~ ok                  -> "gone"
               [] OTHER                                         -> "idle"
    /\ \/ call \in {"close", "closeAfterStart", "closeAfterPause"} /\ Shutdown
       \/ /\ call \notin {"close", "closeAfterStart", "closeAfterPause"}
          /\ UNCHANGED <<sessionVars, armed>>
    /\ UNCHANGED <<call, answer, calls, fresh, disturbed, mIsStarted, handling, phase, posted,
                   finalized>>

\* What follows the wait of a call, ok telling that it did not end by its limit.  The
\* manager drops a session that it could not create, start or has closed.
Return(ok) ==
    /\ pc' = CASE call \in {"start", "pause"} /\ ~ ok           -> "failed"
               [] call = "stopToClose"                          -> "closing"
               [] call \in {"close", "closeAfterStart"}         -> "gone"
               [] call = "setTopology" /\ ~ ok                  -> "gone"
               [] OTHER                                         -> "idle"
    /\ mIsStarted' = (mIsStarted /\ call \notin {"stop", "stopToClose"})
    /\ \/ call \in {"close", "closeAfterStart", "closeAfterPause"} /\ Shutdown
       \/ /\ call \notin {"close", "closeAfterStart", "closeAfterPause"}
          /\ UNCHANGED <<sessionVars, armed>>
    /\ UNCHANGED <<call, answer, calls, fresh, disturbed, handling, phase, posted, finalized>>

\* Mutant of WaitEnds: a wait without a limit, that only a notification ends.
WaitEnds_Unlimited == pc = "waiting" /\ answer # "none" /\ Return(TRUE)

\* wait_for with a limit and no predicate: it reports no timeout when it was notified
\* and when it woke of itself, and a timeout at any time, as an event may have been
\* handled while the limit passed.
WaitEnds == pc = "waiting" /\ \E ok \in BOOLEAN : Return(ok)
-----------------------------------------------------------------------------
(***************************************************************************)
(* SessionProcessor::Invoke.                                               *)
(***************************************************************************)
\* EndGetEvent takes the next event.
TakeEvent ==
    /\ armed /\ mEventQueue # << >>
    /\ handling' = Head(mEventQueue) /\ mEventQueue' = Tail(mEventQueue)
    /\ armed' = FALSE /\ phase' = "taken"
    /\ UNCHANGED <<clientVars, disturbed, mIsStarted, mMediaSessionSate,
                   mSessionIsInitialised, queueOpen, posted, finalized>>

\* Mutant of Notifies: a failed event notifies too.
Notifies_Always == handling \in SessionEvent

\* A failed status notifies nobody; a preempted device notifies the wait but
\* has no callback.
Notifies == handling # "Error"
Reports  == handling # "DevicePreempted"

\* processMediaEvent, all of it under mMutex.
HandleEvent ==
    /\ phase = "taken"
    /\ phase' = "handled"
    /\ posted' = IF Reports THEN Append(posted, handling) ELSE posted
    /\ answer' = IF Notifies /\ pc = "waiting" /\ answer = "none" THEN handling ELSE answer
    /\ mIsStarted' = (mIsStarted \/ handling = "Started")
    /\ finalized' = IF handling # "Closed" \/ finalized # "no" THEN finalized
                    ELSE IF queueOpen THEN "inTime" ELSE "late"
    /\ UNCHANGED <<pc, call, calls, fresh, disturbed, sessionVars, armed, handling>>

\* Mutant of FinishEvent: asks for another event after MESessionClosed.
FinishEvent_GoesOn ==
    /\ phase = "handled"
    /\ mIsStarted' = (mIsStarted /\ handling \notin {"Stopped", "Closed", "DevicePreempted"})
    /\ armed' = (queueOpen /\ handling # "DevicePreempted")
    /\ handling' = "none" /\ phase' = "none"
    /\ UNCHANGED <<clientVars, disturbed, sessionVars, posted, finalized>>

\* Mutant of FinishEvent: leaves mIsStarted to the stop.
FinishEvent_KeepsStarted ==
    /\ phase = "handled"
    /\ mIsStarted' = (mIsStarted /\ handling \notin {"Closed", "DevicePreempted"})
    /\ armed' = (queueOpen /\ handling \notin {"Closed", "DevicePreempted"})
    /\ handling' = "none" /\ phase' = "none"
    /\ UNCHANGED <<clientVars, disturbed, sessionVars, posted, finalized>>

\* The rest of Invoke, outside mMutex: no BeginGetEvent after a closing event.
FinishEvent ==
    /\ phase = "handled"
    /\ mIsStarted' = (mIsStarted /\ handling \notin {"Stopped", "Closed", "DevicePreempted"})
    /\ armed' = (queueOpen /\ handling \notin {"Closed", "DevicePreempted"})
    /\ handling' = "none" /\ phase' = "none"
    /\ UNCHANGED <<clientVars, disturbed, sessionVars, posted, finalized>>

\* The pipeline forwards an event of a device to the session.
Disturb(e) ==
    /\ mSessionIsInitialised /\ queueOpen /\ disturbed < MaxDisturbances
    /\ disturbed' = disturbed + 1
    /\ Queue(e)
    /\ UNCHANGED <<clientVars, mIsStarted, mMediaSessionSate, mSessionIsInitialised,
                   queueOpen, callbackVars>>
-----------------------------------------------------------------------------
Requests == StartCapture \/ PauseCapture \/ StopCapture \/ CloseSession

\* The client thread goes on by itself from here.
Client == SetTopology \/ CloseProcessor \/ CloseFailed \/ WaitEnds

Invoke == TakeEvent \/ HandleEvent \/ FinishEvent

Next == Requests \/ Client \/ Invoke \/ \E e \in Disturbances : Disturb(e)

Spec == Init /\ [][Next]_vars

\* The client thread runs, its waits have a limit, and Media Foundation delivers
\* the event of an outstanding BeginGetEvent.
FairSpec == Spec /\ WF_vars(Client) /\ WF_vars(Invoke)
-----------------------------------------------------------------------------
(***************************************************************************)
(* Properties.                                                             *)
(***************************************************************************)
\* A wait that begins when no event of an earlier call is left to be handled is notified
\* by the event that its own call caused or by a device, never by an error.
AnsweredByOwnEvent ==
    pc = "waiting" /\ fresh /\ answer # "none" => answer \in DeviceNotice \cup {Awaited[call]}

\* mIsStarted, written by two threads and only partly under mMutex, tells between two
\* calls whether the session runs, as soon as no event is left to be handled, whichever
\* calls returned before their event; close() relies on it.
StartedFlagAgrees ==
    pc = "idle" /\ disturbed = 0 /\ mMediaSessionSate # "Shutdowned"
                /\ mEventQueue = << >> /\ phase = "none"
    => (mIsStarted <=> mMediaSessionSate \in {"Started", "Paused"})

\* The files are finalized before the sinks are shut down under them, when the wait for
\* that began with nothing left of earlier calls and neither expired, nor woke of
\* itself, nor was ended by a device.
FinalizedBeforeShutdown ==
    mMediaSessionSate = "Shutdowned" /\ fresh /\ answer \notin DeviceNotice \cup {"none"}
    => finalized = "inTime"

\* close() locks the mutex it holds only when the session was closed while an event of
\* an earlier call was left to be handled, when a pause had failed, or after a device
\* disturbed it.
NeverRelocks ==
    pc = "relock" /\ disturbed = 0 /\ mMediaSessionSate # "Shutdowned" => ~ fresh

\* Whatever devices do and however late events are handled, the application
\* hears nothing more of a session after it has been told that it is closed.
ClosedIsLast == \A i \in 1..Len(posted) : posted[i] = "Closed" => i = Len(posted)

\* A call ends though its answer is late, lost or was taken by another call; the
\* alternative is the second lock of mMutex, whose outcome is undefined.
CallsEnd == pc \in {"new", "waiting", "failed", "closing"} ~> pc \in {"idle", "gone", "relock"}
=============================================================================
