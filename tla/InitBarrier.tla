----------------------------- MODULE InitBarrier -----------------------------
(***************************************************************************)
(* The barrier that lets the streams of a session begin together.          *)
(*                                                                         *)
(* The callbacks of the source streams give no sample to the sinks before  *)
(* every stream has had one: checkInitBarier refuses it, counts the        *)
(* stream, and the stream is asked for another sample.  The callbacks hold *)
(* mInitBarierMutex while they check.  Start sets the barrier up again     *)
(* from the list of the streams that were counted, and Stop shuts it;      *)
(* neither takes that mutex.  What that does to the barrier is told apart  *)
(* by two histories: of calls that the application made before the streams *)
(* had begun, and of checks that met Start between its lines.  Pauses and  *)
(* stops are assumed to return after the last sample of the sources they   *)
(* stop has been handled, which is shown in MediaPipelineProcessor for     *)
(* prompt sources.                                                         *)
(***************************************************************************)
EXTENDS Integers, FiniteSets

CONSTANTS
    Streams,         \* source streams of the topology
    Nobody,          \* no stream is being checked
    MaxSessionCalls  \* bound on the calls of the session

ASSUME BarrierAssumption ==
    /\ IsFiniteSet(Streams) /\ Nobody \notin Streams
    /\ MaxSessionCalls \in Nat

VARIABLES
    mSessionIsInitialised, mMediaSessionSate,
    mInitBarierCount, mMediaStreamList,
    sessionCall,         \* the line of the call that holds mAccesseMutex
    size,                \* what mMediaStreamList.size() has returned
    failed,              \* has a source failed to start?
    delivering,          \* streams that deliver samples
    checked, nextLine,   \* the stream that holds mInitBarierMutex, and its next line
    heard,               \* streams that had a sample checked since the barrier was set up
    sessionCalls,
    early,               \* history: did the application call before the streams had begun?
    overlapped           \* history: was a sample checked while Start set the barrier up?

sessionVars ==
    <<mSessionIsInitialised, mMediaSessionSate, sessionCall, size, failed, sessionCalls>>
checkVars   == <<checked, nextLine, heard>>
pastVars    == <<early, overlapped>>
barrierVars ==
    <<sessionVars, mInitBarierCount, mMediaStreamList, delivering, checkVars, pastVars>>

BarrierTypeOK ==
    /\ mSessionIsInitialised \in BOOLEAN
    /\ mMediaSessionSate \in {"None", "Started", "Paused", "Stopped"}
    /\ mInitBarierCount \in -2..Cardinality(Streams) /\ mMediaStreamList \subseteq Streams
    /\ sessionCall \in {"idle", "starting", "sized", "counted", "pausing", "stopping"}
    /\ size \in Nat /\ failed \in BOOLEAN
    /\ delivering \subseteq Streams
    /\ checked \in Streams \cup {Nobody} /\ nextLine \in {"check", "decrement", "push"}
    /\ heard \subseteq Streams /\ sessionCalls \in Nat

IBTypeOK == BarrierTypeOK /\ early \in BOOLEAN /\ overlapped \in BOOLEAN

\* SetTopology has counted the source nodes.
IBInit ==
    /\ mSessionIsInitialised = FALSE /\ mMediaSessionSate = "None"
    /\ mInitBarierCount = Cardinality(Streams) /\ mMediaStreamList = {}
    /\ sessionCall = "idle" /\ size = 0 /\ failed = FALSE /\ sessionCalls = 0
    /\ delivering = {}
    /\ checked = Nobody /\ nextLine = "check" /\ heard = {}
    /\ early = FALSE /\ overlapped = FALSE
-----------------------------------------------------------------------------
(***************************************************************************)
(* checkInitBarier, called for each sample by the callback of its stream.  *)
(***************************************************************************)
\* Start is between the lines that set the barrier up.
SetsUp == sessionCall \in {"sized", "counted"}

\* The stream is looked up in the list; while Start clears the list, the search
\* may or may not meet an element that is being removed.
Found(s) == s \in mMediaStreamList

\* Mutant of check: a stream is counted with each of its samples.
check_CountsAgain(s) ==
    /\ s \in delivering /\ checked = Nobody
    /\ heard' = heard \cup {s} /\ overlapped' = (overlapped \/ SetsUp)
    /\ IF mInitBarierCount > 0
       THEN checked' = s /\ nextLine' = "decrement"
       ELSE UNCHANGED <<checked, nextLine>>
    /\ UNCHANGED <<sessionVars, mInitBarierCount, mMediaStreamList, delivering, early>>

check(s) ==
    /\ s \in delivering /\ checked = Nobody
    /\ heard' = heard \cup {s} /\ overlapped' = (overlapped \/ SetsUp)
    /\ \/ /\ mInitBarierCount > 0 /\ (~ Found(s) \/ sessionCall = "counted")
          /\ checked' = s /\ nextLine' = "decrement"
       \/ /\ mInitBarierCount <= 0 \/ Found(s)   \* passed on, or asked for again
          /\ UNCHANGED <<checked, nextLine>>
    /\ UNCHANGED <<sessionVars, mInitBarierCount, mMediaStreamList, delivering, early>>

decrement(s) ==
    /\ checked = s /\ nextLine = "decrement"
    /\ mInitBarierCount' = mInitBarierCount - 1
    /\ nextLine' = "push"
    /\ UNCHANGED <<sessionVars, mMediaStreamList, delivering, checked, heard, pastVars>>

push(s) ==
    /\ checked = s /\ nextLine = "push"
    /\ mMediaStreamList' = mMediaStreamList \cup {s}
    /\ checked' = Nobody /\ nextLine' = "check"
    /\ UNCHANGED <<sessionVars, mInitBarierCount, delivering, heard, pastVars>>
-----------------------------------------------------------------------------
(***************************************************************************)
(* The calls of the session, one at a time under mAccesseMutex.            *)
(***************************************************************************)
\* All streams have been counted, or no start has succeeded.
Timely == mMediaStreamList = Streams \/ ~ mSessionIsInitialised

Call(c) ==
    /\ sessionCall = "idle" /\ sessionCalls < MaxSessionCalls
    /\ sessionCall' = c /\ sessionCalls' = sessionCalls + 1
    /\ early' = (early \/ ~ Timely) /\ UNCHANGED overlapped

Start ==
    /\ Call("starting") /\ failed' = FALSE
    /\ UNCHANGED <<mSessionIsInitialised, mMediaSessionSate, size, mInitBarierCount,
                   mMediaStreamList, delivering, checkVars>>

startSource(s) ==
    /\ sessionCall = "starting" /\ ~ failed
    /\ s \notin delivering /\ delivering' = delivering \cup {s}
    /\ UNCHANGED <<sessionVars, mInitBarierCount, mMediaStreamList, checkVars, pastVars>>

startFails ==
    /\ sessionCall = "starting" /\ ~ failed
    /\ failed' = TRUE
    /\ UNCHANGED <<mSessionIsInitialised, mMediaSessionSate, sessionCall, size, sessionCalls,
                   mInitBarierCount, mMediaStreamList, delivering, checkVars, pastVars>>

SourcesAsked == sessionCall = "starting" /\ (failed \/ delivering = Streams)

\* Start ends: with the clock started, or with the sources stopped again, whose last
\* samples have been handled then.
Finish ==
    /\ sessionCall' = "idle"
    /\ mSessionIsInitialised' = ~ failed
    /\ mMediaSessionSate' = IF failed THEN mMediaSessionSate ELSE "Started"
    /\ failed => checked = Nobody
    /\ delivering' = IF failed THEN {} ELSE delivering
    /\ UNCHANGED <<size, failed, sessionCalls, checked, nextLine, pastVars>>

firstStarted ==
    /\ SourcesAsked /\ ~ mSessionIsInitialised
    /\ Finish
    /\ UNCHANGED <<mInitBarierCount, mMediaStreamList, heard>>

sizeOfList ==
    /\ SourcesAsked /\ mSessionIsInitialised
    /\ size' = Cardinality(mMediaStreamList)
    /\ sessionCall' = "sized"
    /\ overlapped' = (overlapped \/ checked # Nobody)
    /\ UNCHANGED <<mSessionIsInitialised, mMediaSessionSate, failed, sessionCalls,
                   mInitBarierCount, mMediaStreamList, delivering, checkVars, early>>

\* Mutant of setCount: the barrier is left as the stop has shut it.
setCount_StaysShut ==
    /\ sessionCall = "sized" /\ sessionCall' = "counted"
    /\ UNCHANGED <<mSessionIsInitialised, mMediaSessionSate, size, failed, sessionCalls,
                   mInitBarierCount, mMediaStreamList, delivering, checkVars, pastVars>>

setCount ==
    /\ sessionCall = "sized" /\ sessionCall' = "counted"
    /\ mInitBarierCount' = size
    /\ UNCHANGED <<mSessionIsInitialised, mMediaSessionSate, size, failed, sessionCalls,
                   mMediaStreamList, delivering, checkVars, pastVars>>

\* Mutant of clearList: the list is left as it was.
clearList_Keeps ==
    /\ sessionCall = "counted"
    /\ heard' = {}
    /\ Finish
    /\ UNCHANGED <<mInitBarierCount, mMediaStreamList>>

clearList ==
    /\ sessionCall = "counted"
    /\ mMediaStreamList' = {} /\ heard' = {}
    /\ Finish
    /\ UNCHANGED mInitBarierCount

Pause ==
    /\ mMediaSessionSate = "Started" /\ Call("pausing")
    /\ mMediaSessionSate' = "Paused"
    /\ UNCHANGED <<mSessionIsInitialised, size, failed, mInitBarierCount,
                   mMediaStreamList, delivering, checkVars>>

Stop ==
    /\ mSessionIsInitialised /\ mMediaSessionSate \in {"Started", "Paused"}
    /\ Call("stopping")
    /\ mMediaSessionSate' = "Stopped" /\ mInitBarierCount' = -1
    /\ UNCHANGED <<mSessionIsInitialised, size, failed, mMediaStreamList, delivering,
                   checkVars>>

\* A stream acknowledges, after its last sample.
acknowledge(s) ==
    /\ sessionCall \in {"pausing", "stopping"}
    /\ s \in delivering /\ checked # s
    /\ delivering' = delivering \ {s}
    /\ UNCHANGED <<sessionVars, mInitBarierCount, mMediaStreamList, checkVars, pastVars>>

settled ==
    /\ sessionCall \in {"pausing", "stopping"} /\ delivering = {}
    /\ sessionCall' = "idle"
    /\ UNCHANGED <<mSessionIsInitialised, mMediaSessionSate, size, failed, sessionCalls,
                   mInitBarierCount, mMediaStreamList, delivering, checkVars, pastVars>>

CheckInitBarier(s) == check(s) \/ decrement(s) \/ push(s)

Proceed == \/ \E s \in Streams : startSource(s) \/ acknowledge(s)
           \/ firstStarted \/ sizeOfList \/ setCount \/ clearList \/ settled

IBNext == \/ \E s \in Streams : CheckInitBarier(s)
          \/ Proceed
          \/ Start \/ startFails \/ Pause \/ Stop

\* Media Foundation delivers the samples of a running stream, which is asked for
\* another one whenever the barrier refuses one, and the calls go on.
IBFairness == /\ \A s \in Streams : WF_barrierVars(CheckInitBarier(s))
              /\ WF_barrierVars(Proceed)

IBSpec == IBInit /\ [][IBNext]_barrierVars
IBFairSpec == IBSpec /\ IBFairness
-----------------------------------------------------------------------------
(***************************************************************************)
(* Properties.                                                             *)
(***************************************************************************)
Capturing == sessionCall = "idle" /\ mMediaSessionSate = "Started" /\ mSessionIsInitialised

\* checkInitBarier lets samples of a started session pass only when each stream
\* has delivered one since Start has set the barrier up, unless the application has
\* called before that, or a check has met Start while it set the barrier up.
OpensTogether ==
    ~ early /\ ~ overlapped /\ Capturing /\ mInitBarierCount = 0 => heard = Streams

\* Enough streams are left that checkInitBarier has not counted: the barrier never
\* waits for more of them than can still come, whenever the application calls and
\* whichever lines of Start a check meets.
CanOpen == sessionCall = "idle" /\ mInitBarierCount > 0
               => mInitBarierCount <= Cardinality(Streams \ mMediaStreamList)

\* The barrier of a started session opens unless the application acts again; a check
\* that meets Start may leave it shut only if an earlier call came too early.
Opens ==
    Capturing ~> \/ mInitBarierCount = 0 \/ sessionCall # "idle"
                 \/ early /\ overlapped
=============================================================================
