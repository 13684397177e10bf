---------------------------- MODULE EVRStreamSink ----------------------------
(***************************************************************************)
(* The stream sink of a video renderer that shows several videos, with the *)
(* timer that it keeps.                                                    *)
(*                                                                         *)
(* A sample whose time has come is given to the presenter by a work item,  *)
(* which asks for the next one.  A sample that is early is noted in        *)
(* mNewSample and mTimeStamp, and the callback of the timer (update) looks *)
(* whether its time has come.  update takes no lock, so that it runs       *)
(* between the lines of ProcessSample, which holds mProcessMutex, and of   *)
(* the methods of the clock, which hold mClockStateAccessMutex and wait    *)
(* for the timer in it.                                                    *)
(*                                                                         *)
(* The pipeline answers a request by a sample while the session captures   *)
(* (flow); while it does not, a request may be lost.  The sink has a clock *)
(* and is not shut down; nothing in this repository prerolls it.           *)
(***************************************************************************)
EXTENDS ScheduleWork

CONSTANTS
    InitialStates,  \* what mStreamState may be at first: no constructor sets it
    MaxAsked        \* bound on the requests made by starts and restarts

StreamEnum == {"Uninitialized", "Ready", "Started", "Paused", "Stoped"}

ASSUME SinkAssumption ==
    /\ InitialStates # {} /\ InitialStates \subseteq StreamEnum
    /\ MaxAsked \in Nat

VARIABLES
    mStreamState,
    mScheduler,     \* has it been created?
    sinkCall,       \* a method of the clock after its call of the timer: "start" or
                    \* "on" (started before), the state a stop or pause leads to, "no"
    mNewSample,     \* a sample waits for its time
    mTimeStamp,     \* "early", or "due" when the clock has passed it
    processing,     \* ProcessSample: "no", "stamp" or "flag" (early), "item" (due)
    updating,       \* update, in the item of each chain: "no", "seen", "check", "back", "item"
    items,          \* work items that have not been invoked
    requests,       \* MEStreamSinkRequestSample events, and those the pipeline makes of others
    flow,           \* does the session capture?
    asked           \* requests made by starts and restarts

clockVars  == <<mStreamState, mScheduler, sinkCall, flow, asked>>
sampleVars == <<mNewSample, mTimeStamp>>
sinkVars   == <<vars, clockVars, sampleVars, processing, updating, items, requests>>

SinkTypeOK ==
    /\ mStreamState \in StreamEnum /\ mScheduler \in BOOLEAN
    /\ sinkCall \in {"no", "start", "on", "Stoped", "Paused"}
    /\ mNewSample \in BOOLEAN /\ mTimeStamp \in {"early", "due"}
    /\ processing \in {"no", "stamp", "flag", "item"}
    /\ updating \in [Chains -> {"no", "seen", "check", "back", "item"}]
    /\ items \in Nat /\ requests \in Nat /\ flow \in BOOLEAN /\ asked \in Nat

SinkInit ==
    /\ Init
    /\ mStreamState \in InitialStates /\ mScheduler = FALSE /\ sinkCall = "no"
    /\ mNewSample = FALSE /\ mTimeStamp = "due"
    /\ processing = "no" /\ updating = [c \in Chains |-> "no"]
    /\ items = 0 /\ requests = 0 /\ flow = FALSE /\ asked = 0
-----------------------------------------------------------------------------
(***************************************************************************)
(* The clock and the session, one call at a time.                          *)
(***************************************************************************)
\* Mutant of OnClockStart: the timer is only started with a new scheduler.
OnClockStart_OnlyNew ==
    /\ sinkCall = "no" /\ ~ flow /\ asked < MaxAsked
    /\ IF mScheduler THEN sinkCall' = "on" /\ UNCHANGED vars
                     ELSE sinkCall' = "start" /\ start
    /\ mScheduler' = TRUE
    /\ mTimeStamp' = "due"
    /\ UNCHANGED <<mStreamState, flow, asked, mNewSample, processing, updating,
                   items, requests>>

OnClockStart ==
    /\ sinkCall = "no" /\ ~ flow /\ asked < MaxAsked
    /\ IF mStreamState = "Started" THEN sinkCall' = "on" /\ UNCHANGED vars
                                   ELSE sinkCall' = "start" /\ start
    /\ mScheduler' = TRUE
    /\ mTimeStamp' = "due"
    /\ UNCHANGED <<mStreamState, flow, asked, mNewSample, processing, updating,
                   items, requests>>

\* The sink announces its start, which the pipeline takes for a request, and asks for
\* a sample.  If the timer could not be scheduled, nothing more is done.
startReturns ==
    /\ sinkCall \in {"start", "on"} /\ call = "idle" /\ sinkCall' = "no"
    /\ IF started \/ sinkCall = "on"
       THEN /\ mStreamState' = "Started" /\ flow' = TRUE
            /\ requests' = requests + 2 /\ asked' = asked + 2
       ELSE UNCHANGED <<mStreamState, flow, asked, requests>>
    /\ UNCHANGED <<vars, mScheduler, sampleVars, processing, updating, items>>

\* A sink without a scheduler stays as it is.  A timer that was never scheduled has
\* no item to stop; the flag is cleared by the next start.
leave(states, state) ==
    /\ sinkCall = "no" /\ flow' = FALSE
    /\ IF mStreamState \in states /\ mScheduler
       THEN /\ sinkCall' = state
            /\ IF mCancelKey = NoChain THEN UNCHANGED vars ELSE stop
       ELSE UNCHANGED <<sinkCall, vars>>
    /\ UNCHANGED <<mStreamState, mScheduler, asked, sampleVars, processing,
                   updating, items, requests>>

OnClockStop  == leave({"Started", "Paused"}, "Stoped")
OnClockPause == leave({"Started"}, "Paused")

leaveReturns ==
    /\ sinkCall \in {"Stoped", "Paused"} /\ call = "idle"
    /\ mStreamState' = sinkCall /\ sinkCall' = "no"
    /\ UNCHANGED <<vars, mScheduler, flow, asked, sampleVars, processing,
                   updating, items, requests>>

\* The pipelines of a session that is paused pause, and not its sinks.
pausePipeline ==
    /\ flow /\ sinkCall = "no" /\ flow' = FALSE
    /\ UNCHANGED <<vars, mStreamState, mScheduler, sinkCall, asked, sampleVars,
                   processing, updating, items, requests>>

restartPipeline ==
    /\ ~ flow /\ sinkCall = "no" /\ mStreamState = "Started" /\ mScheduler
    /\ asked < MaxAsked
    /\ flow' = TRUE /\ requests' = requests + 1 /\ asked' = asked + 1
    /\ UNCHANGED <<vars, mStreamState, mScheduler, sinkCall, sampleVars,
                   processing, updating, items>>

lose ==
    /\ ~ flow /\ requests > 0
    /\ requests' = requests - 1
    /\ UNCHANGED <<vars, clockVars, sampleVars, processing, updating, items>>

\* The clock passes the time of the sample.
pass ==
    /\ mTimeStamp = "early" /\ mTimeStamp' = "due"
    /\ UNCHANGED <<vars, clockVars, mNewSample, processing, updating, items, requests>>
-----------------------------------------------------------------------------
(***************************************************************************)
(* ProcessSample, called by the thread of the pipeline's queue.            *)
(***************************************************************************)
\* The sample goes to the mixer in each case.  A sample that was let through before a
\* stop may come while the stop waits.
ProcessSample ==
    /\ flow \/ sinkCall \in {"Stoped", "Paused"}
    /\ requests > 0 /\ processing = "no"
    /\ requests' = requests - 1
    /\ processing' \in {"stamp", "item"}
    /\ UNCHANGED <<vars, clockVars, sampleVars, updating, items>>

keepStamp ==
    /\ processing = "stamp" /\ processing' = "flag"
    /\ mTimeStamp' = "early"
    /\ UNCHANGED <<vars, clockVars, mNewSample, updating, items, requests>>

\* Mutant of keepSample: an early sample gets a work item as well.
keepSample_AndItem ==
    /\ processing = "flag" /\ processing' = "item"
    /\ mNewSample' = TRUE
    /\ UNCHANGED <<vars, clockVars, mTimeStamp, updating, items, requests>>

keepSample ==
    /\ processing = "flag" /\ processing' = "no"
    /\ mNewSample' = TRUE
    /\ UNCHANGED <<vars, clockVars, mTimeStamp, updating, items, requests>>

showSample ==
    /\ processing = "item" /\ processing' = "no"
    /\ mNewSample' = FALSE /\ items' = items + 1
    /\ UNCHANGED <<vars, clockVars, mTimeStamp, updating, requests>>
-----------------------------------------------------------------------------
(***************************************************************************)
(* update, called by an item of the timer, and the work item.              *)
(***************************************************************************)
At(c, lines) == item[c] = "working" /\ updating[c] \in lines
GoTo(c, line) == updating' = [updating EXCEPT ![c] = line] /\ UNCHANGED vars
UpdateReturns(c) == updating' = [updating EXCEPT ![c] = "no"] /\ callback(c)

update(c) ==
    /\ At(c, {"no"})
    /\ IF mNewSample THEN GoTo(c, "seen") ELSE UpdateReturns(c)
    /\ UNCHANGED <<clockVars, sampleVars, processing, items, requests>>

takeFlag(c) ==
    /\ At(c, {"seen"}) /\ GoTo(c, "check")
    /\ mNewSample' = FALSE
    /\ UNCHANGED <<clockVars, mTimeStamp, processing, items, requests>>

\* Mutant of checkTimeStamp: a sample that is early is not put back.
checkTimeStamp_Forgets(c) ==
    /\ At(c, {"check"})
    /\ IF mTimeStamp = "early" THEN UpdateReturns(c) ELSE GoTo(c, "item")
    /\ UNCHANGED <<clockVars, sampleVars, processing, items, requests>>

checkTimeStamp(c) ==
    /\ At(c, {"check"})
    /\ GoTo(c, IF mTimeStamp = "early" THEN "back" ELSE "item")
    /\ UNCHANGED <<clockVars, sampleVars, processing, items, requests>>

putBack(c) ==
    /\ At(c, {"back"}) /\ UpdateReturns(c)
    /\ mNewSample' = TRUE
    /\ UNCHANGED <<clockVars, mTimeStamp, processing, items, requests>>

putItem(c) ==
    /\ At(c, {"item"}) /\ UpdateReturns(c)
    /\ mNewSample' = FALSE /\ items' = items + 1
    /\ UNCHANGED <<clockVars, mTimeStamp, processing, requests>>

\* The frame is presented, whatever is in the mixer, and another sample asked for.
InvokeItem ==
    /\ items > 0 /\ items' = items - 1
    /\ requests' = requests + 1
    /\ UNCHANGED <<vars, clockVars, sampleVars, processing, updating>>

\* The timer's own lines, update apart.
TimerMoves(c) == fire(c) \/ Invoke(c) \/ notify(c) \/ scheduleAgain(c)
Still == UNCHANGED <<clockVars, sampleVars, processing, updating, items, requests>>

Sample    == ProcessSample \/ keepStamp \/ keepSample \/ showSample
Update(c) == update(c) \/ takeFlag(c) \/ checkTimeStamp(c) \/ putBack(c) \/ putItem(c)
Clock     == OnClockStart \/ OnClockStop \/ OnClockPause \/ pausePipeline \/ restartPipeline
Returns   == (Proceed /\ Still) \/ startReturns \/ leaveReturns
Chain(c)  == (TimerMoves(c) /\ Still) \/ Update(c)

SinkNext ==
    \/ Clock \/ Returns \/ lose \/ pass
    \/ Sample \/ InvokeItem
    \/ \E c \in Chains : Chain(c)

\* Requests are answered while the session captures, Media Foundation runs the work
\* items, calls go on and time passes.
SinkFairness ==
    /\ WF_sinkVars(Sample) /\ WF_sinkVars(InvokeItem) /\ WF_sinkVars(pass)
    /\ WF_sinkVars(Returns) /\ \A c \in Chains : WF_sinkVars(Chain(c))

SinkSpec == SinkInit /\ [][SinkNext]_sinkVars
-----------------------------------------------------------------------------
(***************************************************************************)
(* Properties.                                                             *)
(***************************************************************************)
One(b) == IF b THEN 1 ELSE 0

\* Requests that are under way in the sink; the flag that update has seen and not yet
\* taken is counted once.
InSink ==
    items + One(processing # "no")
          + One(mNewSample \/ \E c \in Chains : updating[c] = "seen")
          + Cardinality({c \in Chains : updating[c] \in {"check", "back", "item"}})

\* Whichever way update and ProcessSample meet, and however the sink is stopped and
\* started in between, a request does not become two, until a stop leaves an item
\* behind: the callbacks of two chains may take one sample twice.
NotMultiplied == expired = 0 => requests + InSink <= asked

\* A sink that is started has a request under way while the session captures.
RequestsGoOn == mStreamState = "Started" /\ flow => requests + InSink > 0

\* A session that captures from some time on shows samples again and again, unless
\* its sink was born Started and has never started its timer.
ShowsOn == <>[](flow /\ mCancelKey # NoChain) => []<>(items > 0)
=============================================================================
