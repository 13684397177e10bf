----------------------------- MODULE ScheduleWork -----------------------------
(***************************************************************************)
(* The timer of a video sink (ScheduleWorkImpl of the sinks for several    *)
(* videos).                                                                *)
(*                                                                         *)
(* A work item of Media Foundation calls the callback and schedules itself *)
(* again; its key is kept in mCancelKey.  stop sets a flag, cancels the    *)
(* item of that key and waits up to 100 ms for an item that finds the flag *)
(* set.  start clears the flag and schedules an item, whether or not one   *)
(* of an earlier start is left.  A chain stands for an item and those that *)
(* it schedules in turn, one after the other.                              *)
(***************************************************************************)
EXTENDS FiniteSets, Naturals

CONSTANTS
    Chains,     \* bound: chains of work items that can be left at a time
    NoChain,
    MaxCalls    \* bound on the calls of the sink

ASSUME ScheduleAssumption ==
    /\ Chains # {} /\ IsFiniteSet(Chains) /\ NoChain \notin Chains
    /\ MaxCalls \in Nat

VARIABLES
    mStopFlag,
    mCancelKey,   \* the chain whose item was scheduled last
    item,         \* of each chain: where its item is
    call,         \* the line of start or stop, called by the sink under a lock of its own
    started,      \* from the beginning of start to the end of stop
    tick,         \* changes with each callback
    calls,
    expired       \* history: the stops whose wait has ended with an item left

vars == <<mStopFlag, mCancelKey, item, call, started, tick, calls, expired>>

\* stop always has a key to cancel.
TypeOK ==
    /\ mStopFlag \in BOOLEAN /\ mCancelKey \in Chains \cup {NoChain}
    /\ call \in {"cancel", "wait"} => mCancelKey \in Chains
    /\ item \in [Chains -> {"none", "scheduled", "invoked", "working", "worked", "stopping"}]
    /\ call \in {"idle", "start", "schedule", "cancel", "wait"}
    /\ started \in BOOLEAN /\ tick \in BOOLEAN
    /\ calls \in Nat /\ expired \in Nat

\* The flag has no value before the first start.
Init ==
    /\ mStopFlag \in BOOLEAN /\ mCancelKey = NoChain
    /\ item = [c \in Chains |-> "none"]
    /\ call = "idle" /\ started = FALSE /\ tick = FALSE /\ calls = 0
    /\ expired = 0

Left == {c \in Chains : item[c] # "none"}
-----------------------------------------------------------------------------
(***************************************************************************)
(* The work items, on threads of Media Foundation.                         *)
(***************************************************************************)
\* The time of the item has come: it can no longer be cancelled.
fire(c) ==
    /\ item[c] = "scheduled"
    /\ item' = [item EXCEPT ![c] = "invoked"]
    /\ UNCHANGED <<mStopFlag, mCancelKey, call, started, tick, calls, expired>>

Invoke(c) ==
    /\ item[c] = "invoked"
    /\ item' = [item EXCEPT ![c] = IF mStopFlag THEN "stopping" ELSE "working"]
    /\ UNCHANGED <<mStopFlag, mCancelKey, call, started, tick, calls, expired>>

Off == call' = "idle" /\ started' = FALSE

\* Mutant of notify: the item goes on after it has answered stop.
notify_GoesOn(c) ==
    /\ item[c] = "stopping" /\ call # "cancel"
    /\ item' = [item EXCEPT ![c] = "working"]
    /\ IF call = "wait" THEN Off ELSE UNCHANGED <<call, started>>
    /\ UNCHANGED <<mStopFlag, mCancelKey, tick, calls, expired>>

\* mStopMutex is held by stop from its first line to its wait.
notify(c) ==
    /\ item[c] = "stopping" /\ call # "cancel"
    /\ item' = [item EXCEPT ![c] = "none"]
    /\ IF call = "wait" THEN Off ELSE UNCHANGED <<call, started>>
    /\ UNCHANGED <<mStopFlag, mCancelKey, tick, calls, expired>>

callback(c) ==
    /\ item[c] = "working"
    /\ item' = [item EXCEPT ![c] = "worked"]
    /\ tick' = ~ tick
    /\ UNCHANGED <<mStopFlag, mCancelKey, call, started, calls, expired>>

\* Mutant of scheduleAgain: an item that is scheduled ends the chain.
scheduleAgain_Once(c) ==
    /\ item[c] = "worked"
    /\ item' = [item EXCEPT ![c] = "none"]
    /\ UNCHANGED <<mStopFlag, mCancelKey, call, started, tick, calls, expired>>

scheduleAgain(c) ==
    /\ item[c] = "worked"
    /\ item' = [item EXCEPT ![c] = "scheduled"]
    /\ mCancelKey' = c
    /\ UNCHANGED <<mStopFlag, call, started, tick, calls, expired>>

Work(c) == fire(c) \/ Invoke(c) \/ notify(c) \/ callback(c) \/ scheduleAgain(c)
-----------------------------------------------------------------------------
(***************************************************************************)
(* start and stop, called by the sink one at a time.                       *)
(***************************************************************************)
start ==
    /\ call = "idle" /\ calls < MaxCalls
    /\ call' = "start" /\ started' = TRUE /\ calls' = calls + 1
    /\ UNCHANGED <<mStopFlag, mCancelKey, item, tick, expired>>

clearFlag ==
    /\ call = "start" /\ call' = "schedule"
    /\ mStopFlag' = FALSE
    /\ UNCHANGED <<mCancelKey, item, started, tick, calls, expired>>

\* One free chain is as good as another.
schedule(c) ==
    /\ call = "schedule" /\ item[c] = "none"
    /\ c = CHOOSE d \in Chains : item[d] = "none"
    /\ call' = "idle"
    /\ item' = [item EXCEPT ![c] = "scheduled"]
    /\ mCancelKey' = c
    /\ UNCHANGED <<mStopFlag, started, tick, calls, expired>>

\* The item cannot be scheduled.
scheduleFails ==
    /\ call = "schedule" /\ Off
    /\ UNCHANGED <<mStopFlag, mCancelKey, item, tick, calls, expired>>

stop ==
    /\ call = "idle" /\ calls < MaxCalls
    /\ call' = "cancel" /\ calls' = calls + 1
    /\ mStopFlag' = TRUE
    /\ UNCHANGED <<mCancelKey, item, started, tick, expired>>

\* The key of an item that has begun cancels nothing.
cancel ==
    /\ call = "cancel" /\ call' = "wait"
    /\ item' = [c \in Chains |-> IF c = mCancelKey /\ item[c] = "scheduled"
                                 THEN "none" ELSE item[c]]
    /\ UNCHANGED <<mStopFlag, mCancelKey, started, tick, calls, expired>>

\* The wait of 100 ms has no condition: it ends in time or without a cause, although an
\* item may be left.
expire ==
    /\ call = "wait" /\ Off
    /\ expired' = IF Left = {} THEN expired ELSE expired + 1
    /\ UNCHANGED <<mStopFlag, mCancelKey, item, tick, calls>>

Proceed ==
    clearFlag \/ (\E c \in Chains : schedule(c)) \/ scheduleFails \/ cancel \/ expire

\* A sink starts a timer that is not started, and stops one that has been scheduled
\* before; it may stop it a second time.
Next ==
    \/ ~ started /\ start
    \/ mCancelKey # NoChain /\ stop
    \/ Proceed
    \/ \E c \in Chains : Work(c)

\* Media Foundation runs its items, and the caller's thread runs.
Fairness == WF_vars(Proceed) /\ \A c \in Chains : WF_vars(Work(c))

Spec == Init /\ [][Next]_vars
FairSpec == Spec /\ Fairness
-----------------------------------------------------------------------------
(***************************************************************************)
(* Properties.                                                             *)
(***************************************************************************)
Timer == INSTANCE Ticker WITH on <- started, overrun <- expired > 0, tick <- tick

\* The callback comes for ever while the timer is started, and never after stop has
\* returned, until a stop leaves an item behind.
ImplementsTicker == Timer!LiveSpec

\* Each stop gets rid of a chain of work items, whichever way it meets the item, unless
\* its wait has ended too early: no more chains are left than the present one and one
\* for each stop that has left an item.
OneChain == Cardinality(Left) <= 1 + expired

\* A timer that is started has an item left that will call back, even if stop has
\* expired before.
KeepsRunning == started /\ call = "idle" => \E c \in Left : item[c] # "stopping"
=============================================================================
