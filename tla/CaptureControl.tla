---------------------------- MODULE CaptureControl ----------------------------
(***************************************************************************)
(* What the pipeline promises the session, leaving out how: one request at *)
(* a time changes the state of all the capture sources together.  A        *)
(* request is made only when the sources agree on where they are, moves    *)
(* them only to the state asked for, and ends only when all are there.     *)
(***************************************************************************)
CONSTANT Sources

VARIABLES request,  \* the state being asked for, or "none"
          state     \* the state of each source

vars == <<request, state>>

\* The states of the sources in which a request may be made.
Legal == [Started |-> {"None", "Started", "Paused", "Stopped"},
          Paused  |-> {"Started"},
          Stopped |-> {"Started", "Paused"}]

Init == request = "none" /\ state = [s \in Sources |-> "None"]

Ask(target) ==
    /\ request = "none"
    /\ \E st \in Legal[target] : \A s \in Sources : state[s] = st
    /\ request' = target
    /\ UNCHANGED state

Comply(s) ==
    /\ request # "none"
    /\ state[s] # request
    /\ state' = [state EXCEPT ![s] = request]
    /\ UNCHANGED request

Grant ==
    /\ request # "none"
    /\ \A s \in Sources : state[s] = request
    /\ request' = "none"
    /\ UNCHANGED state

Next == \/ \E target \in DOMAIN Legal : Ask(target)
        \/ \E s \in Sources : Comply(s)
        \/ Grant

Spec == Init /\ [][Next]_vars

FairSpec == Spec /\ WF_vars(Grant) /\ \A s \in Sources : WF_vars(Comply(s))
=============================================================================
