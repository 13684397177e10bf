----------------------------- MODULE MCStreams -----------------------------
(* An instance for TLC of parts of the source streams that do not act on   *)
(* each other: the barrier at the start, the times of the samples, and a   *)
(* source of images.  A behaviour has one of them at work, so that their   *)
(* states add up.                                                          *)
EXTENDS SampleTimes, InitBarrier, ScreenCaptureProcessor

VARIABLE part

\* The parts that are not at work have one initial state.
MCInit ==
    /\ part \in {"barrier", "times", "screen"} /\ Init /\ IBInit /\ SCInit
    /\ part # "screen" => ~ mIsDirectX11

MCNext ==
    \/ part = "barrier" /\ IBNext /\ UNCHANGED <<part, vars, screenVars>>
    \/ part = "times" /\ Next /\ UNCHANGED <<part, barrierVars, screenVars>>
    \/ part = "screen" /\ SCNext /\ UNCHANGED <<part, vars, barrierVars>>

\* Nothing is said of stamps that have been mixed: what follows is not looked at.
Followed == part = "times" => ~ overtaken

MCSpec ==
    MCInit /\ [][MCNext]_<<part, vars, barrierVars, screenVars>> /\ IBFairness
=============================================================================
