------------------------------- MODULE MCEnds -------------------------------
(* An instance for TLC of parts at the ends of a session that do not act   *)
(* on each other: the sink of a renderer with its timer, a timer by       *)
(* itself, the buffer of an application, and a source of sound.  A         *)
(* behaviour has one of them at work, so that their states add up.         *)
EXTENDS EVRStreamSink, SampleGrabber, AudioEndpointCapture

VARIABLE part

\* The parts that are not at work have one initial state.
MCInit ==
    /\ part \in {"renderer", "timer", "grabber", "endpoint"} /\ SinkInit /\ SGInit /\ AEInit
    /\ part # "renderer" => mStreamState = "Uninitialized"
    /\ part \notin {"renderer", "timer"} => ~ mStopFlag
    /\ part # "grabber" => mode = "SYNC"

MCNext ==
    \/ part = "renderer" /\ SinkNext /\ UNCHANGED <<part, grabberVars, endpointVars>>
    \/ part = "timer" /\ Next /\ Still /\ UNCHANGED <<part, grabberVars, endpointVars>>
    \/ part = "grabber" /\ SGNext /\ UNCHANGED <<part, sinkVars, endpointVars>>
    \/ part = "endpoint" /\ AENext /\ UNCHANGED <<part, sinkVars, grabberVars>>

MCSpec ==
    /\ MCInit /\ [][MCNext]_<<part, sinkVars, grabberVars, endpointVars>>
    /\ SinkFairness /\ AEFairness

\* bound: a renderer makes four calls of its timer; after a stop that has left an item,
\* it is followed for one call more, and until a request has become two.
Followed ==
    part = "renderer" =>
      /\ calls <= 4
      /\ expired > 0 => calls <= 3 /\ asked <= 4 /\ requests + InSink <= asked
=============================================================================
