----------------------- MODULE MCMediaPipelineProcessor -----------------------
(* Instances of MediaPipelineProcessor for TLC. *)
EXTENDS MediaPipelineProcessor

CONSTANTS s1, s2, k1, k2

MCSources  == {s1, s2}
MCSinks    == {k1, k2}
MCOneSink  == {k1}
MCNoSource == {}
=============================================================================
