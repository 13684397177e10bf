-------------------------- MODULE MCSessionProcessor --------------------------
(* An instance of SessionProcessor for TLC. *)
EXTENDS SessionProcessor

MCDisturbances == DeviceEvent
=============================================================================
