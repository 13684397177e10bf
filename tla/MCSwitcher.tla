------------------------------ MODULE MCSwitcher ------------------------------
(* Instances of Switcher for TLC. *)
EXTENDS Switcher

MCDurations == {1, 2}
=============================================================================
