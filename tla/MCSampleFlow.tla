----------------------------- MODULE MCSampleFlow -----------------------------
(* Instances of SampleFlow for TLC. *)
EXTENDS SampleFlow

CONSTANTS preview, file

MCBoth    == {preview, file}
MCFile    == {file}
MCNone    == {}
=============================================================================
