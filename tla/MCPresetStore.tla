---------------------------- MODULE MCPresetStore ----------------------------
(* Instances of PresetStore for TLC. *)
EXTENDS PresetStore

CONSTANTS c1, c2, p1, p2
=============================================================================
