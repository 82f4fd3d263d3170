---------------------------- MODULE MCEventStats ----------------------------
(* A small instance of EventStats for TLC. *)
EXTENDS EventStats

CONSTANTS c1, c2, t1
TwoCommands == {c1, c2}
OneTool == {t1}
NoTool == {}
NoFaults == {}
AllFaults == {"crash", "io"}
=============================================================================
