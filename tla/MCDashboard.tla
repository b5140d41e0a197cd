---------------------------- MODULE MCDashboard ----------------------------
(***************************************************************************)
(* Small instances of Dashboard for TLC: a file of one line, and another   *)
(* incident that only the orchestrator meets.                              *)
(***************************************************************************)
EXTENDS Dashboard, TLC

CONSTANTS a, b

MCSeedFile == <<a>>
=============================================================================
