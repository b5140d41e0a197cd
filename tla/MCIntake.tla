------------------------------ MODULE MCIntake ------------------------------
(***************************************************************************)
(* A small instance of Intake for TLC.  Lines are interchangeable, so its  *)
(* constants are given in the configuration.                               *)
(***************************************************************************)
EXTENDS Intake
=============================================================================
