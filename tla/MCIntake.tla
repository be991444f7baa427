------------------------------ MODULE MCIntake ------------------------------
(***************************************************************************)
(* The intake with two requests at a time and two ids of one change.       *)
(***************************************************************************)
EXTENDS Intake

CONSTANTS c1, c2, k1, k2
=============================================================================
