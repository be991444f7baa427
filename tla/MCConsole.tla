----------------------------- MODULE MCConsole -----------------------------
(***************************************************************************)
(* The console over the driver with one advance at a time.                 *)
(***************************************************************************)
EXTENDS Console

CONSTANT w1
=============================================================================
