--------------------------- MODULE MCAgentAttempt ---------------------------
(***************************************************************************)
(* Two tracked files and the patch file.                                   *)
(***************************************************************************)
EXTENDS AgentAttempt

MCBase == [p \in Paths |-> IF p = PatchPath THEN None ELSE "v0"]
=============================================================================
