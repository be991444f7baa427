--------------------------- MODULE MCProvisioning ---------------------------
(***************************************************************************)
(* The provider clone with a request of the API and a command at a time.   *)
(***************************************************************************)
EXTENDS Provisioning

CONSTANTS c1, c2
=============================================================================
