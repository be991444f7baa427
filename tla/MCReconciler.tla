---------------------------- MODULE MCReconciler ----------------------------
(* Instances of Reconciler: two runs of a change, one driver, one pass at a time. *)
EXTENDS Reconciler

\* A merged request, and an open one that the policy blocks and that is behind its base.
SomeFacts == {[request |-> "merged", merge |-> "none", behind |-> FALSE],
              [request |-> "open", merge |-> "blocked", behind |-> TRUE]}
=============================================================================
