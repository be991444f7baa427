---------------------------- MODULE MCRunDriver ----------------------------
(* Instances of RunDriver: one change run on the quick or the standard route. *)
EXTENDS RunDriver, TLC

\* Workers are interchangeable.
Symmetry == Permutations(Workers)
=============================================================================
