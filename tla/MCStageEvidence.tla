-------------------------- MODULE MCStageEvidence --------------------------
(***************************************************************************)
(* Small instances of StageEvidence: two changes that share a slug, two    *)
(* stages of one run, one release verification, and one whose options do   *)
(* not fit.                                                                *)
(***************************************************************************)
EXTENDS StageEvidence, TLC

MCOperations ==
    {[change |-> "c:1", run |-> "r1", stage |-> "specification", revision |-> "v1"],
     [change |-> "c:1", run |-> "r1", stage |-> "planning", revision |-> "v1"]}

MCVerifications ==
    {[change |-> "c:1", run |-> "r2", expected |-> "d1",
      probes |-> {"health", "digest"}],
     [change |-> "c:1", run |-> "r2", expected |-> "d1", probes |-> {"digest"}]}

\* A durable run of another change in the same partition that failed.
MCTerminal == {RunRecord("c-1", "r1", 0, "failed", {}, None)}

MCSlugOf == [x \in {"c:1", "c-1", "r1", "r2"} |->
                IF x = "c:1" THEN "c-1" ELSE x]

MCRank == [x \in {"c-1", "r1", "r2"} |-> IF x = "r2" THEN 2 ELSE 1]

MCSymmetry == Permutations(Actors)
=============================================================================
