------------------------ MODULE MCBudgetCoordinator ------------------------
(***************************************************************************)
(* Two roles against one run budget; one of them has a tighter allowance.  *)
(***************************************************************************)
EXTENDS BudgetCoordinator, TLC

MCRunLimits == [tokens |-> 4, cost |-> 5, deadline |-> 1]

MCAllowance == [r \in Roles |->
    IF r = "executor" THEN [tokens |-> 2, cost |-> Unset, deadline |-> 9] ELSE Unset]

\* Reported with and without a cost, and not reported in full.
MCUsages == {[total |-> 1, parts |-> 1, cost |-> Unset],
             [total |-> 1, parts |-> 1, cost |-> 3],
             [total |-> 3, parts |-> 3, cost |-> 1],
             [total |-> Unset, parts |-> 1, cost |-> Unset]}
=============================================================================
