---------------------------- MODULE PublishOnce ----------------------------
(***************************************************************************)
(* What the run driver relies on when a stage operation publishes its      *)
(* work: the task branch carries at most one commit of the operation, and  *)
(* at most one change request of the branch is open, opened after the      *)
(* commit landed.  People may close the request and delete the branch.     *)
(***************************************************************************)
EXTENDS Naturals

VARIABLES
    landed,   \* commits of the operation on the branch
    open      \* open change requests of the branch

Init == landed = 0 /\ open = 0

Publish == landed = 0 /\ landed' = 1 /\ UNCHANGED open
Unpublish == landed = 1 /\ landed' = 0 /\ UNCHANGED open
Open == landed = 1 /\ open = 0 /\ open' = 1 /\ UNCHANGED landed
Close == open = 1 /\ open' = 0 /\ UNCHANGED landed

Next == Publish \/ Unpublish \/ Open \/ Close

Spec == Init /\ [][Next]_<<landed, open>>
=============================================================================
