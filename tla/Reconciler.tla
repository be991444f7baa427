----------------------------- MODULE Reconciler -----------------------------
(***************************************************************************)
(* The global reconciler (orchestration/reconcile) over the runs of one    *)
(* change, next to the drivers and the operator that move the same runs    *)
(* (orchestration/state/repositories.py, run_store.py).                    *)
(*                                                                         *)
(* A pass is one transaction.  It takes the global lease, scans the runs   *)
(* that are not finished, plans at most one action per run from what it    *)
(* scanned and applies it under the run's own lease.  Drivers take the     *)
(* same lease.  A lease is a row: a transaction that wrote it keeps it     *)
(* locked until it ends, and others wait.  A driver deletes its row before *)
(* it commits; a pass leaves the rows it wrote behind, owned by itself.    *)
(*                                                                         *)
(* The session of a pass keeps the scanned execution rows as objects; a    *)
(* later read of the same row, also one that locks it, gives the object    *)
(* as it was scanned.                                                      *)
(*                                                                         *)
(* Runs are numbered in the order of their ids, which are compared as      *)
(* strings.  All of them belong to the same change: the runs of different  *)
(* changes only share the global lease.                                    *)
(***************************************************************************)
EXTENDS FlowTables, FiniteSets

CONSTANTS
    Runs,          \* a set of numbers: the ids of the runs of the change
    Drivers,       \* processes that advance or withdraw a run
    Passes,        \* reconciler processes
    StableOwner,   \* DARK_FACTORY_RECONCILER_OWNER_ID is configured
    Observable,    \* what an observer may report of a run
    MaxRevision,   \* bound: status changes of one run
    MaxMishaps     \* bound: changes on the provider and killed processes

SCANNED_RUN_STATUSES == {"pending", "running", "waiting", "blocked", "failed"}
ACTIVE_RUN_STATUSES == {"pending", "running", "waiting", "blocked"}
WAITING_ON_WORK == {"running", "waiting"}
SKIPPED_RUN_STATUSES == {"succeeded", "superseded"}

\* The owner of the leases a pass leaves behind: the configured id, which the next pass
\* has too, or an id no later process has.
default_owner_id == IF StableOwner THEN "reconciler" ELSE "former"

\* A committed lease row.
Lease == [owner : {default_owner_id}, token : 1 .. MaxRevision, life : {"live", "expired"}]
NoLease == [owner |-> "none", token |-> 0, life |-> "expired"]

\* What an observer may report of a run's change request, of the merge policy's decision
\* on it and of its branch.
ExternalFacts == [request : {"none", "open", "merged"}, merge : {"none", "allowed", "blocked", "manual"},
                  behind : BOOLEAN]
NoFacts == [request |-> "none", merge |-> "none", behind |-> FALSE]

ASSUME ReconcilerAssumption ==
    /\ Runs \subseteq Nat \ {0} /\ Runs # {} /\ IsFiniteSet(Runs)
    /\ StableOwner \in BOOLEAN
    /\ MaxRevision \in Nat \ {0} /\ MaxMishaps \in Nat
    /\ "none" \notin Drivers \union Passes
    /\ Observable \subseteq ExternalFacts
    /\ {"reconciler", "former"} \intersect Drivers = {}

ActionKinds == {"lease_takeover", "supersede", "record_merge", "plan_merge",
                "wait_for_human", "update_branch", "escalate", "none"}

VARIABLES
    status, revision,  \* the execution rows
    failures,          \* failed attempts of a run's stage in a row, 2 standing for more
    lease,             \* the committed lease row of each run
    facts,             \* what the provider would answer
    driver,            \* per driver: the run it holds and the token it got
    pass,              \* per pass: its memory and its uncommitted writes
    global,            \* the pass that holds the global lease, or "none"
    mishaps,           \* counter of the bound
    quiet              \* history: passes committed since anything else happened, 3 for more

vars == <<status, revision, failures, lease, facts, driver, pass, global, mishaps, quiet>>

NoDriver == [run |-> 0, token |-> 0, op |-> "none"]
NoScan == [status |-> "none", revision |-> 0]
IdlePass == [todo |-> {}, scan |-> [r \in Runs |-> NoScan], seen |-> [r \in Runs |-> NoFacts],
             plan |-> "none", writes |-> [r \in Runs |-> "none"],
             held |-> [r \in Runs |-> NoLease]]

(***************************************************************************)
(* Leases (LeaseRepository, ExecutionRepository.update_status)             *)
(***************************************************************************)

\* Mutant of Locked: the rows a pass wrote are not locked until it commits.
Locked_by_drivers(r) == \E d \in Drivers : driver[d].run = r

\* Another transaction has written the lease row of r and not ended yet.
Locked(r) ==
    \/ \E d \in Drivers : driver[d].run = r
    \/ \E p \in Passes : pass[p].held[r] # NoLease

\* acquire steals an expired lease and renews one of the same owner; a live lease of
\* somebody else is LeaseLostError.  Passes have one owner id or each its own.
Acquirable(r, owner) ==
    \/ lease[r].life = "expired"
    \/ lease[r].owner = owner

\* The token of the row, one more than before; a new row starts at 1.
AcquiredToken(r) == IF lease[r].token >= MaxRevision THEN MaxRevision ELSE lease[r].token + 1

\* The execution row as a statement reads it now.
Row(r) == [status |-> status[r], revision |-> revision[r]]

\* update_status refuses another token, another revision and a status the table does not
\* lead to.  It compares the object the session has of the row: a fresh one, unless the
\* caller holds the object of an earlier read.
update_status(row, target, expected, token, rowToken) ==
    /\ token = rowToken
    /\ row.revision = expected
    /\ RunPath(row.status, target)

(***************************************************************************)
(* The table of anomalies (reconcile/rules.py)                             *)
(***************************************************************************)

detect_repeated_error(k) == k.repeated /\ k.status \in WAITING_ON_WORK

detect_expired_lease(k) == k.lease # NoLease /\ k.lease.life = "expired"

\* Mutant of detect_duplicate_runs: the run itself is left out of the comparison.
detect_duplicate_runs_others(k) == k.status \in ACTIVE_RUN_STATUSES /\ k.siblings # {}

\* All but the run with the smallest id are duplicates.
detect_duplicate_runs(k) ==
    /\ k.status \in ACTIVE_RUN_STATUSES
    /\ \E s \in k.siblings : s < k.run

detect_merged_change_request(k) == k.facts.request = "merged" /\ k.status # "succeeded"

detect_approved_passed(k) ==
    k.facts.merge # "none" /\ k.facts.request = "open" /\ k.status \in WAITING_ON_WORK

approved_passed_action(k) ==
    CASE k.facts.merge = "allowed" -> "plan_merge"
      [] k.facts.merge = "blocked" -> "escalate"
      [] OTHER -> "wait_for_human"

detect_branch_behind(k) == k.facts.behind /\ k.status \in WAITING_ON_WORK

\* plan_action: the first rule of ANOMALY_RULES that fires.
plan_action(k) ==
    IF k.status \in SKIPPED_RUN_STATUSES THEN "none"
    ELSE IF detect_repeated_error(k) THEN "escalate"
    ELSE IF detect_expired_lease(k) THEN "lease_takeover"
    ELSE IF detect_duplicate_runs(k) THEN "supersede"
    ELSE IF detect_merged_change_request(k) THEN "record_merge"
    ELSE IF detect_approved_passed(k) THEN approved_passed_action(k)
    ELSE IF detect_branch_behind(k) THEN "update_branch"
    ELSE "none"

ACTION_TARGETS == [supersede |-> "superseded", record_merge |-> "succeeded", escalate |-> "blocked"]

(***************************************************************************)
(* A pass                                                                  *)
(***************************************************************************)

\* Mutant of Scanned: a run that has not started yet is left out.
Scanned_started == {r \in Runs : status[r] \in SCANNED_RUN_STATUSES \ {"pending"}}

Scanned == {r \in Runs : status[r] \in SCANNED_RUN_STATUSES}

\* run_pass: the global lease row keeps other passes waiting until this one has ended; it
\* is deleted in the same transaction, so no pass ever finds it.  Then the scan, and the
\* observer's facts of the scanned runs.
Run_pass(p) ==
    /\ global = "none" /\ Scanned # {}
    /\ global' = p
    /\ pass' = [pass EXCEPT ![p] = [IdlePass EXCEPT
            !.todo = Scanned,
            !.scan = [r \in Runs |-> IF r \in Scanned
                        THEN Row(r) ELSE NoScan],
            !.seen = [r \in Runs |-> IF r \in Scanned THEN facts[r] ELSE NoFacts]]]
    /\ UNCHANGED <<status, revision, failures, lease, facts, driver, mishaps, quiet>>

\* The run a pass is at: rows are read in the order of their ids.
IsCurrent(p, r) == r \in pass[p].todo /\ \A s \in pass[p].todo : r <= s

group_active_by_change(p) == {r \in Runs : pass[p].scan[r].status \in ACTIVE_RUN_STATUSES}

\* The two latest attempts of a stage of the run both failed.
detect_repeated(r) == failures[r] = 2

\* Status and siblings are the scanned ones, the facts the observed ones; the lease row and
\* the attempts are read now.
assemble_facts(p, r) ==
    [run |-> r, status |-> pass[p].scan[r].status, siblings |-> group_active_by_change(p) \ {r},
     lease |-> lease[r], repeated |-> detect_repeated(r), facts |-> pass[p].seen[r]]

\* _reconcile_one without an action, or with one that is only written to the journal.
Journal_only(a) == a \in {"none", "plan_merge", "wait_for_human", "update_branch"}

\* What the pass holds once it is done with r.
Passed_over(p, r) == [pass[p] EXCEPT !.todo = @ \ {r}, !.plan = "none", !.seen[r] = NoFacts]

Reconcile_one(p, r) ==
    LET a == plan_action(assemble_facts(p, r))
    IN /\ global = p /\ IsCurrent(p, r) /\ pass[p].plan = "none"
       /\ pass' = [pass EXCEPT ![p] =
                     IF Journal_only(a) THEN Passed_over(p, r) ELSE [pass[p] EXCEPT !.plan = a]]
       /\ UNCHANGED <<status, revision, failures, lease, facts, driver, global, mishaps, quiet>>

\* Mutant of Granted: a lease that is taken over keeps its old expiry.
Granted_stale(r) == [owner |-> default_owner_id, token |-> AcquiredToken(r),
                     life |-> IF lease[r] = NoLease THEN "live" ELSE lease[r].life]

Granted(r) == [owner |-> default_owner_id, token |-> AcquiredToken(r), life |-> "live"]

\* The lease of an earlier pass is the pass's own only when the owner id is configured.
PassOwner == IF StableOwner THEN "reconciler" ELSE "none"

\* _apply: a target the scanned status does not lead to is left alone; a live lease of
\* another owner too.  Otherwise the lease is taken; update_status finds the scanned object.
Apply(p, r) ==
    LET a == pass[p].plan
        target == ACTION_TARGETS[a]
        scanned == pass[p].scan[r]
        skips == \/ a # "lease_takeover"
                    /\ target \notin RUN_STATUS_TRANSITIONS[scanned.status]
                 \/ ~ Acquirable(r, PassOwner)
        row == Granted(r)
        corrects == /\ a # "lease_takeover"
                    /\ update_status(scanned, target, scanned.revision, row.token, row.token)
    IN /\ global = p /\ IsCurrent(p, r) /\ a # "none"
       /\ skips \/ ~ Locked(r)
       /\ pass' = [pass EXCEPT ![p] =
                     IF skips THEN Passed_over(p, r)
                     ELSE [Passed_over(p, r) EXCEPT
                             !.held[r] = row, !.writes[r] = IF corrects THEN target ELSE "none"]]
       /\ UNCHANGED <<status, revision, failures, lease, facts, driver, global, mishaps, quiet>>

Bump(n) == IF n < MaxRevision THEN n + 1 ELSE n

\* The pass has seen every run: the global lease is released and everything commits.  The
\* revision written is the one after the scanned revision.
Commit_pass(p) ==
    /\ global = p /\ pass[p].todo = {}
    /\ status' = [r \in Runs |-> IF pass[p].writes[r] # "none" THEN pass[p].writes[r] ELSE status[r]]
    /\ revision' = [r \in Runs |-> IF pass[p].writes[r] # "none" THEN Bump(pass[p].scan[r].revision) ELSE revision[r]]
    /\ lease' = [r \in Runs |-> IF pass[p].held[r] # NoLease THEN pass[p].held[r] ELSE lease[r]]
    /\ pass' = [pass EXCEPT ![p] = IdlePass]
    /\ global' = "none"
    /\ quiet' = IF quiet < 3 THEN quiet + 1 ELSE 3
    /\ UNCHANGED <<failures, facts, driver, mishaps>>

\* The pod is killed: the transaction rolls back, the global lease with it.
Pass_killed(p) ==
    /\ global = p /\ mishaps < MaxMishaps
    /\ pass' = [pass EXCEPT ![p] = IdlePass]
    /\ global' = "none"
    /\ quiet' = 0 /\ mishaps' = mishaps + 1
    /\ UNCHANGED <<status, revision, failures, lease, facts, driver>>

(***************************************************************************)
(* Drivers and the operator                                                *)
(***************************************************************************)

\* advance_run and withdraw_run begin by taking the lease; what they go on is read under it.
\* withdraw_run and advance_run give up on a finished run.
Take_lease(d, r, op) ==
    /\ driver[d] = NoDriver
    /\ ~ Locked(r) /\ Acquirable(r, d)
    /\ status[r] \notin RunTerminal
    /\ revision[r] < MaxRevision
    /\ driver' = [driver EXCEPT ![d] = [run |-> r, token |-> AcquiredToken(r), op |-> op]]
    /\ UNCHANGED <<status, revision, failures, lease, facts, pass, global, mishaps, quiet>>

\* The row is deleted before the commit: the next lease starts at token 1 again.
Write_and_release(d, target) ==
    LET r == driver[d].run
    IN /\ update_status(Row(r), target, revision[r], driver[d].token, AcquiredToken(r))
       /\ status' = [status EXCEPT ![r] = target]
       /\ revision' = [revision EXCEPT ![r] = Bump(@)]
       /\ lease' = [lease EXCEPT ![r] = NoLease]
       /\ driver' = [driver EXCEPT ![d] = NoDriver]
       /\ quiet' = 0
       /\ UNCHANGED <<facts, pass, global, mishaps>>

\* persist_decision of an advance whose attempt failed, or did not.
Persist_decision(d, target, fails) ==
    /\ driver[d].op = "advance"
    /\ fails => target \in {"running", "blocked"}
    /\ failures' = [failures EXCEPT ![driver[d].run] =
                        IF ~ fails THEN 0 ELSE IF @ = 2 THEN 2 ELSE @ + 1]
    /\ Write_and_release(d, target)

Withdraw_run(d) ==
    /\ driver[d].op = "withdraw"
    /\ Write_and_release(d, "canceled")
    /\ UNCHANGED failures

Driver_killed(d) ==
    /\ driver[d] # NoDriver /\ mishaps < MaxMishaps
    /\ driver' = [driver EXCEPT ![d] = NoDriver]
    /\ mishaps' = mishaps + 1
    /\ UNCHANGED <<status, revision, failures, lease, facts, pass, global, quiet>>

(***************************************************************************)
(* Time and provider                                                       *)
(***************************************************************************)

\* A lease runs out.
Elapse(r) ==
    /\ lease[r].life = "live"
    /\ lease' = [lease EXCEPT ![r].life = "expired"]
    /\ quiet' = 0
    /\ UNCHANGED <<status, revision, failures, facts, driver, pass, global, mishaps>>

Provider_moves(r, f) ==
    /\ mishaps < MaxMishaps /\ f # facts[r] /\ facts[r].request # "merged"
    /\ facts' = [facts EXCEPT ![r] = f]
    /\ mishaps' = mishaps + 1
    /\ quiet' = 0
    /\ UNCHANGED <<status, revision, failures, lease, driver, pass, global>>

Init ==
    /\ status = [r \in Runs |-> "pending"] /\ revision = [r \in Runs |-> 1]
    /\ failures = [r \in Runs |-> 0]
    /\ lease = [r \in Runs |-> NoLease]
    /\ facts = [r \in Runs |-> NoFacts]
    /\ driver = [d \in Drivers |-> NoDriver]
    /\ pass = [p \in Passes |-> IdlePass]
    /\ global = "none" /\ mishaps = 0 /\ quiet = 0

Pass_step(p) ==
    \/ Run_pass(p)
    \/ \E r \in Runs : Reconcile_one(p, r) \/ Apply(p, r)
    \/ Commit_pass(p)

Next ==
    \/ \E p \in Passes : Pass_step(p) \/ Pass_killed(p)
    \/ \E d \in Drivers :
        \/ \E r \in Runs, op \in {"advance", "withdraw"} : Take_lease(d, r, op)
        \/ \E target \in {"running", "waiting", "blocked", "succeeded", "failed"}, fails \in BOOLEAN :
             Persist_decision(d, target, fails)
        \/ Withdraw_run(d)
        \/ Driver_killed(d)
    \/ \E r \in Runs : Elapse(r) \/ \E f \in Observable : Provider_moves(r, f)

Spec == Init /\ [][Next]_vars

\* Passes are started for ever and the database serves waiting transactions in the order they
\* came; time passes; a driver ends, by its own or by its pod's deadline.
FairSpec ==
    /\ Spec
    /\ \A p \in Passes :
        /\ WF_vars(Run_pass(p)) /\ WF_vars(Commit_pass(p))
        /\ \A r \in Runs : WF_vars(Reconcile_one(p, r)) /\ SF_vars(Apply(p, r))
    /\ \A r \in Runs : WF_vars(Elapse(r))
    /\ \A d \in Drivers :
        WF_vars(\/ Withdraw_run(d)
                \/ \E target \in RunStatus, fails \in BOOLEAN : Persist_decision(d, target, fails))

(***************************************************************************)
(* Properties                                                              *)
(***************************************************************************)

\* What a driver and a pass hold in memory.
DriverState == [run : Runs, token : 1 .. MaxRevision, op : {"advance", "withdraw"}] \union {NoDriver}
PassState ==
    [todo : SUBSET Runs,
     scan : [Runs -> [status : RunStatus, revision : 1 .. MaxRevision] \union {NoScan}],
     seen : [Runs -> ExternalFacts], plan : ActionKinds,
     writes : [Runs -> RunStatus \union {"none"}],
     held : [Runs -> Lease \union {NoLease}]]

\* Types of the rows, of the processes' memory and of the counters.
TypeOK ==
    /\ status \in [Runs -> RunStatus] /\ revision \in [Runs -> 1 .. MaxRevision]
    /\ failures \in [Runs -> 0 .. 2]
    /\ lease \in [Runs -> Lease \union {NoLease}]
    /\ facts \in [Runs -> ExternalFacts]
    /\ driver \in [Drivers -> DriverState]
    /\ pass \in [Passes -> PassState]
    /\ global \in Passes \union {"none"}
    /\ mishaps \in 0 .. MaxMishaps /\ quiet \in 0 .. 3

\* _apply: from the moment a pass holds the lease of a run until it commits, no driver and no
\* other pass is at work on that run, although leases expire, are taken over and start again
\* at token 1; so a correction can only overwrite what was committed between scan and lease,
\* and every such move shows in the revision of the row.
CorrectionIsExclusive ==
    \A p \in Passes, r \in Runs : pass[p].held[r] # NoLease =>
        /\ \A d \in Drivers : driver[d].run # r
        /\ \A q \in Passes : pass[q].held[r] # NoLease => q = p
        /\ revision[r] = pass[p].scan[r].revision => status[r] = pass[p].scan[r].status

\* "The target must be reachable from the persisted status ... so no persisted status can
\* drift from the domain table" (ExecutionRepository.update_status): what a pass is about to
\* write to a run can be reached from the status the run has.  This does not hold, and no run
\* asks for it: the status update_status compares is the scanned one (README, "Where code and
\* comments disagree").
CorrectionIsLegal ==
    \A p \in Passes, r \in Runs : pass[p].writes[r] # "none" => RunPath(status[r], pass[p].writes[r])

\* Closing duplicates (_detect_duplicate_runs) never closes the last run: for each run a pass
\* supersedes there is one with a smaller id, active when scanned, that it does not close.
CanonicalSurvives ==
    \A p \in Passes, r \in Runs : pass[p].writes[r] = "superseded" =>
        \E s \in Runs : /\ s < r
                        /\ pass[p].scan[s].status \in ACTIVE_RUN_STATUSES
                        /\ pass[p].writes[s] # "superseded"

\* Repeated passes over the same data come to nothing (GlobalReconciler): when three passes
\* have ended and nothing else happened, the next one writes neither a status nor a lease.
PassesConverge ==
    quiet = 3 => \A p \in Passes, r \in Runs :
                    pass[p].writes[r] = "none" /\ pass[p].held[r] = NoLease

\* Not yet closed: r is pending, at work or waiting although an older run of its change is
\* active.
Duplicate(r) ==
    /\ status[r] \in ACTIVE_RUN_STATUSES \ {"blocked"}
    /\ \E s \in Runs : s < r /\ status[s] \in ACTIVE_RUN_STATUSES

\* "A remaining anomaly is picked up by the next scheduled pass" (rules.py): a duplicate does
\* not stay one, unless it was escalated to a human first.
DuplicateIsClosed == \A r \in Runs : Duplicate(r) ~> ~ Duplicate(r)
=============================================================================
