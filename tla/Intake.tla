------------------------------- MODULE Intake -------------------------------
(***************************************************************************)
(* The intake of a change: the registered product and its readiness        *)
(* (orchestration/products.py, changes/product.py), the stored change and  *)
(* its brief (state/change_store.py, changes/intake.py) and the run the    *)
(* first advance creates (cli/runner.py, state/run_store.py), as the API   *)
(* and the commands serve them, with the guidance that leads the operator  *)
(* from one to the next.                                                   *)
(*                                                                         *)
(* A request reads in one step and writes in another: both are in one      *)
(* transaction, which another request may commit in the middle of.  Two    *)
(* briefs are told apart because the digest of the whole change document   *)
(* names the run.                                                          *)
(***************************************************************************)
EXTENDS Naturals, FiniteSets

CONSTANTS
    Callers,        \* requests and commands served at a time
    ChangeIds,      \* change ids; the tracker sends every one with the same external_ref
    Limit,          \* the spend limit of the change
    MaxCalls,       \* bound: requests besides the ones the guidance asks for
    MaxFaults,      \* bound: kills, and changes of the repository's availability
    MaxRevision     \* bound: revision of the product row

ASSUME IntakeAssumption ==
    /\ Limit \in Nat \ {0}
    /\ MaxCalls \in Nat /\ MaxFaults \in Nat /\ MaxRevision \in Nat

VARIABLES
    repository,  \* whether the provider answers, and how often that changed
    product,     \* the product row
    changes,     \* the change rows
    runs,        \* the money the run of a change snapshot has used
    request,     \* what every caller is doing
    replies,     \* the answers to the tracker: what was sent, what is stored
    calls, faults

rows == <<product, changes, runs>>
vars == <<repository, rows, request, replies, calls, faults>>

ProductStatus == {"created", "validating", "ready", "error"}
PRODUCT_STATUS_TRANSITIONS ==
    [created |-> {"validating"}, validating |-> {"ready", "error"},
     ready |-> {"validating"}, error |-> {"validating"}]

\* seen: when the recorded readiness was observed.
NoProduct == [status |-> "none", revision |-> 0, seen |-> 0]

\* A complete brief has a problem and a goal; "revised" is another complete one.
Briefs == {"none", "draft", "complete", "revised"}
IsComplete(b) == b \in {"complete", "revised"}

NoChange == [brief |-> "none", ref |-> FALSE, stored |-> FALSE]

\* generated_run_id: the change and the digest of its document.
Runs == ChangeIds \X Briefs
NoRun == Limit + 1
generated_run_id(k) == <<k, changes[k].brief>>

\* missed: the run was not there when the request looked.
NoRequest == [at |-> "idle", id |-> "none", revision |-> 0, observed |-> "none", time |-> 0,
              missed |-> FALSE]
Goto(c, k) == request' = [request EXCEPT ![c] = k]
Done(c) == Goto(c, NoRequest)
Free(c) == request[c].at = "idle"

Another == calls < MaxCalls /\ calls' = calls + 1

(***************************************************************************)
(* The product                                                             *)
(***************************************************************************)

\* Insert, on conflict do nothing: a repeat replays the stored product.
create_product ==
    /\ product = NoProduct
    /\ product' = [status |-> "created", revision |-> 1, seen |-> 0]
    /\ UNCHANGED <<repository, changes, runs, request, replies, faults>>

Read_product(c) ==
    /\ Free(c) /\ product # NoProduct /\ product.revision + 2 <= MaxRevision
    /\ Goto(c, [NoRequest EXCEPT !.at = "observe", !.revision = product.revision])
    /\ UNCHANGED <<repository, rows, replies, faults>>

\* The clone that observes takes its time, and its failure records nothing.
observe_repository(c) ==
    /\ request[c].at = "observe"
    /\ Goto(c, [request[c] EXCEPT !.at = "record", !.time = repository.time,
                  !.observed = IF repository.up THEN "baseline_current" ELSE "unavailable"])
    /\ UNCHANGED <<repository, rows, replies, calls, faults>>

product_readiness(state) == IF state = "unavailable" THEN "error" ELSE "ready"

\* One transition under the optimistic revision.
MayMove(row, expected, target) ==
    row.revision = expected /\ target \in PRODUCT_STATUS_TRANSITIONS[row.status]

update_status(row, target) == [row EXCEPT !.status = target, !.revision = @ + 1]

\* Both transitions in one transaction, or a conflict and neither.
record_validation(c) ==
    /\ request[c].at = "record"
    /\ LET target == product_readiness(request[c].observed)
           anew == product.status # "validating"
           started == IF anew THEN update_status(product, "validating") ELSE product
       IN product' = IF MayMove(product, request[c].revision, IF anew THEN "validating" ELSE target)
                       THEN [update_status(started, target) EXCEPT !.seen = request[c].time]
                       ELSE product
    /\ Done(c)
    /\ UNCHANGED <<repository, changes, runs, replies, calls, faults>>

(***************************************************************************)
(* The change                                                              *)
(***************************************************************************)

Stored(k) == changes[k].stored
SameRef == {k \in ChangeIds : Stored(k) /\ changes[k].ref}

\* The API looks the id and the reference up; what it finds is replayed.
Check_change(c, k) ==
    /\ Free(c)
    /\ LET found == IF Stored(k) THEN {k} ELSE SameRef
       IN IF found # {} THEN replies' = replies \union {<<k, j>> : j \in found} /\ UNCHANGED request
          ELSE Goto(c, [NoRequest EXCEPT !.at = "insert", !.id = k]) /\ UNCHANGED replies
    /\ UNCHANGED <<repository, rows, faults>>

\* Mutant of Unique: no index on the external reference.
Unique_id(k) == ~ Stored(k)

\* The primary key, and the partial unique index on the external reference.
Unique(k) == ~ Stored(k) /\ SameRef = {}

\* The insert does nothing for a stored id, and is rolled back for a stored reference.
create_change(c, b) ==
    /\ request[c].at = "insert"
    /\ LET k == request[c].id
       IN /\ changes' = IF Unique(k)
                          THEN [changes EXCEPT ![k] = [brief |-> b, ref |-> TRUE, stored |-> TRUE]]
                          ELSE changes
          /\ replies' = IF Unique(k) \/ Stored(k) THEN replies \union {<<k, k>>} ELSE replies
    /\ Done(c)
    /\ UNCHANGED <<repository, product, runs, calls, faults>>

\* The flags or a JSON document; what they leave out makes the brief a draft.
brief_from_args == {"draft", "complete", "revised"}

\* factory change create: a new id, no reference, a product that is registered.
Create_from_command(k, b) ==
    /\ ~ Stored(k) /\ product # NoProduct
    /\ changes' = [changes EXCEPT ![k] = [brief |-> b, ref |-> FALSE, stored |-> TRUE]]
    /\ UNCHANGED <<repository, product, runs, request, replies, faults>>

\* The agent's answer is a draft with an error, or the fields it names.
formulate == {"draft", "complete"}

\* The whole brief is replaced under the row lock, before and after the run started.
update_brief(k, b) ==
    /\ Stored(k) /\ b # changes[k].brief
    /\ changes' = [changes EXCEPT ![k].brief = b]
    /\ UNCHANGED <<repository, product, runs, request, replies, faults>>

(***************************************************************************)
(* The run of the change                                                   *)
(***************************************************************************)

\* The run of the snapshot is looked up; the request goes on with it or with a new one.
resolve_run(c, k) ==
    /\ Free(c) /\ Stored(k)
    /\ Goto(c, [NoRequest EXCEPT !.at = "advance", !.id = generated_run_id(k),
                                 !.missed = runs[generated_run_id(k)] = NoRun])
    /\ UNCHANGED <<repository, rows, replies, faults>>

\* Mutant of create_run: a repeat writes the budget of the change again.
create_run_anew(r, missed) == 0

\* A run that was found keeps its budget.  Otherwise the insert waits for one under way, does
\* nothing when that has committed, and the budget of the change is written either way.
create_run(r, missed) == IF missed THEN 0 ELSE runs[r]

\* The advance commits with what its attempt cost; a run at its limit spends no more.  The
\* insert and the lease serialise the advances of a run: the later one goes on from what the
\* earlier one committed.
Commit_advance(c) ==
    /\ request[c].at = "advance"
    /\ LET r == request[c].id
           used == create_run(r, request[c].missed)
       IN \E cost \in 0..1 :
            /\ used + cost <= Limit
            /\ runs' = [runs EXCEPT ![r] = used + cost]
    /\ Done(c)
    /\ UNCHANGED <<repository, product, changes, replies, calls, faults>>

HasRun(k) == \E b \in Briefs : runs[<<k, b>>] # NoRun

(***************************************************************************)
(* The guidance before the run                                             *)
(***************************************************************************)

\* Mutant of product_guidance: a failed check is final.
product_guidance_final ==
    CASE product.status = "created" -> "validate"
      [] product.status = "ready" -> "new_change"
      [] OTHER -> "show"

product_guidance ==
    CASE product.status \in {"created", "error"} -> "validate"
      [] product.status = "validating" -> "show"
      [] OTHER -> "new_change"

\* An incomplete brief comes first; the start is disabled while the product is not ready.
intake_guidance(k) ==
    CASE ~ IsComplete(changes[k].brief) -> "edit_brief"
      [] IsComplete(changes[k].brief) /\ product.status = "ready" -> "start"
      [] OTHER -> "disabled"

change_guidance(k) == IF HasRun(k) THEN "run" ELSE intake_guidance(k)

\* The operator does what the guidance says; a disabled start names the check of the product.
Follow_product(c) == product_guidance = "validate" /\ Read_product(c)

Follow_change(c, k) ==
    \/ change_guidance(k) = "edit_brief" /\ update_brief(k, "complete")
    \/ change_guidance(k) = "disabled" /\ Follow_product(c)
    \/ change_guidance(k) = "start" /\ resolve_run(c, k)

Follow_guidance(c) ==
    /\ \A d \in Callers : Free(d)
    /\ \/ product = NoProduct /\ create_product
       \/ product # NoProduct /\ Follow_product(c)
       \/ /\ product # NoProduct /\ product_guidance = "new_change"
          /\ \A k \in ChangeIds : ~ Stored(k)
          /\ \E k \in ChangeIds, b \in brief_from_args : Create_from_command(k, b)
       \/ \E k \in ChangeIds : Stored(k) /\ Follow_change(c, k)
    /\ UNCHANGED calls

(***************************************************************************)
(* The specification                                                       *)
(***************************************************************************)

\* The routes and the commands of the product, which share its operations.
Api_product(c) == create_product \/ Read_product(c)
Cli_product(c) == create_product \/ Read_product(c)

\* The routes of the change; a PUT replaces the brief.
Api_create(c) == \E k \in ChangeIds : Check_change(c, k)
Api_brief == \E k \in ChangeIds, b \in Briefs \ {"none"} : update_brief(k, b)

Cli_create == \E k \in ChangeIds, b \in brief_from_args : Create_from_command(k, b)
Cli_advance(c) == \E k \in ChangeIds : resolve_run(c, k)

\* Requests of the tracker and of other operators.
Request(c) ==
    /\ Another
    /\ \/ Api_product(c) \/ Api_create(c) \/ Api_brief
       \/ Cli_product(c) \/ Cli_create \/ Cli_advance(c)

\* A created change has the brief the agent formulated, none, or one the operator wrote.
Serve(c) ==
    \/ observe_repository(c) \/ record_validation(c)
    \/ \E b \in formulate \union {"none", "revised"} : create_change(c, b)
    \/ Commit_advance(c)

Kill(c) ==
    /\ ~ Free(c) /\ faults < MaxFaults
    /\ faults' = faults + 1
    /\ Done(c)
    /\ UNCHANGED <<repository, rows, replies, calls>>

Lose_repository ==
    /\ repository.up /\ faults < MaxFaults
    /\ faults' = faults + 1
    /\ repository' = [up |-> FALSE, time |-> repository.time + 1]
    /\ UNCHANGED <<rows, request, replies, calls>>

Restore_repository ==
    /\ ~ repository.up
    /\ repository' = [up |-> TRUE, time |-> repository.time + 1]
    /\ UNCHANGED <<rows, request, replies, calls, faults>>

Init ==
    /\ repository \in {[up |-> up, time |-> 0] : up \in BOOLEAN}
    /\ product = NoProduct
    /\ changes = [k \in ChangeIds |-> NoChange]
    /\ runs = [r \in Runs |-> NoRun]
    /\ request = [c \in Callers |-> NoRequest]
    /\ replies = {} /\ calls = 0 /\ faults = 0

Next ==
    \/ \E c \in Callers : Request(c) \/ Serve(c) \/ Kill(c) \/ Follow_guidance(c)
    \/ Lose_repository \/ Restore_repository

Spec == Init /\ [][Next]_vars

\* Requests are served, the provider comes back, and the operator follows the guidance.
FairSpec ==
    /\ Spec
    /\ \A c \in Callers : WF_vars(Serve(c))
    /\ WF_vars(Restore_repository)
    /\ WF_vars(\E c \in Callers : Follow_guidance(c))

(***************************************************************************)
(* Properties                                                              *)
(***************************************************************************)

\* create_change: at most one stored change has the external_ref, and every answer to the
\* tracker names that one, or the very id that was delivered, which a command had taken
\* without the reference; however deliveries overlap and whatever ids they carry.
RepliesAgree ==
    /\ Cardinality(SameRef) <= 1
    /\ \A x \in replies : Stored(x[2]) /\ (changes[x[2]].ref \/ x[2] = x[1])

\* record_validation: of two overlapping checks the one that observed earlier never
\* overwrites what the later one recorded.
ReadinessIsMonotone == product'.seen >= product.seen

\* A first advance that looked before the run was there, and committed after another one.
ResetsSpend(r) ==
    \E c \in Callers : request[c].missed /\ request[c].id = r /\ request'[c] = NoRequest

\* create_run: a persisted budget carries accumulated spend and is reset by no repeat, except
\* by one that overlapped the creation of the run.
SpendIsKept ==
    \A r \in Runs : runs[r] # NoRun => runs'[r] \in runs[r]..Limit \/ ResetsSpend(r)

\* No delayed or repeated request takes back what a later one has written: neither what is
\* known of the product's repository nor, once its creation is over, what a run has spent.
ProgressIsKept == [][ReadinessIsMonotone /\ SpendIsKept]_vars

\* The guidance has no dead end: an operator who follows it gets a run of a change started,
\* once the provider answers and as long as the row of the product has revisions left.
GuidanceLeadsToRun ==
    [](product.revision + 2 <= MaxRevision) => <>(\E k \in ChangeIds : HasRun(k))
=============================================================================
