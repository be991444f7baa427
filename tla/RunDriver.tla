------------------------------ MODULE RunDriver ------------------------------
(***************************************************************************)
(* The durable run driver of the factory (orchestration/runner.py with     *)
(* flow.py, stages/gates.py, stages/agent.py, stages/release.py and the    *)
(* run store): one change run, advanced by any number of workers.          *)
(*                                                                         *)
(* An advance is one database transaction.  It reads the run, takes the    *)
(* run lease (a row lock: others wait for the transaction to end), derives *)
(* everything again under the lease, executes the stage or resolves its    *)
(* external wait, applies the flow table and writes the whole decision.    *)
(* Nothing of it is visible before it commits; a killed worker rolls back, *)
(* but what it did on the provider (commit, change request) stays.         *)
(* Between its steps the provider, the operator and other advances move.   *)
(*                                                                         *)
(* Revisions are numbered in the order the task branch reaches them.  A    *)
(* stage operation is a stage with its pinned input revision; rows keep    *)
(* the order of their creation, which is the order of their revisions.     *)
(***************************************************************************)
EXTENDS FlowTables, FiniteSets

CONSTANTS
    Workers,          \* processes that may advance the run at the same time
    ContractRisk,     \* risk class the implementation contract declares
    StartsWithContract, \* whether create_run already gets it
    MaxReworkRounds,  \* budget.max_rework_rounds
    MaxIterations,    \* contract.budget.max_autonomous_iterations
    MayExhaust,       \* whether tokens, cost or deadline can run out
    ConsolePhases,    \* phases the operator decides in the console
    Waivable,         \* phases the operator may waive there
    MaxRevision,      \* bound: commits on the task branch
    MaxAttempts,      \* bound: attempts of one operation
    MaxFailures,      \* bound: stage executions that fail
    MaxCrashes,       \* bound: workers killed during an advance
    MaxPushes,        \* bound: commits somebody else pushes to the branch
    MaxReviews,       \* bound: reviews on the change request
    MaxOrders         \* bound: rework orders of one phase

Revisions == 0 .. MaxRevision
NoRevision == -1
Waiver == -2          \* the "revision" of a waived phase: it binds to none

Operations == Stages \X Revisions
Attempts == Operations \X (1 .. MaxAttempts)

ASSUME DriverAssumption ==
    /\ ContractRisk \in Risks /\ StartsWithContract \in BOOLEAN
    /\ MaxReworkRounds \in Nat /\ MaxIterations \in Nat
    /\ MayExhaust \in BOOLEAN
    /\ ConsolePhases \subseteq Phases /\ Waivable \subseteq ConsolePhases
    /\ MaxRevision \in Nat /\ MaxAttempts \in Nat \ {0} /\ MaxFailures \in Nat
    /\ MaxCrashes \in Nat /\ MaxPushes \in Nat /\ MaxReviews \in Nat /\ MaxOrders \in Nat
    /\ "none" \notin Workers

\* What the driver keeps of a StageResult, and the status its attempt row got.
Results == [status : {"waiting", "succeeded", "failed", "blocked"}, action : Actions,
            phase : Phases \union {"none"}, blockers : BOOLEAN]
NoResult == [status |-> "none", action |-> "stop", phase |-> "none", blockers |-> FALSE]
OrderState == {"none", "pending", "repeated", "in_progress"}

VARIABLES
    \* the run store
    runStatus, exhausted, usedRounds, contract,
    row,          \* status of each operation's row, "absent" when there is none
    attemptCount, \* stage_run.attempt_count of each operation
    results,      \* stage_result of each attempt
    attemptRow,   \* status of each attempt's own row, "absent" when there is none
    events,       \* event ids published to the outbox
    decisions,    \* operator approvals and waivers: <<phase, revision it is bound to>>
    orders,       \* the current rework order of each phase
    orderCount,   \* rework orders issued so far, per phase
    \* the provider
    head,         \* head of the task branch
    published,    \* commit each operation published (effects are keyed by it)
    phaseRev,     \* revision of the artifacts of each design phase
    request,      \* the change request: "none", "open" or "merged"
    mergedHead,   \* its head when it was merged
    verdict,      \* pipeline verdict at the request's head
    review,       \* reviews of the request at its head, the last one deciding
    approvedOnce, \* the request was approved at some head
    rollout,      \* what the release facts say
    \* the workers
    lease,        \* the worker that holds the run lease, or "none"
    pc, work,
    failures, crashes, pushes, reviewCount  \* counters of the bounds

store == <<runStatus, exhausted, usedRounds, row, attemptCount, results, attemptRow, events>>
console == <<decisions, orders, orderCount>>
branch == <<head, published, phaseRev, pushes>>
pull == <<request, mergedHead, verdict, review, approvedOnce, reviewCount>>
provider == <<branch, pull, rollout>>
workers == <<lease, pc, work, failures, crashes>>
vars == <<store, contract, console, provider, workers>>

(***************************************************************************)
(* What an advance reads                                                   *)
(***************************************************************************)

\* The rows of a stage, and those of them that are not terminal.
Known(s) == {r \in Revisions : row[<<s, r>>] # "absent"}
Active(s) == {r \in Revisions : row[<<s, r>>] \in StageActive}

\* The revision a stage starts from: the head of the task branch, which is the base while
\* there is no branch.
ScmRevision == head

\* The operation in flight: the first stage of the route with a row that is not
\* terminal, and the last such row of it.
IsNext(o) ==
    /\ o[2] \in Active(o[1])
    /\ \A r \in Active(o[1]) : r <= o[2]
    /\ \A s \in Stages : Position[s] < Position[o[1]] => Active(s) = {}

\* Mutant of attempt_number: a retry keeps the number of the failed attempt.
attempt_number_kept(o) == IF attemptCount[o] = 0 THEN 1 ELSE attemptCount[o]

attempt_number(o) ==
    LET n == IF attemptCount[o] = 0 THEN 1 ELSE attemptCount[o]
    IN IF row[o] \in Retryable THEN n + 1 ELSE n

\* The committed result of an attempt; attempts beyond the bound have none.
committed_result(o, n) == IF n > MaxAttempts THEN NoResult ELSE results[<<o, n>>]

Risk == effective_change_risk_class(IF contract THEN ContractRisk ELSE 1)

ObservedHead == IF request = "merged" THEN mergedHead ELSE head

\* The branch moves: verdict and reviews of the open request are about an older head.
NewHead ==
    /\ verdict' = IF request = "open" THEN "none" ELSE verdict
    /\ review' = IF request = "open" THEN "none" ELSE review

\* A rework order waits to be taken up.
IsPending(p) == orders[p] \in {"pending", "repeated"}

phase_settled(p) == <<p, Waiver>> \in decisions \/ <<p, phaseRev[p]>> \in decisions

\* The first design phase of the route that is not settled, or the last one.
specification_phase ==
    IF "requirements" \in specification_phases /\ ~ phase_settled("requirements")
        THEN "requirements"
        ELSE IF ~ phase_settled("architecture") THEN "architecture" ELSE LastDesignPhase

\* The first stage with a row at work (a failed row is not), else the last stage.
IsPhaseStage(s) ==
    LET atWork == {t \in Stages : \E r \in Active(t) : row[<<t, r>>] # "failed"}
        known == {t \in Stages : Known(t) # {}}
    IN IF atWork # {}
         THEN s \in atWork /\ \A t \in atWork : Position[s] <= Position[t]
         ELSE s \in known /\ \A t \in known : Position[t] <= Position[s]

\* _advance_in_session: the phase handed to the attempt, read before the lease.
current_change_phase(o) ==
    IF o[1] = "specification" /\ IsPhaseStage("specification")
        THEN specification_phase ELSE "none"

(***************************************************************************)
(* Resolving the external wait of a parked attempt (stages/gates.py)       *)
(***************************************************************************)

\* The phase of the wait: its checkpoint names it; only the specification has rounds.
WaitPhase(s, checkpoint) ==
    IF s # "specification" THEN "none"
    ELSE IF checkpoint.phase # "none" THEN checkpoint.phase ELSE specification_phase

\* with_store_facts: a console decision counts only when bound to the current revision.
Bound(s, p, r) ==
    \/ r = Waiver
    \/ r = IF s = "specification" /\ p \in DesignPhases THEN phaseRev[p] ELSE ObservedHead

\* _settling_decision: an approval on a human gate of the stage, of the waiting phase
\* when there is one; a review of the request is read as a decision of the first phase.
Settles(s, phase) ==
    LET human == required_human_gates(s, Risk)
    IN \/ /\ approvedOnce
          /\ ReviewGate(s, Risk) \in human
          /\ phase \in {"none", "requirements"}
       \/ \E d \in decisions :
            /\ Bound(s, d[1], d[2])
            /\ PHASE_GATE[d[1]] \in human
            /\ phase \in {"none", d[1]}

OrderPhase(s, phase) == IF phase = "none" THEN StagePhase[s] ELSE phase

gate_resolved(s, phase) ==
    /\ request # "none"
    /\ s # "release"
    /\ IF request = "merged"
         THEN s = "review_verification" \/ is_purely_human_gated(s, Risk)
         ELSE IF is_purely_human_gated(s, Risk)
           THEN IsPending(OrderPhase(s, phase)) \/ Settles(s, phase)
           ELSE \/ /\ verdict = "success"
                   /\ required_human_gates(s, Risk) = {}
                   /\ s # "review_verification"
                \/ verdict = "failure"

\* CliReleaseFactsProvider: what the options of the command say of the rollout, with the
\* probes it runs; nothing while they are not there.
release_facts == rollout

release_resolved == release_facts # "none"

\* _resolved_wait: only a waiting checkpoint can resolve.
resolved_wait(o, checkpoint) ==
    /\ checkpoint.status = "waiting"
    /\ IF o[1] = "release" THEN release_resolved
                           ELSE gate_resolved(o[1], WaitPhase(o[1], checkpoint))

\* Mutant of Replays: a committed result stands whatever the facts say.
Replays_always(o) == committed_result(o, attempt_number(o)) # NoResult

\* An advance of operation o would only replay its committed result.
Replays(o) ==
    LET c == committed_result(o, attempt_number(o))
    IN c # NoResult /\ ~ resolved_wait(o, c)

Result(status, action, phase, blockers) ==
    [status |-> status, action |-> action, phase |-> phase, blockers |-> blockers]

\* A result with the facts apply_result gets with it: the gates that passed, the gates
\* a human approved at the observed head, and whether the latest review there approves.
Resolution(result, passed) ==
    [result |-> result, passed |-> passed]

PriorReviewFailure ==
    \E a \in Attempts : a[1][1] = "review_verification" /\ results[a].status = "failed"

resolve_rework_order(s, phase) ==
    Resolution(IF orders[OrderPhase(s, phase)] = "repeated" \/ usedRounds >= MaxReworkRounds
                 THEN Result("blocked", "stop", phase, FALSE)
                 ELSE Result("failed", "rework", phase, FALSE), {})

resolve_human_gated(s, phase) ==
    IF request # "merged" /\ IsPending(OrderPhase(s, phase))
      THEN resolve_rework_order(s, phase)
      ELSE IF request # "merged" /\ phase # "none" /\ next_specification_phase(phase) # "none"
        THEN Resolution(Result("succeeded", "phase_round", phase, FALSE), {})
        ELSE Resolution(Result("succeeded", "execute_stage", phase, FALSE),
                        required_human_gates(s, Risk))

resolve_machine_gated(s) ==
    IF verdict = "success"
      THEN Resolution(Result("succeeded", "execute_stage", "none", FALSE),
                      MachineGates(s, Risk))
      ELSE Resolution(Result("failed", "rework", "none", TRUE), {})

\* A merged request passes the review gate, a green pipeline the machine gates.  A
\* second failed pass repeats the first one's findings, so the loop stops there.
resolve_review ==
    LET s == "review_verification"
    IN IF request = "merged"
         THEN Resolution(Result("succeeded", "merge", "none", FALSE),
                {"review"} \union
                (IF verdict = "success" THEN MachineGates(s, Risk) ELSE {}))
         ELSE Resolution(IF usedRounds >= MaxReworkRounds \/ PriorReviewFailure
                           THEN Result("blocked", "stop", "none", TRUE)
                           ELSE Result("failed", "rework", "none", TRUE), {})

\* A review without machine gates has no findings to plan a round from, and a merge
\* needs the change request the checkpoint names: both raise, the advance rolls back.
ResolutionRaises(s, checkpoint) ==
    /\ s = "review_verification"
    /\ IF request = "merged" THEN checkpoint.action # "wait_for_ci"
                             ELSE MachineGates(s, Risk) = {}

build_release_resolution ==
    IF release_facts = "released"
      THEN Resolution(Result("succeeded", "release", "none", FALSE), {"release"})
      ELSE Resolution(Result("blocked", "stop", "none", FALSE), {})

build_gate_resolution(s, phase) ==
    IF s = "review_verification" THEN resolve_review
    ELSE IF is_purely_human_gated(s, Risk) THEN resolve_human_gated(s, phase)
                                           ELSE resolve_machine_gated(s)

\* Mutant of MergeAuthorized: an approval of any earlier head authorizes the merge.
MergeAuthorized_once == approvedOnce

\* The latest human decision at the observed head approves (evaluate_merge).
MergeAuthorized == review = "approved"

\* The gates of s with a human approval bound to the observed head.
ApprovedGates(s) ==
    {g \in Gates :
        \/ g = ReviewGate(s, Risk) /\ review \in {"approved", "retracted"}
        \/ \E d \in decisions :
            d[2] = ObservedHead /\ PHASE_GATE[d[1]] = g /\ Bound(s, d[1], d[2])}

\* What the resolver of a wait hands to the flow: the result, the gates that passed, the
\* approvals of the observation and the merge context.
GateWaitResolver(s, checkpoint) ==
    LET r == build_gate_resolution(s, WaitPhase(s, checkpoint))
    IN [result |-> r.result, passed |-> r.passed, approved |-> ApprovedGates(s),
        authorized |-> MergeAuthorized]

\* The release facts carry neither approvals nor a merge context.
ReleaseWaitResolver ==
    [result |-> build_release_resolution.result, passed |-> build_release_resolution.passed,
     approved |-> {}, authorized |-> FALSE]

WaitResolution(s, checkpoint) ==
    IF s = "release" THEN ReleaseWaitResolver ELSE GateWaitResolver(s, checkpoint)

(***************************************************************************)
(* Applying a result: flow.apply_result                                    *)
(***************************************************************************)

\* What an advance holds in memory: the phase read before the lease, and, once it has
\* the lease, the operation and attempt it re-derived, the contract it loaded, the
\* result and the facts that came with it.
Work == [phase : Phases \union {"none"}, op : Operations, attempt : 1 .. MaxAttempts,
         contract : BOOLEAN, result : Results \union {NoResult}, passed : SUBSET Gates,
         approved : SUBSET Gates, authorized : BOOLEAN]
Idle == [phase |-> "none", op |-> <<"specification", 0>>, attempt |-> 1, contract |-> FALSE,
         result |-> NoResult, passed |-> {}, approved |-> {}, authorized |-> FALSE]

WorkRisk(k) == effective_change_risk_class(IF k.contract THEN ContractRisk ELSE 1)

autonomy_exhausted(k) ==
    /\ k.contract
    /\ Cardinality({o \in Operations : row[o] # "absent"}) >= MaxIterations

\* The required gates without a satisfying result at the observed head.
unsatisfied_gates(k) == required_gates(k.op[1]) \ k.passed

\* out: the budget is exhausted once the usage of this result is added.
block_reason(k, out) == unsatisfied_gates(k) # {} \/ out

\* Mutant of missing_control_points: a gate that passed counts as approved.
missing_control_points_passed(k) == required_control_points(k.op[1], WorkRisk(k)) \ k.passed

\* Control points of a R2+ stage are closed by approvals bound to the observed head.
missing_control_points(k) == required_control_points(k.op[1], WorkRisk(k)) \ k.approved

\* The obligations of a R2+ class: the band of the route and the control points.
risk_escalation_violation(k) ==
    /\ WorkRisk(k) >= 2
    /\ ~ route_allows_risk(WorkRisk(k)) \/ missing_control_points(k) # {}

escalation_reason(k) == risk_escalation_violation(k) \/ autonomy_exhausted(k)

rework_violation == usedRounds >= MaxReworkRounds

completion_violations(k) ==
    k.result.blockers \/ \E a \in Attempts : results[a].blockers

\* A FlowDecision: effective action, statuses of stage and run, the stage it enters
\* and whether it enters it anew even when a row of it is still active (_restart).
Decision(action, stage, run, enters, anew) ==
    [action |-> action, stage |-> stage, run |-> run, enters |-> enters, anew |-> anew]

\* Mutant of Stop: the run of a blocked stage is left waiting.
Stop_waiting == Decision("stop", "blocked", "waiting", "none", FALSE)

Stop == Decision("stop", "blocked", "blocked", "none", FALSE)

handle_execute(k, out) ==
    IF block_reason(k, out) \/ escalation_reason(k) THEN Stop
    ELSE Decision("execute_stage", "succeeded", "running", next_stage[k.op[1]], FALSE)

handle_rework(k) ==
    LET target == REWORK_TARGET[k.op[1]]
    IN IF autonomy_exhausted(k) \/ rework_violation THEN Stop
       ELSE Decision("rework", "failed", "running", target, target = k.op[1])

handle_phase_round(k) == Decision("phase_round", "succeeded", "running", k.op[1], TRUE)

\* The merge policy.  The driver asks it for the human who merged, at the merged head, and
\* its default enables no other executor.
evaluate_merge(k) ==
    IF unsatisfied_gates(k) # {} THEN "blocked"
    ELSE IF WorkRisk(k) >= 2 /\ missing_control_points(k) # {} THEN "blocked"
    ELSE IF k.authorized THEN "human_merge_authorized" ELSE "manual_merge_required"

\* The run is parked for an authorization bound to the merged head.
wait_for_human_merge == Decision("wait_for_input", "waiting", "waiting", "none", FALSE)

handle_merge(k, out) ==
    IF block_reason(k, out) \/ ~ route_allows_risk(WorkRisk(k)) THEN Stop
    ELSE CASE evaluate_merge(k) = "blocked" -> Stop
           [] evaluate_merge(k) = "manual_merge_required" -> wait_for_human_merge
           [] OTHER -> Decision("merge", "succeeded", "running", next_stage[k.op[1]], FALSE)

handle_release(k, out) ==
    IF block_reason(k, out) \/ ~ route_allows_risk(WorkRisk(k)) \/ completion_violations(k)
      THEN Stop ELSE Decision("release", "succeeded", "succeeded", "none", FALSE)

apply_result(k, out) ==
    LET a == k.result.action
    IN CASE a = "execute_stage" -> handle_execute(k, out)
         [] a = "rework" -> handle_rework(k)
         [] a = "phase_round" -> handle_phase_round(k)
         [] a = "merge" -> handle_merge(k, out)
         [] a = "release" -> handle_release(k, out)
         [] a = "stop" -> Stop
         [] OTHER -> Decision(a, "waiting", "waiting", "none", FALSE)    \* one of Waits

\* InvalidFlowTransition, FlowStateError: the result does not fit the table.
FitsTable(k) ==
    /\ k.result.action \in FLOW_TRANSITIONS[k.op[1]]
    /\ k.result.status = expected_result_status(k.result.action)

(***************************************************************************)
(* Persisting the decision                                                 *)
(***************************************************************************)

\* record_outcome: a final result supersedes the waiting checkpoint of its attempt.
Supersedes(k) ==
    /\ results[<<k.op, k.attempt>>].status = "waiting"
    /\ k.result.status # "waiting"

Records(k) == results[<<k.op, k.attempt>>] = NoResult \/ Supersedes(k)

stage_completed_event_id(k) ==
    <<k.op, k.attempt, IF Supersedes(k) THEN k.result.status ELSE "none">>

\* The row the decision creates: the entered stage at the head the branch has now.
Created(d) == <<d.enters, ScmRevision>>

Creates(d) == d.enters # "none" /\ (d.anew \/ Active(d.enters) = {})

\* advance_stage moves the row of the operation to the status of the decision.  Inserting
\* an operation that already has a row changes nothing.
RowsAfter(k, d) ==
    [o \in Operations |->
        IF o = k.op THEN d.stage
        ELSE IF Creates(d) /\ o = Created(d) /\ row[o] = "absent" THEN "pending"
        ELSE row[o]]

\* record_stage_outcome: what the decision does to the rework order of its phase.
OrderAfter(k, d) ==
    LET p == OrderPhase(k.op[1], k.result.phase)
        next == CASE d.action = "rework" /\ IsPending(p) -> "in_progress"
                  [] d.action = "stop" -> "none"
                  [] d.action \in {"wait_for_input", "request_approval"}
                        /\ orders[p] = "in_progress" -> "none"
                  [] OTHER -> orders[p]
    IN [orders EXCEPT ![p] = next]

\* Mutant of RoundsAfter: a round that was asked for is counted, granted or not.
RoundsAfter_asked(k, d) == IF k.result.action = "rework" THEN usedRounds + 1 ELSE usedRounds

RoundsAfter(k, d) == IF d.action = "rework" THEN usedRounds + 1 ELSE usedRounds

\* The rows an attempt opens are written by the transaction that commits its decision: the
\* row of the attempt, which a resumed wait re-opens, and the count of its operation.
open_attempt(k) ==
    attemptCount' = [attemptCount EXCEPT ![k.op] = IF @ < k.attempt THEN k.attempt ELSE @]

finish_attempt(k, status) ==
    attemptRow' = [attemptRow EXCEPT ![<<k.op, k.attempt>>] = status]

persist_decision(k, d, out) ==
    /\ results' = [results EXCEPT ![<<k.op, k.attempt>>] = k.result]
    /\ open_attempt(k)
    /\ finish_attempt(k, d.stage)
    /\ row' = RowsAfter(k, d)
    /\ runStatus' = d.run
    /\ usedRounds' = RoundsAfter(k, d)
    /\ exhausted' = out
    /\ events' = events \union {stage_completed_event_id(k)}
    /\ orders' = OrderAfter(k, d)

(***************************************************************************)
(* The steps of an advance                                                 *)
(***************************************************************************)

\* Mutant of LeaseFree: advances do not exclude each other.
LeaseFree_any(w) == TRUE

LeaseFree(w) == lease = "none"

Leave(w) == work' = [work EXCEPT ![w] = Idle] /\ pc' = [pc EXCEPT ![w] = "idle"]

\* The reads before the lease.  An advance that would only replay ends here.
Enter(w) ==
    /\ pc[w] = "idle"
    /\ runStatus \notin RunTerminal
    /\ \E o \in Operations :
        /\ IsNext(o)
        /\ attempt_number(o) <= MaxAttempts
        /\ ~ Replays(o)
        /\ work' = [work EXCEPT ![w].phase = current_change_phase(o)]
    /\ pc' = [pc EXCEPT ![w] = "entered"]
    /\ UNCHANGED <<store, contract, console, provider, lease, failures, crashes>>

\* Under the lease the run is terminal, has no stage left, or its result stands.
Refused ==
    \/ runStatus \in RunTerminal
    \/ \A o \in Operations : IsNext(o) => Replays(o) \/ attempt_number(o) > MaxAttempts

\* The advance raises or replays, and the lease goes with its transaction.
Give_up(w) ==
    /\ pc[w] = "entered"
    /\ LeaseFree(w)
    /\ Refused
    /\ Leave(w)
    /\ UNCHANGED <<store, contract, console, provider, lease, failures, crashes>>

\* The facts resolve the wait: the same attempt is re-opened and its result built.
Resume(w) ==
    /\ pc[w] = "entered"
    /\ LeaseFree(w)
    /\ ~ Refused
    /\ \E o \in Operations :
        LET n == attempt_number(o)
            c == committed_result(o, n)
            r == WaitResolution(o[1], c)
        IN /\ IsNext(o)
           /\ c # NoResult
           /\ IF ResolutionRaises(o[1], c)
                THEN Leave(w) /\ UNCHANGED lease
                ELSE /\ work' = [work EXCEPT ![w] =
                            [phase |-> work[w].phase, op |-> o, attempt |-> n,
                             contract |-> contract, result |-> r.result, passed |-> r.passed,
                             approved |-> r.approved, authorized |-> r.authorized]]
                     /\ pc' = [pc EXCEPT ![w] = "deciding"]
                     /\ lease' = w
    /\ UNCHANGED <<store, contract, console, provider, failures, crashes>>

\* No committed result: a new attempt is opened and the stage executor starts.
Open_attempt(w) ==
    /\ pc[w] = "entered"
    /\ LeaseFree(w)
    /\ ~ Refused
    /\ \E o \in Operations :
        /\ IsNext(o)
        /\ committed_result(o, attempt_number(o)) = NoResult
        /\ work' = [work EXCEPT ![w] = [@ EXCEPT !.op = o, !.attempt = attempt_number(o),
                                                 !.contract = contract]]
    /\ pc' = [pc EXCEPT ![w] = "executing"]
    /\ lease' = w
    /\ UNCHANGED <<store, contract, console, provider, failures, crashes>>

Report(w, result) ==
    /\ work' = [work EXCEPT ![w].result = result]
    /\ pc' = [pc EXCEPT ![w] = "deciding"]

Writes(s) == s \in {"specification", "planning", "construction"}

\* The contract a run carries is an approved one.
contract_entry_violation(k) == ~ k.contract

\* construction_entry_reason: Construction needs the contract.
MayEnter(k) == k.op[1] = "construction" => ~ contract_entry_violation(k)

\* The review has nothing to judge unless the request is open.
HasSubject(k) == k.op[1] = "review_verification" => request = "open"

\* The attempt ends blocked: its stage may not start, the harness or the provider fails
\* (before or after the commit was published), or there is nothing to publish.
Execution_fails(w) ==
    /\ pc[w] \in {"executing", "published"}
    /\ IF MayEnter(work[w]) /\ HasSubject(work[w])
         THEN failures < MaxFailures /\ failures' = failures + 1
         ELSE UNCHANGED failures
    /\ Report(w, Result("blocked", "stop", work[w].phase, FALSE))
    /\ UNCHANGED <<store, contract, console, provider, lease, crashes>>

\* The agent's changes become one commit: the one its operation already made, or a new
\* head of the branch.  Its artifacts are those of the phase the attempt was given.
Publish_commit(w) ==
    LET k == work[w]
    IN /\ pc[w] = "executing"
       /\ Writes(k.op[1])
       /\ MayEnter(k)
       /\ IF published[k.op] # NoRevision
            THEN UNCHANGED <<branch, verdict, review>>
            ELSE /\ head < MaxRevision
                 /\ head' = head + 1
                 /\ published' = [published EXCEPT ![k.op] = head + 1]
                 /\ phaseRev' = IF k.phase = "none" THEN phaseRev
                                ELSE [phaseRev EXCEPT ![k.phase] = head + 1]
                 /\ NewHead
                 /\ UNCHANGED pushes
       /\ pc' = [pc EXCEPT ![w] = "published"]
       /\ UNCHANGED <<store, contract, console, request, mergedHead, approvedOnce, reviewCount,
                      rollout, lease, work, failures, crashes>>

\* The attempt parks: on CI when the stage has machine gates, else on a human.
Waiting(k) ==
    Result("waiting",
           IF MachineGates(k.op[1], WorkRisk(k)) # {} \/ k.op[1] = "release"
             THEN "wait_for_ci" ELSE "wait_for_input",
           k.phase, FALSE)

\* An open change request carries the commit; else a fresh one is opened, without
\* reviews, and with a verdict only when its head already has one.
Open_request(w) ==
    /\ pc[w] = "published"
    /\ request' = "open"
    /\ IF request = "open"
         THEN UNCHANGED <<verdict, review, approvedOnce>>
         ELSE /\ verdict' = IF request = "merged" /\ head = mergedHead THEN verdict ELSE "none"
              /\ review' = "none"
              /\ approvedOnce' = FALSE
    /\ Report(w, Waiting(work[w]))
    /\ UNCHANGED <<store, contract, console, branch, mergedHead, reviewCount, rollout, lease,
                   failures, crashes>>

\* The review judges the open request and writes nothing; the release pins a digest.
Execute_other(w) ==
    /\ pc[w] = "executing"
    /\ ~ Writes(work[w].op[1])
    /\ HasSubject(work[w])
    /\ Report(w, Waiting(work[w]))
    /\ UNCHANGED <<store, contract, console, provider, lease, failures, crashes>>

\* The flow decides, the decision is written and the transaction commits.
Commit(w) ==
    /\ pc[w] = "deciding"
    /\ IF FitsTable(work[w]) /\ Records(work[w])
         THEN \E out \in IF MayExhaust THEN {exhausted, TRUE} ELSE {exhausted} :
                 persist_decision(work[w], apply_result(work[w], out), out)
         ELSE UNCHANGED <<store, orders>>
    /\ Leave(w)
    /\ lease' = "none"
    /\ UNCHANGED <<contract, decisions, orderCount, provider, failures, crashes>>

\* The worker is killed, or a read of the provider fails: the transaction rolls back.
Crash(w) ==
    /\ pc[w] # "idle"
    /\ crashes < MaxCrashes
    /\ crashes' = crashes + 1
    /\ Leave(w)
    /\ lease' = IF lease = w THEN "none" ELSE lease
    /\ UNCHANGED <<store, contract, console, provider, failures>>

(***************************************************************************)
(* The operator                                                            *)
(***************************************************************************)

\* withdraw_run: one transaction under the lease.
withdraw_run ==
    /\ lease = "none"
    /\ runStatus \notin RunTerminal
    /\ runStatus' = "canceled"
    /\ row' = [o \in Operations |-> IF row[o] \in StageActive THEN "canceled" ELSE row[o]]
    /\ UNCHANGED <<exhausted, usedRounds, contract, attemptCount, results, attemptRow, events,
                   console, provider, workers>>

attach_contract ==
    /\ ~ contract
    /\ contract' = TRUE
    /\ UNCHANGED <<store, console, provider, workers>>

\* record_phase_decision: approval of a phase at its current revision, its gate open.
Approve_phase(p) ==
    LET current == IF p \in DesignPhases THEN phaseRev[p] ELSE head
    IN /\ orders[p] = "none"
       /\ current # NoRevision
       /\ <<p, current>> \notin decisions
       /\ decisions' = decisions \union {<<p, current>>}
       /\ UNCHANGED <<store, contract, orders, orderCount, provider, workers>>

Waive_phase(p) ==
    /\ p \in Waivable
    /\ <<p, Waiver>> \notin decisions
    /\ decisions' = decisions \union {<<p, Waiver>>}
    /\ UNCHANGED <<store, contract, orders, orderCount, provider, workers>>

\* The explicit send-back; a later order may repeat the revision or the remarks of the
\* one before it.
issue_rework_order(p) ==
    /\ orders[p] = "none"
    /\ orderCount[p] < MaxOrders
    /\ orderCount' = [orderCount EXCEPT ![p] = @ + 1]
    /\ \E o \in IF orderCount[p] = 0 THEN {"pending"} ELSE {"pending", "repeated"} :
        orders' = [orders EXCEPT ![p] = o]
    /\ UNCHANGED <<store, contract, decisions, provider, workers>>

(***************************************************************************)
(* The provider (external)                                                 *)
(***************************************************************************)

\* A pipeline ends at the head of the request.  It may be run again with another result,
\* a green one only while the request is open.
Pipeline_ends(v) ==
    /\ request # "none"
    /\ v # verdict
    /\ verdict = "success" => request = "open"
    /\ verdict' = v
    /\ UNCHANGED <<store, contract, console, branch, request, mergedHead, review, approvedOnce,
                   reviewCount, rollout, workers>>

\* A human reviews the request at its head: approves it or asks for changes.
Submit_review(approves) ==
    /\ request # "none"
    /\ reviewCount < MaxReviews
    /\ reviewCount' = reviewCount + 1
    /\ review' = IF approves THEN "approved"
                 ELSE IF review \in {"approved", "retracted"} THEN "retracted" ELSE "rejected"
    /\ approvedOnce' = (approvedOnce \/ approves)
    /\ UNCHANGED <<store, contract, console, branch, request, mergedHead, verdict, rollout,
                   workers>>

Merge_request ==
    /\ request = "open"
    /\ request' = "merged"
    /\ mergedHead' = head
    /\ UNCHANGED <<store, contract, console, branch, verdict, review, approvedOnce, reviewCount,
                   rollout, workers>>

\* Somebody else pushes to the task branch.
Push ==
    /\ request = "open"
    /\ pushes < MaxPushes
    /\ head < MaxRevision
    /\ pushes' = pushes + 1
    /\ head' = head + 1
    /\ NewHead
    /\ UNCHANGED <<store, contract, console, published, phaseRev, request, mergedHead,
                   approvedOnce, reviewCount, rollout, workers>>

\* The release facts become complete; a failed rollout may be repaired.
Rollout_ends(v) ==
    /\ Known("release") # {}
    /\ \/ rollout = "none"
       \/ rollout = "failed" /\ v = "released"
    /\ rollout' = v
    /\ UNCHANGED <<store, contract, console, branch, pull, workers>>

(***************************************************************************)
(* Specification                                                           *)
(***************************************************************************)

\* create_run: the run and the row of its first stage at the base revision.
Init ==
    /\ runStatus = "pending" /\ exhausted = FALSE /\ usedRounds = 0
    /\ contract = StartsWithContract
    /\ row = [o \in Operations |-> IF o = <<"specification", 0>> THEN "pending" ELSE "absent"]
    /\ attemptCount = [o \in Operations |-> 0]
    /\ results = [a \in Attempts |-> NoResult]
    /\ attemptRow = [a \in Attempts |-> "absent"]
    /\ events = {}
    /\ decisions = {}
    /\ orders = [p \in Phases |-> "none"]
    /\ orderCount = [p \in Phases |-> 0]
    /\ head = 0
    /\ published = [o \in Operations |-> NoRevision]
    /\ phaseRev = [p \in DesignPhases |-> NoRevision]
    /\ request = "none" /\ mergedHead = NoRevision
    /\ verdict = "none" /\ review = "none" /\ approvedOnce = FALSE
    /\ rollout = "none"
    /\ lease = "none"
    /\ pc = [w \in Workers |-> "idle"]
    /\ work = [w \in Workers |-> Idle]
    /\ failures = 0 /\ crashes = 0 /\ pushes = 0 /\ reviewCount = 0

Advance(w) ==
    \/ Enter(w) \/ Give_up(w) \/ Resume(w) \/ Open_attempt(w)
    \/ Execution_fails(w) \/ Publish_commit(w) \/ Open_request(w) \/ Execute_other(w)
    \/ Commit(w)

Operator ==
    \/ withdraw_run
    \/ attach_contract
    \/ \E p \in ConsolePhases : Approve_phase(p) \/ Waive_phase(p) \/ issue_rework_order(p)

Provider ==
    \/ \E v \in {"success", "failure"} : Pipeline_ends(v)
    \/ \E approves \in BOOLEAN : Submit_review(approves)
    \/ Merge_request
    \/ Push
    \/ \E v \in {"released", "failed"} : Rollout_ends(v)

\* Once the run is terminal nothing reads what the operator or the provider do.
Next ==
    \/ \E w \in Workers : Advance(w) \/ Crash(w)
    \/ runStatus \notin RunTerminal /\ (Operator \/ Provider)

Spec == Init /\ [][Next]_vars

\* Somebody keeps calling "run advance" while it would do something, and an advance
\* that has started runs on: a job of the runner, bounded by its deadline.
FairSpec == Spec /\ \A w \in Workers : WF_vars(Advance(w))

(***************************************************************************)
(* Properties                                                              *)
(***************************************************************************)

\* Rows, results, provider facts and the memory of every advance have their type.
TypeOK ==
    /\ runStatus \in RunStatus
    /\ exhausted \in BOOLEAN
    /\ usedRounds \in 0 .. MaxReworkRounds
    /\ contract \in BOOLEAN
    /\ row \in [Operations -> StageStatus \union {"absent"}]
    /\ attemptCount \in [Operations -> 0 .. MaxAttempts]
    /\ results \in [Attempts -> Results \union {NoResult}]
    /\ attemptRow \in [Attempts -> StageStatus \union {"absent"}]
    /\ decisions \subseteq ConsolePhases \X (Revisions \union {Waiver})
    /\ orders \in [Phases -> OrderState]
    /\ orderCount \in [Phases -> 0 .. MaxOrders]
    /\ head \in Revisions
    /\ published \in [Operations -> Revisions \union {NoRevision}]
    /\ phaseRev \in [DesignPhases -> Revisions \union {NoRevision}]
    /\ request \in {"none", "open", "merged"}
    /\ mergedHead \in Revisions \union {NoRevision}
    /\ verdict \in {"none", "success", "failure"}
    /\ review \in {"none", "approved", "retracted", "rejected"}
    /\ approvedOnce \in BOOLEAN
    /\ rollout \in {"none", "released", "failed"}
    /\ lease \in Workers \union {"none"}
    /\ pc \in [Workers -> {"idle", "entered", "executing", "published", "deciding"}]
    /\ work \in [Workers -> Work]

\* Idempotency (advance_run under the lease, record_outcome, the outbox event id): when
\* an advance has a result to write, its attempt has no result or only the waiting
\* checkpoint, and the event it will publish has not been published before.
DecisionIsNew ==
    \A w \in Workers : pc[w] = "deciding" =>
        /\ Records(work[w])
        /\ stage_completed_event_id(work[w]) \notin events

\* No advance is lost to its own checks: the result every path builds fits the flow
\* table, and the statuses the flow decides are reachable from the persisted ones.
NoAdvanceIsRejected ==
    \A w \in Workers : pc[w] = "deciding" =>
        LET k == work[w]
            d == apply_result(k, exhausted)
        IN /\ FitsTable(k)
           /\ row[k.op] # "absent" /\ StagePath(row[k.op], d.stage)
           /\ RunPath(runStatus, d.run)

\* The budget's rework counter is exactly the number of rounds the flow spent (restarts,
\* retries and concurrent advances never lose or repeat one) and keeps its limit.
RoundsAccounted ==
    /\ usedRounds = Cardinality({a \in Attempts : /\ results[a].action = "rework"
                                                   /\ attemptRow[a] = "failed"})
    /\ usedRounds <= MaxReworkRounds

\* A stage has a row only when the stage before it on the route has succeeded.
StageOrder ==
    \A s \in Stages \ {"specification"} :
        (\E r \in Revisions : row[<<s, r>>] # "absent")
            => \E r \in Revisions : row[<<Predecessor[s], r>>] = "succeeded"

\* A release is entered only after the change was merged with a green pipeline and a
\* human approval, both at the head that was merged.
ReleaseIsAuthorized ==
    (\E r \in Revisions : row[<<"release", r>>] # "absent") =>
        /\ request = "merged"
        /\ verdict = "success"
        /\ review \in {"approved", "retracted"}

\* A change of risk R2 and above, its contract known from the start, leaves the
\* specification only after a human approved its interface at a revision: neither a
\* waiver, nor a merge, nor an approval of another gate stands in (missing_control_points).
InterfaceIsApproved ==
    /\ StartsWithContract /\ Risk >= 2
    /\ \E r \in Revisions : row[<<"planning", r>>] # "absent"
    => \E r \in Revisions : <<"interface", r>> \in decisions

\* The run waits exactly when the operation the next advance takes up is parked.
WaitingIsParked ==
    /\ runStatus = "waiting" => \E o \in Operations : IsNext(o) /\ row[o] = "waiting"
    /\ \A o \in Operations : row[o] = "waiting" => runStatus = "waiting"

\* A run that is not finished always has an operation for the next advance; one that is
\* finished has none.
AlwaysAdvanceable ==
    runStatus \notin RunTerminal <=> \E o \in Operations : IsNext(o)

\* Run status and rows never disagree, although a failed row may stay active next to the
\* operation of a granted round (flow._start): there is something to advance until the run
\* is finished, and it waits exactly when that operation is parked.
StatusFitsRows == AlwaysAdvanceable /\ WaitingIsParked

\* A finished run is final: no advance that was under way writes to it.
TerminalIsFinal ==
    [][(runStatus \in RunTerminal) => UNCHANGED <<store, orders>>]_vars

\* The run is at work, within the bounds on revisions and attempts.
Busy ==
    /\ runStatus \in {"pending", "running"}
    /\ head < MaxRevision
    /\ \E o \in Operations : IsNext(o) /\ attempt_number(o) <= MaxAttempts

\* The driver always comes to rest: a run at work eventually waits for somebody, blocks
\* with a reason or ends; no status is left behind that an advance cannot take further.
ComesToRest == Busy ~> ~ Busy

\* The operation in flight is parked and the facts resolve its wait.
WaitIsOver ==
    /\ runStatus \notin RunTerminal
    /\ \E o \in Operations :
        /\ IsNext(o) /\ row[o] = "waiting"
        /\ resolved_wait(o, committed_result(o, attempt_number(o)))

\* No wake-up is lost (_resolved_wait, gate_resolved): a wait that stays resolved is
\* eventually taken up, whatever order the approval, the verdict and the merge came in.
WaitIsTakenUp == WaitIsOver ~> ~ WaitIsOver
=============================================================================
