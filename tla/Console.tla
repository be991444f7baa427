------------------------------ MODULE Console ------------------------------
(***************************************************************************)
(* What the operator of a running change is told and does: the guidance,   *)
(* the gate of a phase and the column of phases (orchestration/guidance.py,*)
(* phase_gate.py, phases.py, state/guidance.py, state/phases.py), over the *)
(* run driver they project.                                                *)
(*                                                                         *)
(* The projections read the committed rows and the branch; they keep no    *)
(* state.  The module adds what they read and the driver does not keep: the*)
(* latest result of the run, the open questions, the architect's statement *)
(* about the UI and the operator's own edits of an artifact.  The budget   *)
(* that runs out is the money.                                             *)
(***************************************************************************)
EXTENDS RunDriver

CONSTANT
    MaxTurns        \* bound: questions asked, orders issued and artifacts edited, together

ASSUME ConsoleAssumption == MaxTurns \in Nat

VARIABLES
    latest,      \* the latest result of the run, as produced
    asked,       \* phases with an open blocking question
    uiNeeded,    \* what the architect states about the UI
    turns        \* questions, orders and edits so far

discussion == <<asked, uiNeeded, turns>>
allVars == <<vars, latest, discussion>>

(***************************************************************************)
(* The phase of the run                                                    *)
(***************************************************************************)

DecisionWaits == {"request_approval", "wait_for_input"}

\* current_phase: done after the run, the round within the specification, else the phase
\* of the stage at work.
current_phase ==
    IF runStatus = "succeeded" THEN "done"
    ELSE LET s == CHOOSE t \in Stages : IsPhaseStage(t)
         IN IF s = "specification" THEN specification_phase ELSE StagePhase[s]

\* The technical continuation of the latest result.
waiting_on == latest.action

\* The round the waiting checkpoint belongs to.
waiting_phase == IF latest.status = "waiting" THEN latest.phase ELSE "none"

\* The commit of the last planning attempt that published one: revisions only grow, and
\* NoRevision is the least.
plan_revision ==
    LET commits == {published[<<"planning", r>>] : r \in Revisions}
    IN CHOOSE c \in commits : \A d \in commits : d <= c

\* phase_revisions: the last commit that touched the artifacts of the phase; execution,
\* demonstration and delivery have none.
phase_revision(p) ==
    CASE p \in DesignPhases -> phaseRev[p]
      [] p = "plan" -> plan_revision
      [] OTHER -> NoRevision

\* build_phase_gate: a phase outside the specification binds to the head.
gate_revision(p) == IF p \in DesignPhases THEN phaseRev[p] ELSE head

ui_required_by_route == Route # "quick"

\* The statement is part of the architecture.
ui_not_required == phaseRev["architecture"] # NoRevision /\ ~ uiNeeded

(***************************************************************************)
(* The gate of a phase                                                     *)
(***************************************************************************)

PhaseGate == [available : BOOLEAN, approved : BOOLEAN, waived : BOOLEAN, stale : BOOLEAN,
              blocking : BOOLEAN, rework_pending : BOOLEAN, rework_in_progress : BOOLEAN]

phase_decisions(p) == {d \in decisions : d[1] = p}

\* Mutant of phase_gate: an approval counts whatever it is bound to.
phase_gate_any(p) ==
    LET revision == gate_revision(p)
        views == phase_decisions(p)
        waived == <<p, Waiver>> \in views
    IN [available |-> /\ p = "interface" => ui_required_by_route
                      /\ revision # NoRevision \/ waived
                      /\ p \notin asked
                      /\ orders[p] = "none",
        approved |-> \E d \in views : d[2] # Waiver, waived |-> waived,
        stale |-> FALSE, blocking |-> p \in asked, rework_pending |-> IsPending(p),
        rework_in_progress |-> orders[p] = "in_progress"]

\* The gate is closed while the route does not ask for it, the phase has no artifacts, a
\* blocking question is open or a rework order is on its way.
phase_gate(p) ==
    LET revision == gate_revision(p)
        views == phase_decisions(p)
        waived == <<p, Waiver>> \in views
    IN [available |-> /\ p = "interface" => ui_required_by_route
                      /\ revision # NoRevision \/ waived
                      /\ p \notin asked
                      /\ orders[p] = "none",
        approved |-> <<p, revision>> \in views,
        waived |-> waived,
        stale |-> \E d \in views : d[2] \notin {revision, Waiver},
        blocking |-> p \in asked,
        rework_pending |-> IsPending(p),
        rework_in_progress |-> orders[p] = "in_progress"]

\* Decisions are not ordered here: a waiver and a current approval both settle.
phase_settlement(p) ==
    IF <<p, Waiver>> \in decisions THEN "waived"
    ELSE IF <<p, phase_revision(p)>> \in decisions /\ phase_revision(p) # NoRevision THEN "approved"
    ELSE "open"

(***************************************************************************)
(* The column of phases                                                    *)
(***************************************************************************)

PhaseState == {"pending", "active", "needs_decision", "approved", "waived", "not_required",
               "stale", "done", "blocked"}

Rank == [requirements |-> 1, architecture |-> 2, interface |-> 3]

\* The last row of the stage decides.
stage_state(s) ==
    LET rows == {r \in Revisions : row[<<s, r>>] # "absent"}
        status == row[<<s, CHOOSE r \in rows : \A q \in rows : q <= r>>]
    IN IF rows = {} THEN "pending"
       ELSE IF status = "succeeded" THEN "done"
       ELSE IF status = "blocked" THEN "blocked"
       ELSE IF status = "skipped" THEN "not_required"
       ELSE IF status = "waiting" /\ waiting_on \in DecisionWaits THEN "needs_decision"
       ELSE "active"

\* The current phase while the run waits for a decision.
waiting_state(p) ==
    IF waiting_phase \notin {"none", p} THEN "active"
    ELSE IF p = "interface" /\ ui_not_required THEN "needs_decision"
    ELSE IF phase_gate(p).stale THEN "stale" ELSE "needs_decision"

\* Mutant of specification_state: the wait of an earlier round asks for this phase.
specification_state_any(p) ==
    LET current == current_phase
    IN IF p \notin specification_phases THEN "not_required"
       ELSE IF phase_settlement(p) # "open" THEN phase_settlement(p)
       ELSE IF p # current
         THEN IF current \notin specification_phases \/ Rank[p] < Rank[current]
                THEN "stale" ELSE "pending"
       ELSE IF orders[p] # "none" THEN "active"
       ELSE IF runStatus = "waiting" /\ waiting_on \in DecisionWaits THEN "needs_decision"
       ELSE "active"

\* A phase of the specification: settled, behind, ahead, or the current one.
specification_state(p) ==
    LET gate == phase_gate(p)
        current == current_phase
    IN IF p \notin specification_phases THEN "not_required"
       ELSE IF phase_settlement(p) # "open" THEN phase_settlement(p)
       ELSE IF p # current
         THEN IF current \notin specification_phases \/ Rank[p] < Rank[current] \/ gate.stale
                THEN "stale" ELSE "pending"
       ELSE IF gate.rework_pending \/ gate.rework_in_progress THEN "active"
       ELSE IF runStatus = "blocked" THEN "blocked"
       ELSE IF runStatus = "waiting" /\ waiting_on \in DecisionWaits THEN waiting_state(p)
       ELSE "active"

\* project_phases of a change with a run: the state of one phase.
phase_state(p) ==
    IF current_phase = "done"
      THEN IF phase_settlement(p) = "waived" THEN "waived" ELSE "done"
      ELSE IF p \in DesignPhases THEN specification_state(p)
      ELSE IF phase_settlement(p) = "approved" THEN "approved"
      ELSE stage_state(CHOOSE s \in Stages : StagePhase[s] = p)

\* The column of the change, from one reading of the facts.
build_phases == [p \in Phases |-> phase_state(p)]

(***************************************************************************)
(* The next step of the operator                                           *)
(***************************************************************************)

\* The primary action: what it does, for which phase, and what it promises.
GuidanceAction(act, phase, what) == [act |-> act, phase |-> phase, what |-> what]

\* The human gate of the phase, with its preconditions.
approval_guidance(p) ==
    LET gate == phase_gate(p)
    IN IF p = "interface" /\ ui_required_by_route /\ ui_not_required /\ ~ gate.waived
         THEN GuidanceAction("waive", p, "decide")
       ELSE IF gate.approved \/ gate.waived THEN GuidanceAction("advance", p, "continue")
       ELSE IF gate.available THEN GuidanceAction("approve", p, "decide")
       ELSE IF gate.blocking THEN GuidanceAction("answer", p, "decide")
       ELSE GuidanceAction("disabled", p, "decide")

\* The settled round is left by the advance that starts the next one.
next_round_guidance(p) == GuidanceAction("advance", p, "next_round")

\* A parked run that waits for no decision of a phase.
waiting_guidance(p) ==
    GuidanceAction(IF waiting_on = "merge" THEN "disabled" ELSE "advance", p, "observe")

\* A run between two steps: only a rework in progress is offered its advance.
running_guidance(p) ==
    IF phase_gate(p).rework_in_progress THEN GuidanceAction("advance", p, "rework")
                                        ELSE GuidanceAction("status", p, "working")

\* A parked round: left by the next one when the decisions are past it.
round_guidance(p) ==
    IF waiting_phase \notin {"none", p} THEN next_round_guidance(p) ELSE approval_guidance(p)

ended_guidance(p) ==
    IF runStatus = "canceled" THEN GuidanceAction("create", p, "end")
                              ELSE GuidanceAction("open", p, "end")

\* A spent limit comes before the status of the run.
run_guidance ==
    LET p == current_phase
    IN IF exhausted THEN GuidanceAction("withdraw", p, "end")
       ELSE IF runStatus \in {"pending", "running"} THEN running_guidance(p)
       ELSE IF runStatus = "waiting"
         THEN IF waiting_on \in DecisionWaits THEN round_guidance(p) ELSE waiting_guidance(p)
       ELSE IF runStatus = "blocked" THEN GuidanceAction("advance", p, "retry")
       ELSE ended_guidance(p)

\* Both are read from the store and the branch again for every request.
build_phase_gate == phase_gate(current_phase)
build_change_guidance == run_guidance

\* What one request reads in one transaction: the status of the change with the gate of
\* the phase under discussion, and the column with the guidance.
change_status == [gate |-> build_phase_gate, guidance |-> build_change_guidance]
change_phases == [column |-> build_phases, guidance |-> build_change_guidance]

(***************************************************************************)
(* The composed system                                                     *)
(***************************************************************************)

\* Steps of an advance that write no result.
Driver_step(w) ==
    /\ \/ Enter(w) \/ Give_up(w) \/ Resume(w) \/ Open_attempt(w) \/ Execution_fails(w)
       \/ Publish_commit(w) \/ Open_request(w) \/ Execute_other(w)
    /\ UNCHANGED <<latest, discussion>>

\* The other runs of the driver have the red pipelines, pushes, rollouts and kills.
Provider_step ==
    /\ runStatus \notin RunTerminal
    /\ \/ attach_contract \/ Pipeline_ends("success") \/ Merge_request
       \/ \E approves \in BOOLEAN : Submit_review(approves)
    /\ UNCHANGED <<latest, discussion>>

Turn == turns < MaxTurns /\ turns' = turns + 1

\* record_stage_outcome: the result is the latest, and a round may leave a question.
Driver_commit(w) ==
    /\ Commit(w)
    /\ latest' = IF FitsTable(work[w]) /\ Records(work[w]) THEN work[w].result ELSE latest
    /\ LET p == work[w].result.phase
       IN \/ UNCHANGED <<asked, turns>>
          \/ /\ work[w].result.status = "waiting" /\ p \in DesignPhases
             /\ Turn
             /\ asked' = asked \union {p}
    /\ UNCHANGED uiNeeded

\* check_phase_gate: an approval needs the gate open; a waiver only a reason.
Approve(p) ==
    /\ p \notin asked
    /\ Approve_phase(p)
    /\ UNCHANGED <<latest, discussion>>

Waive(p) == Waive_phase(p) /\ UNCHANGED <<latest, discussion>>

Send_back(p) == issue_rework_order(p) /\ Turn /\ UNCHANGED <<latest, asked, uiNeeded>>

Answer(p) ==
    /\ p \in asked
    /\ asked' = asked \ {p}
    /\ UNCHANGED <<vars, latest, uiNeeded, turns>>

\* The operator edits an artifact of a phase: a commit on the branch.
Edit_artifact(p) ==
    /\ Turn
    /\ phaseRev[p] # NoRevision
    /\ request # "merged"
    /\ head < MaxRevision
    /\ head' = head + 1
    /\ phaseRev' = [phaseRev EXCEPT ![p] = head + 1]
    /\ NewHead
    /\ UNCHANGED <<store, contract, console, published, pushes, request, mergedHead,
                   approvedOnce, reviewCount, rollout, workers, latest, asked, uiNeeded>>

Withdraw == withdraw_run /\ UNCHANGED <<latest, discussion>>

Operator_step ==
    /\ runStatus \notin RunTerminal
    /\ \/ \E p \in ConsolePhases : Approve(p) \/ Waive(p) \/ Send_back(p)
       \/ \E p \in DesignPhases : Answer(p) \/ Edit_artifact(p)
       \/ Withdraw

ConsoleInit ==
    /\ Init
    /\ latest = NoResult
    /\ asked = {} /\ turns = 0
    /\ uiNeeded \in BOOLEAN

ConsoleNext ==
    \/ \E w \in Workers : Driver_step(w) \/ Driver_commit(w)
    \/ Provider_step
    \/ Operator_step

ConsoleSpec == ConsoleInit /\ [][ConsoleNext]_allVars

(***************************************************************************)
(* Properties                                                              *)
(***************************************************************************)

AtRest == runStatus \notin RunTerminal /\ \A w \in Workers : pc[w] = "idle"

\* An advance would take the run further: it neither replays nor raises.
TakesUp ==
    \E o \in Operations :
        /\ IsNext(o)
        /\ ~ Replays(o)
        /\ LET c == committed_result(o, attempt_number(o))
           IN c # NoResult => ~ ResolutionRaises(o[1], c)

\* The review of a change without machine gates, of R3 and above: its resolution raises
\* whatever the operator approves (ResolutionRaises).
ReviewRaises(p) == p = "demonstration" /\ MachineGates("review_verification", Risk) = {}

\* No dead ends (GuidanceAction, run_guidance): when the guidance promises the operator that
\* an advance continues after the approval, starts the round after the settled one, runs
\* the rework or repeats a blocked attempt, that advance takes the run further.  Only the
\* review that raises is promised an advance it cannot have.
PromisedAdvanceMoves ==
    LET g == change_status.guidance
    IN AtRest /\ g.act = "advance" =>
        \/ g.what = "observe"
        \/ g.what = "next_round" /\ Rank[g.phase] < Rank[waiting_phase]
        \/ ReviewRaises(g.phase)
        \/ TakesUp

\* A failed row is tried again after a later row of its stage: the column shows that one.
TriesAgain(p) ==
    \E o \in Operations : /\ IsNext(o) /\ StagePhase[o[1]] = p /\ p \notin DesignPhases
                          /\ \E r \in Known(o[1]) : r > o[2]

\* The gate binds the phase to the head, the column to the plan's own commit or to nothing.
BindsElsewhere(p) == phase_revision(p) # gate_revision(p)

\* "The same inputs Guidance reads, so the two projections cannot disagree" (project_phases):
\* the phase the guidance asks a decision about is the one the column shows as undecided,
\* unless the column shows a later row of the stage (TriesAgain) or the plan approved at its
\* own commit; the column asks for a decision only where the guidance does, unless the
\* operator waived the phase or approved it at a head the column does not look at.  The
\* column shows one of its nine states for every phase, whatever rows the run has.
ProjectionsAgree ==
    AtRest /\ ~ exhausted =>
        LET seen == change_phases
            g == seen.guidance
        IN /\ seen.column \in [Phases -> PhaseState] /\ change_status.gate \in PhaseGate
           /\ g.act = "approve" =>
                \/ seen.column[g.phase] \in {"needs_decision", "stale"}
                \/ TriesAgain(g.phase)
                \/ g.phase = "plan" /\ BindsElsewhere("plan") /\ seen.column["plan"] = "approved"
           /\ \A p \in Phases : seen.column[p] = "needs_decision" =>
                /\ g.phase = p
                /\ \/ g.what = "decide"
                   \/ <<p, Waiver>> \in decisions
                   \/ BindsElsewhere(p) /\ <<p, head>> \in decisions

=============================================================================
