----------------------------- MODULE FlowTables -----------------------------
(***************************************************************************)
(* The constant tables a factory run is decided by: the stages of a route, *)
(* the closed flow table, the status tables of runs and stages, the gates  *)
(* and the operator phases (orchestration/flow.py, routes.py, phases.py,   *)
(* phase_gate.py, rules/gates.py, policy/risk.py, changes/run.py).         *)
(***************************************************************************)
EXTENDS Integers

CONSTANT Route

Routes == {"quick", "standard", "architecture", "foundation"}

ASSUME RouteAssumption == Route \in Routes

(***************************************************************************)
(* Stages: every route runs the same sequence                              *)
(***************************************************************************)

Stages == {"specification", "planning", "construction", "review_verification", "release"}

Position == [specification |-> 1, planning |-> 2, construction |-> 3,
             review_verification |-> 4, release |-> 5]

\* The stage before s on the route; "none" before the first.
Predecessor == [specification |-> "none", planning |-> "specification",
                construction |-> "planning", review_verification |-> "construction",
                release |-> "review_verification"]

\* Mutant of next_stage: planning leads straight to the review.
next_stage_skipping == [specification |-> "planning", planning |-> "review_verification",
                        construction |-> "review_verification",
                        review_verification |-> "release", release |-> "none"]

next_stage == [specification |-> "planning", planning |-> "construction",
               construction |-> "review_verification", review_verification |-> "release",
               release |-> "none"]

\* Findings of the review are fixed by construction; other stages rework themselves.
REWORK_TARGET == [s \in Stages |-> IF s = "review_verification" THEN "construction" ELSE s]

(***************************************************************************)
(* Actions                                                                 *)
(***************************************************************************)

Waits == {"wait_for_input", "wait_for_ci", "request_approval"}
Completions == {"execute_stage", "phase_round", "merge", "release"}
Actions == Waits \union Completions \union {"rework", "stop"}

FLOW_TRANSITIONS ==
    [specification |-> {"execute_stage", "wait_for_input", "rework", "phase_round",
                        "request_approval", "stop"},
     planning |-> {"execute_stage", "wait_for_input", "wait_for_ci", "rework",
                   "request_approval", "stop"},
     construction |-> {"execute_stage", "wait_for_input", "wait_for_ci", "rework",
                       "request_approval", "stop"},
     review_verification |-> {"merge", "wait_for_input", "wait_for_ci", "rework",
                              "request_approval", "stop"},
     release |-> {"release", "wait_for_ci", "stop"}]

expected_result_status(a) ==
    CASE a \in Completions -> "succeeded"
      [] a \in Waits -> "waiting"
      [] a = "rework" -> "failed"
      [] OTHER -> "blocked"          \* stop

(***************************************************************************)
(* Statuses                                                                *)
(***************************************************************************)

RunStatus == {"pending", "running", "waiting", "blocked",
              "succeeded", "failed", "canceled", "superseded"}
RunTerminal == {"succeeded", "failed", "canceled", "superseded"}

StageStatus == {"pending", "in_progress", "waiting", "blocked", "failed",
                "succeeded", "skipped", "superseded", "canceled"}
StageTerminal == {"succeeded", "skipped", "superseded", "canceled"}
StageActive == StageStatus \ StageTerminal
Retryable == {"failed", "blocked"}

RUN_STATUS_TRANSITIONS ==
    [pending |-> {"running", "canceled", "superseded"},
     running |-> {"waiting", "blocked"} \union RunTerminal,
     waiting |-> {"running", "blocked", "failed", "canceled", "superseded"},
     blocked |-> {"running", "failed", "canceled", "superseded"},
     succeeded |-> {}, failed |-> {}, canceled |-> {}, superseded |-> {}]

STAGE_STATUS_TRANSITIONS ==
    [pending |-> {"in_progress", "skipped", "canceled", "superseded"},
     in_progress |-> {"waiting", "succeeded", "failed", "blocked", "canceled", "superseded"},
     waiting |-> {"in_progress", "failed", "blocked", "canceled", "superseded"},
     blocked |-> {"in_progress", "failed", "canceled", "superseded"},
     failed |-> {"in_progress", "canceled", "superseded"},
     succeeded |-> {}, skipped |-> {}, superseded |-> {}, canceled |-> {}]

\* Mutant of StagePath: only one edge is taken.
StagePath_direct(from, to) == from = to \/ to \in STAGE_STATUS_TRANSITIONS[from]

\* _status_path / _run_status_path: one legal edge, or two through the working status.
StagePath(from, to) ==
    \/ from = to
    \/ to \in STAGE_STATUS_TRANSITIONS[from]
    \/ /\ "in_progress" \in STAGE_STATUS_TRANSITIONS[from]
       /\ to \in STAGE_STATUS_TRANSITIONS["in_progress"]

RunPath(from, to) ==
    \/ from = to
    \/ to \in RUN_STATUS_TRANSITIONS[from]
    \/ /\ "running" \in RUN_STATUS_TRANSITIONS[from]
       /\ to \in RUN_STATUS_TRANSITIONS["running"]

(***************************************************************************)
(* Risk and gates                                                          *)
(***************************************************************************)

Risks == 0 .. 4

\* The risk band of the route: lowest and highest class it takes.
MinRisk == [quick |-> 0, standard |-> 0, architecture |-> 2, foundation |-> 3]
MaxRisk == [quick |-> 1, standard |-> 4, architecture |-> 4, foundation |-> 4]

\* The class declared by the contract, R1 without one, raised to the route's floor.
effective_change_risk_class(declared) ==
    IF declared < MinRisk[Route] THEN MinRisk[Route] ELSE declared

route_allows_risk(risk) == MinRisk[Route] <= risk /\ risk <= MaxRisk[Route]

Gates == {"specification", "ui", "planning", "code", "review", "verification", "release"}

required_gates(s) ==
    CASE s = "specification" ->
            {"specification"} \union (IF Route = "quick" THEN {} ELSE {"ui"})
      [] s = "planning" -> {"planning"}
      [] s = "construction" -> {"code"}
      [] s = "review_verification" -> {"review", "verification"}
      [] OTHER -> {"release"}

required_human_gates(s, risk) ==
    required_gates(s) \intersect
        ({"specification", "ui", "review"} \union
         CASE risk <= 1 -> {}
           [] risk = 2 -> {"planning"}
           [] OTHER -> Gates)

MachineGates(s, risk) == required_gates(s) \ required_human_gates(s, risk)

is_purely_human_gated(s, risk) ==
    required_human_gates(s, risk) # {} /\ MachineGates(s, risk) = {}

\* The gates of s that carry a control point (CONTROL_POINT_BINDING).
ControlGates(s) ==
    CASE s = "specification" -> {"specification", "ui"}
      [] s = "planning" -> {"planning"}
      [] s = "review_verification" -> {"review"}
      [] OTHER -> {}

required_control_points(s, risk) == ControlGates(s) \intersect required_human_gates(s, risk)

\* The gate a review of the stage's change request decides: the first human gate of
\* the stage in name order, the merge gate when it has none.
ReviewGate(s, risk) ==
    IF required_human_gates(s, risk) = {} THEN "review"
    ELSE CASE s = "specification" -> "specification"
           [] s = "planning" -> "planning"
           [] s = "construction" -> "code"
           [] s = "release" -> "release"
           [] OTHER -> "review"

(***************************************************************************)
(* Operator phases: the specification stage runs several, in rounds        *)
(***************************************************************************)

DesignPhases == {"requirements", "architecture", "interface"}
Phases == DesignPhases \union {"plan", "execution", "demonstration", "delivery"}

PHASE_GATE == [requirements |-> "specification", architecture |-> "specification",
               interface |-> "ui", plan |-> "planning", execution |-> "code",
               demonstration |-> "verification", delivery |-> "release"]

\* phase_of_stage: the first phase of the stage.
StagePhase == [specification |-> "requirements", planning |-> "plan",
               construction |-> "execution", review_verification |-> "demonstration",
               release |-> "delivery"]

specification_phases ==
    {"requirements", "architecture"} \union (IF Route = "quick" THEN {} ELSE {"interface"})

LastDesignPhase == IF Route = "quick" THEN "architecture" ELSE "interface"

next_specification_phase(p) ==
    CASE p = "requirements" -> "architecture"
      [] p = "architecture" /\ Route # "quick" -> "interface"
      [] OTHER -> "none"
=============================================================================
