--------------------------- MODULE RunDriver_proofs ---------------------------
(***************************************************************************)
(* Proofs about the run driver, for any number of workers, any route and   *)
(* every value of the bounds.  The first part is about one decision: who   *)
(* holds the lease, what an advance may record, the order of the stages.   *)
(* The second part is about the rows of the whole run: its status fits     *)
(* them, no advance is lost to its own checks, and nothing enters planning *)
(* or the release without the approvals it needs.                          *)
(* The third part is about what the console tells of it: the advances the  *)
(* guidance promises, and its agreement with the column of phases.         *)
(***************************************************************************)
EXTENDS Console, FiniteSetTheorems, NaturalsInduction, WellFoundedInduction, TLAPS

(***************************************************************************)
(* The inductive invariant                                                 *)
(***************************************************************************)

Holding == {"executing", "published", "deciding"}

\* An advance past its entry holds the lease.
LeaseIsHeld == \A w \in Workers : pc[w] \in Holding => lease = w

\* Under the lease the operation stays active and the run unfinished.
WorkIsLive ==
    \A w \in Workers : pc[w] \in Holding =>
        row[work[w].op] \in StageActive /\ runStatus \notin RunTerminal

\* What an advance is about to record is not recorded yet.
WorkIsNew ==
    \A w \in Workers :
        /\ pc[w] \in {"executing", "published"}
            => results[<<work[w].op, work[w].attempt>>] = NoResult
        /\ pc[w] = "deciding" => work[w].result \in Results /\ Records(work[w])

\* An attempt has an event only with its result, and the event of a final status only
\* once its checkpoint is superseded.
EventsAreRecorded ==
    \A o \in Operations, n \in 1 .. MaxAttempts :
        \A st \in {"none", "waiting", "succeeded", "failed", "blocked"} :
            <<o, n, st>> \in events =>
                /\ results[<<o, n>>] # NoResult
                /\ st # "none" => results[<<o, n>>].status # "waiting"

IInv ==
    /\ TypeOK
    /\ LeaseIsHeld
    /\ WorkIsLive
    /\ WorkIsNew
    /\ EventsAreRecorded
    /\ StageOrder

(***************************************************************************)
(* Lemmas about the operators an advance uses                              *)
(***************************************************************************)

\* The gate tables name gates.
LEMMA GateTables ==
    ASSUME NEW s \in Stages, NEW risk
    PROVE  /\ required_gates(s) \subseteq Gates
           /\ required_human_gates(s, risk) \subseteq Gates
           /\ MachineGates(s, risk) \subseteq Gates
<1>1. required_gates(s) \subseteq Gates
  BY DEF required_gates, Stages, Gates
<1>2. required_human_gates(s, risk) \subseteq required_gates(s)
  BY DEF required_human_gates
<1>3. MachineGates(s, risk) \subseteq required_gates(s)
  BY DEF MachineGates
<1> QED
  BY <1>1, <1>2, <1>3

\* The phase of a wait is a phase or none.
LEMMA WaitPhaseType ==
    ASSUME NEW s \in Stages, NEW c \in Results \union {NoResult}
    PROVE  WaitPhase(s, c) \in Phases \union {"none"}
<1>1. c.phase \in Phases \union {"none"}
  BY DEF Results, NoResult
<1>2. specification_phase \in Phases
  BY DEF specification_phase, LastDesignPhase, Phases, DesignPhases
<1> QED
  BY <1>1, <1>2 DEF WaitPhase

\* A resolved wait becomes a final result.
LEMMA ResolutionType ==
    ASSUME NEW s \in Stages, NEW c \in Results \union {NoResult}
    PROVE  /\ WaitResolution(s, c).result \in Results
           /\ WaitResolution(s, c).result.status # "waiting"
           /\ WaitResolution(s, c).passed \subseteq Gates
           /\ WaitResolution(s, c).approved \subseteq Gates
           /\ WaitResolution(s, c).authorized \in BOOLEAN
<1> DEFINE phase == WaitPhase(s, c)
<1>1. phase \in Phases \union {"none"}
  BY WaitPhaseType
<1> HIDE DEF phase
<1>2. ASSUME NEW status \in {"succeeded", "failed", "blocked"}, NEW action \in Actions,
             NEW p \in Phases \union {"none"}, NEW blockers \in BOOLEAN
      PROVE  /\ Result(status, action, p, blockers) \in Results
             /\ Result(status, action, p, blockers).status # "waiting"
  BY DEF Result, Results
<1>3. {"execute_stage", "phase_round", "merge", "release", "rework", "stop"} \subseteq Actions
  BY DEF Actions, Completions
<1> DEFINE Good(r) == /\ r.result \in Results
                      /\ r.result.status # "waiting"
                      /\ r.passed \subseteq Gates
<1>4. Good(build_release_resolution)
  <2>1. CASE rollout = "released"
    BY <1>2, <1>3, <2>1 DEF build_release_resolution, release_facts, Resolution, Gates
  <2>2. CASE rollout # "released"
    BY <1>2, <1>3, <2>2 DEF build_release_resolution, release_facts, Resolution
  <2> QED
    BY <2>1, <2>2
<1>5. Good(resolve_review)
  <2>1. MachineGates("review_verification", Risk) \subseteq Gates
    BY GateTables DEF Stages
  <2>2. CASE request = "merged"
    BY <1>2, <1>3, <2>1, <2>2 DEF resolve_review, Resolution, Gates
  <2>3. CASE request # "merged"
    BY <1>2, <1>3, <2>3 DEF resolve_review, Resolution
  <2> QED
    BY <2>2, <2>3
<1>6. Good(resolve_rework_order(s, phase))
  BY <1>1, <1>2, <1>3 DEF resolve_rework_order, Resolution
<1>7. Good(resolve_human_gated(s, phase))
  <2>1. required_human_gates(s, Risk) \subseteq Gates
    BY GateTables
  <2>2. Good(Resolution(Result("succeeded", "phase_round", phase, FALSE), {}))
    BY <1>1, <1>2, <1>3 DEF Resolution
  <2>3. Good(Resolution(Result("succeeded", "execute_stage", phase, FALSE),
                        required_human_gates(s, Risk)))
    BY <1>1, <1>2, <1>3, <2>1 DEF Resolution
  <2> QED
    BY <1>6, <2>2, <2>3 DEF resolve_human_gated
<1>8. Good(resolve_machine_gated(s))
  <2>1. MachineGates(s, Risk) \subseteq Gates
    BY GateTables
  <2> QED
    BY <1>2, <1>3, <2>1 DEF resolve_machine_gated, Resolution
<1>9. Good(build_gate_resolution(s, phase))
  BY <1>5, <1>7, <1>8 DEF build_gate_resolution
<1>10. ApprovedGates(s) \subseteq Gates /\ MergeAuthorized \in BOOLEAN
  BY DEF ApprovedGates, MergeAuthorized
<1> QED
  BY <1>4, <1>9, <1>10 DEF WaitResolution, GateWaitResolver, ReleaseWaitResolver, phase

\* What a decision of the flow may be: it enters the stage it was taken for, its rework
\* target or, only when the stage succeeded, its successor; a rework round is within the
\* budget.
Sound(k, d) ==
    /\ d.action \in Actions
    /\ d.stage \in {"waiting", "succeeded", "failed", "blocked"}
    /\ d.run \in RunStatus
    /\ d.enters \in Stages \union {"none"}
    /\ d.enters \notin {"none", k.op[1], REWORK_TARGET[k.op[1]]}
        => d.stage = "succeeded" /\ d.enters = next_stage[k.op[1]]
    /\ d.action = "rework" => usedRounds < MaxReworkRounds

\* Every decision apply_result takes is sound.
LEMMA DecisionSound ==
    ASSUME TypeOK, NEW k, k.op[1] \in Stages, k.result.action \in Actions, NEW out
    PROVE  Sound(k, apply_result(k, out))
<1> USE DEF Decision, Actions, Completions, Waits, RunStatus
<1>1. next_stage[k.op[1]] \in Stages \union {"none"} /\ REWORK_TARGET[k.op[1]] \in Stages
  BY DEF next_stage, REWORK_TARGET, Stages
<1>2. Sound(k, Stop)
  BY <1>1 DEF Stop, Sound
<1>3. Sound(k, handle_execute(k, out))
  BY <1>1, <1>2 DEF handle_execute, Sound
<1>4. Sound(k, handle_rework(k))
  <2>1. usedRounds \in Int /\ MaxReworkRounds \in Int
    BY DriverAssumption DEF TypeOK
  <2>2. CASE autonomy_exhausted(k) \/ rework_violation
    BY <1>2, <2>2 DEF handle_rework
  <2>3. CASE ~ (autonomy_exhausted(k) \/ rework_violation)
    BY <1>1, <2>1, <2>3 DEF handle_rework, rework_violation, Sound
  <2> QED
    BY <2>2, <2>3
<1>5. Sound(k, handle_phase_round(k))
  BY <1>1 DEF handle_phase_round, Sound
<1>6. Sound(k, handle_merge(k, out))
  BY <1>1, <1>2 DEF handle_merge, wait_for_human_merge, Sound
<1>7. Sound(k, handle_release(k, out))
  BY <1>1, <1>2 DEF handle_release, Sound
<1>8. ASSUME k.result.action \in Waits
      PROVE  Sound(k, Decision(k.result.action, "waiting", "waiting", "none", FALSE))
  BY <1>1, <1>8 DEF Sound
<1> QED
  BY <1>2, <1>3, <1>4, <1>5, <1>6, <1>7, <1>8 DEF apply_result

(***************************************************************************)
(* The steps                                                               *)
(***************************************************************************)

\* A step that leaves the rows, the results and the advances alone keeps the invariant
\* when it keeps the types.
LEMMA Aside ==
    ASSUME IInv, TypeOK',
           UNCHANGED <<row, runStatus, results, events, lease, pc, work>>
    PROVE  IInv'
<1> USE DEF IInv
<1>1. LeaseIsHeld'
  BY DEF LeaseIsHeld
<1>2. WorkIsLive'
  BY DEF WorkIsLive
<1>3. WorkIsNew'
  BY DEF WorkIsNew, Records, Supersedes
<1>4. EventsAreRecorded'
  BY DEF EventsAreRecorded
<1>5. StageOrder'
  BY DEF StageOrder
<1> QED
  BY <1>1, <1>2, <1>3, <1>4, <1>5

\* A worker that moves between its own steps without touching the store.
LEMMA Moves ==
    ASSUME IInv, TypeOK', NEW w \in Workers,
           UNCHANGED <<row, runStatus, results, events>>,
           \A v \in Workers \ {w} : pc'[v] = pc[v] /\ work'[v] = work[v],
           lease' = lease \/ lease \in {"none", w},
           \A v \in Workers \ {w} : pc[v] \in Holding => lease' = v,
           pc'[w] \in Holding =>
                /\ lease' = w
                /\ row[work'[w].op] \in StageActive
                /\ runStatus \notin RunTerminal,
           pc'[w] \in {"executing", "published"}
                => results[<<work'[w].op, work'[w].attempt>>] = NoResult,
           pc'[w] = "deciding" => work'[w].result \in Results /\ Records(work'[w])
    PROVE  IInv'
<1> USE DEF IInv
<1>1. LeaseIsHeld'
  BY DEF LeaseIsHeld
<1>2. WorkIsLive'
  BY DEF WorkIsLive
<1>3. WorkIsNew'
  <2>1. ASSUME NEW v \in Workers
        PROVE  /\ pc'[v] \in {"executing", "published"}
                    => results'[<<work'[v].op, work'[v].attempt>>] = NoResult
               /\ pc'[v] = "deciding" => work'[v].result \in Results /\ Records(work[v])'
    <3>1. CASE v = w
      BY <3>1 DEF Records, Supersedes
    <3>2. CASE v # w
      BY <3>2 DEF WorkIsNew, Records, Supersedes
    <3> QED
      BY <3>1, <3>2
  <2> QED
    BY <2>1 DEF WorkIsNew
<1>4. EventsAreRecorded'
  BY DEF EventsAreRecorded
<1>5. StageOrder'
  BY DEF StageOrder
<1> QED
  BY <1>1, <1>2, <1>3, <1>4, <1>5

\* At most one operation is in flight.
LEMMA NextIsUnique ==
    ASSUME NEW o \in Operations, NEW p \in Operations, IsNext(o), IsNext(p)
    PROVE  o = p
<1>1. /\ o[1] \in Stages /\ o[2] \in Revisions /\ o = <<o[1], o[2]>>
      /\ p[1] \in Stages /\ p[2] \in Revisions /\ p = <<p[1], p[2]>>
  BY DEF Operations
<1>2. o[2] \in Active(o[1]) /\ p[2] \in Active(p[1])
  BY DEF IsNext
<1>3. ~ (Position[o[1]] < Position[p[1]]) /\ ~ (Position[p[1]] < Position[o[1]])
  BY <1>1, <1>2 DEF IsNext
<1>4. o[1] = p[1]
  BY <1>1, <1>3 DEF Position, Stages
<1>5. o[2] <= p[2] /\ p[2] <= o[2]
  BY <1>2, <1>4 DEF IsNext
<1>6. o[2] \in Int /\ p[2] \in Int
  BY <1>1, DriverAssumption DEF Revisions
<1> QED
  BY <1>1, <1>4, <1>5, <1>6

\* The attempt of the operation in flight, when it is not refused.
LEMMA NextAttempt ==
    ASSUME TypeOK, NEW o \in Operations, IsNext(o), ~ Refused
    PROVE  /\ attempt_number(o) \in 1 .. MaxAttempts
           /\ runStatus \notin RunTerminal
           /\ row[o] \in StageActive
           /\ ~ Replays(o)
           /\ committed_result(o, attempt_number(o)) = results[<<o, attempt_number(o)>>]
           /\ results[<<o, attempt_number(o)>>] \in Results \union {NoResult}
<1>1. runStatus \notin RunTerminal
  BY DEF Refused
<1>2. PICK p \in Operations : IsNext(p) /\ ~ Replays(p) /\ ~ (attempt_number(p) > MaxAttempts)
  BY DEF Refused
<1>3. p = o
  BY <1>2, NextIsUnique
<1>4. attempt_number(o) \in 1 .. MaxAttempts
  <2>1. attemptCount[o] \in 0 .. MaxAttempts /\ MaxAttempts \in Nat
    BY DriverAssumption DEF TypeOK
  <2> QED
    BY <1>2, <1>3, <2>1 DEF attempt_number
<1>5. row[o] \in StageActive
  <2>1. o = <<o[1], o[2]>> /\ o[2] \in Active(o[1])
    BY DEF IsNext, Operations
  <2> QED
    BY <2>1 DEF Active
<1>6. committed_result(o, attempt_number(o)) = results[<<o, attempt_number(o)>>]
  <2>1. ~ (attempt_number(o) > MaxAttempts)
    BY <1>4, DriverAssumption
  <2> QED
    BY <2>1 DEF committed_result
<1>7. <<o, attempt_number(o)>> \in Attempts
  BY <1>4 DEF Attempts
<1> QED
  BY <1>1, <1>2, <1>3, <1>4, <1>5, <1>6, <1>7 DEF TypeOK

\* Leaving puts the worker back to its start.
LEMMA IdleType == Idle \in Work
<1>1. 0 \in Revisions /\ 1 \in 1 .. MaxAttempts
  BY DriverAssumption DEF Revisions
<1>2. <<"specification", 0>> \in Operations
  BY <1>1 DEF Operations, Stages
<1> QED
  BY <1>1, <1>2 DEF Idle, Work

\* The phase an advance has read is part of its memory.
LEMMA PhaseType ==
    ASSUME NEW k \in Work, NEW p \in Phases \union {"none"}
    PROVE  [k EXCEPT !.phase = p] \in Work
<1> QED
  BY DEF Work

\* The reads before the lease change nothing the invariant is about.
LEMMA Enter_step ==
    ASSUME IInv, NEW w \in Workers, Enter(w)
    PROVE  IInv'
<1> USE DEF IInv
<1>1. PICK o \in Operations : work' = [work EXCEPT ![w].phase = current_change_phase(o)]
  BY DEF Enter
<1>2. current_change_phase(o) \in Phases \union {"none"}
  BY DEF current_change_phase, specification_phase, LastDesignPhase, Phases, DesignPhases
<1>3. work' \in [Workers -> Work]
  <2>1. [work[w] EXCEPT !.phase = current_change_phase(o)] \in Work
    BY <1>2, PhaseType DEF TypeOK
  <2> QED
    BY <1>1, <2>1 DEF TypeOK
<1>4. TypeOK'
  BY <1>3 DEF Enter, TypeOK, store, console, provider, branch, pull
<1>5. pc'[w] = "entered"
  BY DEF Enter, TypeOK
<1>6. \A v \in Workers \ {w} : pc'[v] = pc[v] /\ work'[v] = work[v]
  BY <1>1 DEF Enter, TypeOK
<1>7. UNCHANGED <<row, runStatus, results, events, lease>>
  BY DEF Enter, store
<1> QED
  BY <1>4, <1>5, <1>6, <1>7, Moves DEF LeaseIsHeld, Holding

\* A worker that leaves drops its memory and, if it had it, the lease.
LEMMA Leave_step ==
    ASSUME IInv, NEW w \in Workers, Leave(w),
           UNCHANGED <<store, contract, console, provider>>,
           lease' = lease \/ (lease = w /\ lease' = "none")
    PROVE  IInv'
<1> USE DEF IInv
<1>1. work' \in [Workers -> Work]
  BY IdleType DEF Leave, TypeOK
<1>2. lease' \in Workers \union {"none"}
  BY DEF TypeOK
<1>3. pc' \in [Workers -> {"idle", "entered", "executing", "published", "deciding"}]
  BY DEF Leave, TypeOK
<1>4. TypeOK'
  BY <1>1, <1>2, <1>3 DEF TypeOK, store, console, provider, branch, pull
<1>5. pc'[w] = "idle"
  BY DEF Leave, TypeOK
<1>6. \A v \in Workers \ {w} : pc'[v] = pc[v] /\ work'[v] = work[v]
  BY DEF Leave, TypeOK
<1>7. UNCHANGED <<row, runStatus, results, events>>
  BY DEF store
<1>8. \A v \in Workers \ {w} : pc[v] \in Holding => lease' = v
  BY DEF LeaseIsHeld
<1> QED
  BY <1>4, <1>5, <1>6, <1>7, <1>8, Moves DEF Holding

\* A killed worker rolls back: the store is as before.
LEMMA Crash_step ==
    ASSUME IInv, NEW w \in Workers, Crash(w)
    PROVE  IInv'
BY Leave_step DEF Crash

\* An advance refused under the lease leaves without writing.
LEMMA Give_up_step ==
    ASSUME IInv, NEW w \in Workers, Give_up(w)
    PROVE  IInv'
BY Leave_step DEF Give_up

\* A worker that takes the free lease excludes nobody.
LEMMA LeaseIsFree ==
    ASSUME IInv, NEW w \in Workers, LeaseFree(w), NEW v \in Workers
    PROVE  pc[v] \notin Holding
BY DriverAssumption DEF IInv, LeaseIsHeld, LeaseFree

\* Opening an attempt: the operation taken up has no result under its number yet.
LEMMA Open_attempt_step ==
    ASSUME IInv, NEW w \in Workers, Open_attempt(w)
    PROVE  IInv'
<1> USE DEF IInv
<1>1. PICK o \in Operations :
        /\ IsNext(o)
        /\ committed_result(o, attempt_number(o)) = NoResult
        /\ work' = [work EXCEPT ![w] = [@ EXCEPT !.op = o, !.attempt = attempt_number(o),
                                                 !.contract = contract]]
  BY DEF Open_attempt
<1> DEFINE k == [work[w] EXCEPT !.op = o, !.attempt = attempt_number(o), !.contract = contract]
<1>2. /\ attempt_number(o) \in 1 .. MaxAttempts
      /\ runStatus \notin RunTerminal
      /\ row[o] \in StageActive
      /\ results[<<o, attempt_number(o)>>] = NoResult
  BY <1>1, NextAttempt DEF Open_attempt
<1>3. k \in Work /\ k.op = o /\ k.attempt = attempt_number(o)
  <2>1. work[w] \in Work /\ contract \in BOOLEAN
    BY DEF TypeOK
  <2> QED
    BY <1>2, <2>1 DEF Work
<1>4. work' = [work EXCEPT ![w] = k]
  BY <1>1 DEF TypeOK
<1> HIDE DEF k
<1>5. work' \in [Workers -> Work] /\ work'[w] = k
  BY <1>3, <1>4 DEF TypeOK
<1>6. pc' \in [Workers -> {"idle", "entered", "executing", "published", "deciding"}]
  BY DEF Open_attempt, TypeOK
<1>7. TypeOK'
  BY <1>5, <1>6 DEF Open_attempt, TypeOK, store, console, provider, branch, pull
<1>8. pc'[w] = "executing" /\ lease' = w
  BY DEF Open_attempt, TypeOK
<1>9. \A v \in Workers \ {w} : pc'[v] = pc[v] /\ work'[v] = work[v]
  BY <1>4 DEF Open_attempt, TypeOK
<1>10. UNCHANGED <<row, runStatus, results, events>> /\ lease = "none"
  BY DEF Open_attempt, LeaseFree, store
<1>11. \A v \in Workers : pc[v] \notin Holding
  BY LeaseIsFree DEF Open_attempt
<1> QED
  BY <1>2, <1>3, <1>5, <1>7, <1>8, <1>9, <1>10, <1>11, Moves DEF Holding

\* Resuming a wait: the attempt's result is the waiting checkpoint, and the new one is final.
LEMMA Resume_step ==
    ASSUME IInv, NEW w \in Workers, Resume(w)
    PROVE  IInv'
<1> USE DEF IInv
<1>1. PICK o \in Operations :
        LET n == attempt_number(o)
            c == committed_result(o, n)
            r == WaitResolution(o[1], c)
        IN /\ IsNext(o)
           /\ c # NoResult
           /\ IF ResolutionRaises(o[1], c)
                THEN Leave(w) /\ UNCHANGED lease
                ELSE /\ work' = [work EXCEPT ![w] =
                            [phase |-> work[w].phase, op |-> o, attempt |-> n,
                             contract |-> contract, result |-> r.result, passed |-> r.passed,
                             approved |-> r.approved, authorized |-> r.authorized]]
                     /\ pc' = [pc EXCEPT ![w] = "deciding"]
                     /\ lease' = w
  BY DEF Resume
<1> DEFINE n == attempt_number(o)
           c == committed_result(o, n)
           r == WaitResolution(o[1], c)
           k == [phase |-> work[w].phase, op |-> o, attempt |-> n,
                 contract |-> contract, result |-> r.result, passed |-> r.passed,
                 approved |-> r.approved, authorized |-> r.authorized]
<1>2. /\ n \in 1 .. MaxAttempts
      /\ runStatus \notin RunTerminal
      /\ row[o] \in StageActive
      /\ ~ Replays(o)
      /\ c = results[<<o, n>>]
      /\ c \in Results \union {NoResult}
  BY <1>1, NextAttempt DEF Resume
<1>3. c.status = "waiting"
  BY <1>1, <1>2 DEF Replays, resolved_wait
<1>4. /\ r.result \in Results /\ r.result.status # "waiting"
      /\ r.passed \subseteq Gates /\ r.approved \subseteq Gates /\ r.authorized \in BOOLEAN
  <2>1. o[1] \in Stages
    BY DEF Operations
  <2> QED
    BY <1>2, <2>1, ResolutionType
<1>5. CASE ResolutionRaises(o[1], c)
  <2>1. Leave(w) /\ UNCHANGED lease /\ UNCHANGED <<store, contract, console, provider>>
    BY <1>1, <1>5 DEF Resume
  <2> QED
    BY <2>1, Leave_step
<1>6. CASE ~ ResolutionRaises(o[1], c)
  <2>1. work' = [work EXCEPT ![w] = k] /\ pc' = [pc EXCEPT ![w] = "deciding"] /\ lease' = w
    BY <1>1, <1>6
  <2>2. k \in Work
    <3>1. work[w].phase \in Phases \union {"none"} /\ contract \in BOOLEAN
      BY DEF TypeOK, Work
    <3> HIDE DEF r, n
    <3> QED
      BY <1>2, <1>4, <3>1 DEF Work
  <2>3. k.op = o /\ k.attempt = n /\ k.result = r.result
    OBVIOUS
  <2> HIDE DEF k, r, c, n
  <2>4. Records(k)
    BY <1>2, <1>3, <1>4, <2>3 DEF Records, Supersedes
  <2>5. work' \in [Workers -> Work] /\ work'[w] = k
    BY <2>1, <2>2 DEF TypeOK
  <2>6. TypeOK'
    BY <2>1, <2>5 DEF Resume, TypeOK, store, console, provider, branch, pull
  <2>7. pc'[w] = "deciding"
    BY <2>1 DEF TypeOK
  <2>8. \A v \in Workers \ {w} : pc'[v] = pc[v] /\ work'[v] = work[v]
    BY <2>1 DEF TypeOK
  <2>9. UNCHANGED <<row, runStatus, results, events>> /\ lease = "none"
    BY DEF Resume, LeaseFree, store
  <2>10. \A v \in Workers : pc[v] \notin Holding
    BY LeaseIsFree DEF Resume
  <2> QED
    BY <1>2, <1>4, <2>1, <2>3, <2>4, <2>5, <2>6, <2>7, <2>8, <2>9, <2>10, Moves DEF Holding
<1> QED
  BY <1>5, <1>6

\* The result it reports is part of its memory, next to operation and attempt.
LEMMA ResultType ==
    ASSUME NEW k \in Work, NEW result \in Results
    PROVE  LET r == [k EXCEPT !.result = result]
           IN r \in Work /\ r.op = k.op /\ r.attempt = k.attempt /\ r.result = result
<1> QED
  BY DEF Work

\* The executor hands its result over.
LEMMA Report_step ==
    ASSUME IInv, NEW w \in Workers, NEW result \in Results,
           pc[w] \in {"executing", "published"},
           Report(w, result),
           UNCHANGED <<store, lease>>,
           UNCHANGED <<contract, console, branch, mergedHead, reviewCount, rollout>>,
           request' \in {"none", "open", "merged"},
           verdict' \in {"none", "success", "failure"},
           review' \in {"none", "approved", "retracted", "rejected"},
           approvedOnce' \in BOOLEAN
    PROVE  IInv'
<1> USE DEF IInv
<1> DEFINE k == [work[w] EXCEPT !.result = result]
<1>1. k \in Work /\ k.op = work[w].op /\ k.attempt = work[w].attempt /\ k.result = result
  BY ResultType DEF TypeOK
<1>2. work' = [work EXCEPT ![w] = k]
  BY DEF Report, TypeOK
<1> HIDE DEF k
<1>3. work' \in [Workers -> Work] /\ work'[w] = k
  BY <1>1, <1>2 DEF TypeOK
<1>4. pc' \in [Workers -> {"idle", "entered", "executing", "published", "deciding"}]
  BY DEF Report, TypeOK
<1>5. TypeOK'
  BY <1>3, <1>4 DEF TypeOK, store, console, branch
<1>6. pc'[w] = "deciding"
  BY DEF Report, TypeOK
<1>7. \A v \in Workers \ {w} : pc'[v] = pc[v] /\ work'[v] = work[v]
  BY <1>2 DEF Report, TypeOK
<1>8. UNCHANGED <<row, runStatus, results, events, lease>>
  BY DEF store
<1>9. /\ lease = w
      /\ row[k.op] \in StageActive
      /\ runStatus \notin RunTerminal
      /\ results[<<k.op, k.attempt>>] = NoResult
  BY <1>1 DEF LeaseIsHeld, WorkIsLive, WorkIsNew, Holding
<1>10. Records(k)
  BY <1>9 DEF Records
<1>11. \A v \in Workers \ {w} : pc[v] \in Holding => lease' = v
  BY <1>8 DEF LeaseIsHeld
<1> QED
  BY <1>1, <1>3, <1>5, <1>6, <1>7, <1>8, <1>9, <1>10, <1>11, Moves DEF Holding

\* A failed execution reports a blocked result.
LEMMA Execution_fails_step ==
    ASSUME IInv, NEW w \in Workers, Execution_fails(w)
    PROVE  IInv'
<1>1. Result("blocked", "stop", work[w].phase, FALSE) \in Results
  BY DEF IInv, TypeOK, Work, Result, Results, Actions
<1> QED
  BY <1>1, Report_step DEF Execution_fails, provider, pull, IInv, TypeOK

\* The wait of an executed stage is a result.
LEMMA WaitingType ==
    ASSUME NEW k \in Work
    PROVE  Waiting(k) \in Results
BY DEF Work, Waiting, Result, Results, Actions, Waits

\* Review and release report a wait and write nothing on the branch.
LEMMA Execute_other_step ==
    ASSUME IInv, NEW w \in Workers, Execute_other(w)
    PROVE  IInv'
<1>1. Waiting(work[w]) \in Results
  BY WaitingType DEF IInv, TypeOK
<1> QED
  BY <1>1, Report_step DEF Execute_other, provider, pull, IInv, TypeOK

\* Opening the change request touches the provider and reports the wait.
LEMMA Open_request_step ==
    ASSUME IInv, NEW w \in Workers, Open_request(w)
    PROVE  IInv'
<1>1. Waiting(work[w]) \in Results
  BY WaitingType DEF IInv, TypeOK
<1>2. /\ request' \in {"none", "open", "merged"}
      /\ verdict' \in {"none", "success", "failure"}
      /\ review' \in {"none", "approved", "retracted", "rejected"}
      /\ approvedOnce' \in BOOLEAN
  BY DEF Open_request, IInv, TypeOK
<1> QED
  BY <1>1, <1>2, Report_step DEF Open_request

\* Publishing the commit moves the branch and nothing of the store.
LEMMA Publish_commit_step ==
    ASSUME IInv, NEW w \in Workers, Publish_commit(w)
    PROVE  IInv'
<1> USE DEF IInv
<1>1. work[w].op \in Operations /\ work[w].phase \in Phases \union {"none"}
  BY DEF TypeOK, Work
<1>2. /\ head' \in Revisions
      /\ published' \in [Operations -> Revisions \union {NoRevision}]
      /\ phaseRev' \in [DesignPhases -> Revisions \union {NoRevision}]
      /\ verdict' \in {"none", "success", "failure"}
      /\ review' \in {"none", "approved", "retracted", "rejected"}
  <2>1. CASE published[work[w].op] # NoRevision
    BY <2>1 DEF Publish_commit, TypeOK, branch
  <2>2. CASE published[work[w].op] = NoRevision
    <3>1. head < MaxRevision /\ head' = head + 1
      BY <2>2 DEF Publish_commit
    <3>2. head' \in Revisions
      BY <3>1, DriverAssumption DEF TypeOK, Revisions
    <3>3. verdict' \in {"none", "success", "failure"}
          /\ review' \in {"none", "approved", "retracted", "rejected"}
      BY <2>2 DEF Publish_commit, NewHead, TypeOK
    <3>4. published' \in [Operations -> Revisions \union {NoRevision}]
      BY <2>2, <3>1, <3>2 DEF Publish_commit, TypeOK
    <3>5. phaseRev' \in [DesignPhases -> Revisions \union {NoRevision}]
      BY <2>2, <3>1, <3>2 DEF Publish_commit, TypeOK
    <3> QED
      BY <3>2, <3>3, <3>4, <3>5
  <2> QED
    BY <2>1, <2>2
<1>3. pc' \in [Workers -> {"idle", "entered", "executing", "published", "deciding"}]
  BY DEF Publish_commit, TypeOK
<1>4. TypeOK'
  BY <1>2, <1>3 DEF Publish_commit, TypeOK, store, console
<1>5. pc'[w] = "published" /\ pc[w] = "executing"
  BY DEF Publish_commit, TypeOK
<1>6. \A v \in Workers \ {w} : pc'[v] = pc[v] /\ work'[v] = work[v]
  BY DEF Publish_commit, TypeOK
<1>7. UNCHANGED <<row, runStatus, results, events, lease, work>>
  BY DEF Publish_commit, store
<1>8. /\ lease = w
      /\ row[work[w].op] \in StageActive
      /\ runStatus \notin RunTerminal
      /\ results[<<work[w].op, work[w].attempt>>] = NoResult
  BY <1>5 DEF LeaseIsHeld, WorkIsLive, WorkIsNew, Holding
<1>9. \A v \in Workers \ {w} : pc[v] \in Holding => lease' = v
  BY <1>7 DEF LeaseIsHeld
<1> QED
  BY <1>4, <1>5, <1>6, <1>7, <1>8, <1>9, Moves DEF Holding

(***************************************************************************)
(* Writing the decision                                                    *)
(***************************************************************************)

\* A stage after the first one has a predecessor, the one whose successor it is.
LEMMA RouteOrder ==
    /\ \A s \in Stages \ {"specification"} : Predecessor[s] \in Stages /\ Predecessor[s] # s
    /\ \A s \in Stages : next_stage[s] # "none" => Predecessor[next_stage[s]] = s
    /\ \A s \in Stages : REWORK_TARGET[s] # s
            => /\ s # "specification" /\ Predecessor[s] = REWORK_TARGET[s]
               /\ REWORK_TARGET[s] \in Stages \ {"specification"}
BY DEF Stages, Predecessor, next_stage, REWORK_TARGET

\* The decision of the lease holder keeps the order of the stages: a succeeded row stays,
\* and a row is created only for a stage whose predecessor has succeeded.
LEMMA RowsKeepOrder ==
    ASSUME TypeOK, StageOrder, NEW k \in Work, NEW d, Sound(k, d),
           row[k.op] \in StageActive, row' = RowsAfter(k, d)
    PROVE  StageOrder'
<1> DEFINE HasRow(s) == \E r \in Revisions : row[<<s, r>>] # "absent"
           Done(s) == \E r \in Revisions : row[<<s, r>>] = "succeeded"
           DoneAfter(s) == \E r \in Revisions : row'[<<s, r>>] = "succeeded"
<1>1. k.op \in Operations /\ k.op[1] \in Stages /\ k.op[2] \in Revisions
      /\ k.op = <<k.op[1], k.op[2]>>
  BY DEF Work, Operations
<1>2. HasRow(k.op[1])
  BY <1>1 DEF StageActive, StageStatus
<1>3. \A o \in Operations : row[o] = "succeeded" => row'[o] = "succeeded"
  BY DEF RowsAfter, StageActive, StageTerminal, StageStatus
<1>4. \A s \in Stages : Done(s) => DoneAfter(s)
  BY <1>3 DEF Operations
<1>5. d.stage = "succeeded" => DoneAfter(k.op[1])
  BY <1>1 DEF RowsAfter
<1>6. SUFFICES ASSUME NEW s \in Stages \ {"specification"}, NEW r \in Revisions,
                      row'[<<s, r>>] # "absent"
               PROVE  DoneAfter(Predecessor[s])
  BY DEF StageOrder
<1>7. Predecessor[s] \in Stages
  BY RouteOrder
<1>8. CASE HasRow(s)
  BY <1>4, <1>7, <1>8 DEF StageOrder
<1>9. CASE ~ HasRow(s)
  <2>1. <<s, r>> \in Operations /\ row[<<s, r>>] = "absent"
    BY <1>9 DEF Operations
  <2>2. <<s, r>> # k.op
    BY <1>1, <1>2, <1>9
  <2>3. d.enters # "none" /\ <<s, r>> = <<d.enters, head>>
    BY <1>6, <2>1, <2>2 DEF RowsAfter, Creates, Created, ScmRevision
  <2>4. d.enters = s
    BY <2>3
  <2>5. s # k.op[1]
    BY <1>2, <1>9
  <2>6. CASE s = REWORK_TARGET[k.op[1]]
    <3>1. k.op[1] # "specification" /\ Predecessor[k.op[1]] = s
      BY <1>1, <2>5, <2>6, RouteOrder
    <3>2. Done(s)
      BY <1>1, <1>2, <3>1 DEF StageOrder
    <3> QED
      BY <1>9, <3>2
  <2>7. CASE s # REWORK_TARGET[k.op[1]]
    <3>1. d.stage = "succeeded" /\ s = next_stage[k.op[1]]
      BY <2>3, <2>4, <2>5, <2>7 DEF Sound
    <3> QED
      BY <1>1, <1>5, <2>3, <2>4, <3>1, RouteOrder
  <2> QED
    BY <2>6, <2>7
<1> QED
  BY <1>8, <1>9

\* Writing the decision keeps every part: the lease excludes all other advances.
LEMMA Commit_step ==
    ASSUME IInv, NEW w \in Workers, Commit(w)
    PROVE  IInv'
<1> USE DEF IInv
<1> DEFINE k == work[w]
<1>1. /\ k \in Work
      /\ k.op \in Operations /\ k.op[1] \in Stages
      /\ k.attempt \in 1 .. MaxAttempts
      /\ <<k.op, k.attempt>> \in Attempts
  BY DEF TypeOK, Work, Operations, Attempts
<1>2. /\ pc[w] = "deciding" /\ lease = w
      /\ row[k.op] \in StageActive
      /\ runStatus \notin RunTerminal
      /\ k.result \in Results /\ Records(k)
  BY DEF Commit, LeaseIsHeld, WorkIsLive, WorkIsNew, Holding
<1>3. work' \in [Workers -> Work] /\ pc' = [pc EXCEPT ![w] = "idle"]
      /\ work' = [work EXCEPT ![w] = Idle] /\ lease' = "none"
  BY IdleType DEF Commit, Leave, TypeOK
<1>4. /\ pc' \in [Workers -> {"idle", "entered", "executing", "published", "deciding"}]
      /\ \A v \in Workers : pc'[v] \notin Holding
  BY <1>2, <1>3 DEF TypeOK, LeaseIsHeld, Holding
<1>5. UNCHANGED <<contract, decisions, orderCount, provider, failures, crashes>>
  BY DEF Commit
<1>6. LeaseIsHeld' /\ WorkIsLive' /\ WorkIsNew'
  BY <1>4 DEF LeaseIsHeld, WorkIsLive, WorkIsNew, Holding
<1>7. CASE ~ (FitsTable(k) /\ Records(k))
  <2>1. UNCHANGED <<store, orders>>
    BY <1>7 DEF Commit
  <2>2. TypeOK'
    BY <1>3, <1>4, <1>5, <2>1 DEF TypeOK, store, provider, branch, pull
  <2>3. EventsAreRecorded' /\ StageOrder'
    BY <2>1 DEF EventsAreRecorded, StageOrder, store
  <2> QED
    BY <1>6, <2>2, <2>3
<1>8. CASE FitsTable(k) /\ Records(k)
  <2>1. PICK out \in {exhausted, TRUE} : persist_decision(k, apply_result(k, out), out)
    BY <1>8 DEF Commit
  <2> DEFINE d == apply_result(k, out)
  <2>2. Sound(k, d)
    <3>1. k.result.action \in Actions
      BY <1>2 DEF Results
    <3> QED
      BY <1>1, <3>1, DecisionSound
  <2> HIDE DEF d, k
  <2>3. persist_decision(k, d, out)
    BY <2>1 DEF d
  <2>4. TypeOK'
    <3>1. runStatus' \in RunStatus /\ exhausted' \in BOOLEAN
      BY <2>2, <2>3 DEF persist_decision, Sound, TypeOK
    <3>2. usedRounds' \in 0 .. MaxReworkRounds
      BY <2>2, <2>3, DriverAssumption DEF persist_decision, RoundsAfter, Sound, TypeOK
    <3>3. row' \in [Operations -> StageStatus \union {"absent"}]
      BY <2>2, <2>3 DEF persist_decision, RowsAfter, Sound, TypeOK, StageStatus
    <3>4. attemptCount' \in [Operations -> 0 .. MaxAttempts]
      BY <1>1, <2>3, DriverAssumption DEF persist_decision, open_attempt, TypeOK
    <3>5. results' \in [Attempts -> Results \union {NoResult}]
      BY <1>2, <2>3 DEF persist_decision, TypeOK
    <3>6. attemptRow' \in [Attempts -> StageStatus \union {"absent"}]
      BY <2>2, <2>3 DEF persist_decision, finish_attempt, Sound, TypeOK, StageStatus
    <3>7. orders' \in [Phases -> OrderState]
      <4>1. orders' = OrderAfter(k, d)
        BY <2>3 DEF persist_decision
      <4>2. orders \in [Phases -> OrderState]
        BY DEF TypeOK
      <4>3. OrderAfter(k, d) \in [Phases -> OrderState]
        BY <4>2 DEF OrderAfter, OrderState
      <4> QED
        BY <4>1, <4>3
    <3> QED
      BY <1>3, <1>4, <1>5, <3>1, <3>2, <3>3, <3>4, <3>5, <3>6, <3>7
         DEF TypeOK, provider, branch, pull
  <2>5. EventsAreRecorded'
    <3>1. /\ results' = [results EXCEPT ![<<k.op, k.attempt>>] = k.result]
          /\ events' = events \union {stage_completed_event_id(k)}
      BY <2>3 DEF persist_decision
    <3>2. k.result.status # "none" /\ k.result # NoResult
      BY <1>2 DEF Results, NoResult
    <3>3. SUFFICES ASSUME NEW o \in Operations, NEW n \in 1 .. MaxAttempts,
                          NEW st \in {"none", "waiting", "succeeded", "failed", "blocked"},
                          <<o, n, st>> \in events'
                   PROVE  /\ results'[<<o, n>>] # NoResult
                          /\ st # "none" => results'[<<o, n>>].status # "waiting"
      BY DEF EventsAreRecorded
    <3>4. <<o, n>> \in Attempts
      BY DEF Attempts
    <3>5. CASE <<o, n>> # <<k.op, k.attempt>>
      <4>1. results'[<<o, n>>] = results[<<o, n>>]
        BY <3>1, <3>4, <3>5 DEF TypeOK
      <4>2. <<o, n, st>> \in events
        BY <3>1, <3>3, <3>5 DEF stage_completed_event_id
      <4> QED
        BY <4>1, <4>2 DEF EventsAreRecorded
    <3>6. CASE <<o, n>> = <<k.op, k.attempt>>
      <4>1. results'[<<o, n>>] = k.result /\ o = k.op /\ n = k.attempt
        BY <1>1, <3>1, <3>6 DEF TypeOK
      <4>2. CASE <<o, n, st>> \in events
        BY <1>2, <3>2, <4>1, <4>2 DEF EventsAreRecorded, Records, Supersedes
      <4>3. CASE <<o, n, st>> = stage_completed_event_id(k)
        BY <1>2, <3>2, <4>1, <4>3 DEF stage_completed_event_id, Supersedes
      <4> QED
        BY <3>1, <3>3, <4>2, <4>3
    <3> QED
      BY <3>5, <3>6
  <2>6. StageOrder'
    BY <1>1, <1>2, <2>2, <2>3, RowsKeepOrder DEF persist_decision
  <2> QED
    BY <1>6, <2>4, <2>5, <2>6
<1> QED
  BY <1>7, <1>8

(***************************************************************************)
(* The operator and the provider                                           *)
(***************************************************************************)

\* The withdrawal cancels the active rows and the run; nobody holds the lease.
LEMMA withdraw_run_step ==
    ASSUME IInv, withdraw_run
    PROVE  IInv'
<1> USE DEF IInv
<1>1. \A w \in Workers : pc[w] \notin Holding
  BY DriverAssumption DEF withdraw_run, LeaseIsHeld
<1>2. /\ row' = [o \in Operations |-> IF row[o] \in StageActive THEN "canceled" ELSE row[o]]
      /\ runStatus' = "canceled"
      /\ UNCHANGED <<exhausted, usedRounds, contract, attemptCount, results, attemptRow,
                     events, console, provider, workers>>
  BY DEF withdraw_run
<1>3. TypeOK'
  <2>1. row' \in [Operations -> StageStatus \union {"absent"}]
    BY <1>2 DEF TypeOK, StageStatus
  <2> QED
    BY <1>2, <2>1 DEF TypeOK, RunStatus, console, provider, branch, pull, workers
<1>4. LeaseIsHeld' /\ WorkIsLive' /\ WorkIsNew'
  BY <1>1, <1>2 DEF LeaseIsHeld, WorkIsLive, WorkIsNew, Holding, workers
<1>5. EventsAreRecorded'
  BY <1>2 DEF EventsAreRecorded
<1>6. StageOrder'
  <2>1. \A s \in Stages, r \in Revisions :
            /\ row'[<<s, r>>] # "absent" => row[<<s, r>>] # "absent"
            /\ row[<<s, r>>] = "succeeded" => row'[<<s, r>>] = "succeeded"
    BY <1>2 DEF Operations, StageActive, StageTerminal, StageStatus
  <2>2. \A s \in Stages \ {"specification"} : Predecessor[s] \in Stages
    BY RouteOrder
  <2> QED
    BY <2>1, <2>2 DEF StageOrder
<1> QED
  BY <1>3, <1>4, <1>5, <1>6

\* What the operator does.
LEMMA OperatorKeeps ==
    ASSUME IInv, Operator
    PROVE  IInv'
<1> USE DEF IInv
<1>1. CASE withdraw_run
  BY <1>1, withdraw_run_step
<1>2. CASE attach_contract
  <2>1. TypeOK'
    BY <1>2 DEF attach_contract, TypeOK, store, console, provider, branch, pull, workers
  <2> QED
    BY <1>2, <2>1, Aside DEF attach_contract, store, workers
<1>3. ASSUME NEW p \in ConsolePhases, Approve_phase(p)
      PROVE  IInv'
  <2>1. p \in Phases
    BY DriverAssumption
  <2>2. p \in DesignPhases => phaseRev[p] \in Revisions \union {NoRevision}
    BY DEF TypeOK
  <2>3. decisions' \subseteq ConsolePhases \X (Revisions \union {Waiver})
    BY <1>3, <2>2 DEF Approve_phase, TypeOK
  <2>4. TypeOK'
    BY <1>3, <2>3 DEF Approve_phase, TypeOK, store, provider, branch, pull, workers
  <2> QED
    BY <1>3, <2>4, Aside DEF Approve_phase, store, workers
<1>4. ASSUME NEW p \in ConsolePhases, Waive_phase(p)
      PROVE  IInv'
  <2>1. decisions' \subseteq ConsolePhases \X (Revisions \union {Waiver})
    BY <1>4 DEF Waive_phase, TypeOK
  <2>2. TypeOK'
    BY <1>4, <2>1 DEF Waive_phase, TypeOK, store, provider, branch, pull, workers
  <2> QED
    BY <1>4, <2>2, Aside DEF Waive_phase, store, workers
<1>5. ASSUME NEW p \in ConsolePhases, issue_rework_order(p)
      PROVE  IInv'
  <2>1. p \in Phases
    BY DriverAssumption
  <2>2. orderCount' \in [Phases -> 0 .. MaxOrders]
    BY <1>5, <2>1, DriverAssumption DEF issue_rework_order, TypeOK
  <2>3. orders' \in [Phases -> OrderState]
    BY <1>5, <2>1 DEF issue_rework_order, TypeOK, OrderState
  <2>4. TypeOK'
    BY <1>5, <2>2, <2>3 DEF issue_rework_order, TypeOK, store, provider, branch, pull, workers
  <2> QED
    BY <1>5, <2>4, Aside DEF issue_rework_order, store, workers
<1> QED
  BY <1>1, <1>2, <1>3, <1>4, <1>5 DEF Operator

\* What the provider does never touches the store.
LEMMA ProviderKeeps ==
    ASSUME IInv, Provider
    PROVE  IInv'
<1> USE DEF IInv
<1>1. ASSUME NEW v \in {"success", "failure"}, Pipeline_ends(v)
      PROVE  IInv'
  <2>1. TypeOK'
    BY <1>1 DEF Pipeline_ends, TypeOK, store, console, branch, workers
  <2> QED
    BY <1>1, <2>1, Aside DEF Pipeline_ends, store, workers
<1>2. ASSUME NEW approves \in BOOLEAN, Submit_review(approves)
      PROVE  IInv'
  <2>1. approvedOnce' \in BOOLEAN /\ review' \in {"none", "approved", "retracted", "rejected"}
    BY <1>2 DEF Submit_review, TypeOK
  <2>2. TypeOK'
    BY <1>2, <2>1 DEF Submit_review, TypeOK, store, console, branch, workers
  <2> QED
    BY <1>2, <2>2, Aside DEF Submit_review, store, workers
<1>3. CASE Merge_request
  <2>1. TypeOK'
    BY <1>3 DEF Merge_request, TypeOK, store, console, branch, workers
  <2> QED
    BY <1>3, <2>1, Aside DEF Merge_request, store, workers
<1>4. CASE Push
  <2>1. head' \in Revisions
    BY <1>4, DriverAssumption DEF Push, TypeOK, Revisions
  <2>2. verdict' \in {"none", "success", "failure"}
        /\ review' \in {"none", "approved", "retracted", "rejected"}
    BY <1>4 DEF Push, NewHead, TypeOK
  <2>3. TypeOK'
    BY <1>4, <2>1, <2>2 DEF Push, TypeOK, store, console, workers
  <2> QED
    BY <1>4, <2>3, Aside DEF Push, store, workers
<1>5. ASSUME NEW v \in {"released", "failed"}, Rollout_ends(v)
      PROVE  IInv'
  <2>1. TypeOK'
    BY <1>5 DEF Rollout_ends, TypeOK, store, console, branch, pull, workers
  <2> QED
    BY <1>5, <2>1, Aside DEF Rollout_ends, store, workers
<1> QED
  BY <1>1, <1>2, <1>3, <1>4, <1>5 DEF Provider

(***************************************************************************)
(* The theorems                                                            *)
(***************************************************************************)

\* create_run establishes the invariant.
LEMMA Starts == Init => IInv
<1> SUFFICES ASSUME Init PROVE IInv
  OBVIOUS
<1>1. 0 \in Revisions /\ 0 \in 0 .. MaxReworkRounds /\ 0 \in 0 .. MaxAttempts
      /\ 0 \in 0 .. MaxOrders
  BY DriverAssumption DEF Revisions
<1>2. TypeOK
  <2>1. contract \in BOOLEAN
    BY DriverAssumption DEF Init
  <2>2. row \in [Operations -> StageStatus \union {"absent"}]
    BY DEF Init, StageStatus
  <2>3. work \in [Workers -> Work]
    BY IdleType DEF Init
  <2>4. orders \in [Phases -> OrderState] /\ orderCount \in [Phases -> 0 .. MaxOrders]
    BY <1>1 DEF Init, OrderState
  <2> QED
    BY <1>1, <2>1, <2>2, <2>3, <2>4 DEF Init, TypeOK, RunStatus
<1>3. LeaseIsHeld /\ WorkIsLive /\ WorkIsNew
  BY DEF Init, LeaseIsHeld, WorkIsLive, WorkIsNew, Holding
<1>4. EventsAreRecorded
  BY DEF Init, EventsAreRecorded
<1>5. StageOrder
  BY DEF Init, StageOrder, Operations, Stages
<1> QED
  BY <1>2, <1>3, <1>4, <1>5 DEF IInv

\* Every step keeps it.
LEMMA Keeps == IInv /\ [Next]_vars => IInv'
<1> SUFFICES ASSUME IInv, [Next]_vars PROVE IInv'
  OBVIOUS
<1>1. ASSUME NEW w \in Workers, Advance(w)
      PROVE  IInv'
  BY <1>1, Enter_step, Give_up_step, Resume_step, Open_attempt_step, Execution_fails_step,
     Publish_commit_step, Open_request_step, Execute_other_step, Commit_step DEF Advance
<1>2. ASSUME NEW w \in Workers, Crash(w)
      PROVE  IInv'
  BY <1>2, Crash_step
<1>3. CASE Operator
  BY <1>3, OperatorKeeps
<1>4. CASE Provider
  BY <1>4, ProviderKeeps
<1>5. CASE UNCHANGED vars
  <2>1. UNCHANGED <<row, runStatus, results, events, lease, pc, work>>
    BY <1>5 DEF vars, store, workers
  <2>2. TypeOK'
    BY <1>5 DEF IInv, TypeOK, vars, store, console, provider, branch, pull, workers
  <2> QED
    BY <2>1, <2>2, Aside
<1> QED
  BY <1>1, <1>2, <1>3, <1>4, <1>5 DEF Next

\* The inductive invariant holds in every behaviour.
LEMMA Invariance == Spec => []IInv
<1> QED
  BY Starts, Keeps, PTL DEF Spec

\* Rows, results and the memory of every advance keep their types; in particular the
\* rework budget and the numbering of attempts keep their limits.
THEOREM TypeCorrect == Spec => []TypeOK
<1>1. IInv => TypeOK
  BY DEF IInv
<1> QED
  BY <1>1, Invariance, PTL

\* On every route, with any number of concurrent advances, a stage has a row only when
\* the stage before it has succeeded.
THEOREM StagesInOrder == Spec => []StageOrder
<1>1. IInv => StageOrder
  BY DEF IInv
<1> QED
  BY <1>1, Invariance, PTL

\* No advance writes a second result over a final one, and no event id is published twice.
THEOREM DecisionsAreNew == Spec => []DecisionIsNew
<1>1. IInv => DecisionIsNew
  <2> SUFFICES ASSUME IInv, NEW w \in Workers, pc[w] = "deciding"
               PROVE  Records(work[w]) /\ stage_completed_event_id(work[w]) \notin events
    BY DEF DecisionIsNew
  <2> DEFINE k == work[w]
  <2>1. k.op \in Operations /\ k.attempt \in 1 .. MaxAttempts
    BY DEF IInv, TypeOK, Work
  <2>2. k.result \in Results /\ Records(k)
    BY DEF IInv, WorkIsNew
  <2>3. k.result.status \in {"waiting", "succeeded", "failed", "blocked"}
    BY <2>2 DEF Results
  <2> HIDE DEF k
  <2>4. ASSUME Supersedes(k)
        PROVE  stage_completed_event_id(k) \notin events
    BY <2>1, <2>3, <2>4 DEF IInv, EventsAreRecorded, stage_completed_event_id, Supersedes
  <2>5. ASSUME ~ Supersedes(k)
        PROVE  stage_completed_event_id(k) \notin events
    BY <2>1, <2>2, <2>5 DEF IInv, EventsAreRecorded, stage_completed_event_id, Records
  <2> QED
    BY <2>2, <2>4, <2>5 DEF k
<1> QED
  BY <1>1, Invariance, PTL

\* A finished run stays as it is, whatever advances were under way when it ended.
THEOREM FinishedIsFinal == Spec => TerminalIsFinal
<1>1. ASSUME IInv, [Next]_vars, runStatus \in RunTerminal
      PROVE  UNCHANGED <<store, orders>>
  <2>1. \A w \in Workers : pc[w] # "deciding"
    BY <1>1 DEF IInv, WorkIsLive, Holding
  <2>2. ASSUME NEW w \in Workers, Advance(w)
        PROVE  UNCHANGED <<store, orders>>
    BY <2>1, <2>2 DEF Advance, Enter, Give_up, Resume, Open_attempt, Execution_fails,
       Publish_commit, Open_request, Execute_other, Commit, console
  <2>3. ASSUME NEW w \in Workers, Crash(w)
        PROVE  UNCHANGED <<store, orders>>
    BY <2>3 DEF Crash, console
  <2>4. CASE UNCHANGED vars
    BY <2>4 DEF vars, console
  <2> QED
    BY <1>1, <2>2, <2>3, <2>4 DEF Next
<1>2. IInv /\ [Next]_vars
        => ((runStatus \in RunTerminal) => UNCHANGED <<store, orders>>)
  BY <1>1
<1> QED
  BY <1>2, Invariance, PTL DEF Spec, TerminalIsFinal

(***************************************************************************)
(* Second part: the invariant about the rows                               *)
(***************************************************************************)

\* The statuses rows have while the run is not finished.
RowsAreLive ==
    runStatus \notin RunTerminal =>
        \A o \in Operations :
            row[o] \in {"absent", "pending", "waiting", "blocked", "failed", "succeeded"}

\* Review and release have one operation at work; a review that succeeded leaves nothing to
\* do before the release, a release that succeeded ends the run.
OneReview ==
    \A s \in {"review_verification", "release"}, q \in Revisions, r \in Revisions :
        row[<<s, q>>] \in StageActive /\ row[<<s, r>>] \in StageActive => q = r
ReviewIsLast ==
    (\E r \in Revisions : row[<<"review_verification", r>>] = "succeeded")
        => \A o \in Operations : row[o] \in StageActive => o[1] = "release"
ReleaseIsLast ==
    (\E r \in Revisions : row[<<"release", r>>] = "succeeded") => runStatus \in RunTerminal

\* The run has a row at work exactly while it is not finished.
ActiveWhileOpen ==
    runStatus \notin RunTerminal <=> \E o \in Operations : row[o] \in StageActive

\* It waits exactly when the operation in flight is parked.
ParkedWhileWaiting ==
    /\ runStatus = "waiting" => \E o \in Operations : row[o] = "waiting"
    /\ \A o \in Operations : row[o] = "waiting" => runStatus = "waiting" /\ IsNext(o)

\* What the rows and the status of the run say of each other.
RowsFit ==
    RowsAreLive /\ OneReview /\ ReviewIsLast /\ ReleaseIsLast /\ ActiveWhileOpen
    /\ ParkedWhileWaiting

\* Rows are not ahead of the branch, and an operation that published is behind it: a row
\* at the head of the branch has published nothing.
RowsAreBehind ==
    \A o \in Operations :
        /\ row[o] # "absent" => o[2] <= head
        /\ published[o] # NoRevision => o[2] < head

\* A writing stage parks, and later succeeds, only with its commit published.
CommitsFirst ==
    \A o \in Operations : Writes(o[1]) =>
        /\ row[o] = "succeeded" => published[o] # NoRevision
        /\ \A n \in 1 .. MaxAttempts :
            results[<<o, n>>].status = "waiting" => published[o] # NoRevision

\* A merge about to be decided was observed on a merged request, and the verdict and the
\* review it was resolved from still stand: the review may only have been retracted since.
Observed(k) ==
    k.result.action = "merge" =>
        /\ request = "merged"
        /\ "verification" \in k.passed => verdict = "success"
        /\ k.authorized => review \in {"approved", "retracted"}

\* Somebody decided the interface at a revision.
InterfaceDecided == \E r \in Revisions : <<"interface", r>> \in decisions

\* What an advance holds in memory.  Under the lease its operation stays the one in flight;
\* what it hands to the flow fits the flow table and is backed by the provider.
WorkFits(w) ==
    /\ pc[w] \in Holding => IsNext(work[w].op) /\ (StartsWithContract => work[w].contract)
    /\ pc[w] = "published" => Writes(work[w].op[1]) /\ published[work[w].op] # NoRevision
    /\ pc[w] = "deciding" =>
        /\ FitsTable(work[w])
        /\ Writes(work[w].op[1]) /\ work[w].result.status \in {"waiting", "succeeded"}
            => published[work[w].op] # NoRevision
        /\ Observed(work[w])
    /\ "ui" \in work[w].approved => InterfaceDecided

RInv ==
    /\ RowsFit
    /\ RowsAreBehind /\ CommitsFirst
    /\ \A w \in Workers : WorkFits(w)
    /\ StartsWithContract => contract
    /\ ReleaseIsAuthorized /\ InterfaceIsApproved

(***************************************************************************)
(* Lemmas about the flow                                                   *)
(***************************************************************************)

\* The decisions the flow takes on a result that fits its table.
Waits_on(d) == d.stage = "waiting" /\ d.run = "waiting" /\ d.enters = "none"
Stops(d) == d.stage = "blocked" /\ d.run = "blocked" /\ d.enters = "none"
Reworks(k, d) ==
    /\ k.op[1] # "release"
    /\ d.stage = "failed" /\ d.run = "running"
    /\ d.enters = REWORK_TARGET[k.op[1]] /\ d.anew = (d.enters = k.op[1])
Rounds(k, d) ==
    /\ k.op[1] = "specification"
    /\ d.stage = "succeeded" /\ d.run = "running"
    /\ d.enters = "specification" /\ d.anew = TRUE
Completes(k, d) ==
    /\ k.op[1] \in {"specification", "planning", "construction"}
    /\ d.stage = "succeeded" /\ d.run = "running"
    /\ d.enters = next_stage[k.op[1]] /\ d.anew = FALSE
    /\ ~ escalation_reason(k)
Merges(k, d) ==
    /\ k.op[1] = "review_verification" /\ k.result.action = "merge"
    /\ d.stage = "succeeded" /\ d.run = "running"
    /\ d.enters = "release" /\ d.anew = FALSE
    /\ "verification" \in k.passed /\ k.authorized
Releases(k, d) ==
    /\ k.op[1] = "release"
    /\ d.stage = "succeeded" /\ d.run = "succeeded" /\ d.enters = "none"

Shape(k, d) ==
    \/ Waits_on(d) \/ Stops(d) \/ Reworks(k, d)
    \/ k.result.status = "succeeded" /\ Rounds(k, d)
    \/ k.result.status = "succeeded" /\ Completes(k, d)
    \/ k.result.status = "succeeded" /\ Merges(k, d)
    \/ k.result.status = "succeeded" /\ Releases(k, d)

\* Where the flow table allows an action.
LEMMA FlowTable ==
    ASSUME NEW s \in Stages, NEW a \in FLOW_TRANSITIONS[s]
    PROVE  /\ a \in Actions
           /\ a = "execute_stage" => s \in {"specification", "planning", "construction"}
           /\ a = "phase_round" => s = "specification"
           /\ a = "merge" => s = "review_verification"
           /\ a = "release" => s = "release"
           /\ a = "rework" => s # "release"
<1> USE DEF FLOW_TRANSITIONS, Actions, Waits, Completions
<1>1. CASE s = "specification" BY <1>1
<1>2. CASE s = "planning" BY <1>2
<1>3. CASE s = "construction" BY <1>3
<1>4. CASE s = "review_verification" BY <1>4
<1>5. CASE s = "release" BY <1>5
<1> QED BY <1>1, <1>2, <1>3, <1>4, <1>5 DEF Stages

\* Every decision has one of the shapes.
LEMMA DecisionShape ==
    ASSUME NEW k, k.op[1] \in Stages, FitsTable(k), k.authorized \in BOOLEAN, NEW out
    PROVE  Shape(k, apply_result(k, out))
<1> DEFINE a == k.result.action
<1> USE DEF Decision
<1>1. /\ a \in FLOW_TRANSITIONS[k.op[1]]
      /\ k.result.status = expected_result_status(a)
  BY DEF FitsTable
<1>2. /\ a \in Actions
      /\ a = "execute_stage" => k.op[1] \in {"specification", "planning", "construction"}
      /\ a = "phase_round" => k.op[1] = "specification"
      /\ a = "merge" => k.op[1] = "review_verification"
      /\ a = "release" => k.op[1] = "release"
      /\ a = "rework" => k.op[1] # "release"
  BY <1>1, FlowTable
<1>3. a \in Completions => k.result.status = "succeeded"
  BY <1>1 DEF expected_result_status, Completions, Waits
<1>4. Stops(Stop)
  BY DEF Stops, Stop
<1>5. CASE a = "execute_stage"
  <2>1. apply_result(k, out) = handle_execute(k, out)
    BY <1>5 DEF apply_result
  <2>2. k.result.status = "succeeded"
    BY <1>3, <1>5 DEF Completions
  <2>3. CASE block_reason(k, out) \/ escalation_reason(k)
    BY <1>4, <2>1, <2>3 DEF handle_execute, Shape
  <2>4. CASE ~ (block_reason(k, out) \/ escalation_reason(k))
    <3>1. Completes(k, handle_execute(k, out))
      BY <1>2, <1>5, <2>4 DEF handle_execute, Completes
    <3> QED BY <2>1, <2>2, <3>1 DEF Shape
  <2> QED BY <2>3, <2>4
<1>6. CASE a = "rework"
  <2>1. apply_result(k, out) = handle_rework(k)
    BY <1>6 DEF apply_result
  <2>2. Stops(handle_rework(k)) \/ Reworks(k, handle_rework(k))
    BY <1>2, <1>4, <1>6 DEF handle_rework, Reworks
  <2> QED BY <2>1, <2>2 DEF Shape
<1>7. CASE a = "phase_round"
  <2>1. apply_result(k, out) = handle_phase_round(k) /\ k.result.status = "succeeded"
    BY <1>3, <1>7 DEF apply_result, Completions
  <2>2. Rounds(k, handle_phase_round(k))
    BY <1>2, <1>7 DEF handle_phase_round, Rounds
  <2> QED BY <2>1, <2>2 DEF Shape
<1>8. CASE a = "merge"
  <2>1. apply_result(k, out) = handle_merge(k, out) /\ k.result.status = "succeeded"
    BY <1>3, <1>8 DEF apply_result, Completions
  <2>2. Waits_on(wait_for_human_merge)
    BY DEF Waits_on, wait_for_human_merge
  <2>3. CASE handle_merge(k, out) \in {Stop, wait_for_human_merge}
    BY <1>4, <2>1, <2>2, <2>3 DEF Shape
  <2>4. CASE handle_merge(k, out) \notin {Stop, wait_for_human_merge}
    <3>1. /\ ~ block_reason(k, out)
          /\ evaluate_merge(k) \notin {"blocked", "manual_merge_required"}
          /\ handle_merge(k, out)
               = Decision("merge", "succeeded", "running", next_stage[k.op[1]], FALSE)
      BY <2>4 DEF handle_merge
    <3>2. unsatisfied_gates(k) = {} /\ k.authorized
      <4>1. unsatisfied_gates(k) = {}
        BY <3>1 DEF block_reason
      <4>2. ASSUME k.authorized = FALSE PROVE FALSE
        BY <3>1, <4>2 DEF evaluate_merge
      <4> QED BY <4>1, <4>2
    <3>3. "verification" \in k.passed
      BY <1>2, <1>8, <3>2 DEF unsatisfied_gates, required_gates
    <3>4. Merges(k, handle_merge(k, out))
      BY <1>2, <1>8, <3>1, <3>2, <3>3 DEF Merges, next_stage
    <3> QED BY <2>1, <3>4 DEF Shape
  <2> QED BY <2>3, <2>4
<1>9. CASE a = "release"
  <2>1. apply_result(k, out) = handle_release(k, out) /\ k.result.status = "succeeded"
    BY <1>3, <1>9 DEF apply_result, Completions
  <2>2. Stops(handle_release(k, out)) \/ Releases(k, handle_release(k, out))
    BY <1>2, <1>4, <1>9 DEF handle_release, Releases
  <2> QED BY <2>1, <2>2 DEF Shape
<1>10. CASE a = "stop"
  BY <1>4, <1>10 DEF apply_result, Shape
<1>11. CASE a \in Waits
  <2>1. apply_result(k, out) = Decision(a, "waiting", "waiting", "none", FALSE)
    BY <1>11 DEF apply_result, Waits
  <2> QED BY <2>1 DEF Shape, Waits_on
<1> QED
  BY <1>2, <1>5, <1>6, <1>7, <1>8, <1>9, <1>10, <1>11 DEF Actions, Completions

(***************************************************************************)
(* Steps that leave the rows alone                                         *)
(***************************************************************************)

\* A merged request stays merged with what its release was authorized by.
MergeStands ==
    request = "merged" =>
        /\ request' = "merged"
        /\ verdict = "success" => verdict' = "success"
        /\ review \in {"approved", "retracted"} => review' \in {"approved", "retracted"}

\* The branch only grows, and what was published stays so.
BranchGrows ==
    /\ head <= head'
    /\ \A o \in Operations :
        /\ published[o] # NoRevision => published'[o] # NoRevision
        /\ published'[o] # NoRevision => published[o] # NoRevision \/ o[2] < head'

\* The approval of the release does not depend on the rows when they stay.
LEMMA ReleaseStands ==
    ASSUME RInv, row' = row, MergeStands
    PROVE  ReleaseIsAuthorized'
BY DEF RInv, ReleaseIsAuthorized, MergeStands

\* An advance keeps what it holds while the others and the world move on.
LEMMA WorkStands ==
    ASSUME IInv, RInv, NEW v \in Workers, row' = row, pc'[v] = pc[v], work'[v] = work[v],
           decisions \subseteq decisions', BranchGrows,
           MergeStands \/ pc[v] \notin Holding
    PROVE  WorkFits(v)'
<1>1. work[v].op \in Operations /\ WorkFits(v)
  BY DEF IInv, TypeOK, Work, RInv
<1>2. IsNext(work[v].op) => IsNext(work[v].op)'
  BY DEF IsNext, Active
<1>3. published[work[v].op] # NoRevision => published'[work[v].op] # NoRevision
  BY <1>1 DEF BranchGrows
<1>4. InterfaceDecided => InterfaceDecided'
  BY DEF InterfaceDecided
<1>5. pc[v] = "deciding" => Observed(work[v])'
  BY <1>1 DEF WorkFits, Observed, MergeStands, Holding
<1> QED
  BY <1>1, <1>2, <1>3, <1>4, <1>5 DEF WorkFits, FitsTable

\* A step that leaves the rows alone keeps the invariant when every advance keeps its part.
LEMMA Steady ==
    ASSUME IInv, IInv', RInv, UNCHANGED <<row, runStatus, results>>, contract => contract',
           decisions \subseteq decisions', BranchGrows, ReleaseIsAuthorized',
           \A v \in Workers : WorkFits(v)'
    PROVE  RInv'
<1> USE DEF RInv
<1>1. RowsFit'
  BY DEF RowsFit, RowsAreLive, OneReview, ReviewIsLast, ReleaseIsLast, ActiveWhileOpen,
         ParkedWhileWaiting, IsNext, Active
<1>2. RowsAreBehind'
  <2>1. head \in Int /\ head' \in Int /\ \A o \in Operations : o[2] \in Int
    BY DriverAssumption DEF IInv, TypeOK, Revisions, Operations
  <2> QED BY <2>1 DEF RowsAreBehind, BranchGrows
<1>3. CommitsFirst'
  BY DEF CommitsFirst, BranchGrows
<1>4. (StartsWithContract => contract)'
  OBVIOUS
<1>5. InterfaceIsApproved'
  <2>1. StartsWithContract => contract /\ contract'
    OBVIOUS
  <2>2. StartsWithContract => Risk' = Risk
    BY <2>1 DEF Risk
  <2> QED BY <2>2 DEF InterfaceIsApproved
<1> QED
  BY <1>1, <1>2, <1>3, <1>4, <1>5

\* One worker moves between its own steps.
LEMMA WorkerMoves ==
    ASSUME IInv, IInv', RInv, NEW w \in Workers, UNCHANGED <<row, runStatus, results>>,
           UNCHANGED <<contract, decisions>>, BranchGrows, MergeStands,
           \A v \in Workers \ {w} : pc'[v] = pc[v] /\ work'[v] = work[v],
           WorkFits(w)'
    PROVE  RInv'
<1>1. \A v \in Workers : WorkFits(v)'
  BY WorkStands
<1>2. ReleaseIsAuthorized'
  BY ReleaseStands
<1> QED
  BY <1>1, <1>2, Steady

\* Nothing happens on the provider.
LEMMA ProviderStands ==
    ASSUME IInv, UNCHANGED provider
    PROVE  BranchGrows /\ MergeStands
<1>1. head \in Int
  BY DriverAssumption DEF IInv, TypeOK, Revisions
<1> QED
  BY <1>1 DEF BranchGrows, MergeStands, provider, branch, pull

\* The reads before the lease, and an advance that leaves.
LEMMA EnterRows ==
    ASSUME IInv, IInv', RInv, NEW w \in Workers, Enter(w)
    PROVE  RInv'
<1>1. PICK o \in Operations : work' = [work EXCEPT ![w].phase = current_change_phase(o)]
  BY DEF Enter
<1>2. /\ pc' = [pc EXCEPT ![w] = "entered"]
      /\ UNCHANGED <<row, runStatus, results, contract, decisions, provider>>
  BY DEF Enter, store, console
<1>3. work'[w].approved = work[w].approved /\ pc'[w] = "entered"
  BY <1>1, <1>2 DEF IInv, TypeOK, Work
<1>4. \A v \in Workers \ {w} : pc'[v] = pc[v] /\ work'[v] = work[v]
  BY <1>1, <1>2 DEF IInv, TypeOK
<1>5. WorkFits(w)'
  BY <1>2, <1>3 DEF RInv, WorkFits, Holding, InterfaceDecided
<1> QED
  BY <1>2, <1>4, <1>5, ProviderStands, WorkerMoves

LEMMA LeaveRows ==
    ASSUME IInv, IInv', RInv, NEW w \in Workers, Leave(w),
           UNCHANGED <<store, contract, console, provider>>
    PROVE  RInv'
<1>1. UNCHANGED <<row, runStatus, results, contract, decisions, provider>>
  BY DEF store, console
<1>2. pc'[w] = "idle" /\ work'[w] = Idle
  BY DEF Leave, IInv, TypeOK
<1>3. \A v \in Workers \ {w} : pc'[v] = pc[v] /\ work'[v] = work[v]
  BY DEF Leave, IInv, TypeOK
<1>4. WorkFits(w)'
  BY <1>2 DEF WorkFits, Holding, Idle
<1> QED
  BY <1>1, <1>3, <1>4, ProviderStands, WorkerMoves

\* A new attempt is opened for the operation in flight.
LEMMA Open_attemptRows ==
    ASSUME IInv, IInv', RInv, NEW w \in Workers, Open_attempt(w)
    PROVE  RInv'
<1>1. PICK o \in Operations :
        /\ IsNext(o)
        /\ work' = [work EXCEPT ![w] = [@ EXCEPT !.op = o, !.attempt = attempt_number(o),
                                                 !.contract = contract]]
  BY DEF Open_attempt
<1>2. /\ pc' = [pc EXCEPT ![w] = "executing"]
      /\ UNCHANGED <<row, runStatus, results, contract, decisions, provider>>
  BY DEF Open_attempt, store, console
<1>3. /\ work'[w].op = o /\ work'[w].contract = contract
      /\ work'[w].approved = work[w].approved /\ pc'[w] = "executing"
  BY <1>1, <1>2 DEF IInv, TypeOK, Work
<1>4. \A v \in Workers \ {w} : pc'[v] = pc[v] /\ work'[v] = work[v]
  BY <1>1, <1>2 DEF IInv, TypeOK
<1>5. IsNext(o)'
  BY <1>1, <1>2 DEF IsNext, Active
<1>6. WorkFits(w)'
  BY <1>2, <1>3, <1>5 DEF RInv, WorkFits, Holding, InterfaceDecided
<1> QED
  BY <1>2, <1>4, <1>6, ProviderStands, WorkerMoves

\* The status the table expects of an action.
LEMMA ExpectedStatus ==
    /\ \A a \in Completions : expected_result_status(a) = "succeeded"
    /\ \A a \in Waits : expected_result_status(a) = "waiting"
    /\ expected_result_status("rework") = "failed"
    /\ expected_result_status("stop") = "blocked"
<1> USE DEF expected_result_status, Completions, Waits
<1>1. \A a \in Completions : expected_result_status(a) = "succeeded"
  OBVIOUS
<1>2. \A a \in Waits : expected_result_status(a) = "waiting"
  OBVIOUS
<1>3. expected_result_status("rework") = "failed" /\ expected_result_status("stop") = "blocked"
  OBVIOUS
<1> QED BY <1>1, <1>2, <1>3

\* A result that fits stage s.
Fits(s, x) ==
    x.action \in FLOW_TRANSITIONS[s] /\ x.status = expected_result_status(x.action)

\* The results stages end with.
LEMMA StageResults ==
    ASSUME NEW s \in Stages, NEW p, NEW b
    PROVE  /\ Fits(s, Result("blocked", "stop", p, b))
           /\ s # "release" => Fits(s, Result("failed", "rework", p, b))
           /\ s \in {"specification", "planning", "construction"}
                => Fits(s, Result("succeeded", "execute_stage", p, b))
           /\ s = "specification" => Fits(s, Result("succeeded", "phase_round", p, b))
           /\ s = "review_verification" => Fits(s, Result("succeeded", "merge", p, b))
           /\ s = "release" => Fits(s, Result("succeeded", "release", p, b))
           /\ s \in {"planning", "construction", "review_verification", "release"}
                => Fits(s, Result("waiting", "wait_for_ci", p, b))
           /\ s # "release" => Fits(s, Result("waiting", "wait_for_input", p, b))
<1>1. /\ {"execute_stage", "phase_round", "merge", "release"} \subseteq Completions
      /\ {"wait_for_ci", "wait_for_input"} \subseteq Waits
  BY DEF Completions, Waits
<1>2. /\ \A a \in {"execute_stage", "phase_round", "merge", "release"} :
            expected_result_status(a) = "succeeded"
      /\ \A a \in {"wait_for_ci", "wait_for_input"} : expected_result_status(a) = "waiting"
  BY <1>1, ExpectedStatus
<1>3. /\ "stop" \in FLOW_TRANSITIONS[s]
      /\ s # "release" => {"rework", "wait_for_input"} \subseteq FLOW_TRANSITIONS[s]
      /\ s \in {"specification", "planning", "construction"}
            => "execute_stage" \in FLOW_TRANSITIONS[s]
      /\ s = "specification" => "phase_round" \in FLOW_TRANSITIONS[s]
      /\ s = "review_verification" => "merge" \in FLOW_TRANSITIONS[s]
      /\ s = "release" => "release" \in FLOW_TRANSITIONS[s]
      /\ s \in {"planning", "construction", "review_verification", "release"}
            => "wait_for_ci" \in FLOW_TRANSITIONS[s]
  BY DEF FLOW_TRANSITIONS, Stages
<1> QED
  BY <1>2, <1>3, ExpectedStatus DEF Fits, Result

\* What resolves a wait fits the table, and a merge is resolved from what is observed.
LEMMA ResolutionFits ==
    ASSUME IInv, NEW s \in Stages, NEW c \in Results \union {NoResult}
    PROVE  LET r == WaitResolution(s, c)
           IN /\ Fits(s, r.result)
              /\ r.result.action = "merge" =>
                    /\ request = "merged"
                    /\ "verification" \in r.passed => verdict = "success"
                    /\ r.authorized => review \in {"approved", "retracted"}
              /\ "ui" \in r.approved => InterfaceDecided
<1> DEFINE r == WaitResolution(s, c)
           phase == WaitPhase(s, c)
<1>1. phase # "none" => s = "specification"
  BY DEF WaitPhase
<1> HIDE DEF phase
<1> USE DEF Resolution
<1> DEFINE Good(x) == Fits(s, x.result) /\ x.result.action # "merge"
<1>2. ASSUME NEW status, NEW action, NEW p, NEW b, action # "merge",
             Fits(s, Result(status, action, p, b)), NEW passed
      PROVE  Good(Resolution(Result(status, action, p, b), passed))
  BY <1>2 DEF Result
<1>3. CASE s = "release"
  <2>1. r.result = build_release_resolution.result /\ r.approved = {}
    BY <1>3 DEF WaitResolution, ReleaseWaitResolver
  <2>2. Good(build_release_resolution)
    BY <1>2, <1>3, StageResults DEF build_release_resolution
  <2> QED BY <2>1, <2>2
<1>4. CASE s # "release"
  <2>1. /\ r.result = build_gate_resolution(s, phase).result
        /\ r.passed = build_gate_resolution(s, phase).passed
        /\ r.approved = ApprovedGates(s) /\ r.authorized = MergeAuthorized
    BY <1>4 DEF WaitResolution, GateWaitResolver, phase
  <2>2. "ui" \in ApprovedGates(s) => InterfaceDecided
    <3>1. ReviewGate(s, Risk) # "ui"
      BY DEF ReviewGate, Stages
    <3>2. SUFFICES ASSUME NEW d \in decisions, d[2] = ObservedHead, PHASE_GATE[d[1]] = "ui"
                   PROVE  InterfaceDecided
      BY <3>1 DEF ApprovedGates
    <3>3. d \in ConsolePhases \X (Revisions \union {Waiver}) /\ ConsolePhases \subseteq Phases
      BY DriverAssumption DEF IInv, TypeOK
    <3>4. d[1] = "interface"
      <4>1. \A p \in Phases : PHASE_GATE[p] = "ui" => p = "interface"
        BY DEF PHASE_GATE, Phases, DesignPhases
      <4>2. d[1] \in Phases
        BY <3>3
      <4> QED BY <3>2, <4>1, <4>2
    <3>5. d[2] \in Revisions
      BY <3>2, <3>3, DriverAssumption
         DEF IInv, TypeOK, ObservedHead, Revisions, NoRevision, Waiver
    <3> QED BY <3>3, <3>4, <3>5 DEF InterfaceDecided
  <2>3. CASE s = "review_verification"
    <3>1. build_gate_resolution(s, phase) = resolve_review
      BY <2>3 DEF build_gate_resolution
    <3>2. CASE request = "merged"
      <4>1. resolve_review = Resolution(Result("succeeded", "merge", "none", FALSE),
                {"review"} \union
                (IF verdict = "success" THEN MachineGates("review_verification", Risk) ELSE {}))
        BY <3>2 DEF resolve_review
      <4>2. Fits(s, resolve_review.result)
        BY <2>3, <4>1, StageResults
      <4>3. "verification" \in resolve_review.passed => verdict = "success"
        BY <4>1
      <4> QED BY <2>1, <2>2, <3>1, <3>2, <4>2, <4>3 DEF MergeAuthorized
    <3>3. CASE request # "merged"
      <4>1. Good(resolve_review)
        BY <1>2, <1>4, <3>3, StageResults DEF resolve_review
      <4> QED BY <2>1, <2>2, <3>1, <4>1
    <3> QED BY <3>2, <3>3
  <2>4. CASE s # "review_verification"
    <3>1. s \in {"specification", "planning", "construction"}
      BY <1>4, <2>4 DEF Stages
    <3>2. Good(resolve_machine_gated(s))
      BY <1>2, <1>4, <3>1, StageResults DEF resolve_machine_gated
    <3>3. Good(resolve_rework_order(s, phase))
      <4>1. /\ Good(Resolution(Result("blocked", "stop", phase, FALSE), {}))
            /\ Good(Resolution(Result("failed", "rework", phase, FALSE), {}))
        BY <1>2, <1>4, StageResults
      <4> QED BY <4>1 DEF resolve_rework_order
    <3>4. phase # "none" => Good(Resolution(Result("succeeded", "phase_round", phase, FALSE), {}))
      BY <1>1, <1>2, StageResults
    <3>5. Good(Resolution(Result("succeeded", "execute_stage", phase, FALSE),
                          required_human_gates(s, Risk)))
      BY <1>2, <3>1, StageResults
    <3>6. Good(resolve_human_gated(s, phase))
      BY <3>3, <3>4, <3>5 DEF resolve_human_gated
    <3> QED BY <2>1, <2>2, <2>4, <3>2, <3>6 DEF build_gate_resolution
  <2> QED BY <2>3, <2>4
<1> QED BY <1>3, <1>4

\* Resuming a wait.
LEMMA ResumeRows ==
    ASSUME IInv, IInv', RInv, NEW w \in Workers, Resume(w)
    PROVE  RInv'
<1>1. PICK o \in Operations :
        LET n == attempt_number(o)
            c == committed_result(o, n)
            r == WaitResolution(o[1], c)
        IN /\ IsNext(o)
           /\ c # NoResult
           /\ IF ResolutionRaises(o[1], c)
                THEN Leave(w) /\ UNCHANGED lease
                ELSE /\ work' = [work EXCEPT ![w] =
                            [phase |-> work[w].phase, op |-> o, attempt |-> n,
                             contract |-> contract, result |-> r.result, passed |-> r.passed,
                             approved |-> r.approved, authorized |-> r.authorized]]
                     /\ pc' = [pc EXCEPT ![w] = "deciding"]
                     /\ lease' = w
  BY DEF Resume
<1> DEFINE n == attempt_number(o)
           c == committed_result(o, n)
           r == WaitResolution(o[1], c)
<1>2. /\ n \in 1 .. MaxAttempts
      /\ ~ Replays(o)
      /\ c = results[<<o, n>>]
      /\ c \in Results \union {NoResult}
  BY <1>1, NextAttempt DEF Resume, IInv
<1>3. c.status = "waiting"
  BY <1>1, <1>2 DEF Replays, resolved_wait
<1>4. UNCHANGED <<store, contract, console, provider>>
  BY DEF Resume
<1>5. CASE ResolutionRaises(o[1], c)
  BY <1>1, <1>4, <1>5, LeaveRows
<1>6. CASE ~ ResolutionRaises(o[1], c)
  <2>1. /\ Fits(o[1], r.result)
        /\ r.result.action = "merge" =>
              /\ request = "merged"
              /\ "verification" \in r.passed => verdict = "success"
              /\ r.authorized => review \in {"approved", "retracted"}
        /\ "ui" \in r.approved => InterfaceDecided
    <3>1. o[1] \in Stages
      BY DEF Operations
    <3> QED BY <1>2, <3>1, ResolutionFits
  <2>2. Writes(o[1]) => published[o] # NoRevision
    BY <1>2, <1>3 DEF RInv, CommitsFirst
  <2>3. /\ IsNext(o) /\ pc' = [pc EXCEPT ![w] = "deciding"]
        /\ work' = [work EXCEPT ![w] =
              [phase |-> work[w].phase, op |-> o, attempt |-> n,
               contract |-> contract, result |-> r.result, passed |-> r.passed,
               approved |-> r.approved, authorized |-> r.authorized]]
    BY <1>1, <1>6
  <2> HIDE DEF n, c, r
  <2>4. /\ pc'[w] = "deciding" /\ work'[w].op = o /\ work'[w].contract = contract
        /\ work'[w].result = r.result /\ work'[w].passed = r.passed
        /\ work'[w].approved = r.approved /\ work'[w].authorized = r.authorized
    BY <2>3 DEF IInv, TypeOK
  <2>5. \A v \in Workers \ {w} : pc'[v] = pc[v] /\ work'[v] = work[v]
    BY <2>3 DEF IInv, TypeOK
  <2>6. /\ UNCHANGED <<row, runStatus, results, contract, decisions, published>>
        /\ UNCHANGED <<request, verdict, review>>
    BY <1>4 DEF store, console, provider, branch, pull
  <2>7. IsNext(o)' /\ (InterfaceDecided => InterfaceDecided')
    BY <2>3, <2>6 DEF IsNext, Active, InterfaceDecided
  <2>8. FitsTable(work[w])' /\ Observed(work[w])'
    BY <2>1, <2>4, <2>6 DEF FitsTable, Fits, Observed
  <2>9. WorkFits(w)'
    BY <2>1, <2>2, <2>4, <2>6, <2>7, <2>8 DEF RInv, WorkFits
  <2> QED
    BY <1>4, <2>5, <2>6, <2>9, ProviderStands, WorkerMoves
<1> QED
  BY <1>5, <1>6

\* The executor hands over a result that fits its stage and merges nothing.
LEMMA ReportFits ==
    ASSUME IInv, RInv, NEW w \in Workers, NEW result \in Results,
           pc[w] \in {"executing", "published"}, Report(w, result),
           Fits(work[w].op[1], result), result.action # "merge",
           result.status # "succeeded",
           result.status = "waiting" /\ Writes(work[w].op[1])
                => published[work[w].op] # NoRevision,
           UNCHANGED <<row, contract, decisions, published>>
    PROVE  /\ WorkFits(w)'
           /\ \A v \in Workers \ {w} : pc'[v] = pc[v] /\ work'[v] = work[v]
<1>1. /\ pc' = [pc EXCEPT ![w] = "deciding"]
      /\ work' = [work EXCEPT ![w].result = result]
  BY DEF Report
<1>2. /\ pc'[w] = "deciding" /\ work'[w].op = work[w].op /\ work'[w].result = result
      /\ work'[w].contract = work[w].contract /\ work'[w].approved = work[w].approved
  BY <1>1 DEF IInv, TypeOK, Work
<1>3. \A v \in Workers \ {w} : pc'[v] = pc[v] /\ work'[v] = work[v]
  BY <1>1 DEF IInv, TypeOK
<1>4. IsNext(work[w].op) /\ (StartsWithContract => work[w].contract)
      /\ ("ui" \in work[w].approved => InterfaceDecided)
  BY DEF RInv, WorkFits, Holding
<1>5. IsNext(work[w].op)'
  BY <1>2, <1>4 DEF IsNext, Active
<1>6. InterfaceDecided' = InterfaceDecided
  BY DEF InterfaceDecided
<1>7. FitsTable(work[w])' /\ Observed(work[w])'
  BY <1>2 DEF FitsTable, Fits, Observed
<1> QED
  BY <1>2, <1>3, <1>4, <1>5, <1>6, <1>7 DEF WorkFits

\* A failed execution stops its stage.
LEMMA Execution_failsRows ==
    ASSUME IInv, IInv', RInv, NEW w \in Workers, Execution_fails(w)
    PROVE  RInv'
<1> DEFINE result == Result("blocked", "stop", work[w].phase, FALSE)
<1>1. work[w].op[1] \in Stages /\ work[w].phase \in Phases \union {"none"}
  BY DEF IInv, TypeOK, Work, Operations
<1>2. result \in Results /\ result.action = "stop" /\ result.status = "blocked"
  BY <1>1 DEF Result, Results, Actions
<1>3. Fits(work[w].op[1], result)
  BY <1>1, StageResults
<1> HIDE DEF result
<1>4. /\ pc[w] \in {"executing", "published"} /\ Report(w, result)
      /\ UNCHANGED <<row, runStatus, results, contract, decisions, provider, published>>
  BY DEF Execution_fails, store, console, provider, branch, result
<1>5. /\ WorkFits(w)'
      /\ \A v \in Workers \ {w} : pc'[v] = pc[v] /\ work'[v] = work[v]
  BY <1>2, <1>3, <1>4, ReportFits
<1> QED
  BY <1>4, <1>5, ProviderStands, WorkerMoves

\* The specification has no machine gates.
LEMMA SpecificationIsHuman ==
    ASSUME NEW risk PROVE MachineGates("specification", risk) = {}
<1>1. required_gates("specification") \subseteq {"specification", "ui"}
  BY DEF required_gates
<1>2. required_gates("specification") \subseteq required_human_gates("specification", risk)
  BY <1>1 DEF required_human_gates
<1> QED BY <1>2 DEF MachineGates

\* The wait of an executed stage fits it.
LEMMA WaitingFits ==
    ASSUME NEW k \in Work
    PROVE  /\ Waiting(k) \in Results /\ Waiting(k).status = "waiting"
           /\ Waiting(k).action # "merge" /\ Fits(k.op[1], Waiting(k))
<1>1. k.op[1] \in Stages
  BY DEF Work, Operations
<1>2. /\ Waiting(k) \in Results /\ Waiting(k).status = "waiting" /\ Waiting(k).action # "merge"
  BY WaitingType DEF Waiting, Result
<1>3. CASE k.op[1] = "specification"
  <2>1. Waiting(k) = Result("waiting", "wait_for_input", k.phase, FALSE)
    BY <1>3, SpecificationIsHuman DEF Waiting
  <2> QED BY <1>1, <1>2, <1>3, <2>1, StageResults
<1>4. CASE k.op[1] = "release"
  <2>1. Waiting(k) = Result("waiting", "wait_for_ci", k.phase, FALSE)
    BY <1>4 DEF Waiting
  <2> QED BY <1>1, <1>2, <1>4, <2>1, StageResults
<1>5. CASE k.op[1] \notin {"specification", "release"}
  <2>1. \/ Waiting(k) = Result("waiting", "wait_for_input", k.phase, FALSE)
        \/ Waiting(k) = Result("waiting", "wait_for_ci", k.phase, FALSE)
    BY DEF Waiting
  <2>2. k.op[1] \in {"planning", "construction", "review_verification"}
    BY <1>1, <1>5 DEF Stages
  <2> QED BY <1>1, <1>2, <2>1, <2>2, StageResults
<1> QED BY <1>3, <1>4, <1>5

\* Review and release park.
LEMMA Execute_otherRows ==
    ASSUME IInv, IInv', RInv, NEW w \in Workers, Execute_other(w)
    PROVE  RInv'
<1>1. /\ Waiting(work[w]) \in Results /\ Waiting(work[w]).status = "waiting"
      /\ Waiting(work[w]).action # "merge" /\ Fits(work[w].op[1], Waiting(work[w]))
  BY WaitingFits DEF IInv, TypeOK
<1>2. /\ pc[w] = "executing" /\ Report(w, Waiting(work[w])) /\ ~ Writes(work[w].op[1])
      /\ UNCHANGED <<row, runStatus, results, contract, decisions, provider, published>>
  BY DEF Execute_other, store, console, provider, branch
<1>3. /\ WorkFits(w)'
      /\ \A v \in Workers \ {w} : pc'[v] = pc[v] /\ work'[v] = work[v]
  BY <1>1, <1>2, ReportFits
<1> QED
  BY <1>2, <1>3, ProviderStands, WorkerMoves

\* A writing stage parks on the open request: it is not yet at its release.
LEMMA Open_requestRows ==
    ASSUME IInv, IInv', RInv, NEW w \in Workers, Open_request(w)
    PROVE  RInv'
<1>1. /\ Waiting(work[w]) \in Results /\ Waiting(work[w]).status = "waiting"
      /\ Waiting(work[w]).action # "merge" /\ Fits(work[w].op[1], Waiting(work[w]))
  BY WaitingFits DEF IInv, TypeOK
<1>2. /\ pc[w] = "published" /\ Report(w, Waiting(work[w]))
      /\ UNCHANGED <<row, runStatus, results, contract, decisions, head, published>>
  BY DEF Open_request, store, console, branch
<1>3. /\ Writes(work[w].op[1]) /\ published[work[w].op] # NoRevision
      /\ lease = w /\ row[work[w].op] \in StageActive /\ work[w].op \in Operations
  BY <1>2 DEF RInv, WorkFits, IInv, LeaseIsHeld, WorkIsLive, Holding, TypeOK, Work
<1>4. /\ WorkFits(w)'
      /\ \A v \in Workers \ {w} : pc'[v] = pc[v] /\ work'[v] = work[v]
  BY <1>1, <1>2, <1>3, ReportFits
<1>5. BranchGrows
  BY <1>2, DriverAssumption DEF BranchGrows, IInv, TypeOK, Revisions
<1>6. \A v \in Workers \ {w} : pc[v] \notin Holding
  BY <1>3 DEF IInv, LeaseIsHeld
<1>7. \A v \in Workers : WorkFits(v)'
  BY <1>2, <1>4, <1>5, <1>6, WorkStands
<1>8. ReleaseIsAuthorized'
  <2>1. ~ \E r \in Revisions : row[<<"review_verification", r>>] = "succeeded"
    BY <1>3 DEF RInv, RowsFit, ReviewIsLast, Writes
  <2>2. ~ \E r \in Revisions : row[<<"release", r>>] # "absent"
    BY <2>1 DEF IInv, StageOrder, Stages, Predecessor
  <2> QED BY <1>2, <2>2 DEF ReleaseIsAuthorized
<1> QED
  BY <1>2, <1>5, <1>7, <1>8, Steady

\* The branch grows past the operation that publishes.
LEMMA Publish_commitRows ==
    ASSUME IInv, IInv', RInv, NEW w \in Workers, Publish_commit(w)
    PROVE  RInv'
<1> DEFINE o == work[w].op
<1>1. /\ pc[w] = "executing" /\ Writes(o[1]) /\ o \in Operations
      /\ pc' = [pc EXCEPT ![w] = "published"]
      /\ UNCHANGED <<row, runStatus, results, contract, decisions, work, request>>
  BY DEF Publish_commit, store, console, IInv, TypeOK, Work
<1>2. row[o] \in StageActive /\ o[2] \in Int /\ o[2] <= head /\ head \in Revisions
  <2>1. row[o] \in StageActive
    BY <1>1 DEF IInv, WorkIsLive, Holding
  <2>2. row[o] # "absent"
    BY <2>1 DEF StageActive, StageStatus
  <2> QED BY <1>1, <2>1, <2>2, DriverAssumption
             DEF RInv, RowsAreBehind, Operations, Revisions, IInv, TypeOK
<1>3. \/ UNCHANGED <<head, published, verdict, review>> /\ published[o] # NoRevision
      \/ /\ head' = head + 1 /\ published' = [published EXCEPT ![o] = head + 1]
         /\ NewHead
  BY DEF Publish_commit, branch
<1>4. BranchGrows /\ published'[o] # NoRevision
  <2>1. head \in Int /\ head >= 0
    BY <1>2, DriverAssumption DEF Revisions
  <2>2. CASE UNCHANGED <<head, published>> /\ published[o] # NoRevision
    BY <2>1, <2>2 DEF BranchGrows
  <2>3. CASE head' = head + 1 /\ published' = [published EXCEPT ![o] = head + 1]
    <3>1. published \in [Operations -> Revisions \union {NoRevision}]
      BY DEF IInv, TypeOK
    <3>2. published'[o] = head + 1 /\ \A q \in Operations : q # o => published'[q] = published[q]
      BY <1>1, <2>3, <3>1
    <3>3. head + 1 # NoRevision /\ o[2] < head' /\ head <= head'
      BY <1>2, <2>1, <2>3 DEF NoRevision
    <3> QED BY <3>2, <3>3 DEF BranchGrows
  <2> QED BY <1>3, <2>2, <2>3
<1>5. MergeStands
  BY <1>1, <1>3 DEF MergeStands, NewHead
<1>6. pc'[w] = "published" /\ \A v \in Workers \ {w} : pc'[v] = pc[v] /\ work'[v] = work[v]
  BY <1>1 DEF IInv, TypeOK
<1>7. WorkFits(w)'
  <2>1. IsNext(o) /\ (StartsWithContract => work[w].contract)
        /\ ("ui" \in work[w].approved => InterfaceDecided)
    BY <1>1 DEF RInv, WorkFits, Holding
  <2>2. IsNext(o)' /\ (InterfaceDecided => InterfaceDecided')
    BY <1>1, <2>1 DEF IsNext, Active, InterfaceDecided
  <2> QED BY <1>1, <1>4, <1>6, <2>1, <2>2 DEF WorkFits
<1> QED
  BY <1>1, <1>4, <1>5, <1>6, <1>7, WorkerMoves

\* The world around the advances moves.
LEMMA WorldMoves ==
    ASSUME IInv, IInv', RInv, UNCHANGED <<row, runStatus, results, pc, work>>,
           contract => contract', decisions \subseteq decisions', BranchGrows, MergeStands
    PROVE  RInv'
<1>1. \A v \in Workers : WorkFits(v)'
  BY WorkStands
<1>2. ReleaseIsAuthorized'
  BY ReleaseStands
<1> QED
  BY <1>1, <1>2, Steady

LEMMA OperatorRows ==
    ASSUME IInv, IInv', RInv, Operator, ~ withdraw_run
    PROVE  RInv'
<1>1. CASE attach_contract
  BY <1>1, ProviderStands, WorldMoves DEF attach_contract, store, console, workers
<1>2. ASSUME NEW p \in ConsolePhases, Approve_phase(p) PROVE RInv'
  <2>1. UNCHANGED <<store, contract, provider, workers>> /\ decisions \subseteq decisions'
    BY <1>2 DEF Approve_phase
  <2> QED BY <2>1, ProviderStands, WorldMoves DEF store, workers
<1>3. ASSUME NEW p \in ConsolePhases, Waive_phase(p) PROVE RInv'
  <2>1. UNCHANGED <<store, contract, provider, workers>> /\ decisions \subseteq decisions'
    BY <1>3 DEF Waive_phase
  <2> QED BY <2>1, ProviderStands, WorldMoves DEF store, workers
<1>4. ASSUME NEW p \in ConsolePhases, issue_rework_order(p) PROVE RInv'
  BY <1>4, ProviderStands, WorldMoves DEF issue_rework_order, store, workers
<1> QED
  BY <1>1, <1>2, <1>3, <1>4 DEF Operator

LEMMA ProviderRows ==
    ASSUME IInv, IInv', RInv, Provider
    PROVE  RInv'
<1>1. /\ UNCHANGED <<row, runStatus, results, pc, work, contract, decisions>>
      /\ MergeStands /\ published' = published /\ (head' = head \/ head' = head + 1)
  <2>1. ASSUME NEW v \in {"success", "failure"}, Pipeline_ends(v)
        PROVE  /\ UNCHANGED <<row, runStatus, results, pc, work, contract, decisions>>
               /\ MergeStands /\ published' = published /\ head' = head
    BY <2>1 DEF Pipeline_ends, MergeStands, store, console, branch, workers
  <2>2. ASSUME NEW approves \in BOOLEAN, Submit_review(approves)
        PROVE  /\ UNCHANGED <<row, runStatus, results, pc, work, contract, decisions>>
               /\ MergeStands /\ published' = published /\ head' = head
    BY <2>2 DEF Submit_review, MergeStands, store, console, branch, workers
  <2>3. CASE Merge_request
    BY <2>3 DEF Merge_request, MergeStands, store, console, branch, workers
  <2>4. CASE Push
    BY <2>4 DEF Push, NewHead, MergeStands, store, console, workers
  <2>5. ASSUME NEW v \in {"released", "failed"}, Rollout_ends(v)
        PROVE  /\ UNCHANGED <<row, runStatus, results, pc, work, contract, decisions>>
               /\ MergeStands /\ published' = published /\ head' = head
    BY <2>5 DEF Rollout_ends, MergeStands, store, console, branch, pull, workers
  <2> QED
    BY <2>1, <2>2, <2>3, <2>4, <2>5 DEF Provider
<1>2. BranchGrows
  BY <1>1, DriverAssumption DEF BranchGrows, IInv, TypeOK, Revisions
<1> QED
  BY <1>1, <1>2, WorldMoves

(***************************************************************************)
(* Steps that write the rows                                               *)
(***************************************************************************)

\* The withdrawal finds no advance at work and leaves no row at work.
LEMMA withdraw_runRows ==
    ASSUME IInv, IInv', RInv, withdraw_run
    PROVE  RInv'
<1>1. /\ runStatus' = "canceled" /\ lease = "none"
      /\ row' = [o \in Operations |-> IF row[o] \in StageActive THEN "canceled" ELSE row[o]]
      /\ UNCHANGED <<contract, results, console, provider, workers>>
  BY DEF withdraw_run
<1>2. \A v \in Workers : pc[v] \notin Holding
  BY <1>1, DriverAssumption DEF IInv, LeaseIsHeld
<1>3. \A o \in Operations :
        /\ row'[o] \notin StageActive
        /\ row'[o] # "absent" <=> row[o] # "absent"
        /\ row'[o] = "succeeded" <=> row[o] = "succeeded"
  BY <1>1 DEF StageActive, StageStatus, StageTerminal
<1>4. runStatus' \in RunTerminal /\ runStatus' # "waiting"
  BY <1>1 DEF RunTerminal
<1>5. RowsFit'
  <2>1. RowsAreLive' /\ ReleaseIsLast' /\ ReviewIsLast'
    BY <1>3, <1>4 DEF RowsAreLive, ReleaseIsLast, ReviewIsLast
  <2>2. OneReview'
    <3>1. \A s \in {"review_verification", "release"}, q \in Revisions : <<s, q>> \in Operations
      BY DEF Operations, Stages
    <3> QED BY <1>3, <3>1 DEF OneReview
  <2>3. ActiveWhileOpen'
    BY <1>3, <1>4 DEF ActiveWhileOpen
  <2>4. \A o \in Operations : row'[o] # "waiting"
    BY <1>3 DEF StageActive, StageStatus, StageTerminal
  <2>5. ParkedWhileWaiting'
    BY <1>4, <2>4 DEF ParkedWhileWaiting
  <2> QED BY <2>1, <2>2, <2>3, <2>5 DEF RowsFit
<1>6. RowsAreBehind' /\ CommitsFirst'
  BY <1>1, <1>3 DEF RInv, RowsAreBehind, CommitsFirst, provider, branch
<1>7. \A v \in Workers : WorkFits(v)'
  <2>1. UNCHANGED <<pc, work, decisions>>
    BY <1>1 DEF workers, console
  <2> QED BY <1>2, <2>1 DEF RInv, WorkFits, Holding, InterfaceDecided
<1>8. (StartsWithContract => contract)'
  BY <1>1 DEF RInv
<1>9. ReleaseIsAuthorized' /\ InterfaceIsApproved'
  <2>1. \A s \in {"release", "planning"}, r \in Revisions : <<s, r>> \in Operations
    BY DEF Operations, Stages
  <2> QED BY <1>1, <1>3, <2>1 DEF RInv, ReleaseIsAuthorized, InterfaceIsApproved, Risk,
             provider, pull, console
<1> QED
  BY <1>5, <1>6, <1>7, <1>8, <1>9 DEF RInv

\* The decision d of an advance k is written.
Decides(k, d) ==
    /\ k \in Work /\ IsNext(k.op) /\ runStatus \notin RunTerminal
    /\ Shape(k, d)
    /\ Writes(k.op[1]) /\ k.result.status = "succeeded" => published[k.op] # NoRevision
    /\ row' = RowsAfter(k, d)
    /\ runStatus' = d.run

\* The row of the operation gets the status of the decision, and at most one row is new.
LEMMA RowEffect ==
    ASSUME NEW k, NEW d, Decides(k, d)
    PROVE  /\ k.op \in Operations /\ k.op[1] \in Stages /\ k.op[2] \in Revisions
           /\ k.op = <<k.op[1], k.op[2]>>
           /\ row[k.op] \in StageActive /\ row'[k.op] = d.stage
           /\ \A o \in Operations : o # k.op =>
                \/ row'[o] = row[o]
                \/ /\ row[o] = "absent" /\ row'[o] = "pending"
                   /\ o = <<d.enters, head>> /\ Creates(d)
<1>1. /\ k.op \in Operations /\ k.op[1] \in Stages /\ k.op[2] \in Revisions
      /\ k.op = <<k.op[1], k.op[2]>>
  BY DEF Decides, Work, Operations
<1>2. row[k.op] \in StageActive
  BY <1>1 DEF Decides, IsNext, Active
<1> QED
  BY <1>1, <1>2 DEF Decides, RowsAfter, Created, ScmRevision

\* Of a stage before the one in flight no row is at work.
LEMMA NothingBefore ==
    ASSUME NEW k, NEW d, Decides(k, d), NEW o \in Operations, row[o] \in StageActive
    PROVE  Position[k.op[1]] <= Position[o[1]]
<1>1. o[1] \in Stages /\ o[2] \in Revisions /\ o = <<o[1], o[2]>> /\ k.op[1] \in Stages
  BY RowEffect DEF Operations
<1>2. o[2] \in Active(o[1])
  BY <1>1 DEF Active
<1>3. ~ (Position[o[1]] < Position[k.op[1]])
  BY <1>1, <1>2 DEF Decides, IsNext
<1>4. Position[o[1]] \in Int /\ Position[k.op[1]] \in Int
  BY <1>1 DEF Position, Stages
<1> QED BY <1>3, <1>4

\* A decision that completes a stage leaves a row at work in the stage it enters: the row
\* at the head of the branch is new, because whatever succeeded there has published.
LEMMA EntersActive ==
    ASSUME IInv, RInv, NEW k, NEW d, Decides(k, d), k.result.status = "succeeded",
           Rounds(k, d) \/ Completes(k, d) \/ Merges(k, d)
    PROVE  \E o \in Operations : row'[o] \in StageActive
<1>1. /\ k.op \in Operations /\ k.op[1] \in Stages /\ k.op = <<k.op[1], k.op[2]>>
      /\ row[k.op] \in StageActive
      /\ \A o \in Operations : row[o] \in StageActive /\ o # k.op => row'[o] \in StageActive
  BY RowEffect DEF StageActive, StageStatus
<1>2. d.enters \in Stages /\ (d.enters = k.op[1] => Rounds(k, d))
  BY DEF Rounds, Completes, Merges, next_stage, Stages
<1>3. CASE ~ Creates(d)
  <2>1. d.enters # "none" /\ ~ d.anew
    BY <1>2, <1>3 DEF Creates, Stages
  <2>2. Active(d.enters) # {} /\ d.enters # k.op[1]
    BY <1>2, <1>3, <2>1 DEF Creates, Rounds
  <2>3. PICK r \in Revisions : row[<<d.enters, r>>] \in StageActive
    BY <2>2 DEF Active
  <2>4. <<d.enters, r>> \in Operations /\ <<d.enters, r>> # k.op
    BY <1>1, <1>2, <2>2, <2>3 DEF Operations
  <2> QED BY <1>1, <2>3, <2>4
<1>4. CASE Creates(d)
  <2> DEFINE o == <<d.enters, head>>
  <2>1. head \in Revisions /\ head \in Int /\ o \in Operations
    BY <1>2, DriverAssumption DEF IInv, TypeOK, Revisions, Operations
  <2>2. o # k.op
    <3>1. CASE d.enters # k.op[1]
      BY <1>1, <3>1
    <3>2. CASE d.enters = k.op[1]
      <4>1. published[k.op] # NoRevision
        BY <1>2, <3>2 DEF Decides, Rounds, Writes
      <4>2. k.op[2] < head
        BY <1>1, <4>1 DEF RInv, RowsAreBehind
      <4> QED BY <1>1, <2>1, <4>2
    <3> QED BY <3>1, <3>2
  <2>3. row[o] # "succeeded"
    <3> SUFFICES ASSUME row[o] = "succeeded" PROVE FALSE
      OBVIOUS
    <3>1. CASE Writes(d.enters)
      <4>1. published[o] # NoRevision
        BY <2>1, <3>1 DEF RInv, CommitsFirst
      <4>2. o[2] < head
        BY <2>1, <4>1 DEF RInv, RowsAreBehind
      <4> QED BY <2>1, <4>2
    <3>2. CASE d.enters = "review_verification"
      <4>1. k.op[1] # "release"
        BY DEF Rounds, Completes, Merges
      <4> QED BY <1>1, <2>1, <3>2, <4>1 DEF RInv, RowsFit, ReviewIsLast
    <3>3. CASE d.enters = "release"
      BY <2>1, <3>3 DEF RInv, RowsFit, ReleaseIsLast, Decides
    <3> QED BY <1>2, <3>1, <3>2, <3>3 DEF Stages, Writes
  <2>4. row[o] = "absent" \/ row[o] \in StageActive
    <3>1. row[o] \in {"absent", "pending", "waiting", "blocked", "failed", "succeeded"}
      BY <2>1 DEF RInv, RowsFit, RowsAreLive, Decides
    <3> QED BY <2>3, <3>1 DEF StageActive, StageStatus, StageTerminal
  <2>5. CASE row[o] \in StageActive
    BY <1>1, <2>1, <2>2, <2>5
  <2>6. CASE row[o] = "absent"
    <3>1. row'[o] = "pending"
      BY <1>4, <2>1, <2>2, <2>6 DEF Decides, RowsAfter, Created, ScmRevision
    <3> QED BY <2>1, <3>1 DEF StageActive, StageStatus, StageTerminal
  <2> QED BY <2>4, <2>5, <2>6
<1> QED BY <1>3, <1>4

\* Which stages a decision can add a row to without one at work there.
LEMMA CreatesAlone ==
    ASSUME NEW k, NEW d, Decides(k, d), Creates(d), d.enters \in {"review_verification", "release"}
    PROVE  Active(d.enters) = {} /\ d.enters # k.op[1]
<1>1. k.op[1] \in Stages
  BY RowEffect
<1>2. ~ d.anew /\ d.enters # k.op[1]
  <2>1. CASE Reworks(k, d)
    BY <1>1, <2>1 DEF Reworks, REWORK_TARGET, Stages
  <2>2. CASE Rounds(k, d)
    BY <2>2 DEF Rounds
  <2>3. CASE Completes(k, d)
    BY <2>3 DEF Completes, next_stage
  <2>4. CASE Merges(k, d)
    BY <2>4 DEF Merges
  <2>5. CASE d.enters = "none"
    BY <2>5
  <2> QED BY <2>1, <2>2, <2>3, <2>4, <2>5
             DEF Decides, Shape, Waits_on, Stops, Releases
<1> QED BY <1>2 DEF Creates

\* The status the decision gives the run fits the rows it leaves.
LEMMA DecisionFitsRows ==
    ASSUME IInv, RInv, NEW k, NEW d, Decides(k, d)
    PROVE  RowsFit'
<1>1. /\ k.op \in Operations /\ k.op[1] \in Stages /\ k.op[2] \in Revisions
      /\ k.op = <<k.op[1], k.op[2]>>
      /\ row[k.op] \in StageActive /\ row'[k.op] = d.stage
      /\ \A o \in Operations : o # k.op =>
           \/ row'[o] = row[o]
           \/ /\ row[o] = "absent" /\ row'[o] = "pending"
              /\ o = <<d.enters, head>> /\ Creates(d)
  BY RowEffect
<1>2. /\ Shape(k, d) /\ runStatus \notin RunTerminal /\ runStatus' = d.run /\ IsNext(k.op)
  BY DEF Decides
<1>3. /\ d.stage \in {"waiting", "blocked", "failed", "succeeded"}
      /\ d.run \in {"waiting", "blocked", "running", "succeeded"}
      /\ d.stage = "waiting" <=> d.run = "waiting"
      /\ d.stage = "waiting" => d.enters = "none"
      /\ d.run = "succeeded" => Releases(k, d)
      /\ d.stage = "succeeded" /\ d.run # "succeeded"
            => /\ k.result.status = "succeeded"
               /\ Rounds(k, d) \/ Completes(k, d) \/ Merges(k, d)
  BY <1>2 DEF Shape, Waits_on, Stops, Reworks, Rounds, Completes, Merges, Releases
<1>4. \A o \in Operations : row[o] \in {"absent", "pending", "waiting", "blocked", "failed",
                                        "succeeded"}
  BY <1>2 DEF RInv, RowsFit, RowsAreLive
<1>5. {"pending", "waiting", "blocked", "failed"} \subseteq StageActive
      /\ "succeeded" \notin StageActive /\ "absent" \notin StageActive
  BY DEF StageActive, StageStatus, StageTerminal
<1>6. RowsAreLive'
  BY <1>1, <1>3, <1>4 DEF RowsAreLive
<1>7. OneReview'
  <2> SUFFICES ASSUME NEW s \in {"review_verification", "release"},
                      NEW q \in Revisions, NEW r \in Revisions,
                      row'[<<s, q>>] \in StageActive, row'[<<s, r>>] \in StageActive
               PROVE  q = r
    BY DEF OneReview
  <2>1. <<s, q>> \in Operations /\ <<s, r>> \in Operations
    BY DEF Operations, Stages
  <2>2. CASE Creates(d) /\ d.enters = s
    <3>1. Active(s) = {} /\ s # k.op[1]
      BY <2>2, CreatesAlone
    <3>2. \A x \in Revisions : row[<<s, x>>] \notin StageActive
      BY <3>1 DEF Active
    <3>3. <<s, q>> = <<s, head>> /\ <<s, r>> = <<s, head>>
      BY <1>1, <2>1, <2>2, <3>1, <3>2
    <3> QED BY <3>3
  <2>3. CASE ~ (Creates(d) /\ d.enters = s)
    <3>1. row[<<s, q>>] \in StageActive /\ row[<<s, r>>] \in StageActive
      BY <1>1, <2>1, <2>3
    <3> QED BY <3>1 DEF RInv, RowsFit, OneReview
  <2> QED BY <2>2, <2>3
<1>8. ReviewIsLast'
  <2> SUFFICES ASSUME NEW r \in Revisions, row'[<<"review_verification", r>>] = "succeeded",
                      NEW o \in Operations, row'[o] \in StageActive
               PROVE  o[1] = "release"
    BY DEF ReviewIsLast
  <2>1. <<"review_verification", r>> \in Operations /\ o[1] \in Stages
    BY DEF Operations, Stages
  <2>2. CASE row[<<"review_verification", r>>] = "succeeded"
    <3>1. k.op[1] = "release"
      BY <1>1, <2>2 DEF RInv, RowsFit, ReviewIsLast
    <3>2. d.enters = "none"
      BY <1>2, <3>1 DEF Shape, Waits_on, Stops, Reworks, Rounds, Completes, Merges, Releases
    <3>3. o = k.op \/ row[o] \in StageActive
      BY <1>1, <3>2 DEF Creates
    <3> QED BY <2>2, <3>1, <3>3 DEF RInv, RowsFit, ReviewIsLast
  <2>3. CASE row[<<"review_verification", r>>] # "succeeded"
    <3>1. k.op = <<"review_verification", r>> /\ d.stage = "succeeded"
      BY <1>1, <2>1, <2>3
    <3>2. k.op[1] = "review_verification"
      BY <3>1
    <3>3. Merges(k, d)
      BY <1>2, <3>1, <3>2 DEF Shape, Waits_on, Stops, Reworks, Rounds, Completes, Merges, Releases
    <3>4. SUFFICES ASSUME o[1] # "release" PROVE FALSE
      OBVIOUS
    <3>5. o # k.op /\ row[o] \in StageActive
      <4>1. o # <<d.enters, head>>
        BY <3>3, <3>4 DEF Merges
      <4>2. o # k.op
        BY <1>1, <1>5, <3>1
      <4> QED BY <1>1, <4>1, <4>2
    <3>6. Position[k.op[1]] <= Position[o[1]]
      BY <3>5, NothingBefore
    <3>7. o[1] = "review_verification"
      BY <2>1, <3>2, <3>4, <3>6 DEF Position, Stages
    <3>8. o = <<"review_verification", o[2]>> /\ o[2] \in Revisions
      BY <3>7 DEF Operations
    <3>9. o[2] = r
      BY <1>1, <3>1, <3>5, <3>8 DEF RInv, RowsFit, OneReview
    <3> QED BY <3>1, <3>5, <3>8, <3>9
  <2> QED BY <2>2, <2>3
<1>9. ReleaseIsLast'
  <2> SUFFICES ASSUME NEW r \in Revisions, row'[<<"release", r>>] = "succeeded"
               PROVE  runStatus' \in RunTerminal
    BY DEF ReleaseIsLast
  <2>1. <<"release", r>> \in Operations /\ row[<<"release", r>>] # "succeeded"
    BY <1>2 DEF Operations, Stages, RInv, RowsFit, ReleaseIsLast
  <2>2. k.op = <<"release", r>> /\ d.stage = "succeeded"
    BY <1>1, <2>1
  <2>3. k.op[1] = "release"
    BY <2>2
  <2>4. Releases(k, d)
    BY <1>3, <2>2, <2>3 DEF Rounds, Completes, Merges
  <2> QED BY <1>2, <2>4 DEF Releases, RunTerminal
<1>10. ActiveWhileOpen'
  <2>1. CASE d.run = "succeeded"
    <3>1. Releases(k, d)
      BY <1>3, <2>1
    <3>2. ASSUME NEW o \in Operations, row'[o] \in StageActive PROVE FALSE
      <4>1. o # k.op /\ row[o] \in StageActive
        BY <1>1, <1>5, <3>1, <3>2 DEF Releases, Creates
      <4>2. Position[k.op[1]] <= Position[o[1]]
        BY <4>1, NothingBefore
      <4>3. o[1] = "release" /\ o = <<o[1], o[2]>> /\ o[2] \in Revisions
        BY <3>1, <4>2 DEF Releases, Position, Operations, Stages
      <4> QED BY <1>1, <3>1, <4>1, <4>3 DEF RInv, RowsFit, OneReview, Releases
    <3> QED BY <1>2, <2>1, <3>2 DEF ActiveWhileOpen, RunTerminal
  <2>2. CASE d.run # "succeeded"
    <3>1. runStatus' \notin RunTerminal
      BY <1>2, <1>3, <2>2 DEF RunTerminal
    <3>2. CASE d.stage = "succeeded"
      BY <1>3, <2>2, <3>1, <3>2, EntersActive DEF ActiveWhileOpen
    <3>3. CASE d.stage # "succeeded"
      BY <1>1, <1>3, <1>5, <3>1, <3>3 DEF ActiveWhileOpen
    <3> QED BY <3>2, <3>3
  <2> QED BY <2>1, <2>2
<1>11. ParkedWhileWaiting'
  <2>1. \A o \in Operations : row'[o] = "waiting" => o = k.op
    <3> SUFFICES ASSUME NEW o \in Operations, row'[o] = "waiting", o # k.op PROVE FALSE
      OBVIOUS
    <3>1. row[o] = "waiting"
      BY <1>1
    <3>2. IsNext(o)
      BY <3>1 DEF RInv, RowsFit, ParkedWhileWaiting
    <3> QED BY <1>1, <1>2, <3>2, NextIsUnique
  <2>2. CASE d.stage = "waiting"
    <3>1. \A o \in Operations : row'[o] \in StageActive <=> row[o] \in StageActive
      BY <1>1, <1>3, <1>5, <2>2 DEF Creates
    <3>2. \A s \in Stages : Active(s)' = Active(s)
      BY <3>1 DEF Active, Operations
    <3>3. IsNext(k.op)'
      BY <1>1, <1>2, <3>2 DEF IsNext
    <3> QED BY <1>1, <1>2, <1>3, <2>1, <2>2, <3>3 DEF ParkedWhileWaiting
  <2>3. CASE d.stage # "waiting"
    <3>1. \A o \in Operations : row'[o] # "waiting"
      BY <1>1, <2>1, <2>3
    <3> QED BY <1>2, <1>3, <2>3, <3>1 DEF ParkedWhileWaiting
  <2> QED BY <2>2, <2>3
<1> QED
  BY <1>6, <1>7, <1>8, <1>9, <1>10, <1>11 DEF RowsFit

\* Only a merge that was observed authorized enters the release.
LEMMA DecisionIsAuthorized ==
    ASSUME IInv, RInv, NEW k, NEW d, Decides(k, d), Observed(k),
           UNCHANGED <<request, verdict, review>>
    PROVE  ReleaseIsAuthorized'
<1> SUFFICES ASSUME NEW r \in Revisions, row'[<<"release", r>>] # "absent"
             PROVE  /\ request = "merged" /\ verdict = "success"
                    /\ review \in {"approved", "retracted"}
  BY DEF ReleaseIsAuthorized
<1>1. <<"release", r>> \in Operations
  BY DEF Operations, Stages
<1>2. CASE row[<<"release", r>>] # "absent"
  BY <1>2 DEF RInv, ReleaseIsAuthorized
<1>3. CASE row[<<"release", r>>] = "absent"
  <2>1. "absent" \notin StageActive
    BY DEF StageActive, StageStatus
  <2>2. <<"release", r>> = <<d.enters, head>> /\ Creates(d) /\ k.op[1] \in Stages
    BY <1>1, <1>3, <2>1, RowEffect
  <2>3. d.enters = "release"
    BY <2>2
  <2>4. Merges(k, d)
    BY <2>2, <2>3 DEF Decides, Shape, Waits_on, Stops, Reworks, Rounds, Completes, Releases,
       REWORK_TARGET, next_stage, Stages
  <2> QED BY <2>4 DEF Merges, Observed
<1> QED BY <1>2, <1>3

\* The table of the control points: at R2 and above an allowed specification has its
\* interface among them.
LEMMA InterfaceIsControlled ==
    ASSUME NEW risk \in Risks, risk >= 2, route_allows_risk(risk)
    PROVE  "ui" \in required_control_points("specification", risk)
<1>1. Route # "quick"
  BY DEF route_allows_risk, MaxRisk, Risks
<1>2. "ui" \in required_gates("specification")
  BY <1>1 DEF required_gates
<1>3. "ui" \in required_human_gates("specification", risk)
  BY <1>2 DEF required_human_gates
<1>4. "ui" \in ControlGates("specification")
  BY DEF ControlGates
<1> QED BY <1>3, <1>4 DEF required_control_points

\* Only a specification whose interface was decided enters planning.
LEMMA DecisionIsApproved ==
    ASSUME IInv, RInv, NEW k, NEW d, Decides(k, d), StartsWithContract => k.contract,
           "ui" \in k.approved => InterfaceDecided, UNCHANGED <<contract, decisions>>
    PROVE  InterfaceIsApproved'
<1> SUFFICES ASSUME StartsWithContract, Risk' >= 2,
                    NEW r \in Revisions, row'[<<"planning", r>>] # "absent"
             PROVE  InterfaceDecided
  BY DEF InterfaceIsApproved, InterfaceDecided
<1>1. /\ <<"planning", r>> \in Operations /\ contract /\ Risk' = Risk
      /\ "absent" \notin StageActive
  BY DEF Operations, Stages, RInv, Risk, StageActive, StageStatus
<1>2. CASE \E q \in Revisions : row[<<"planning", q>>] # "absent"
  BY <1>1, <1>2 DEF RInv, InterfaceIsApproved, InterfaceDecided
<1>3. CASE \A q \in Revisions : row[<<"planning", q>>] = "absent"
  <2>1. /\ k.op[1] \in Stages /\ k.op[1] # "planning"
        /\ <<"planning", r>> = <<d.enters, head>>
    BY <1>1, <1>3, RowEffect
  <2>2. d.enters = "planning"
    BY <2>1
  <2>3. Completes(k, d) /\ k.op[1] = "specification"
    BY <2>1, <2>2 DEF Decides, Shape, Waits_on, Stops, Reworks, Rounds, Completes, Merges,
       Releases, REWORK_TARGET, next_stage, Stages
  <2>4. WorkRisk(k) = Risk /\ Risk \in Risks
    <3>1. k.contract = TRUE /\ contract = TRUE
      BY <1>1 DEF Decides, Work, IInv, TypeOK
    <3>2. MinRisk[Route] \in Risks
      BY RouteAssumption DEF MinRisk, Routes, Risks
    <3> QED BY <3>1, <3>2, DriverAssumption DEF WorkRisk, Risk, effective_change_risk_class
  <2>5. route_allows_risk(Risk) /\ missing_control_points(k) = {}
    BY <1>1, <2>3, <2>4 DEF Completes, escalation_reason, risk_escalation_violation
  <2>6. "ui" \in required_control_points("specification", Risk)
    BY <1>1, <2>4, <2>5, InterfaceIsControlled
  <2> QED BY <2>3, <2>4, <2>5, <2>6 DEF missing_control_points
<1> QED BY <1>2, <1>3

\* The decision is written.
LEMMA CommitRows ==
    ASSUME IInv, IInv', RInv, NEW w \in Workers, Commit(w)
    PROVE  RInv'
<1> DEFINE k == work[w]
<1>1. /\ k \in Work /\ k.op \in Operations /\ k.op[1] \in Stages
      /\ k.attempt \in 1 .. MaxAttempts /\ k.authorized \in BOOLEAN
  BY DEF IInv, TypeOK, Work, Operations
<1>2. /\ pc[w] = "deciding" /\ lease = w /\ runStatus \notin RunTerminal
      /\ k.result \in Results /\ Records(k)
      /\ IsNext(k.op) /\ FitsTable(k) /\ Observed(k) /\ (StartsWithContract => k.contract)
      /\ Writes(k.op[1]) /\ k.result.status \in {"waiting", "succeeded"}
            => published[k.op] # NoRevision
      /\ "ui" \in k.approved => InterfaceDecided
  BY DEF Commit, IInv, LeaseIsHeld, WorkIsLive, WorkIsNew, Holding, RInv, WorkFits
<1>3. UNCHANGED <<contract, decisions, provider>> /\ Leave(w) /\ lease' = "none"
  BY DEF Commit
<1>4. PICK out : persist_decision(k, apply_result(k, out), out)
  BY <1>2 DEF Commit
<1> DEFINE d == apply_result(k, out)
<1>5. Shape(k, d)
  BY <1>1, <1>2, DecisionShape
<1> HIDE DEF k, d
<1>6. Decides(k, d)
  BY <1>1, <1>2, <1>4, <1>5 DEF Decides, persist_decision, d
<1>7. results' = [results EXCEPT ![<<k.op, k.attempt>>] = k.result]
  BY <1>4 DEF persist_decision
<1>8. RowsFit'
  BY <1>6, DecisionFitsRows
<1>9. /\ \A o \in Operations : row'[o] # "absent" => row[o] # "absent" \/ o[2] <= head
      /\ \A o \in Operations :
            row'[o] = "succeeded" => \/ row[o] = "succeeded"
                                     \/ o = k.op /\ k.result.status = "succeeded"
  <2>1. d.stage = "succeeded" => k.result.status = "succeeded"
    BY <1>5 DEF Shape, Waits_on, Stops, Reworks
  <2>2. /\ row[k.op] # "absent" /\ row'[k.op] = d.stage
        /\ \A o \in Operations : o # k.op =>
           \/ row'[o] = row[o]
           \/ row'[o] = "pending" /\ o = <<d.enters, head>>
    BY <1>6, RowEffect DEF StageActive, StageStatus
  <2>3. head \in Int
    BY DriverAssumption DEF IInv, TypeOK, Revisions
  <2> QED BY <2>1, <2>2, <2>3
<1>10. RowsAreBehind'
  BY <1>3, <1>9 DEF RInv, RowsAreBehind, provider, branch
<1>11. CommitsFirst'
  <2> SUFFICES ASSUME NEW o \in Operations, Writes(o[1])
               PROVE  /\ row'[o] = "succeeded" => published'[o] # NoRevision
                      /\ \A n \in 1 .. MaxAttempts :
                            results'[<<o, n>>].status = "waiting" => published'[o] # NoRevision
    BY DEF CommitsFirst
  <2>1. published' = published
    BY <1>3 DEF provider, branch
  <2>2. row'[o] = "succeeded" => published[o] # NoRevision
    BY <1>2, <1>9 DEF RInv, CommitsFirst
  <2>3. ASSUME NEW n \in 1 .. MaxAttempts, results'[<<o, n>>].status = "waiting"
        PROVE  published[o] # NoRevision
    <3>1. <<o, n>> \in Attempts
      BY DEF Attempts
    <3>2. CASE <<o, n>> = <<k.op, k.attempt>>
      <4>1. results'[<<o, n>>] = k.result /\ o = k.op
        BY <1>7, <3>1, <3>2 DEF IInv, TypeOK
      <4> QED BY <1>2, <2>3, <4>1
    <3>3. CASE <<o, n>> # <<k.op, k.attempt>>
      <4>1. results'[<<o, n>>] = results[<<o, n>>]
        BY <1>7, <3>1, <3>3 DEF IInv, TypeOK
      <4> QED BY <2>3, <4>1 DEF RInv, CommitsFirst
    <3> QED BY <3>2, <3>3
  <2> QED BY <2>1, <2>2, <2>3
<1>12. \A v \in Workers : WorkFits(v)'
  <2>1. work'[w] = Idle /\ \A v \in Workers \ {w} : work'[v] = work[v]
    BY <1>3 DEF Leave, IInv, TypeOK
  <2>2. \A v \in Workers : pc'[v] \notin Holding
    BY <1>3, DriverAssumption DEF IInv, LeaseIsHeld
  <2>3. InterfaceDecided' = InterfaceDecided
    BY <1>3 DEF InterfaceDecided
  <2> QED BY <2>1, <2>2, <2>3 DEF RInv, WorkFits, Holding, Idle
<1>13. ReleaseIsAuthorized'
  <2>1. UNCHANGED <<request, verdict, review>>
    BY <1>3 DEF provider, pull
  <2> QED BY <1>2, <1>6, <2>1, DecisionIsAuthorized
<1>14. InterfaceIsApproved'
  BY <1>2, <1>3, <1>6, DecisionIsApproved
<1> QED
  BY <1>3, <1>8, <1>10, <1>11, <1>12, <1>13, <1>14 DEF RInv

(***************************************************************************)
(* The theorems                                                            *)
(***************************************************************************)

\* create_run establishes the invariant.
LEMMA StartsRows == ASSUME Init PROVE RInv
<1>1. /\ runStatus = "pending" /\ head = 0 /\ decisions = {}
      /\ row = [o \in Operations |-> IF o = <<"specification", 0>> THEN "pending" ELSE "absent"]
      /\ published = [o \in Operations |-> NoRevision]
      /\ results = [a \in Attempts |-> NoResult]
      /\ pc = [w \in Workers |-> "idle"] /\ work = [w \in Workers |-> Idle]
      /\ contract = StartsWithContract
  BY DEF Init
<1>2. <<"specification", 0>> \in Operations
  BY DriverAssumption DEF Operations, Stages, Revisions
<1>3. \A o \in Operations : row[o] # "absent" => o = <<"specification", 0>> /\ row[o] = "pending"
  BY <1>1
<1>4. \A s \in Stages, r \in Revisions : row[<<s, r>>] # "absent"
        => s = "specification" /\ row[<<s, r>>] = "pending"
  BY <1>3 DEF Operations
<1>5. RowsFit
  <2>1. RowsAreLive /\ ParkedWhileWaiting
    BY <1>1, <1>3 DEF RowsAreLive, ParkedWhileWaiting
  <2>2. OneReview /\ ReviewIsLast /\ ReleaseIsLast
    BY <1>4 DEF OneReview, ReviewIsLast, ReleaseIsLast, Stages, StageActive, StageStatus
  <2>3. ActiveWhileOpen
    BY <1>1, <1>2 DEF ActiveWhileOpen, RunTerminal, StageActive, StageStatus, StageTerminal
  <2> QED BY <2>1, <2>2, <2>3 DEF RowsFit
<1>6. RowsAreBehind
  BY <1>1, <1>3 DEF RowsAreBehind
<1>7. CommitsFirst
  <2>1. \A o \in Operations, n \in 1 .. MaxAttempts : results[<<o, n>>].status # "waiting"
    BY <1>1 DEF Attempts, NoResult
  <2> QED BY <1>3, <2>1 DEF CommitsFirst
<1>8. \A w \in Workers : WorkFits(w)
  BY <1>1 DEF WorkFits, Holding, Idle
<1>9. ReleaseIsAuthorized /\ InterfaceIsApproved
  BY <1>4 DEF ReleaseIsAuthorized, InterfaceIsApproved, Stages
<1> QED BY <1>1, <1>5, <1>6, <1>7, <1>8, <1>9 DEF RInv

\* Every step keeps it.
LEMMA KeepsRows == ASSUME IInv, IInv', RInv, [Next]_vars PROVE RInv'
<1>1. ASSUME NEW w \in Workers, Advance(w) PROVE RInv'
  <2>1. CASE Give_up(w)
    BY <2>1, LeaveRows DEF Give_up
  <2> QED
    BY <1>1, <2>1, EnterRows, ResumeRows, Open_attemptRows, Execution_failsRows,
       Publish_commitRows, Open_requestRows, Execute_otherRows, CommitRows DEF Advance
<1>2. ASSUME NEW w \in Workers, Crash(w) PROVE RInv'
  BY <1>2, LeaveRows DEF Crash
<1>3. CASE Operator
  BY <1>3, OperatorRows, withdraw_runRows
<1>4. CASE Provider
  BY <1>4, ProviderRows
<1>5. CASE UNCHANGED vars
  <2>1. UNCHANGED <<row, runStatus, results, pc, work, contract, decisions, provider>>
    BY <1>5 DEF vars, store, console, workers
  <2> QED BY <2>1, ProviderStands, WorldMoves
<1> QED
  BY <1>1, <1>2, <1>3, <1>4, <1>5 DEF Next

LEMMA RowsInvariance == Spec => [](IInv /\ RInv)
<1>1. Init => RInv
  BY StartsRows
<1>2. RInv /\ IInv /\ IInv' /\ [Next]_vars => RInv'
  BY KeepsRows
<1> QED
  BY <1>1, <1>2, Invariance, PTL DEF Spec

LessThan == {pair \in Nat \X Nat : pair[1] < pair[2]}

\* A stage has a last row at work when it has one at all.
LEMMA LastRow ==
    ASSUME NEW T \in SUBSET Revisions, T # {}
    PROVE  \E x \in T : \A y \in T : y <= x
<1> DEFINE D == {MaxRevision - y : y \in T}
<1>1. MaxRevision \in Nat /\ \A y \in T : y \in Nat /\ y <= MaxRevision
  BY DriverAssumption DEF Revisions
<1>2. D \in SUBSET Nat /\ D # {}
  BY <1>1
<1>3. IsWellFoundedOn(LessThan, Nat)
  BY NatLessThanWellFounded DEF OpToRel, LessThan
<1> HIDE DEF D
<1>4. PICK m \in D : \A n \in D : ~ (<<n, m>> \in LessThan)
  BY <1>2, <1>3, WFMin
<1> USE DEF D
<1>5. PICK x \in T : m = MaxRevision - x
  BY <1>4
<1>6. ASSUME NEW y \in T PROVE y <= x
  <2>1. MaxRevision - y \in D /\ MaxRevision - y \in Nat /\ m \in Nat
    BY <1>1, <1>2
  <2>2. ~ (MaxRevision - y < m)
    BY <1>4, <2>1 DEF LessThan
  <2> QED BY <1>1, <1>5, <2>2
<1> QED BY <1>6

\* As long as a row is at work there is an operation to take up.
LEMMA SomethingNext ==
    ASSUME NEW o \in Operations, row[o] \in StageActive
    PROVE  \E p \in Operations : IsNext(p)
<1>1. o[1] \in Stages /\ o[2] \in Active(o[1])
  <2>1. o[1] \in Stages /\ o[2] \in Revisions /\ o = <<o[1], o[2]>>
    BY DEF Operations
  <2> QED BY <2>1 DEF Active
<1>2. PICK s \in Stages : /\ Active(s) # {}
                          /\ \A t \in Stages : Position[t] < Position[s] => Active(t) = {}
  <2>1. CASE Active("specification") # {}
    BY <2>1 DEF Position, Stages
  <2>2. CASE Active("specification") = {} /\ Active("planning") # {}
    BY <2>2 DEF Position, Stages
  <2>3. CASE /\ Active("specification") = {} /\ Active("planning") = {}
             /\ Active("construction") # {}
    BY <2>3 DEF Position, Stages
  <2>4. CASE /\ Active("specification") = {} /\ Active("planning") = {}
             /\ Active("construction") = {} /\ Active("review_verification") # {}
    BY <2>4 DEF Position, Stages
  <2>5. CASE /\ Active("specification") = {} /\ Active("planning") = {}
             /\ Active("construction") = {} /\ Active("review_verification") = {}
    BY <1>1, <2>5 DEF Position, Stages
  <2> QED BY <2>1, <2>2, <2>3, <2>4, <2>5
<1>3. PICK x \in Active(s) : \A y \in Active(s) : y <= x
  BY <1>2, LastRow DEF Active
<1>4. <<s, x>> \in Operations
  BY DEF Active, Operations
<1>5. IsNext(<<s, x>>)
  BY <1>2, <1>3 DEF IsNext
<1> QED BY <1>4, <1>5

\* On every route and for any number of workers, the status of the run and its rows agree:
\* there is an operation to advance until the run is finished, and it waits exactly when
\* that operation is parked, whatever failed rows earlier rounds left behind.
THEOREM StatusAlwaysFits == Spec => []StatusFitsRows
<1>1. IInv /\ RInv => StatusFitsRows
  <2> SUFFICES ASSUME IInv, RInv PROVE StatusFitsRows
    OBVIOUS
  <2>1. ASSUME NEW o \in Operations, IsNext(o) PROVE row[o] \in StageActive
    <3>1. o = <<o[1], o[2]>>
      BY DEF Operations
    <3> QED BY <2>1, <3>1 DEF IsNext, Active
  <2>2. AlwaysAdvanceable
    BY <2>1, SomethingNext DEF AlwaysAdvanceable, RInv, RowsFit, ActiveWhileOpen
  <2>3. WaitingIsParked
    BY DEF WaitingIsParked, RInv, RowsFit, ParkedWhileWaiting
  <2> QED BY <2>2, <2>3 DEF StatusFitsRows
<1> QED
  BY <1>1, RowsInvariance, PTL

\* The status tables reach every status the flow decides from every status at work.
LEMMA PathsExist ==
    /\ \A from \in StageActive, to \in {"waiting", "blocked", "failed", "succeeded"} :
            StagePath(from, to)
    /\ \A from \in RunStatus \ RunTerminal, to \in {"waiting", "blocked", "running", "succeeded"} :
            RunPath(from, to)
<1>1. ASSUME NEW from \in StageActive, NEW to \in {"waiting", "blocked", "failed", "succeeded"}
      PROVE  StagePath(from, to)
  <2>1. from \in {"pending", "in_progress", "waiting", "blocked", "failed"}
    BY DEF StageActive, StageStatus, StageTerminal
  <2> QED BY <2>1 DEF StagePath, STAGE_STATUS_TRANSITIONS
<1>2. ASSUME NEW from \in RunStatus \ RunTerminal,
             NEW to \in {"waiting", "blocked", "running", "succeeded"}
      PROVE  RunPath(from, to)
  <2>1. from \in {"pending", "running", "waiting", "blocked"}
    BY DEF RunStatus, RunTerminal
  <2> QED BY <2>1 DEF RunPath, RUN_STATUS_TRANSITIONS, RunTerminal
<1> QED BY <1>1, <1>2

\* No advance is lost to the checks of the flow and of the status tables, on any route.
THEOREM AdvancesAreAccepted == Spec => []NoAdvanceIsRejected
<1>1. IInv /\ RInv => NoAdvanceIsRejected
  <2> SUFFICES ASSUME IInv, RInv, NEW w \in Workers, pc[w] = "deciding"
               PROVE  /\ FitsTable(work[w])
                      /\ row[work[w].op] # "absent"
                      /\ StagePath(row[work[w].op], apply_result(work[w], exhausted).stage)
                      /\ RunPath(runStatus, apply_result(work[w], exhausted).run)
    BY DEF NoAdvanceIsRejected
  <2> DEFINE d == apply_result(work[w], exhausted)
  <2>1. /\ row[work[w].op] \in StageActive /\ runStatus \in RunStatus \ RunTerminal
        /\ work[w].op[1] \in Stages /\ work[w].authorized \in BOOLEAN
    BY DEF IInv, WorkIsLive, Holding, TypeOK, Work, Operations
  <2>2. FitsTable(work[w])
    BY DEF RInv, WorkFits
  <2>3. Shape(work[w], d)
    BY <2>1, <2>2, DecisionShape
  <2> HIDE DEF d
  <2>4. /\ d.stage \in {"waiting", "blocked", "failed", "succeeded"}
        /\ d.run \in {"waiting", "blocked", "running", "succeeded"}
    BY <2>3 DEF Shape, Waits_on, Stops, Reworks, Rounds, Completes, Merges, Releases
  <2>5. row[work[w].op] # "absent"
    BY <2>1 DEF StageActive, StageStatus
  <2> QED BY <2>1, <2>2, <2>4, <2>5, PathsExist DEF d
<1> QED
  BY <1>1, RowsInvariance, PTL

\* Whatever the order of reviews, pipelines, merge and advances, a release is entered only
\* with a green pipeline and an approval at the head that was merged.
THEOREM ReleasesAreAuthorized == Spec => []ReleaseIsAuthorized
<1>1. RInv => ReleaseIsAuthorized
  BY DEF RInv
<1> QED
  BY <1>1, RowsInvariance, PTL

\* On every route and for every risk class from R2 on, planning is entered only after a
\* human decided the interface at a revision.
THEOREM InterfacesAreApproved == Spec => []InterfaceIsApproved
<1>1. RInv => InterfaceIsApproved
  BY DEF RInv
<1> QED
  BY <1>1, RowsInvariance, PTL

(***************************************************************************)
(* The account of the rework rounds                                        *)
(***************************************************************************)

\* The attempts whose rework was granted.
Granted == {a \in Attempts : results[a].action = "rework" /\ attemptRow[a] = "failed"}

\* The counter counts them, and a checkpoint that may be superseded is none of them.
CInv ==
    /\ usedRounds = Cardinality(Granted)
    /\ \A a \in Attempts : results[a].status = "waiting" => results[a].action # "rework"

\* There are finitely many attempts.
LEMMA FiniteAttempts == IsFiniteSet(Attempts) /\ IsFiniteSet(Granted)
<1>1. IsFiniteSet(Revisions) /\ IsFiniteSet(1 .. MaxAttempts)
  BY FS_Interval, DriverAssumption DEF Revisions
<1>2. IsFiniteSet(Stages)
  <2>1. IsFiniteSet({"specification"})
    BY FS_Singleton
  <2>2. IsFiniteSet({"specification"} \union {"planning"})
    BY <2>1, FS_AddElement
  <2>3. IsFiniteSet({"specification"} \union {"planning"} \union {"construction"})
    BY <2>2, FS_AddElement
  <2>4. IsFiniteSet({"specification"} \union {"planning"} \union {"construction"}
                        \union {"review_verification"})
    BY <2>3, FS_AddElement
  <2>5. IsFiniteSet({"specification"} \union {"planning"} \union {"construction"}
                        \union {"review_verification"} \union {"release"})
    BY <2>4, FS_AddElement
  <2>6. Stages = {"specification"} \union {"planning"} \union {"construction"}
                        \union {"review_verification"} \union {"release"}
    BY DEF Stages
  <2> QED BY <2>5, <2>6
<1>3. IsFiniteSet(Operations)
  BY <1>1, <1>2, FS_Product DEF Operations
<1>4. IsFiniteSet(Attempts)
  BY <1>1, <1>3, FS_Product DEF Attempts
<1>5. Granted \in SUBSET Attempts
  BY DEF Granted
<1> QED BY <1>4, <1>5, FS_Subset

\* A decision spends a round exactly when it fails its stage, on a result that asked for it.
LEMMA ReworkDecision ==
    ASSUME NEW k, k.op[1] \in Stages, FitsTable(k), NEW out
    PROVE  LET d == apply_result(k, out)
           IN /\ d.action = "rework" <=> d.stage = "failed"
              /\ d.action = "rework" => k.result.action = "rework"
<1> DEFINE a == k.result.action
           Plain(d) == d.action # "rework" /\ d.stage # "failed"
<1> USE DEF Decision
<1>1. a \in Actions
  BY FlowTable DEF FitsTable
<1>2. Plain(Stop) /\ Plain(wait_for_human_merge)
  BY DEF Stop, wait_for_human_merge
<1>3. CASE a = "rework"
  <2>1. apply_result(k, out) = handle_rework(k)
    BY <1>3 DEF apply_result
  <2> QED BY <1>2, <1>3, <2>1 DEF handle_rework
<1>4. CASE a # "rework"
  <2>1. Plain(handle_execute(k, out)) /\ Plain(handle_phase_round(k))
    BY <1>2 DEF handle_execute, handle_phase_round
  <2>2. Plain(handle_merge(k, out))
    BY <1>2 DEF handle_merge
  <2>3. Plain(handle_release(k, out))
    BY <1>2 DEF handle_release
  <2>4. Plain(Decision(a, "waiting", "waiting", "none", FALSE))
    BY <1>4
  <2>5. apply_result(k, out) \in {handle_execute(k, out), handle_phase_round(k),
            handle_merge(k, out), handle_release(k, out), Stop,
            Decision(a, "waiting", "waiting", "none", FALSE)}
    BY <1>4 DEF apply_result
  <2>6. Plain(apply_result(k, out))
    BY <1>2, <2>1, <2>2, <2>3, <2>4, <2>5
  <2> QED BY <2>6
<1> QED BY <1>3, <1>4

\* Writing a decision counts its round once.
LEMMA CommitCounts ==
    ASSUME IInv, RInv, CInv, NEW w \in Workers, Commit(w)
    PROVE  CInv'
<1> DEFINE k == work[w]
           x == <<k.op, k.attempt>>
<1>1. /\ k.op[1] \in Stages /\ x \in Attempts
      /\ results \in [Attempts -> Results \union {NoResult}]
      /\ attemptRow \in [Attempts -> StageStatus \union {"absent"}]
  BY DEF IInv, TypeOK, Work, Operations, Attempts
<1>2. pc[w] = "deciding" /\ k.result \in Results /\ Records(k) /\ FitsTable(k)
  BY DEF Commit, IInv, WorkIsNew, RInv, WorkFits
<1>3. PICK out : persist_decision(k, apply_result(k, out), out)
  BY <1>2 DEF Commit
<1> DEFINE d == apply_result(k, out)
<1>4. /\ d.action = "rework" <=> d.stage = "failed"
      /\ d.action = "rework" => k.result.action = "rework"
  BY <1>1, <1>2, ReworkDecision
<1>5. k.result.status = "waiting" => k.result.action # "rework"
  BY <1>2, ExpectedStatus DEF FitsTable
<1> HIDE DEF d
<1>6. /\ results' = [results EXCEPT ![x] = k.result]
      /\ attemptRow' = [attemptRow EXCEPT ![x] = d.stage]
      /\ usedRounds' = IF d.action = "rework" THEN usedRounds + 1 ELSE usedRounds
  BY <1>3 DEF persist_decision, finish_attempt, RoundsAfter, d
<1> HIDE DEF k
<1>7. x \notin Granted
  <2>1. results[x] = NoResult \/ results[x].status = "waiting"
    BY <1>2 DEF Records, Supersedes
  <2>2. results[x].action # "rework"
    BY <1>1, <2>1 DEF CInv, NoResult
  <2> QED BY <2>2 DEF Granted
<1> HIDE DEF x
<1>8. /\ results'[x] = k.result /\ attemptRow'[x] = d.stage
      /\ \A a \in Attempts : a # x => results'[a] = results[a] /\ attemptRow'[a] = attemptRow[a]
  BY <1>1, <1>6
<1>9. Granted' = IF d.action = "rework" THEN Granted \union {x} ELSE Granted
  BY <1>1, <1>4, <1>7, <1>8 DEF Granted
<1>10. usedRounds' = Cardinality(Granted')
  <2>1. Cardinality(Granted \union {x}) = Cardinality(Granted) + 1
    BY <1>7, FiniteAttempts, FS_AddElement
  <2> QED BY <1>6, <1>9, <2>1 DEF CInv
<1>11. \A a \in Attempts : results'[a].status = "waiting" => results'[a].action # "rework"
  BY <1>5, <1>8 DEF CInv
<1> QED BY <1>10, <1>11 DEF CInv

LEMMA KeepsCount == ASSUME IInv, RInv, CInv, [Next]_vars PROVE CInv'
<1>1. ASSUME UNCHANGED <<usedRounds, results, attemptRow>> PROVE CInv'
  BY <1>1 DEF CInv, Granted
<1>2. ASSUME NEW w \in Workers, Advance(w) PROVE CInv'
  <2>1. CASE Commit(w)
    BY <2>1, CommitCounts
  <2>2. CASE ~ Commit(w)
    BY <1>1, <1>2, <2>2 DEF Advance, Enter, Give_up, Resume, Open_attempt, Execution_fails,
       Publish_commit, Open_request, Execute_other, store
  <2> QED BY <2>1, <2>2
<1>3. ASSUME NEW w \in Workers, Crash(w) PROVE CInv'
  BY <1>1, <1>3 DEF Crash, store
<1>4. CASE Operator
  BY <1>1, <1>4 DEF Operator, withdraw_run, attach_contract, Approve_phase, Waive_phase,
     issue_rework_order, store
<1>5. CASE Provider
  BY <1>1, <1>5 DEF Provider, Pipeline_ends, Submit_review, Merge_request, Push, Rollout_ends,
     store
<1>6. CASE UNCHANGED vars
  BY <1>1, <1>6 DEF vars, store
<1> QED
  BY <1>2, <1>3, <1>4, <1>5, <1>6 DEF Next

\* The rework counter of the budget is exactly the number of rounds the flow granted and
\* never passes its limit, for any number of workers, crashes and repeated advances.
THEOREM RoundsAreAccounted == Spec => []RoundsAccounted
<1>1. Init => CInv
  <2> SUFFICES ASSUME Init PROVE CInv
    OBVIOUS
  <2>1. \A a \in Attempts : results[a] = NoResult
    BY DEF Init
  <2>2. Granted = {}
    BY <2>1 DEF Granted, NoResult
  <2> QED BY <2>1, <2>2, FS_EmptySet DEF CInv, NoResult, Init
<1>2. CInv /\ IInv /\ RInv /\ [Next]_vars => CInv'
  BY KeepsCount
<1>3. CInv /\ IInv => RoundsAccounted
  BY DriverAssumption DEF CInv, Granted, RoundsAccounted, IInv, TypeOK
<1> QED
  BY <1>1, <1>2, <1>3, RowsInvariance, PTL DEF Spec

(***************************************************************************)
(* Third part: the console over the driver                                 *)
(***************************************************************************)

\* One advance at a time.  Two may disagree about the phase of the run: it is read before
\* the lease, so the attempt of a later stage may be given a phase of the specification.
OneAtATime == \A v \in Workers, w \in Workers : v = w

\* What a parked operation o may have been parked with.
Parks(o, x) ==
    /\ Fits(o[1], x)
    /\ x.status = "waiting" =>
        /\ x.action \in {"wait_for_ci", "wait_for_input"}
        /\ x.action = "wait_for_input" => MachineGates(o[1], Risk) = {}
        /\ x.phase # "none" => o[1] = "specification" /\ x.phase \in specification_phases
        /\ o[1] # "release" => request # "none"

\* Results are numbered by the attempts that were opened.
Counted ==
    /\ \A o \in Operations : row[o] \in {"absent", "pending"} => attemptCount[o] = 0
    /\ \A o \in Operations, n \in 1 .. MaxAttempts :
        results[<<o, n>>] # NoResult => n <= attemptCount[o]

\* The latest result of the run is the one its parked operation was parked with.
LatestParks ==
    \A o \in Operations : row[o] = "waiting" =>
        /\ attemptCount[o] \in 1 .. MaxAttempts
        /\ results[<<o, attemptCount[o]>>] = latest
        /\ Parks(o, latest)

\* What an advance holds is about the operation in flight, with the phase it was given.
WorkParks(w) ==
    /\ pc[w] \in Holding =>
        /\ work[w].attempt = attempt_number(work[w].op)
        /\ work[w].contract => contract
    /\ pc[w] # "idle" /\ work[w].phase # "none" =>
        /\ work[w].phase \in specification_phases
        /\ \A o \in Operations : IsNext(o) => o[1] = "specification"
    /\ pc[w] = "deciding" => Parks(work[w].op, work[w].result)

KInv == Counted /\ LatestParks /\ \A w \in Workers : WorkParks(w)

(***************************************************************************)
(* Lemmas about gates and risk                                             *)
(***************************************************************************)

\* The human gates of a stage, by risk.
LEMMA HumanGates ==
    ASSUME NEW s, NEW risk \in Nat
    PROVE  /\ risk <= 1 => required_human_gates(s, risk)
                             = required_gates(s) \intersect {"specification", "ui", "review"}
           /\ risk = 2 => required_human_gates(s, risk)
                = required_gates(s) \intersect {"specification", "ui", "review", "planning"}
           /\ risk > 2 => required_human_gates(s, risk) = required_gates(s) \intersect
                ({"specification", "ui", "review"} \union Gates)
<1>1. CASE risk <= 1
  <2>1. risk # 2 /\ ~ (risk > 2)
    BY <1>1
  <2>2. required_human_gates(s, risk)
          = required_gates(s) \intersect ({"specification", "ui", "review"} \union {})
    BY <1>1, <2>1 DEF required_human_gates
  <2> QED BY <2>1, <2>2
<1>2. CASE risk = 2
  <2>1. ~ (risk <= 1) /\ ~ (risk > 2)
    BY <1>2
  <2>2. required_human_gates(s, risk)
          = required_gates(s) \intersect ({"specification", "ui", "review"} \union {"planning"})
    BY <1>2, <2>1 DEF required_human_gates
  <2> QED BY <2>1, <2>2
<1>3. CASE risk > 2
  <2>1. ~ (risk <= 1) /\ risk # 2
    BY <1>3
  <2>2. required_human_gates(s, risk)
          = required_gates(s) \intersect ({"specification", "ui", "review"} \union Gates)
    BY <2>1 DEF required_human_gates
  <2> QED BY <2>1, <2>2
<1> QED BY <1>1, <1>2, <1>3

RiskOf(c) == effective_change_risk_class(IF c THEN ContractRisk ELSE 1)

\* A stage without machine gates has none either once the contract is attached.
LEMMA GatesShrink ==
    ASSUME NEW s \in Stages, NEW b \in BOOLEAN, NEW c \in BOOLEAN, b => c,
           MachineGates(s, RiskOf(b)) = {}
    PROVE  MachineGates(s, RiskOf(c)) = {}
<1>1. CASE b = c
  BY <1>1
<1>2. CASE b # c
  <2>1. b = FALSE /\ c = TRUE
    BY <1>2
  <2>2. /\ RiskOf(b) = effective_change_risk_class(1)
        /\ RiskOf(c) = effective_change_risk_class(ContractRisk)
    BY <2>1 DEF RiskOf
  <2>3. MinRisk[Route] \in {0, 2, 3} /\ ContractRisk \in Nat
    BY RouteAssumption, DriverAssumption DEF MinRisk, Routes, Risks
  <2>4. /\ RiskOf(b) \in Nat /\ RiskOf(c) \in Nat
        /\ \/ RiskOf(b) <= 1
           \/ RiskOf(b) = 2 /\ RiskOf(c) >= 2
           \/ RiskOf(b) > 2 /\ RiskOf(c) > 2
    BY <2>2, <2>3 DEF effective_change_risk_class
  <2>5. required_gates(s) \subseteq Gates
    BY GateTables
  <2>6. required_gates(s) \subseteq required_human_gates(s, RiskOf(b))
    BY DEF MachineGates
  <2>7. CASE RiskOf(b) <= 1
    <3>1. required_gates(s) \subseteq {"specification", "ui", "review"}
      BY <2>4, <2>6, <2>7, HumanGates
    <3>2. required_gates(s) \subseteq required_human_gates(s, RiskOf(c))
      BY <3>1 DEF required_human_gates
    <3> QED BY <3>2 DEF MachineGates
  <2>8. CASE RiskOf(b) = 2 /\ RiskOf(c) = 2
    BY <2>8
  <2>9. CASE RiskOf(c) > 2
    <3>1. required_gates(s) \subseteq required_human_gates(s, RiskOf(c))
      BY <2>4, <2>5, <2>9, HumanGates
    <3> QED BY <3>1 DEF MachineGates
  <2>10. RiskOf(c) >= 2 => RiskOf(c) = 2 \/ RiskOf(c) > 2
    BY <2>4
  <2> QED BY <2>4, <2>7, <2>8, <2>9, <2>10
<1> QED BY <1>1, <1>2

\* A wait parks on a human only where no gate is the machine's.
LEMMA WaitingParks ==
    ASSUME NEW k \in Work, contract \in BOOLEAN, k.contract => contract
    PROVE  /\ Fits(k.op[1], Waiting(k)) /\ Waiting(k).phase = k.phase
           /\ Waiting(k).action \in {"wait_for_ci", "wait_for_input"}
           /\ Waiting(k).action = "wait_for_input" => MachineGates(k.op[1], Risk) = {}
<1>1. k.op[1] \in Stages /\ k.contract \in BOOLEAN
  BY DEF Work, Operations
<1>2. Fits(k.op[1], Waiting(k))
  BY WaitingFits
<1>3. Waiting(k).action \in {"wait_for_ci", "wait_for_input"} /\ Waiting(k).phase = k.phase
  BY DEF Waiting, Result
<1>4. ASSUME Waiting(k).action = "wait_for_input" PROVE MachineGates(k.op[1], Risk) = {}
  <2>1. MachineGates(k.op[1], WorkRisk(k)) = {}
    BY <1>4 DEF Waiting, Result
  <2>2. WorkRisk(k) = RiskOf(k.contract) /\ Risk = RiskOf(contract)
    BY DEF WorkRisk, Risk, RiskOf
  <2> QED BY <1>1, <2>1, <2>2, GatesShrink
<1> QED BY <1>2, <1>3, <1>4

\* What an operation was parked with stands while the world moves on.
LEMMA ParksStands ==
    ASSUME NEW o \in Operations, NEW x, Parks(o, x), contract \in BOOLEAN, contract' \in BOOLEAN,
           contract => contract', request # "none" => request' # "none"
    PROVE  Parks(o, x)'
<1>1. o[1] \in Stages
  BY DEF Operations
<1>2. Risk = RiskOf(contract) /\ Risk' = RiskOf(contract')
  BY DEF Risk, RiskOf
<1>3. MachineGates(o[1], Risk) = {} => MachineGates(o[1], Risk') = {}
  BY <1>1, <1>2, GatesShrink
<1> QED BY <1>3 DEF Parks, Fits

(***************************************************************************)
(* Steps that write no result                                              *)
(***************************************************************************)

\* Contract and change request are never taken back.
NothingTakenBack == (contract => contract') /\ (request # "none" => request' # "none")

\* An advance keeps its part while the others and the world move on.
LEMMA WorkParksStands ==
    ASSUME IInv, IInv', KInv, NEW v \in Workers, pc'[v] = pc[v], work'[v] = work[v],
           UNCHANGED <<row, attemptCount>>, NothingTakenBack
    PROVE  WorkParks(v)'
<1>1. WorkParks(v) /\ contract \in BOOLEAN /\ contract' \in BOOLEAN /\ work[v].op \in Operations
  BY DEF KInv, IInv, TypeOK, Work
<1>2. \A o \in Operations : IsNext(o)' => IsNext(o)
  BY DEF IsNext, Active
<1>3. attempt_number(work[v].op)' = attempt_number(work[v].op)
  BY DEF attempt_number
<1>4. PICK o : o = work[v].op
  OBVIOUS
<1>5. PICK x : x = work[v].result
  OBVIOUS
<1>6. Parks(o, x) => Parks(o, x)'
  BY <1>1, <1>4, ParksStands DEF NothingTakenBack
<1>7. pc'[v] = "deciding" => Parks(work[v].op, work[v].result)'
  BY <1>1, <1>4, <1>5, <1>6 DEF WorkParks
<1> QED BY <1>1, <1>2, <1>3, <1>7 DEF WorkParks, NothingTakenBack

\* The rows and the latest result stay.
LEMMA ParkedSteady ==
    ASSUME IInv, IInv', KInv, UNCHANGED <<row, attemptCount, results, latest>>,
           NothingTakenBack, \A v \in Workers : WorkParks(v)'
    PROVE  KInv'
<1>1. Counted'
  BY DEF KInv, Counted
<1>2. LatestParks'
  <2> SUFFICES ASSUME NEW o \in Operations, row[o] = "waiting"
               PROVE  /\ attemptCount[o] \in 1 .. MaxAttempts
                      /\ results[<<o, attemptCount[o]>>] = latest
                      /\ Parks(o, latest)'
    BY DEF LatestParks
  <2>1. PICK x : x = latest
    OBVIOUS
  <2>2. Parks(o, x)
    BY <2>1 DEF KInv, LatestParks
  <2>3. Parks(o, x)'
    BY <2>2, ParksStands DEF NothingTakenBack, IInv, TypeOK
  <2> QED BY <2>1, <2>3 DEF KInv, LatestParks
<1> QED BY <1>1, <1>2 DEF KInv

\* One worker moves between its own steps.
LEMMA ParkedMoves ==
    ASSUME IInv, IInv', KInv, NEW w \in Workers,
           UNCHANGED <<row, attemptCount, results, latest>>, NothingTakenBack,
           \A v \in Workers \ {w} : pc'[v] = pc[v] /\ work'[v] = work[v],
           WorkParks(w)'
    PROVE  KInv'
<1>1. \A v \in Workers : WorkParks(v)'
  BY WorkParksStands
<1> QED BY <1>1, ParkedSteady

\* The world around the advances moves.
LEMMA ParkedWorld ==
    ASSUME IInv, IInv', KInv, UNCHANGED <<row, attemptCount, results, latest, pc, work>>,
           NothingTakenBack
    PROVE  KInv'
<1>1. \A v \in Workers : WorkParks(v)'
  BY WorkParksStands
<1> QED BY <1>1, ParkedSteady

LEMMA EnterParks ==
    ASSUME IInv, IInv', KInv, NEW w \in Workers, Enter(w), latest' = latest
    PROVE  KInv'
<1>1. PICK o \in Operations :
        IsNext(o) /\ work' = [work EXCEPT ![w].phase = current_change_phase(o)]
  BY DEF Enter
<1>2. /\ pc' = [pc EXCEPT ![w] = "entered"]
      /\ UNCHANGED <<row, attemptCount, results, contract, request>>
  BY DEF Enter, store, provider, pull
<1>3. work'[w].phase = current_change_phase(o) /\ pc'[w] = "entered"
  BY <1>1, <1>2 DEF IInv, TypeOK, Work
<1>4. \A v \in Workers \ {w} : pc'[v] = pc[v] /\ work'[v] = work[v]
  BY <1>1, <1>2 DEF IInv, TypeOK
<1>5. current_change_phase(o) # "none"
        => o[1] = "specification" /\ current_change_phase(o) \in specification_phases
  BY DEF current_change_phase, specification_phase, specification_phases, LastDesignPhase
<1>6. \A q \in Operations : IsNext(q)' => q = o
  <2>1. \A q \in Operations : IsNext(q)' => IsNext(q)
    BY <1>2 DEF IsNext, Active
  <2> QED BY <1>1, <2>1, NextIsUnique
<1>7. WorkParks(w)'
  BY <1>3, <1>5, <1>6 DEF WorkParks, Holding
<1> QED BY <1>2, <1>4, <1>7, ParkedMoves DEF NothingTakenBack

LEMMA LeaveParks ==
    ASSUME IInv, IInv', KInv, NEW w \in Workers, Leave(w), latest' = latest,
           UNCHANGED <<store, contract, console, provider>>
    PROVE  KInv'
<1>1. UNCHANGED <<row, attemptCount, results, contract, request>>
  BY DEF store, provider, pull
<1>2. pc'[w] = "idle" /\ work'[w] = Idle
  BY DEF Leave, IInv, TypeOK
<1>3. \A v \in Workers \ {w} : pc'[v] = pc[v] /\ work'[v] = work[v]
  BY DEF Leave, IInv, TypeOK
<1>4. WorkParks(w)'
  BY <1>2 DEF WorkParks, Holding
<1> QED BY <1>1, <1>3, <1>4, ParkedMoves DEF NothingTakenBack

LEMMA Open_attemptParks ==
    ASSUME IInv, IInv', KInv, NEW w \in Workers, Open_attempt(w), latest' = latest
    PROVE  KInv'
<1>1. PICK o \in Operations :
        /\ IsNext(o)
        /\ work' = [work EXCEPT ![w] = [@ EXCEPT !.op = o, !.attempt = attempt_number(o),
                                                 !.contract = contract]]
  BY DEF Open_attempt
<1>2. /\ pc[w] = "entered" /\ pc' = [pc EXCEPT ![w] = "executing"]
      /\ UNCHANGED <<row, attemptCount, results, contract, request>>
  BY DEF Open_attempt, store, provider, pull
<1>3. /\ work'[w].op = o /\ work'[w].contract = contract /\ work'[w].phase = work[w].phase
      /\ work'[w].attempt = attempt_number(o) /\ pc'[w] = "executing"
  BY <1>1, <1>2 DEF IInv, TypeOK, Work
<1>4. \A v \in Workers \ {w} : pc'[v] = pc[v] /\ work'[v] = work[v]
  BY <1>1, <1>2 DEF IInv, TypeOK
<1>5. \A q \in Operations : IsNext(q)' => IsNext(q)
  BY <1>2 DEF IsNext, Active
<1>6. attempt_number(work[w].op)' = attempt_number(o)
  BY <1>2, <1>3 DEF attempt_number
<1>7. WorkParks(w)'
  BY <1>2, <1>3, <1>5, <1>6 DEF KInv, WorkParks
<1> QED BY <1>2, <1>4, <1>7, ParkedMoves DEF NothingTakenBack

LEMMA ResumeParks ==
    ASSUME IInv, IInv', RInv', KInv, NEW w \in Workers, Resume(w), latest' = latest
    PROVE  KInv'
<1>1. PICK o \in Operations :
        LET n == attempt_number(o)
            c == committed_result(o, n)
            r == WaitResolution(o[1], c)
        IN /\ IsNext(o)
           /\ c # NoResult
           /\ IF ResolutionRaises(o[1], c)
                THEN Leave(w) /\ UNCHANGED lease
                ELSE /\ work' = [work EXCEPT ![w] =
                            [phase |-> work[w].phase, op |-> o, attempt |-> n,
                             contract |-> contract, result |-> r.result, passed |-> r.passed,
                             approved |-> r.approved, authorized |-> r.authorized]]
                     /\ pc' = [pc EXCEPT ![w] = "deciding"]
                     /\ lease' = w
  BY DEF Resume
<1> DEFINE n == attempt_number(o)
           c == committed_result(o, n)
           r == WaitResolution(o[1], c)
<1>2. c \in Results \union {NoResult} /\ o[1] \in Stages
  BY <1>1, NextAttempt DEF Resume, IInv, Operations
<1>3. r.result.status # "waiting"
  BY <1>2, ResolutionType
<1>4. UNCHANGED <<store, contract, console, provider>>
  BY DEF Resume
<1>5. CASE ResolutionRaises(o[1], c)
  BY <1>1, <1>4, <1>5, LeaveParks
<1>6. CASE ~ ResolutionRaises(o[1], c)
  <2>1. /\ IsNext(o) /\ pc' = [pc EXCEPT ![w] = "deciding"]
        /\ work' = [work EXCEPT ![w] =
              [phase |-> work[w].phase, op |-> o, attempt |-> n,
               contract |-> contract, result |-> r.result, passed |-> r.passed,
               approved |-> r.approved, authorized |-> r.authorized]]
    BY <1>1, <1>6
  <2> HIDE DEF c, r
  <2>2. /\ pc'[w] = "deciding" /\ work'[w].op = o /\ work'[w].contract = contract
        /\ work'[w].result = r.result /\ work'[w].attempt = n
        /\ work'[w].phase = work[w].phase
    BY <2>1 DEF IInv, TypeOK
  <2>3. \A v \in Workers \ {w} : pc'[v] = pc[v] /\ work'[v] = work[v]
    BY <2>1 DEF IInv, TypeOK
  <2>4. UNCHANGED <<row, attemptCount, results, contract, request>>
    BY <1>4 DEF store, provider, pull
  <2>5. \A q \in Operations : IsNext(q)' => IsNext(q)
    BY <2>4 DEF IsNext, Active
  <2>6. attempt_number(work[w].op)' = n
    BY <2>2, <2>4 DEF attempt_number
  <2>7. Parks(work[w].op, work[w].result)'
    <3>1. FitsTable(work[w])'
      BY <2>2 DEF RInv, WorkFits
    <3> QED BY <1>3, <2>2, <3>1 DEF Parks, Fits, FitsTable
  <2>8. pc[w] = "entered"
    BY DEF Resume
  <2>9. WorkParks(w)'
    BY <2>2, <2>4, <2>5, <2>6, <2>7, <2>8 DEF KInv, WorkParks
  <2> QED BY <2>3, <2>4, <2>9, ParkedMoves DEF NothingTakenBack
<1> QED BY <1>5, <1>6

\* The executor hands its result over.
LEMMA ReportParks ==
    ASSUME IInv, IInv', KInv, NEW w \in Workers, NEW result,
           pc[w] \in {"executing", "published"}, Report(w, result), latest' = latest,
           UNCHANGED <<store, contract>>, request # "none" => request' # "none",
           Parks(work[w].op, result)'
    PROVE  KInv'
<1>1. /\ pc' = [pc EXCEPT ![w] = "deciding"]
      /\ work' = [work EXCEPT ![w].result = result]
  BY DEF Report
<1>2. /\ pc'[w] = "deciding" /\ work'[w].op = work[w].op /\ work'[w].result = result
      /\ work'[w].contract = work[w].contract /\ work'[w].attempt = work[w].attempt
      /\ work'[w].phase = work[w].phase
  BY <1>1 DEF IInv, TypeOK, Work
<1>3. \A v \in Workers \ {w} : pc'[v] = pc[v] /\ work'[v] = work[v]
  BY <1>1 DEF IInv, TypeOK
<1>4. UNCHANGED <<row, attemptCount, results, contract>>
  BY DEF store
<1>5. \A q \in Operations : IsNext(q)' => IsNext(q)
  BY <1>4 DEF IsNext, Active
<1>6. attempt_number(work[w].op)' = attempt_number(work[w].op)
  BY <1>2, <1>4 DEF attempt_number
<1>7. Parks(work[w].op, work[w].result)'
  BY <1>2
<1>8. WorkParks(w)'
  BY <1>2, <1>4, <1>5, <1>6, <1>7 DEF KInv, WorkParks, Holding
<1> QED BY <1>3, <1>4, <1>8, ParkedMoves DEF NothingTakenBack

LEMMA Execution_failsParks ==
    ASSUME IInv, IInv', KInv, NEW w \in Workers, Execution_fails(w), latest' = latest
    PROVE  KInv'
<1>1. work[w].op[1] \in Stages
  BY DEF IInv, TypeOK, Work, Operations
<1>2. PICK x : x = Result("blocked", "stop", work[w].phase, FALSE)
  OBVIOUS
<1>3. Fits(work[w].op[1], x) /\ x.status = "blocked"
  BY <1>1, <1>2, StageResults DEF Result
<1>4. /\ pc[w] \in {"executing", "published"} /\ Report(w, x)
      /\ UNCHANGED <<store, contract, request>>
  BY <1>2 DEF Execution_fails, provider, pull
<1>5. work'[w].op = work[w].op
  BY <1>4 DEF Report, IInv, TypeOK, Work
<1>6. Parks(work[w].op, x)'
  BY <1>3, <1>5 DEF Parks, Fits
<1> QED BY <1>4, <1>6, ReportParks

\* The stage parks with its wait; what opens a request, or judges an open one, leaves one.
LEMMA ParksWaiting ==
    ASSUME IInv, IInv', RInv, KInv, NEW w \in Workers, latest' = latest,
           pc[w] \in {"executing", "published"}, Report(w, Waiting(work[w])),
           UNCHANGED <<store, contract>>, request # "none" => request' # "none",
           work[w].op[1] # "release" => request' # "none"
    PROVE  KInv'
<1>1. PICK k : k = work[w]
  OBVIOUS
<1>2. PICK x : x = Waiting(k)
  OBVIOUS
<1>3. k \in Work /\ contract \in BOOLEAN
  BY <1>1 DEF IInv, TypeOK
<1>4. /\ k.contract => contract
      /\ k.phase # "none" => k.op[1] = "specification" /\ k.phase \in specification_phases
  <2>1. IsNext(k.op) /\ k.op \in Operations
    BY <1>1, <1>3 DEF RInv, WorkFits, Holding, Work
  <2> QED BY <1>1, <2>1 DEF KInv, WorkParks, Holding
<1>5. /\ Fits(k.op[1], x) /\ x.phase = k.phase
      /\ x.action \in {"wait_for_ci", "wait_for_input"}
      /\ x.action = "wait_for_input" => MachineGates(k.op[1], Risk) = {}
  BY <1>2, <1>3, <1>4, WaitingParks
<1>6. Risk' = Risk
  BY DEF Risk
<1>7. Report(w, x) /\ work'[w].op = k.op
  BY <1>1, <1>2 DEF Report, IInv, TypeOK, Work
<1>8. Parks(work[w].op, x)'
  BY <1>1, <1>4, <1>5, <1>6, <1>7 DEF Parks, Fits
<1> QED BY <1>7, <1>8, ReportParks

LEMMA Execute_otherParks ==
    ASSUME IInv, IInv', RInv, KInv, NEW w \in Workers, Execute_other(w), latest' = latest
    PROVE  KInv'
<1>1. work[w].op[1] \in Stages
  BY DEF IInv, TypeOK, Work, Operations
<1>2. work[w].op[1] # "release" => request = "open"
  BY <1>1 DEF Execute_other, Writes, HasSubject, Stages
<1> QED BY <1>2, ParksWaiting DEF Execute_other, provider, pull

LEMMA Open_requestParks ==
    ASSUME IInv, IInv', RInv, KInv, NEW w \in Workers, Open_request(w), latest' = latest
    PROVE  KInv'
BY ParksWaiting DEF Open_request

LEMMA Publish_commitParks ==
    ASSUME IInv, IInv', KInv, NEW w \in Workers, Publish_commit(w), latest' = latest
    PROVE  KInv'
<1>1. /\ pc[w] = "executing" /\ pc' = [pc EXCEPT ![w] = "published"]
      /\ UNCHANGED <<row, attemptCount, results, contract, work, request>>
  BY DEF Publish_commit, store
<1>2. pc'[w] = "published" /\ \A v \in Workers \ {w} : pc'[v] = pc[v] /\ work'[v] = work[v]
  BY <1>1 DEF IInv, TypeOK
<1>3. \A q \in Operations : IsNext(q)' => IsNext(q)
  BY <1>1 DEF IsNext, Active
<1>4. attempt_number(work[w].op)' = attempt_number(work[w].op)
  BY <1>1 DEF attempt_number
<1>5. WorkParks(w)'
  BY <1>1, <1>2, <1>3, <1>4 DEF KInv, WorkParks, Holding
<1> QED BY <1>1, <1>2, <1>5, ParkedMoves DEF NothingTakenBack

(***************************************************************************)
(* Steps that write a result or the rows                                   *)
(***************************************************************************)

LEMMA CommitParks ==
    ASSUME OneAtATime, IInv, IInv', RInv, RInv', KInv, NEW w \in Workers, Driver_commit(w)
    PROVE  KInv'
<1> DEFINE k == work[w]
<1>1. /\ k \in Work /\ k.op \in Operations /\ k.op[1] \in Stages
      /\ k.attempt \in 1 .. MaxAttempts /\ k.authorized \in BOOLEAN
      /\ <<k.op, k.attempt>> \in Attempts
  BY DEF IInv, TypeOK, Work, Operations, Attempts
<1>2. /\ pc[w] = "deciding" /\ runStatus \notin RunTerminal
      /\ k.result \in Results /\ Records(k) /\ IsNext(k.op) /\ FitsTable(k)
      /\ Writes(k.op[1]) /\ k.result.status \in {"waiting", "succeeded"}
            => published[k.op] # NoRevision
      /\ k.attempt = attempt_number(k.op) /\ Parks(k.op, k.result)
  BY DEF Driver_commit, Commit, IInv, WorkIsLive, WorkIsNew, Holding, RInv, WorkFits,
         KInv, WorkParks
<1>3. /\ UNCHANGED <<contract, request>> /\ Leave(w)
      /\ latest' = k.result
  BY <1>2 DEF Driver_commit, Commit, provider, pull
<1>4. PICK out : persist_decision(k, apply_result(k, out), out)
  BY <1>2 DEF Driver_commit, Commit
<1> DEFINE d == apply_result(k, out)
<1>5. Shape(k, d)
  BY <1>1, <1>2, DecisionShape
<1> HIDE DEF d
<1>6. Decides(k, d)
  BY <1>1, <1>2, <1>4, <1>5 DEF Decides, persist_decision, d
<1>7. PICK j : j = k
  OBVIOUS
<1> HIDE DEF k
<1>8. /\ results' = [results EXCEPT ![<<j.op, j.attempt>>] = j.result]
      /\ attemptCount' = [attemptCount EXCEPT ![j.op] = IF @ < j.attempt THEN j.attempt ELSE @]
  BY <1>4, <1>7 DEF persist_decision, open_attempt
<1>9. /\ row'[j.op] = d.stage /\ d.stage \notin {"absent", "pending"}
      /\ \A o \in Operations : o # j.op =>
           row'[o] = row[o] \/ (row[o] = "absent" /\ row'[o] = "pending")
  <2>1. d.stage \notin {"absent", "pending"}
    BY <1>5 DEF Shape, Waits_on, Stops, Reworks, Rounds, Completes, Merges, Releases
  <2> QED BY <1>6, <1>7, <2>1, RowEffect
<1>10. /\ attemptCount[j.op] \in 0 .. MaxAttempts /\ attemptCount[j.op] <= j.attempt
       /\ j.attempt \in 1 .. MaxAttempts /\ MaxAttempts \in Nat /\ j.op \in Operations
  <2>1. attemptCount[j.op] \in 0 .. MaxAttempts /\ MaxAttempts \in Nat
    BY <1>1, <1>7, DriverAssumption DEF IInv, TypeOK
  <2> QED BY <1>1, <1>2, <1>7, <2>1 DEF attempt_number
<1>11. /\ attemptCount'[j.op] = j.attempt
       /\ \A o \in Operations : o # j.op => attemptCount'[o] = attemptCount[o]
       /\ \A o \in Operations : attemptCount[o] \in Nat
  <2>1. attemptCount \in [Operations -> 0 .. MaxAttempts]
    BY DEF IInv, TypeOK
  <2> QED BY <1>8, <1>10, <2>1
<1>12. /\ results'[<<j.op, j.attempt>>] = j.result
       /\ \A a \in Attempts : a # <<j.op, j.attempt>> => results'[a] = results[a]
  BY <1>1, <1>7, <1>8 DEF IInv, TypeOK
<1>13. Counted'
  <2>1. ASSUME NEW o \in Operations, row'[o] \in {"absent", "pending"} PROVE attemptCount'[o] = 0
    BY <1>9, <1>11, <2>1 DEF KInv, Counted
  <2>2. ASSUME NEW o \in Operations, NEW n \in 1 .. MaxAttempts, results'[<<o, n>>] # NoResult
        PROVE  n <= attemptCount'[o]
    <3>1. CASE <<o, n>> = <<j.op, j.attempt>>
      BY <1>10, <1>11, <3>1
    <3>2. CASE <<o, n>> # <<j.op, j.attempt>>
      <4>1. results[<<o, n>>] # NoResult
        BY <1>12, <2>2, <3>2 DEF Attempts
      <4>2. n <= attemptCount[o]
        BY <4>1 DEF KInv, Counted
      <4> QED BY <1>10, <1>11, <4>2
    <3> QED BY <3>1, <3>2
  <2> QED BY <2>1, <2>2 DEF Counted
<1>14. LatestParks'
  <2> SUFFICES ASSUME NEW o \in Operations, row'[o] = "waiting"
               PROVE  /\ attemptCount'[o] \in 1 .. MaxAttempts
                      /\ results'[<<o, attemptCount'[o]>>] = latest'
                      /\ Parks(o, latest)'
    BY DEF LatestParks
  <2>1. o = j.op
    <3> SUFFICES ASSUME o # j.op PROVE FALSE
      OBVIOUS
    <3>1. row[o] = "waiting"
      BY <1>9
    <3>2. IsNext(o) /\ IsNext(j.op)
      BY <1>2, <1>7, <3>1 DEF RInv, RowsFit, ParkedWhileWaiting
    <3> QED BY <1>10, <3>2, NextIsUnique
  <2>2. Risk' = Risk
    BY <1>3 DEF Risk
  <2>3. Parks(o, j.result)
    BY <1>2, <1>7, <2>1
  <2>4. Parks(o, latest)'
    BY <1>3, <1>7, <2>2, <2>3 DEF Parks, Fits
  <2> QED BY <1>3, <1>7, <1>10, <1>11, <1>12, <2>1, <2>4
<1>15. ASSUME NEW v \in Workers PROVE WorkParks(v)'
  <2>1. pc'[v] = "idle"
    BY <1>3 DEF OneAtATime, Leave, IInv, TypeOK
  <2> QED BY <2>1 DEF WorkParks, Holding
<1> QED BY <1>13, <1>14, <1>15 DEF KInv

LEMMA withdraw_runParks ==
    ASSUME IInv, IInv', KInv, withdraw_run, latest' = latest
    PROVE  KInv'
<1>1. /\ lease = "none"
      /\ row' = [o \in Operations |-> IF row[o] \in StageActive THEN "canceled" ELSE row[o]]
      /\ UNCHANGED <<attemptCount, results, contract, request, pc, work>>
  BY DEF withdraw_run, provider, pull, workers
<1>2. \A v \in Workers : pc[v] \notin Holding
  BY <1>1, DriverAssumption DEF IInv, LeaseIsHeld
<1>3. \A o \in Operations :
        /\ row'[o] \notin StageActive /\ row'[o] # "waiting"
        /\ row'[o] \in {"absent", "pending"} => row[o] \in {"absent", "pending"}
  BY <1>1 DEF StageActive, StageStatus, StageTerminal
<1>4. \A o \in Operations : ~ IsNext(o)'
  <2>1. ASSUME NEW o \in Operations, IsNext(o)' PROVE FALSE
    <3>1. o = <<o[1], o[2]>>
      BY DEF Operations
    <3>2. row'[o] \in StageActive
      BY <2>1, <3>1 DEF IsNext, Active
    <3> QED BY <1>3, <3>2
  <2> QED BY <2>1
<1>5. Counted' /\ LatestParks'
  BY <1>1, <1>3 DEF KInv, Counted, LatestParks
<1>6. ASSUME NEW v \in Workers PROVE WorkParks(v)'
  BY <1>1, <1>2, <1>4 DEF KInv, WorkParks, Holding
<1> QED BY <1>5, <1>6 DEF KInv

\* The operator's own commit on the branch touches nothing an advance depends on.
LEMMA Edit_artifactKeeps ==
    ASSUME IInv, NEW p \in DesignPhases, Edit_artifact(p)
    PROVE  IInv'
<1>1. head' \in Revisions
  BY DriverAssumption DEF Edit_artifact, IInv, TypeOK, Revisions
<1>2. verdict' \in {"none", "success", "failure"}
      /\ review' \in {"none", "approved", "retracted", "rejected"}
  BY DEF Edit_artifact, NewHead, IInv, TypeOK
<1>3. phaseRev' \in [DesignPhases -> Revisions \union {NoRevision}]
  BY <1>1 DEF Edit_artifact, IInv, TypeOK
<1>4. TypeOK'
  BY <1>1, <1>2, <1>3 DEF Edit_artifact, IInv, TypeOK, store, console, workers
<1> QED BY <1>4, Aside DEF Edit_artifact, store, workers

LEMMA Edit_artifactRows ==
    ASSUME IInv, IInv', RInv, NEW p \in DesignPhases, Edit_artifact(p)
    PROVE  RInv'
<1>1. /\ UNCHANGED <<row, runStatus, results, pc, work, contract, decisions>>
      /\ MergeStands /\ published' = published /\ head' = head + 1
  BY DEF Edit_artifact, NewHead, MergeStands, store, console, workers
<1>2. BranchGrows
  BY <1>1, DriverAssumption DEF BranchGrows, IInv, TypeOK, Revisions
<1> QED BY <1>1, <1>2, WorldMoves

(***************************************************************************)
(* The invariant of the composed system                                    *)
(***************************************************************************)

\* Every step of the composed system is one of the driver's, the operator's own commit, or
\* leaves the driver alone.
LEMMA ConsoleSteps ==
    ASSUME [ConsoleNext]_allVars
    PROVE  [Next]_vars \/ \E p \in DesignPhases : Edit_artifact(p)
<1>1. ASSUME NEW w \in Workers, Driver_step(w) \/ Driver_commit(w) PROVE Next
  BY <1>1 DEF Driver_step, Driver_commit, Next, Advance
<1>2. CASE Provider_step
  BY <1>2 DEF Provider_step, Next, Operator, Provider
<1>3. CASE Operator_step
  <2>1. ASSUME NEW p \in ConsolePhases, Approve(p) \/ Waive(p) \/ Send_back(p) PROVE Next
    BY <1>3, <2>1 DEF Operator_step, Approve, Waive, Send_back, Next, Operator
  <2>2. ASSUME NEW p \in DesignPhases, Answer(p) PROVE UNCHANGED vars
    BY <2>2 DEF Answer
  <2>3. CASE Withdraw
    BY <1>3, <2>3 DEF Operator_step, Withdraw, Next, Operator
  <2> QED BY <1>3, <2>1, <2>2, <2>3 DEF Operator_step
<1>4. CASE UNCHANGED allVars
  BY <1>4 DEF allVars
<1> QED BY <1>1, <1>2, <1>3, <1>4 DEF ConsoleNext

LEMMA ConsoleKeeps ==
    ASSUME IInv, RInv, [ConsoleNext]_allVars
    PROVE  IInv' /\ RInv'
<1>1. CASE [Next]_vars
  BY <1>1, Keeps, KeepsRows
<1>2. ASSUME NEW p \in DesignPhases, Edit_artifact(p) PROVE IInv' /\ RInv'
  BY <1>2, Edit_artifactKeeps, Edit_artifactRows
<1> QED BY <1>1, <1>2, ConsoleSteps

LEMMA ConsoleParks ==
    ASSUME OneAtATime, IInv, IInv', RInv, RInv', KInv, [ConsoleNext]_allVars
    PROVE  KInv'
<1>1. ASSUME NEW w \in Workers, Driver_step(w) PROVE KInv'
  <2>1. latest' = latest
    BY <1>1 DEF Driver_step
  <2>2. CASE Give_up(w)
    BY <2>1, <2>2, LeaveParks DEF Give_up
  <2> QED
    BY <1>1, <2>1, <2>2, EnterParks, ResumeParks, Open_attemptParks, Execution_failsParks,
       Publish_commitParks, Open_requestParks, Execute_otherParks DEF Driver_step
<1>2. ASSUME NEW w \in Workers, Driver_commit(w) PROVE KInv'
  BY <1>2, CommitParks
<1>3. CASE /\ UNCHANGED <<row, attemptCount, results, latest, pc, work>>
           /\ NothingTakenBack
  BY <1>3, ParkedWorld
<1>4. CASE Provider_step
  <2>1. CASE attach_contract
    BY <1>3, <1>4, <2>1
       DEF Provider_step, attach_contract, NothingTakenBack, store, provider, pull, workers
  <2>2. CASE Pipeline_ends("success")
    BY <1>3, <1>4, <2>2 DEF Provider_step, Pipeline_ends, NothingTakenBack, store, workers
  <2>3. CASE Merge_request
    BY <1>3, <1>4, <2>3 DEF Provider_step, Merge_request, NothingTakenBack, store, workers
  <2>4. ASSUME NEW approves \in BOOLEAN, Submit_review(approves) PROVE KInv'
    BY <1>3, <1>4, <2>4 DEF Provider_step, Submit_review, NothingTakenBack, store, workers
  <2> QED BY <1>4, <2>1, <2>2, <2>3, <2>4 DEF Provider_step
<1>5. CASE Operator_step
  <2>1. ASSUME NEW p \in ConsolePhases, Approve(p) PROVE KInv'
    BY <1>3, <2>1 DEF Approve, Approve_phase, NothingTakenBack, store, provider, pull, workers
  <2>2. ASSUME NEW p \in ConsolePhases, Waive(p) PROVE KInv'
    BY <1>3, <2>2 DEF Waive, Waive_phase, NothingTakenBack, store, provider, pull, workers
  <2>3. ASSUME NEW p \in ConsolePhases, Send_back(p) PROVE KInv'
    BY <1>3, <2>3
       DEF Send_back, issue_rework_order, NothingTakenBack, store, provider, pull, workers
  <2>4. ASSUME NEW p \in DesignPhases, Answer(p) PROVE KInv'
    BY <1>3, <2>4 DEF Answer, NothingTakenBack, vars, store, provider, pull, workers
  <2>5. ASSUME NEW p \in DesignPhases, Edit_artifact(p) PROVE KInv'
    BY <1>3, <2>5 DEF Edit_artifact, NothingTakenBack, store, workers
  <2>6. CASE Withdraw
    BY <2>6, withdraw_runParks DEF Withdraw
  <2> QED BY <1>5, <2>1, <2>2, <2>3, <2>4, <2>5, <2>6 DEF Operator_step
<1>6. CASE UNCHANGED allVars
  BY <1>3, <1>6 DEF allVars, vars, NothingTakenBack, store, provider, pull, workers
<1> QED BY <1>1, <1>2, <1>4, <1>5, <1>6 DEF ConsoleNext

LEMMA ConsoleStarts == ASSUME ConsoleInit PROVE IInv /\ RInv /\ KInv
<1>1. Init
  BY DEF ConsoleInit
<1>2. IInv /\ RInv
  BY <1>1, Starts, StartsRows
<1>3. /\ row = [o \in Operations |-> IF o = <<"specification", 0>> THEN "pending" ELSE "absent"]
      /\ attemptCount = [o \in Operations |-> 0]
      /\ results = [a \in Attempts |-> NoResult] /\ pc = [w \in Workers |-> "idle"]
  BY <1>1 DEF Init
<1>4. Counted /\ LatestParks
  BY <1>3 DEF Counted, LatestParks, Attempts
<1>5. \A w \in Workers : WorkParks(w)
  BY <1>3 DEF WorkParks, Holding
<1> QED BY <1>2, <1>4, <1>5 DEF KInv

LEMMA ConsoleInvariance == ASSUME OneAtATime PROVE ConsoleSpec => [](IInv /\ RInv /\ KInv)
<1>1. ConsoleInit => IInv /\ RInv /\ KInv
  BY ConsoleStarts
<1>2. IInv /\ RInv /\ KInv /\ [ConsoleNext]_allVars => (IInv /\ RInv /\ KInv)'
  BY ConsoleKeeps, ConsoleParks
<1> QED BY <1>1, <1>2, PTL DEF ConsoleSpec

(***************************************************************************)
(* What the projections read of a parked run                               *)
(***************************************************************************)

\* A parked run has one parked operation: its result is the latest one, and its phase is
\* the current one.
LEMMA ParkedRun ==
    ASSUME IInv, RInv, KInv, NEW o \in Operations, row[o] = "waiting"
    PROVE  /\ o[1] \in Stages /\ runStatus = "waiting" /\ IsNext(o) /\ Parks(o, latest)
           /\ committed_result(o, attempt_number(o)) = latest
           /\ current_phase = IF o[1] = "specification" THEN specification_phase
                                                        ELSE StagePhase[o[1]]
<1>1. /\ runStatus = "waiting" /\ IsNext(o) /\ Parks(o, latest)
      /\ attemptCount[o] \in 1 .. MaxAttempts /\ results[<<o, attemptCount[o]>>] = latest
  BY DEF RInv, RowsFit, ParkedWhileWaiting, KInv, LatestParks
<1>2. o[1] \in Stages /\ o[2] \in Revisions /\ o = <<o[1], o[2]>>
  BY DEF Operations
<1>3. attempt_number(o) = attemptCount[o]
  BY <1>1 DEF attempt_number, Retryable
<1>4. committed_result(o, attempt_number(o)) = latest
  <2>1. ~ (attemptCount[o] > MaxAttempts)
    BY <1>1, DriverAssumption
  <2> QED BY <1>1, <1>3, <2>1 DEF committed_result
<1> DEFINE atWork == {t \in Stages : \E r \in Active(t) : row[<<t, r>>] # "failed"}
<1>5. o[1] \in atWork
  BY <1>1, <1>2 DEF IsNext
<1>6. \A t \in atWork : Position[o[1]] <= Position[t]
  <2> SUFFICES ASSUME NEW t \in Stages, Active(t) # {} PROVE Position[o[1]] <= Position[t]
    OBVIOUS
  <2>1. ~ (Position[t] < Position[o[1]])
    BY <1>1 DEF IsNext
  <2>2. Position[t] \in Int /\ Position[o[1]] \in Int
    BY <1>2 DEF Position, Stages
  <2> QED BY <2>1, <2>2
<1>7. \A t \in Stages :
        IsPhaseStage(t) <=> t \in atWork /\ \A u \in atWork : Position[t] <= Position[u]
  BY <1>5 DEF IsPhaseStage
<1> HIDE DEF atWork
<1>8. \A t \in Stages : IsPhaseStage(t) <=> t = o[1]
  <2>1. IsPhaseStage(o[1])
    BY <1>2, <1>5, <1>6, <1>7
  <2>2. ASSUME NEW t \in Stages, IsPhaseStage(t) PROVE t = o[1]
    <3>1. t \in atWork /\ Position[t] <= Position[o[1]]
      BY <1>5, <1>7, <2>2
    <3>2. Position[o[1]] <= Position[t]
      BY <1>6, <3>1
    <3> QED BY <1>2, <3>1, <3>2 DEF Position, Stages
  <2> QED BY <2>1, <2>2
<1>9. (CHOOSE t \in Stages : IsPhaseStage(t)) = o[1]
  BY <1>2, <1>8
<1>10. current_phase = IF o[1] = "specification" THEN specification_phase ELSE StagePhase[o[1]]
  <2> DEFINE s == CHOOSE t \in Stages : IsPhaseStage(t)
  <2>1. runStatus # "succeeded"
    BY <1>1
  <2>2. current_phase = IF s = "specification" THEN specification_phase ELSE StagePhase[s]
    BY <2>1, Zenon DEF current_phase
  <2>3. s = o[1]
    BY <1>9
  <2> HIDE DEF s
  <2> QED BY <2>2, <2>3
<1> QED BY <1>1, <1>2, <1>4, <1>10

\* What the current phase can be.
LEMMA SpecificationPhase ==
    /\ specification_phase \in specification_phases
    /\ specification_phases \subseteq DesignPhases
    /\ \A q \in specification_phases :
        Rank[q] < Rank[specification_phase] => phase_settled(q)
<1>1. specification_phase \in specification_phases /\ specification_phases \subseteq DesignPhases
  BY DEF specification_phase, specification_phases, LastDesignPhase, DesignPhases
<1>2. ASSUME NEW q \in specification_phases, Rank[q] < Rank[specification_phase]
      PROVE  phase_settled(q)
  <2>1. Rank["requirements"] = 1 /\ Rank["architecture"] = 2 /\ Rank["interface"] = 3
    BY DEF Rank
  <2>2. q \in {"requirements", "architecture", "interface"}
    BY <1>1 DEF DesignPhases
  <2>3. specification_phase \in {"requirements", "architecture", "interface"}
    BY <1>1 DEF DesignPhases
  <2>4. "requirements" \in specification_phases
    BY DEF specification_phases
  <2>5. specification_phase # "requirements" /\ q # "interface"
    BY <1>2, <2>1, <2>2, <2>3
  <2>6. phase_settled("requirements")
    BY <2>4, <2>5 DEF specification_phase
  <2>7. q = "architecture" => phase_settled("architecture")
    <3> SUFFICES ASSUME q = "architecture", ~ phase_settled("architecture") PROVE FALSE
      OBVIOUS
    <3>1. specification_phase = "architecture"
      BY <2>6 DEF specification_phase
    <3> QED BY <1>2, <3>1, <2>1
  <2> QED BY <2>2, <2>5, <2>6, <2>7
<1> QED BY <1>1, <1>2

\* A run that waits for a decision is parked at a stage that only humans pass.
LEMMA DecisionWait ==
    ASSUME IInv, RInv, KInv, NEW o \in Operations, row[o] = "waiting", waiting_on \in DecisionWaits
    PROVE  /\ latest.status = "waiting" /\ o[1] # "release" /\ request # "none"
           /\ latest.phase # "none"
                => o[1] = "specification" /\ latest.phase \in specification_phases
           /\ required_gates(o[1]) \subseteq required_human_gates(o[1], Risk)
           /\ is_purely_human_gated(o[1], Risk) /\ MachineGates(o[1], Risk) = {}
           /\ waiting_phase = latest.phase
<1>1. o[1] \in Stages /\ Parks(o, latest)
  BY ParkedRun
<1>2. latest.action \in Waits /\ Fits(o[1], latest)
  BY <1>1 DEF waiting_on, DecisionWaits, Waits, Parks
<1>3. latest.status = "waiting"
  BY <1>2, ExpectedStatus DEF Fits
<1>4. latest.action = "wait_for_input"
  BY <1>1, <1>3 DEF Parks, waiting_on, DecisionWaits
<1>5. o[1] # "release"
  BY <1>2, <1>4 DEF Fits, FLOW_TRANSITIONS
<1>6. /\ MachineGates(o[1], Risk) = {} /\ request # "none"
      /\ latest.phase # "none"
            => o[1] = "specification" /\ latest.phase \in specification_phases
  BY <1>1, <1>3, <1>4, <1>5 DEF Parks
<1>7. required_gates(o[1]) \subseteq required_human_gates(o[1], Risk)
  BY <1>6 DEF MachineGates
<1>8. required_gates(o[1]) # {}
  BY <1>1 DEF required_gates, Stages
<1>9. is_purely_human_gated(o[1], Risk)
  BY <1>6, <1>7, <1>8 DEF is_purely_human_gated
<1> QED BY <1>3, <1>5, <1>6, <1>7, <1>9 DEF waiting_phase

\* The gate a phase of a stage is decided on is one of the stage.
LEMMA PhaseGates ==
    /\ \A p \in specification_phases : PHASE_GATE[p] \in required_gates("specification")
    /\ \A s \in {"planning", "construction", "release"} :
        PHASE_GATE[StagePhase[s]] \in required_gates(s)
<1>1. required_gates("specification")
        = {"specification"} \union (IF Route = "quick" THEN {} ELSE {"ui"})
  BY DEF required_gates
<1>2. \A p \in specification_phases : PHASE_GATE[p] \in required_gates("specification")
  BY <1>1 DEF specification_phases, PHASE_GATE
<1>3. \A s \in {"planning", "construction", "release"} :
        PHASE_GATE[StagePhase[s]] \in required_gates(s)
  BY DEF PHASE_GATE, StagePhase, required_gates
<1> QED BY <1>1, <1>2, <1>3

\* The advance of a run that waits for a decision moves once the decision is there.
LEMMA SettledMoves ==
    ASSUME IInv, RInv, KInv, NEW o \in Operations, row[o] = "waiting", waiting_on \in DecisionWaits,
           o[1] # "review_verification", request = "open" => Settles(o[1], WaitPhase(o[1], latest))
    PROVE  TakesUp
<1>1. /\ IsNext(o) /\ committed_result(o, attempt_number(o)) = latest
  BY ParkedRun
<1>2. /\ latest.status = "waiting" /\ o[1] # "release" /\ request # "none"
      /\ is_purely_human_gated(o[1], Risk)
  BY DecisionWait
<1>3. request = "merged" \/ request = "open"
  BY <1>2 DEF IInv, TypeOK
<1>4. gate_resolved(o[1], WaitPhase(o[1], latest))
  BY <1>2, <1>3 DEF gate_resolved
<1>5. resolved_wait(o, latest) /\ ~ ResolutionRaises(o[1], latest)
  BY <1>2, <1>4 DEF resolved_wait, ResolutionRaises
<1> QED BY <1>1, <1>5 DEF TakesUp, Replays

\* A round whose phase is settled is left by the next advance.
LEMMA SettledRound ==
    ASSUME IInv, RInv, KInv, NEW o \in Operations, row[o] = "waiting", waiting_on \in DecisionWaits,
           o[1] = "specification", NEW q \in specification_phases,
           WaitPhase(o[1], latest) = q, phase_settled(q)
    PROVE  TakesUp
<1>1. PHASE_GATE[q] \in required_human_gates("specification", Risk) /\ q \in DesignPhases
  BY PhaseGates, DecisionWait, SpecificationPhase
<1>2. PICK r : r \in {Waiver, phaseRev[q]} /\ <<q, r>> \in decisions
  BY DEF phase_settled
<1>3. Bound("specification", q, r)
  BY <1>1, <1>2 DEF Bound
<1>4. PICK d \in decisions : d = <<q, r>>
  BY <1>2
<1>5. d[1] = q /\ d[2] = r
  BY <1>4
<1>6. Settles("specification", q)
  BY <1>1, <1>3, <1>5 DEF Settles
<1> QED BY <1>6, SettledMoves

\* An operation that is not parked is taken up: its next attempt has no result yet.
LEMMA FreshAttempt ==
    ASSUME IInv, RInv, KInv, runStatus \notin RunTerminal, runStatus # "waiting"
    PROVE  TakesUp
<1>1. PICK p \in Operations : row[p] \in StageActive
  BY DEF RInv, RowsFit, ActiveWhileOpen
<1>2. PICK o \in Operations : IsNext(o)
  BY <1>1, SomethingNext
<1>3. row[o] \in {"pending", "blocked", "failed"}
  <2>1. o = <<o[1], o[2]>>
    BY DEF Operations
  <2>2. row[o] \in StageActive
    BY <1>2, <2>1 DEF IsNext, Active
  <2> QED BY <2>2 DEF RInv, RowsFit, RowsAreLive, ParkedWhileWaiting, StageActive, StageStatus,
                      StageTerminal
<1>4. attemptCount[o] \in Nat /\ attempt_number(o) \in Nat /\ attempt_number(o) >= 1
      /\ attempt_number(o) > attemptCount[o]
  <2>1. attemptCount[o] \in 0 .. MaxAttempts /\ MaxAttempts \in Nat
    BY DriverAssumption DEF IInv, TypeOK
  <2>2. row[o] = "pending" => attemptCount[o] = 0
    BY DEF KInv, Counted
  <2> QED BY <1>3, <2>1, <2>2 DEF attempt_number, Retryable
<1>5. committed_result(o, attempt_number(o)) = NoResult
  <2>1. CASE attempt_number(o) > MaxAttempts
    BY <2>1 DEF committed_result
  <2>2. CASE ~ (attempt_number(o) > MaxAttempts)
    <3>1. attempt_number(o) \in 1 .. MaxAttempts
      BY <1>4, <2>2, DriverAssumption
    <3>2. ~ (attempt_number(o) <= attemptCount[o])
      BY <1>4
    <3>3. results[<<o, attempt_number(o)>>] = NoResult
      BY <3>1, <3>2 DEF KInv, Counted
    <3> QED BY <2>2, <3>3 DEF committed_result
  <2> QED BY <2>1, <2>2
<1> QED BY <1>2, <1>5 DEF TakesUp, Replays

(***************************************************************************)
(* The promises of the guidance                                            *)
(***************************************************************************)

\* What approval_guidance offers.
LEMMA ApprovalGuidance ==
    ASSUME NEW p
    PROVE  LET g == approval_guidance(p)
               gate == phase_gate(p)
           IN /\ g.phase = p
              /\ g.what = "decide" \/ gate.approved \/ gate.waived
              /\ g.act = "advance" => gate.approved \/ gate.waived
              /\ g.act = "approve" => gate.available /\ ~ gate.approved /\ ~ gate.waived
BY DEF approval_guidance, GuidanceAction

\* What the gate of a phase reads.
LEMMA GateReads ==
    ASSUME NEW p
    PROVE  /\ phase_gate(p).approved <=> <<p, gate_revision(p)>> \in decisions
           /\ phase_gate(p).waived <=> <<p, Waiver>> \in decisions
           /\ phase_gate(p).available => orders[p] = "none"
           /\ phase_gate(p).rework_pending <=> IsPending(p)
           /\ phase_gate(p).rework_in_progress <=> orders[p] = "in_progress"
           /\ phase_gate(p) \in PhaseGate
<1>1. /\ <<p, gate_revision(p)>> \in phase_decisions(p)
            <=> <<p, gate_revision(p)>> \in decisions
      /\ <<p, Waiver>> \in phase_decisions(p) <=> <<p, Waiver>> \in decisions
  BY DEF phase_decisions
<1>2. /\ phase_gate(p).approved <=> <<p, gate_revision(p)>> \in decisions
      /\ phase_gate(p).waived <=> <<p, Waiver>> \in decisions
  BY <1>1 DEF phase_gate
<1>3. phase_gate(p).available => orders[p] = "none"
  BY DEF phase_gate
<1>4. /\ phase_gate(p).rework_pending <=> IsPending(p)
      /\ phase_gate(p).rework_in_progress <=> orders[p] = "in_progress"
  BY DEF phase_gate
<1>5. phase_gate(p) \in PhaseGate
  BY DEF phase_gate, PhaseGate, IsPending
<1> QED BY <1>2, <1>3, <1>4, <1>5

\* The guidance of a run that waits.
LEMMA WaitingGuidance ==
    ASSUME runStatus = "waiting", ~ exhausted
    PROVE  run_guidance = IF waiting_on \in DecisionWaits
                            THEN round_guidance(current_phase) ELSE waiting_guidance(current_phase)
BY DEF run_guidance

\* The stage of a phase that is not of the specification.
LEMMA LaterPhases ==
    /\ \A s \in Stages \ {"specification"} : StagePhase[s] \in Phases \ DesignPhases
    /\ \A s \in Stages, t \in Stages : StagePhase[s] = StagePhase[t] => s = t
    /\ StagePhase["review_verification"] = "demonstration"
BY DEF StagePhase, Stages, Phases, DesignPhases

LEMMA AdvanceMoves ==
    ASSUME IInv, RInv, KInv
    PROVE  PromisedAdvanceMoves
<1> DEFINE g == run_guidance
           p == current_phase
<1>1. change_status.guidance = g
  BY DEF change_status, build_change_guidance
<1> SUFFICES ASSUME AtRest, g.act = "advance"
             PROVE  \/ g.what = "observe"
                    \/ g.what = "next_round" /\ Rank[g.phase] < Rank[waiting_phase]
                    \/ ReviewRaises(g.phase)
                    \/ TakesUp
  BY <1>1 DEF PromisedAdvanceMoves
<1>2. ~ exhausted
  BY DEF run_guidance, GuidanceAction
<1>3. CASE runStatus # "waiting"
  BY <1>3, FreshAttempt DEF AtRest
<1>4. CASE runStatus = "waiting"
  <2>1. PICK o \in Operations : row[o] = "waiting"
    BY <1>4 DEF RInv, RowsFit, ParkedWhileWaiting
  <2>2. /\ o[1] \in Stages
        /\ p = IF o[1] = "specification" THEN specification_phase ELSE StagePhase[o[1]]
    BY <2>1, ParkedRun
  <2>3. g = IF waiting_on \in DecisionWaits THEN round_guidance(p) ELSE waiting_guidance(p)
    BY <1>2, <1>4, WaitingGuidance
  <2> HIDE DEF g, p
  <2>4. CASE waiting_on \notin DecisionWaits
    BY <2>3, <2>4 DEF waiting_guidance, GuidanceAction
  <2>5. CASE waiting_on \in DecisionWaits
    <3>1. /\ latest.status = "waiting" /\ o[1] # "release" /\ request # "none"
          /\ latest.phase # "none"
                => o[1] = "specification" /\ latest.phase \in specification_phases
          /\ required_gates(o[1]) \subseteq required_human_gates(o[1], Risk)
          /\ MachineGates(o[1], Risk) = {} /\ waiting_phase = latest.phase
      BY <2>1, <2>5, DecisionWait
    <3>2. g = round_guidance(p)
      BY <2>3, <2>5
    <3>3. CASE waiting_phase \notin {"none", p}
      <4>1. g.what = "next_round" /\ g.phase = p
        BY <3>2, <3>3 DEF round_guidance, next_round_guidance, GuidanceAction
      <4>2. o[1] = "specification" /\ latest.phase \in specification_phases /\ latest.phase # p
        BY <3>1, <3>3
      <4>3. p = specification_phase /\ p \in DesignPhases /\ latest.phase \in DesignPhases
        BY <2>2, <4>2, SpecificationPhase
      <4>4. Rank[p] < Rank[latest.phase] \/ Rank[latest.phase] < Rank[p]
        BY <4>2, <4>3 DEF Rank, DesignPhases
      <4>5. CASE Rank[p] < Rank[latest.phase]
        BY <3>1, <4>1, <4>5
      <4>6. CASE Rank[latest.phase] < Rank[p]
        <5>1. phase_settled(latest.phase)
          BY <4>2, <4>3, <4>6, SpecificationPhase
        <5>2. WaitPhase(o[1], latest) = latest.phase
          BY <3>1, <3>3, <4>2 DEF WaitPhase
        <5> QED BY <2>1, <2>5, <4>2, <5>1, <5>2, SettledRound
      <4> QED BY <4>4, <4>5, <4>6
    <3>4. CASE waiting_phase \in {"none", p}
      <4>1. g = approval_guidance(p)
        BY <3>2, <3>4 DEF round_guidance
      <4>2. g.phase = p /\ (phase_gate(p).approved \/ phase_gate(p).waived)
        BY <4>1, ApprovalGuidance
      <4>3. <<p, gate_revision(p)>> \in decisions \/ <<p, Waiver>> \in decisions
        BY <4>2, GateReads
      <4>4. CASE o[1] = "review_verification"
        BY <2>2, <3>1, <4>2, <4>4, LaterPhases DEF ReviewRaises
      <4>5. CASE o[1] = "specification"
        <5>1. p = specification_phase /\ p \in specification_phases /\ p \in DesignPhases
          BY <2>2, <4>5, SpecificationPhase
        <5>2. phase_settled(p)
          BY <4>3, <5>1 DEF phase_settled, gate_revision
        <5>3. WaitPhase(o[1], latest) = p
          BY <3>1, <3>4, <4>5, <5>1 DEF WaitPhase
        <5> QED BY <2>1, <2>5, <4>5, <5>1, <5>2, <5>3, SettledRound
      <4>6. CASE o[1] \in {"planning", "construction"}
        <5>1. p = StagePhase[o[1]] /\ p \notin DesignPhases
          BY <2>2, <4>6, LaterPhases
        <5>2. PHASE_GATE[p] \in required_human_gates(o[1], Risk)
          BY <3>1, <4>6, <5>1, PhaseGates
        <5>3. WaitPhase(o[1], latest) = "none"
          BY <4>6 DEF WaitPhase
        <5>4. PICK r : r \in {Waiver, head} /\ <<p, r>> \in decisions
          BY <4>3, <5>1 DEF gate_revision
        <5>5. ASSUME request = "open" PROVE Settles(o[1], "none")
          <6>1. Bound(o[1], p, r)
            BY <4>6, <5>4, <5>5 DEF Bound, ObservedHead
          <6>2. PICK d \in decisions : d = <<p, r>>
            BY <5>4
          <6>3. d[1] = p /\ d[2] = r
            BY <6>2
          <6> QED BY <5>2, <6>1, <6>3 DEF Settles
        <5> QED BY <2>1, <2>5, <4>6, <5>3, <5>5, SettledMoves
      <4> QED BY <2>2, <3>1, <4>4, <4>5, <4>6 DEF Stages
    <3> QED BY <3>3, <3>4
  <2> QED BY <2>4, <2>5
<1> QED BY <1>3, <1>4

(***************************************************************************)
(* The column of phases                                                    *)
(***************************************************************************)

\* The column shows a stage by its last row.
LEMMA LastKnown ==
    ASSUME NEW s \in Stages, Known(s) # {}
    PROVE  \E r \in Known(s) :
              /\ \A q \in Known(s) : q <= r
              /\ stage_state(s) =
                   IF row[<<s, r>>] = "succeeded" THEN "done"
                   ELSE IF row[<<s, r>>] = "blocked" THEN "blocked"
                   ELSE IF row[<<s, r>>] = "skipped" THEN "not_required"
                   ELSE IF row[<<s, r>>] = "waiting" /\ waiting_on \in DecisionWaits
                     THEN "needs_decision"
                   ELSE "active"
<1> DEFINE rows == {r \in Revisions : row[<<s, r>>] # "absent"}
           last == CHOOSE r \in rows : \A q \in rows : q <= r
           status == row[<<s, last>>]
<1>1. rows = Known(s) /\ rows \in SUBSET Revisions /\ rows # {}
  BY DEF Known
<1>2. \E r \in rows : \A q \in rows : q <= r
  <2> HIDE DEF rows
  <2> QED BY <1>1, LastRow
<1>3. last \in rows /\ \A q \in rows : q <= last
  <2> HIDE DEF rows
  <2> QED BY <1>2
<1>4. stage_state(s) = IF rows = {} THEN "pending"
       ELSE IF status = "succeeded" THEN "done"
       ELSE IF status = "blocked" THEN "blocked"
       ELSE IF status = "skipped" THEN "not_required"
       ELSE IF status = "waiting" /\ waiting_on \in DecisionWaits THEN "needs_decision"
       ELSE "active"
  BY Zenon DEF stage_state
<1>5. PICK r : r = last
  OBVIOUS
<1>6. status = row[<<s, r>>]
  BY <1>5
<1>7. r \in Known(s) /\ \A q \in Known(s) : q <= r
  <2> HIDE DEF rows, last
  <2> QED BY <1>1, <1>3, <1>5
<1> HIDE DEF rows, last, status
<1> QED BY <1>1, <1>4, <1>6, <1>7

LEMMA StageState ==
    ASSUME NEW s \in Stages
    PROVE  /\ stage_state(s) \in PhaseState
           /\ stage_state(s) = "needs_decision"
                => /\ waiting_on \in DecisionWaits
                   /\ \E r \in Revisions : row[<<s, r>>] = "waiting"
<1>1. CASE Known(s) = {}
  <2>1. stage_state(s) = "pending"
    BY <1>1, Zenon DEF stage_state, Known
  <2> QED BY <2>1 DEF PhaseState
<1>2. CASE Known(s) # {}
  BY <1>2, LastKnown DEF PhaseState, Known
<1> QED BY <1>1, <1>2

\* The column keeps to its states.
LEMMA ColumnType ==
    ASSUME NEW p \in Phases
    PROVE  phase_state(p) \in PhaseState
<1> USE DEF PhaseState
<1>1. phase_settlement(p) \in {"waived", "approved", "open"}
  BY DEF phase_settlement
<1>2. waiting_state(p) \in PhaseState
  BY DEF waiting_state
<1>3. specification_state(p) \in PhaseState
  BY <1>1, <1>2 DEF specification_state
<1> DEFINE s == CHOOSE t \in Stages : StagePhase[t] = p
<1>4. ASSUME p \notin DesignPhases PROVE stage_state(s) \in PhaseState
  <2>1. \E t \in Stages : StagePhase[t] = p
    BY <1>4 DEF Phases, DesignPhases, Stages, StagePhase
  <2>2. s \in Stages
    BY <2>1
  <2> HIDE DEF s
  <2> QED BY <2>2, StageState
<1>5. CASE current_phase = "done"
  BY <1>5 DEF phase_state
<1>6. CASE current_phase # "done"
  <2>1. phase_state(p) = IF p \in DesignPhases THEN specification_state(p)
                         ELSE IF phase_settlement(p) = "approved" THEN "approved"
                         ELSE stage_state(s)
    BY <1>6, Zenon DEF phase_state
  <2> HIDE DEF s
  <2> QED BY <1>3, <1>4, <2>1
<1> QED BY <1>5, <1>6

\* The column of a phase after the specification, while the run is not done.
LEMMA LaterColumn ==
    ASSUME NEW t \in Stages \ {"specification"}, current_phase # "done"
    PROVE  phase_state(StagePhase[t]) =
              IF phase_settlement(StagePhase[t]) = "approved" THEN "approved" ELSE stage_state(t)
<1> DEFINE p == StagePhase[t]
           s == CHOOSE u \in Stages : StagePhase[u] = p
<1>1. p \notin DesignPhases
  BY LaterPhases
<1>2. \A u \in Stages : StagePhase[u] = p <=> u = t
  BY LaterPhases
<1>3. s = t
  BY <1>2
<1>4. phase_state(p) = IF phase_settlement(p) = "approved" THEN "approved" ELSE stage_state(s)
  BY <1>1, Zenon DEF phase_state
<1> HIDE DEF s
<1> QED BY <1>3, <1>4

\* The column is not done while the run waits.
LEMMA NotDone ==
    ASSUME IInv, RInv, KInv, NEW o \in Operations, row[o] = "waiting"
    PROVE  current_phase # "done"
<1>1. /\ o[1] \in Stages
      /\ current_phase = IF o[1] = "specification" THEN specification_phase ELSE StagePhase[o[1]]
  BY ParkedRun
<1>2. specification_phase \in DesignPhases
  BY SpecificationPhase
<1> QED BY <1>1, <1>2 DEF DesignPhases, StagePhase, Stages

\* In the specification gate and column look at the same revision.
LEMMA SameRevision == ASSUME NEW p \in DesignPhases PROVE ~ BindsElsewhere(p)
<1>1. phase_revision(p) = phaseRev[p]
  BY DEF phase_revision, DesignPhases
<1>2. gate_revision(p) = phaseRev[p]
  BY DEF gate_revision
<1> QED BY <1>1, <1>2 DEF BindsElsewhere

\* The phase whose approval the guidance asks for is undecided in the column.
LEMMA ApprovalIsShown ==
    ASSUME IInv, RInv, KInv, ~ exhausted, run_guidance.act = "approve"
    PROVE  \/ phase_state(run_guidance.phase) \in {"needs_decision", "stale"}
           \/ TriesAgain(run_guidance.phase)
           \/ /\ run_guidance.phase = "plan" /\ BindsElsewhere("plan")
              /\ phase_state("plan") = "approved"
<1> DEFINE g == run_guidance
           p == current_phase
<1>1. runStatus = "waiting" /\ waiting_on \in DecisionWaits
  BY DEF run_guidance, running_guidance, waiting_guidance, ended_guidance, GuidanceAction
<1>2. PICK o \in Operations : row[o] = "waiting"
  BY <1>1 DEF RInv, RowsFit, ParkedWhileWaiting
<1>3. /\ o[1] \in Stages /\ IsNext(o)
      /\ p = IF o[1] = "specification" THEN specification_phase ELSE StagePhase[o[1]]
  BY <1>2, ParkedRun
<1>4. g = round_guidance(p)
  BY <1>1, WaitingGuidance
<1>5. p # "done"
  BY <1>2, NotDone
<1> HIDE DEF g, p
<1>6. waiting_phase \in {"none", p} /\ g = approval_guidance(p)
  BY <1>4 DEF round_guidance, next_round_guidance, GuidanceAction, g
<1>7. /\ g.phase = p
      /\ phase_gate(p).available /\ ~ phase_gate(p).approved /\ ~ phase_gate(p).waived
  BY <1>6, ApprovalGuidance DEF g
<1>8. /\ orders[p] = "none" /\ <<p, gate_revision(p)>> \notin decisions
      /\ <<p, Waiver>> \notin decisions
  BY <1>7, GateReads
<1>9. \/ phase_settlement(p) = "open"
      \/ /\ phase_settlement(p) = "approved"
         /\ BindsElsewhere(p)
  <2>1. CASE phase_revision(p) = gate_revision(p)
    BY <1>8, <2>1 DEF phase_settlement
  <2>2. CASE phase_revision(p) # gate_revision(p)
    BY <1>8, <2>2 DEF phase_settlement, BindsElsewhere
  <2> QED BY <2>1, <2>2
<1>10. CASE o[1] = "specification"
  <2>1. p \in specification_phases /\ p \in DesignPhases
    BY <1>3, <1>10, SpecificationPhase
  <2>2. ~ phase_gate(p).rework_pending /\ ~ phase_gate(p).rework_in_progress
    BY <1>8, GateReads DEF IsPending
  <2>6. phase_settlement(p) = "open"
    BY <1>9, <2>1, SameRevision
  <2>3. waiting_state(p) \in {"needs_decision", "stale"}
    BY <1>6 DEF waiting_state
  <2>4. specification_state(p) = waiting_state(p)
    BY <1>1, <2>1, <2>2, <2>6 DEF specification_state, p
  <2>5. phase_state(p) = specification_state(p)
    BY <1>5, <2>1, Zenon DEF phase_state, p
  <2> QED BY <1>7, <2>3, <2>4, <2>5 DEF g
<1>11. CASE o[1] # "specification" /\ phase_settlement(p) = "approved"
  <2>1. p \notin DesignPhases /\ BindsElsewhere(p) /\ p = StagePhase[o[1]]
    BY <1>3, <1>9, <1>11, LaterPhases
  <2>2. p = "plan"
    BY <1>11, <2>1 DEF phase_settlement, phase_revision
  <2>3. phase_state(p) = "approved"
    BY <1>3, <1>5, <1>11, <2>1, LaterColumn DEF p
  <2> QED BY <1>7, <2>1, <2>2, <2>3 DEF g
<1>12. CASE o[1] # "specification" /\ phase_settlement(p) = "open"
  <2>1. p = StagePhase[o[1]] /\ p \notin DesignPhases
    BY <1>3, <1>12, LaterPhases
  <2>2. phase_state(p) = stage_state(o[1])
    BY <1>3, <1>5, <1>12, <2>1, LaterColumn DEF p
  <2>3. o[2] \in Known(o[1]) /\ o = <<o[1], o[2]>>
    <3>1. o = <<o[1], o[2]>> /\ o[2] \in Revisions
      BY DEF Operations
    <3> QED BY <1>2, <3>1 DEF Known
  <2>4. PICK r \in Known(o[1]) :
              /\ \A q \in Known(o[1]) : q <= r
              /\ stage_state(o[1]) =
                   IF row[<<o[1], r>>] = "succeeded" THEN "done"
                   ELSE IF row[<<o[1], r>>] = "blocked" THEN "blocked"
                   ELSE IF row[<<o[1], r>>] = "skipped" THEN "not_required"
                   ELSE IF row[<<o[1], r>>] = "waiting" /\ waiting_on \in DecisionWaits
                     THEN "needs_decision"
                   ELSE "active"
    BY <1>3, <2>3, LastKnown
  <2>5. CASE r = o[2]
    <3>1. row[<<o[1], r>>] = "waiting"
      BY <1>2, <2>3, <2>5
    <3>2. stage_state(o[1]) = "needs_decision"
      BY <1>1, <2>4, <3>1
    <3> QED BY <1>7, <2>2, <3>2 DEF g
  <2>6. CASE r # o[2]
    <3>1. r \in Int /\ o[2] \in Int /\ o[2] <= r
      BY <2>3, <2>4, DriverAssumption DEF Known, Revisions
    <3>2. r > o[2]
      BY <2>6, <3>1
    <3>3. TriesAgain(p)
      BY <1>3, <2>1, <3>2 DEF TriesAgain
    <3> QED BY <1>7, <3>3 DEF g
  <2> QED BY <2>5, <2>6
<1> QED BY <1>9, <1>10, <1>11, <1>12

\* The phase the column asks a decision about is the one the guidance asks about.
LEMMA DecisionIsAsked ==
    ASSUME IInv, RInv, KInv, ~ exhausted, NEW p \in Phases, phase_state(p) = "needs_decision"
    PROVE  /\ run_guidance.phase = p
           /\ \/ run_guidance.what = "decide" \/ <<p, Waiver>> \in decisions
              \/ BindsElsewhere(p) /\ <<p, head>> \in decisions
<1> DEFINE g == run_guidance
<1>1. current_phase # "done"
  BY DEF phase_state
<1>2. SUFFICES /\ runStatus = "waiting" /\ waiting_on \in DecisionWaits /\ current_phase = p
               /\ waiting_phase \in {"none", p}
               /\ <<p, gate_revision(p)>> \in decisions =>
                    \/ <<p, Waiver>> \in decisions
                    \/ BindsElsewhere(p) /\ <<p, head>> \in decisions
  <2>1. g = approval_guidance(p)
    BY <1>2, WaitingGuidance DEF round_guidance
  <2>2. /\ g.phase = p
        /\ g.what = "decide" \/ phase_gate(p).approved \/ phase_gate(p).waived
    BY <2>1, ApprovalGuidance
  <2> QED BY <1>2, <2>2, GateReads
<1>3. CASE p \in DesignPhases
  <2>1. phase_state(p) = specification_state(p)
    BY <1>1, <1>3, Zenon DEF phase_state
  <2>2. phase_settlement(p) = "open" /\ current_phase = p /\ runStatus = "waiting"
        /\ waiting_on \in DecisionWaits /\ waiting_state(p) = "needs_decision"
    <3>1. specification_state(p) = "needs_decision"
      BY <2>1
    <3>2. phase_settlement(p) \in {"waived", "approved", "open"}
      BY DEF phase_settlement
    <3> QED BY <3>1, <3>2 DEF specification_state
  <2>3. waiting_phase \in {"none", p}
    BY <2>2 DEF waiting_state
  <2>4. <<p, gate_revision(p)>> \notin decisions
    <3> SUFFICES ASSUME <<p, gate_revision(p)>> \in decisions PROVE FALSE
      OBVIOUS
    <3>1. gate_revision(p) = NoRevision
      BY <1>3, <2>2, SameRevision DEF phase_settlement, BindsElsewhere
    <3>2. NoRevision \in Revisions \union {Waiver}
      BY <3>1 DEF IInv, TypeOK
    <3> QED BY <3>2, DriverAssumption DEF NoRevision, Waiver, Revisions
  <2> QED BY <2>2, <2>3, <2>4
<1>4. CASE p \notin DesignPhases
  <2>1. PICK t \in Stages \ {"specification"} : p = StagePhase[t]
    BY <1>4 DEF Phases, DesignPhases, Stages, StagePhase
  <2>2. phase_settlement(p) # "approved" /\ stage_state(t) = "needs_decision"
    BY <1>1, <2>1, LaterColumn
  <2>3. PICK r \in Revisions : row[<<t, r>>] = "waiting" /\ waiting_on \in DecisionWaits
    BY <2>2, StageState
  <2>4. PICK o \in Operations : o = <<t, r>>
    BY DEF Operations
  <2>5. o[1] = t /\ row[o] = "waiting"
    BY <2>3, <2>4
  <2>6. runStatus = "waiting" /\ current_phase = p
    BY <2>1, <2>5, ParkedRun
  <2>7. waiting_phase = "none"
    BY <2>1, <2>3, <2>5, DecisionWait
  <2>8. <<p, gate_revision(p)>> \in decisions =>
          \/ <<p, Waiver>> \in decisions
          \/ BindsElsewhere(p) /\ <<p, head>> \in decisions
    <3>1. gate_revision(p) = head /\ head # NoRevision
      BY <1>4, DriverAssumption DEF gate_revision, IInv, TypeOK, Revisions, NoRevision
    <3> QED BY <2>2, <3>1 DEF phase_settlement, BindsElsewhere
  <2> QED BY <2>3, <2>6, <2>7, <2>8
<1> QED BY <1>3, <1>4

LEMMA ViewsAgree ==
    ASSUME IInv, RInv, KInv
    PROVE  ProjectionsAgree
<1> SUFFICES ASSUME ~ exhausted
             PROVE  /\ build_phases \in [Phases -> PhaseState] /\ build_phase_gate \in PhaseGate
                    /\ run_guidance.act = "approve" =>
                         \/ build_phases[run_guidance.phase] \in {"needs_decision", "stale"}
                         \/ TriesAgain(run_guidance.phase)
                         \/ /\ run_guidance.phase = "plan" /\ BindsElsewhere("plan")
                            /\ build_phases["plan"] = "approved"
                    /\ \A p \in Phases : build_phases[p] = "needs_decision" =>
                         /\ run_guidance.phase = p
                         /\ \/ run_guidance.what = "decide" \/ <<p, Waiver>> \in decisions
                            \/ BindsElsewhere(p) /\ <<p, head>> \in decisions
  BY DEF ProjectionsAgree, change_phases, change_status, build_change_guidance
<1>1. build_phases \in [Phases -> PhaseState] /\ \A p \in Phases : build_phases[p] = phase_state(p)
  BY ColumnType DEF build_phases
<1>2. build_phase_gate \in PhaseGate
  BY GateReads DEF build_phase_gate
<1>3. ASSUME run_guidance.act = "approve" PROVE run_guidance.phase \in Phases
  <2>1. runStatus = "waiting" /\ waiting_on \in DecisionWaits
    BY <1>3 DEF run_guidance, running_guidance, waiting_guidance, ended_guidance, GuidanceAction
  <2>2. PICK o \in Operations : row[o] = "waiting"
    BY <2>1 DEF RInv, RowsFit, ParkedWhileWaiting
  <2>3. /\ o[1] \in Stages
        /\ current_phase = IF o[1] = "specification" THEN specification_phase
                                                     ELSE StagePhase[o[1]]
    BY <2>2, ParkedRun
  <2>4. current_phase \in Phases
    BY <2>3, SpecificationPhase, LaterPhases DEF Phases
  <2>5. run_guidance.phase = current_phase
    BY <2>1, WaitingGuidance, ApprovalGuidance DEF round_guidance, next_round_guidance,
       GuidanceAction
  <2> QED BY <2>4, <2>5
<1> QED BY <1>1, <1>2, <1>3, ApprovalIsShown, DecisionIsAsked

\* On every route, for every risk and whatever the operator, the provider and the run do, one
\* advance at a time: an advance the guidance promises takes the run further.
THEOREM AdvancesAreKept == ASSUME OneAtATime PROVE ConsoleSpec => []PromisedAdvanceMoves
<1>1. IInv /\ RInv /\ KInv => PromisedAdvanceMoves
  BY AdvanceMoves
<1> QED BY <1>1, ConsoleInvariance, PTL

\* Under the same hypothesis the guidance and the column of phases ask about the same phase, up
\* to the approvals that gate and column bind to different revisions.
THEOREM ProjectionsAlwaysAgree == ASSUME OneAtATime PROVE ConsoleSpec => []ProjectionsAgree
<1>1. IInv /\ RInv /\ KInv => ProjectionsAgree
  BY ViewsAgree
<1> QED BY <1>1, ConsoleInvariance, PTL
===============================================================================
