# TLA+ verification of the dark factory

The repository implements a "software factory": a change request of a product is
carried by agents and humans through five stages (specification, planning,
construction, review and verification, release).  The core is a durable run driver
over PostgreSQL: every `run advance` is a short-lived process that reads where the run
stands, does one step of work and writes what it decided.  This directory holds TLA+
models of that core, the TLC configurations that check them and TLAPS proofs.

Paths below are relative to `src/dark_factory/` of the repository.

## Inventory

| Component | State | Operations | Hard behaviour | Makes it correct |
|---|---|---|---|---|
| Outbox and dispatcher (`orchestration/events`, `OutboxRepository`, `cli/outbox.py`) | event rows, one delivery row per consumer (status, attempts, lease) | publish, reserve, call the handler, record the outcome, replay, skip, clean up | overlapping and killed passes, leases that expire under a handler, outcomes from stale snapshots | per-stream order, at-least-once, attempt budget, settled is final |
| Flow table and gates (`flow.py`, `rules`, `policy`, `routes.py`, `changes/run.py`) | none: pure decision over run, result and facts | `apply_result` and its handlers | many guards in a fixed order, two copies of the status tables | every decision fits the status tables; limits hold |
| Run driver (`runner.py`, `state/run_store.py`, `state/stage_results.py`, `cli/runner.py`) | run, stage rows, attempts, results, lease, outbox events | advance (replay, resume, execute), withdraw, attach contract | concurrent advances, values read before the lease, crash between provider effect and commit, retries | one result per attempt, no duplicate event, no skipped stage, terminal is final, it comes to rest |
| Gate resolution (`stages/gates.py`, `runtime/facts.py`) | none; reads provider and console | resolve a wait | facts arrive in any order and for any head | only version-bound facts authorise |
| Stage executors, workspaces and SCM adapter (`stages/agent.py`, `stages/tools.py`, `execution/workspace.py`, `adapters/scm/github`) | worktree, task branch, change request, the adapter's memory | prepare, tools and commands, collect, publish commit, open request | kills inside `git worktree add`, commands that outlive their parent, lost answers, people pushing, merging and deleting | edits survive a retry, the delta is exact, one commit and one open request per operation |
| Specification rounds, gate and guidance (`phases.py`, `phase_gate.py`, `guidance.py`, `state/phases.py`, `state/guidance.py`) | decisions; the rest is projection | approve, waive, project | three projections of the same rows, facts that move after a round was parked | what the operator is told to do works |
| Conversations and artifact edits (`state/conversation*.py`, `conversations.py`, `artifacts.py`, `api/routes_*`) | questions, comments, rework orders, decisions, branch | answer, comment, order rework, decide, edit; the advance that reads them | whole documents saved without a lock, repeated requests, an agent working on inputs that change | rounds are spent on orders, keys create once, orders settle |
| Reconciler and execution lease (`reconcile/`, `LeaseRepository`) | lease rows with owner, expiry and token | pass: scan, plan, correct; acquire, steal, renew, release | facts read before the lease, leases left behind, tokens that restart | one writer of a run at a time, the canonical run survives, passes converge |
| Product provisioning (`adapters/scm/github/provisioning.py`) | mirror directory, provider branch, cached evidence | validate, bootstrap | two bootstraps in one mirror, refused pushes, kills | what is reported is on the provider |
| Intake and change store (`intake.py`, `products.py`, `state/change_store.py`, CLI and API) | products, changes, runs | register, check, create a change, brief, start a run | overlapping deliveries, checks and first advances | one change has the reference, the later observation wins, spend is kept |
| Stage command, evidence, run repository, release verification (`cli/stage.py`, `cli/run_records.py`, `execution/runs`, `quality/release`, `cli/release.py`) | evidence directory, run repository | execute, persist, publish, probe | kills between writes, racing publishers, a deployment that moves | exit codes tell what is on disk, records are true and immutable |
| Budget coordinator (`budget/`) | reservations and usage per role | check, reserve, settle, aggregate | limits reached side by side, late and unknown usage | bounded overshoot, each call counted once |
| Task graph, CI merge protection, context and SDD documents, skills, tracker and harness adapters, argument parser, user interface | none, or not executed yet | | | not modelled, see the end |

Interactions: the CLI (and the CI job that calls it) invokes the driver; the driver
calls an executor or resolves a wait through the gate facts (provider) and the console's
decisions, applies the flow, and in one transaction writes rows, result, order states and
an outbox event; the dispatcher, a CronJob, delivers the events; the reconciler, planned as
another CronJob, corrects runs under the same leases; the operator acts on the console tables and
on the outbox at any time; the provider moves on its own.

## Modules

| Module | What it is |
|---|---|
| `OutboxDelivery`, `OutboxDelivery_proofs` | outbox, dispatcher passes, operator commands, time; theorems |
| `FlowTables` | constant tables and pure rules of a route |
| `RunDriver`, `RunDriver_proofs` | one change run, any number of advances, operator and provider; theorems in three parts, the third about `Console` |
| `Console` | `RunDriver` with questions, the operator's reading of guidance, phase column and gate |
| `Discussion`, `Discussion_proofs` | questions, comments, orders, decisions and edits of one phase next to an advance; theorems |
| `Reconciler`, `Reconciler_proofs` | passes, drivers and leases over the runs of one change; theorems |
| `Worktree` | the workspace of an operation: minting, tools, commands, collection, kills |
| `AgentAttempt`, `AgentWork_proofs` | `Worktree` composed with the SCM adapter: the attempts of one operation; theorems, the refinement among them |
| `PublishOnce` | what the driver relies on when an operation publishes; `AgentAttempt` implements it |
| `Provisioning`, `Provisioning_proofs` | bootstraps of a product over one mirror; theorems |
| `Intake`, `Intake_proofs` | products, changes and the start of runs through API and CLI; theorems |
| `StageEvidence`, `StageEvidence_proofs` | stage and release jobs, evidence directory, run repository; theorems |
| `BudgetCoordinator` | reservations and settlements of a run's roles; theorems in `AgentWork_proofs` |
| `MC...` | the instance of each for TLC |

`PROJECT.json` maps each definition to the lines it models.  Definitions whose comment
starts with "Mutant" are deliberately wrong variants of the definition after them: the
property a mutant is listed with fails when the mutant takes its place.  They are used
nowhere else.

### OutboxDelivery

A database transaction is one step and a handler call another one.  `reserve_batch`
takes the oldest due rows that no other transaction holds and reserves those that head
their stream; `deliver_one` calls the handler (which may have an effect and still raise);
`commit_outcome` writes the outcome from the attempts of the *snapshot*, guarded by the
row's status.  Time is the set `due`: `Elapse` may end any lease or backoff at any
moment.  That is not pessimism: the lease is 120 s and the pod may live 300 s.
`effects`, `called` and `skipped` are history the code never reads.  Event
payloads, error texts and the length of the backoff are left out.

### RunDriver

The state is the run's rows (`row` per operation = stage with pinned revision,
`attemptCount`, `results`, `attemptRow`, `events`), the console's decisions and rework
orders, the provider (head of the branch, change request, verdict, reviews, rollout), and
per worker its program counter and memory.

An advance is the steps

1. `Enter`: the reads before the lease (`_advance_in_session`); the phase it reads is kept;
2. under the lease `Give_up` (terminal run, nothing to do, or a replay), `Resume` (the
   facts resolve the wait of a parked attempt) or `Open_attempt`;
3. the executor: `Execution_fails`, or `Publish_commit` then `Open_request`, or
   `Execute_other` (review, release);
4. `Commit`: `apply_result` decides, `persist_decision` writes everything.

The transaction spans steps 2 to 4, so the lease row lock excludes other advances and
nothing is visible before `Commit`; `Crash` drops the worker's memory and its lock, and
leaves what it did on the provider.  The other processes interleave between all steps.

Abstractions, each chosen so that no guard of the code is lost:

- revisions are numbers in the order the branch reaches them; rows of a stage are created
  in that order, so "the last active row" is the one with the highest revision;
- verdict and reviews are kept for the current head of the request only, with
  `approvedOnce` for "approved at some head", which is all `_settling_decision` looks at;
- the contract contributes its risk class; class derivation from its scope is not modelled;
- usage, cost and deadline are one flag that may turn on when a decision is written;
- a later rework order is nondeterministically "repeated" (same revision or remarks as
  the one before, which `plan_rework_order` refuses);
- a second failed review pass repeats the finding set of the first one, as pipeline
  findings do, so it stops the loop;
- a change has no change request before the factory opens one, and requests are not
  closed unmerged; questions do not hold back a gate;
- an agent round writes the artifacts of its own phase only;
- operator and provider stop when the run is terminal, since nothing reads them then;
- pipelines may be run again, a green one only while the request is open.

Not visible in this model: a lease that outlives its transaction (the row lock makes the
lease as long as the transaction); `Reconciler` has those.

### Console

`Console` extends `RunDriver` by the operator's questions and by the read models of
`guidance.py`, `phases.py` and `phase_gate.py` as operators over the run's rows.  They
change nothing; the properties read them in every state in which no advance is under way,
which is when an operator sees them.  Texts, links and labels are left out; a guidance is
its kind, the action it asks for and the phase.  The gate of a phase outside the
specification is bound to the head (`gate_revision`), the column to the last commit of the
plan or, for execution, demonstration and delivery, to nothing (`phase_revision`):
`BindsElsewhere` names the difference.

### Discussion

One phase of one change.  A request of the API or CLI is a read step and a write step,
because documents are read, changed and saved whole; an edit scans the branch for its
marker and moves the branch in two steps, as `publish_commit` does; the advance loads its
inputs, runs its agent and records the outcome in three steps.  `scanned` in a commit is
history: the head its maker saw when it looked for the marker.  A key that a client brings
itself works like the derived one and is not modelled apart.  `Newest` and `Oldest` stand for the
orderings of the queries.  Ids derived from keys are the keys.

### Reconciler

A pass is one transaction: what it writes is kept in `pass` until `Commit_pass`.  A lease
row that another transaction wrote is locked until that one ends.  The session of a pass
keeps the objects it scanned, and the locking read of `update_status` returns them without
reading the row again: a pass compares the scanned revision and status with themselves
(`Apply`), a driver, which reads under its lease, compares the row (`Write_and_release`).
`StableOwner` says whether `DARK_FACTORY_RECONCILER_OWNER_ID` pins the owner id; the
repository has no manifest of a reconciler job that would set it
(`docs/descriptions/orchestration-operations.md:183`), so the run checked has the default, an
id per process, and leases may run out at any time.  The theorems hold for both.  `quiet`
counts passes since anything else happened.

### Worktree, AgentAttempt, PublishOnce

`git worktree add` is split into the steps a kill can fall between.  Every REST call is a
step whose answer may be lost after its effect.  A retry runs in the same process (the
adapter remembers) or in a new one.  `MayCommit` and `MayDetach` switch on what an agent's
command could do to break the contract (commit in the workspace, leave a child on the
pipes).  The run has `MayDetach` on and `MayCommit` off, see below for what happens
otherwise.  An attempt of the review stage that wrote nothing falls back to the request
under review (`_published_under_review`): that is `Execute_other` of `RunDriver`, and
`Collect` models the other stages.  `PageSize` is the
page of the marker scan.  `AgentAttempt` implements `PublishOnce` under the mapping
`landed` = number of the operation's commits on the branch, `open` = number of open
requests: `RunDriver` models publication as two atomic keyed effects, and this refinement
is why it may.

### Provisioning, Intake, StageEvidence, BudgetCoordinator

`Provisioning` takes a git command per step over trees of packs; `calm` marks a bootstrap
nobody else disturbed in the mirror, `alone` a commit made while no other bootstrap was
under way.  `Intake` splits each request at its transactions; a first advance looks for the
run (`resolve_run`) and writes its budget when it commits (`create_run`), and another one may
do the same in between; run ids are digests of the change document.  `StageEvidence` splits
each file write at temporary file and rename, and lets a writer die or fail between; `Serial` says that the
workflow gives each job its own evidence directory, so that two commands never work on one
directory at a time; publishers are never serialised.  `BudgetCoordinator` is a library that
is not wired to the driver yet: every operation is atomic, all orders of calls are allowed.

## Runs

Bounds are the CONSTANTS of each `.cfg`.  `CHECK_DEADLOCK FALSE` where the system really
may stop: a finished run, an outbox with nothing to deliver, a spent bound.

| Run | Checks | Instance and why it is enough |
|---|---|---|
| `outbox` | `InOrder`, `NothingLost`, `AttemptBudget`, `SettledIsFinal`, `EventuallySettled` | two events of one stream, two passes, batch of two, two attempts, one crash, one operator command: all races are between two passes, or a pass and the operator, over one delivery and its successor.  463 k states |
| `driver_concurrent` | `DecisionIsNew`, `StageOrder`, `ReleaseIsAuthorized`, `TerminalIsFinal` | quick route, R1, two workers through all five stages with one rework round and a budget that can run out; more workers only wait for the same lock.  745 k states (symmetry) |
| `driver_rework` | `RoundsAccounted`, `StatusFitsRows`, `NoAdvanceIsRejected`, `ComesToRest`, `WaitIsTakenUp` | rework budget 1, one order per phase, failed pipelines, a worker killed anywhere and the retry, contract attached at any time: the budget is met, spent and exceeded.  129 k states |
| `driver_risk` | `InterfaceIsApproved` | standard route at R2, three design phases, interface waivable, one foreign push, two reviews, re-run pipelines, one failed execution.  1.07 M states |
| `reconcile` | `CorrectionIsExclusive`, `CanonicalSurvives`, `PassesConverge`, `DuplicateIsClosed` | two runs of a change, a pass after another with an owner id of its own, one driver, leases that run out at any time, one mishap (killed process or a move of the provider).  381 k states |
| `discussion` | `RoundsAreSpentOnOrders`, `KeysCreateOnce`, `OrderSettles` | two clients, three requests, one question, one round: every pair of requests races each other and the advance, overlapping edits with one key included.  1.11 M states |
| `console` | `PromisedAdvanceMoves`, `ProjectionsAgree` | standard route at R1, three phases, one order, one review, one turn of the operator.  790 k states |
| `provisioning` | `ReportIsTrue`, `RetryRecovers`, `RepeatIsNoOp` | two callers, two packs, one foreign push, two faults.  2.60 M states |
| `intake` | `RepliesAgree`, `ProgressIsKept`, `GuidanceLeadsToRun` | two callers, two change ids of one reference, three calls, one fault: two first advances of a run overlap.  1.18 M states |
| `evidence` | `ExitIsPersisted`, `RecordsAreTrue`, `CommittedIsKept` | two processes, two stages, a valid and an invalid verification, two changes with one slug, one fault, one deployment, a change of month.  436 k states (symmetry) |
| `budget` | `OvershootIsBounded`, `CountedOnce`, `AggregateAgrees` | two roles with three calls each at limits of a few tokens, unreported totals and costs.  328 k states |
| `attempt` | `EditsSurvive`, `PublicationIsExact`, `PublishesOnce`, `AttemptEnds` | three attempts, two tool calls, one kill, one lost or failed call, two moves of people, commands that hang or leave a child.  1.17 M states |

Fairness.  Outbox: the CronJob starts passes for ever, a started pass goes on unless it
is killed (bounded), and clocks run: weak fairness of the steps of a pass and of `Elapse`;
cleanup, operator and publication get none.  `EventuallySettled` is checked within one
stream: across streams the batch limit lets a blocked stream starve others, a limitation
`events/repository.py` documents.  Driver: somebody keeps calling `run advance` while it
has something to do (the CI job of the runner): weak fairness of an advance as a whole.
Operator and provider get none, so a run may wait for ever; what is claimed is that the
driver itself never spins (`ComesToRest`) and never misses a fact that is there
(`WaitIsTakenUp`).  Reconciler: passes are started for ever (the scheduled job
the docs plan, or an operator), time passes, a driver ends by itself or by its pod's deadline; `Apply` gets strong fairness because the row lock it
waits for is granted in order.  Discussion: an advance that started goes on and advances
keep being called; clients get none.  Intake: an operator who follows the guidance does so
until there is a run, and the provider answers in the end.  Attempt: a started attempt
goes on and a command is timed out; the git steps have no timeout
(`execution/workspace.py:444`) and are assumed to return; nothing is assumed of commands,
their children or retries.

## Where code and comments disagree

Found while modelling.  The models contain these behaviours and the runs reach them, so the
passing properties are stated with the exceptions they force; only an agent's own `git commit`
(`MayCommit`) and marker scans over more than a page are outside the runs.

- `events/repository.py:222`, "The guard keeps a race with an operator action from
  overwriting": a replayed delivery is `pending`, so the outcome of a call under way
  overwrites it with the old attempt count.
- `flow.py:378`, "a *new operation*, not a retry of the failed attempt": the failed row of
  a granted rework round stays active and is executed again after the round succeeded.
- `cli/runner.py:635`: the phase is read before the lease; an advance that lost the race
  executes planning as an architecture round, against `stages/context.py:81`.
- `changes/run.py:318`: a blocker that was repaired still blocks the completed release,
  against `rework.py:18` ("valid for its own SHA only").
- `flow.py:517`, "the flow resumes when a human merge authorization ... is recorded": the
  persisted result is not a waiting one, so the run is never resumed.
- The review after a rework runs under the revision of the first review (`flow._start`);
  an approval of an earlier head resolves a human gated wait (`_settling_decision`
  compares no head); a review on the provider settles a round but not its phase.
- `guidance.py:528`: when an earlier phase's approval went stale while a later round
  waits, the guidance promises the next round but the advance only replays.
  `PromisedAdvanceMoves` excepts this case.  From R3 on the review has no machine gates, and
  `plan_rework` raises on the approval the guidance asked for: the promised advance is a dead
  end (`ReviewRaises`).
- `phases.py:371`, "the same inputs Guidance reads, so the two projections cannot disagree": when
  a failed planning row is tried again after a later row succeeded, the column shows that
  later row as done while the guidance asks to approve the stage (`TriesAgain`); when the
  phase of a stage that has no rounds was waived, the column asks for a decision while the
  guidance asks for an advance.  These two and the dead end above came out of the proofs.
  With two advances the projections can also disagree because of the phase read before the
  lease: the parked result of planning then carries a phase of the specification.
- `phases.py:371` again: `project_phases` binds the plan to its own last commit and execution,
  demonstration and delivery to no revision (`state/phases.py:42-63`), while the gate the
  guidance reads binds them to the head (`state/guidance.py:147-150`).  After an approval at
  the head the guidance asks for the advance and the column still for the decision; a plan
  approved at its commit shows as approved while the guidance, whose gate went stale with a
  push, asks again (`BindsElsewhere`).  Such waits for a human exist from R2 (plan) and R3
  (the other phases) on; the run is at R1, the proof covers all.
- `state/repositories.py:188-191`, "The target must be reachable from the persisted status ...
  so no persisted status can drift from the domain table": the reconciler's session holds the
  scanned object, so `update_status` compares the scanned status and revision with themselves
  (`reconcile/service.py:450-455`; no `populate_existing`).  What a driver committed between
  the scan and the lease is overwritten: a run that succeeded meanwhile is written
  `superseded`, at a revision the row already had.  `CorrectionIsLegal` states the comment; TLC
  refutes it with one driver and one pass in six steps.  `CorrectionIsExclusive` is what is
  left: nothing committed after the lease was taken is lost.
- `reconcile/rules.py:7`, "a remaining anomaly is picked up by the next scheduled pass": the
  lease a pass leaves on an escalated duplicate is itself an anomaly.  While it lives, a pass
  with another owner id skips the run; once it ran out, the next pass takes it over and
  leaves a new one, for ever.  A pinned owner id helps only when passes come more often than
  the TTL.  `DuplicateIsClosed` excepts duplicates that were escalated.
- `state/repositories.py:232`: the fencing token starts again at 1 after a release.
- `changes/conversations.py:60`: an answer committed after the agent's inputs were loaded
  is resolved at the end of the round although the agent never saw it.  Whole-document
  saves can lose an update, a later rejection does not unsettle an older approval, and an
  edit that returns to an earlier text without a base revision reuses its effect key.
- `ports/protocols.py:65`, "the same key returns the commit SHA recorded at the first call and
  never creates a second commit": the marker scan, the read of the head and the move of the
  ref are separate calls (`adapters/scm/github/repository.py:108-124`), so two overlapping
  edits with one key land two commits when both scanned before either landed.
  `KeysCreateOnce` says that this is the only way.
- `adapters/scm/github/provisioning.py:431`: between `git commit` and `rev-parse HEAD` the
  other bootstrap may reset the mirror, so the result names packs its revision lacks and
  is cached; hence `calm` in `EvidenceIsTrue`.  Two overlapping bootstraps can also make a
  commit that records the packs of one with the files of the other; a later, undisturbed
  call finds nothing to commit and reports those packs, against the comment of
  `_recorded_packs` (`provisioning.py:578`, "so a physical no-op can report what the
  repository actually carries"); hence `alone`.  This one came out of the proof: the
  invariant it needs fails from the third call on.
- `state/run_store.py:148`: the run id is a digest of the change document, so a brief
  updated after the start leads to a second run with a fresh limit
  (`changes/intake.py:95`, "Hard spend limit of a change").
- `state/run_store.py:376-378`, "must never be reset by a repeat": `create_run` looks for the
  run, inserts with ON CONFLICT DO NOTHING and then assigns budget and contract whichever
  transaction made the row, so a first advance that waited for another one at the insert
  resets what that one spent.  `SpendIsKept` excepts it (`ResetsSpend`).
- `api/routes_changes.py:179`, "create, or replay an already-known one": a change made by the
  command under the id of a tracker item has no reference.  A delivery of that id is answered
  with it, and a delivery of the same item under another id makes a second change;
  `RepliesAgree` speaks of changes that have the reference and of the delivered id.
- `execution/runs/store.py`: a run with a rework round has two results with the same stage
  and attempt, which `_serialize` refuses, so its record is never published; a lookup also
  reads staging directories; `cli/stage.py:322`: a kill between result and record leaves a
  repeat that exits 10 without a record.
- `execution/workspace.py:265`, "an existing invalid one is removed": a half checked out
  worktree is valid for `_is_valid_worktree`, and the agent starts on missing files.  After
  a timeout the streams are drained without one (`workspace.py:329-332`), so a background
  child holds the attempt as long as it keeps the pipes; `AttemptEnds` excepts it.
  An agent's own `git commit` hides its edits from the collection; the patch file of
  `apply_patch` is published; a retry after the commit landed drops the second attempt's
  edits; the marker scan reads one page.

## Proofs

Every theorem holds for all values of the constants that satisfy the named assumptions of
its module: any number of workers, passes, clients, processes, events, attempts and every
bound.  The assumptions say that bounds are numbers and that what stands for "none" is not
a value (`RouteAssumption`, `DriverAssumption`; `BoundsAssumption`, `NoItemAssumption`,
`StreamsAssumption`; `EvidenceAssumption`, `TasksAssumption`, `AbsentAssumption` and the
like); TLC evaluates them on the runs.  Each inductive invariant was checked by TLC on the
instance of its run before it was proved.  Some theorems have a hypothesis of their own
(`~MayCommit`, `MaxMoves < PageSize`, `Serial` and `OneAtATime`), named below with what the
code says about it.

`OutboxDelivery_proofs`: `TypeCorrect`, `BudgetKept`, `SettledFinal`, `DeliveriesInOrder`,
`DeliveriesAccepted`.  The attempt budget is not inductive on rows alone, because an outcome
is written from a snapshot: the invariant also bounds the snapshot each pass holds.  Order
needs that sequence numbers of the rows that are left agree with the order of publication
although cleanup makes numbers available again, and that a snapshot's delivery is either
settled or still heads its stream.

`RunDriver_proofs`, first part: `TypeCorrect`, `StagesInOrder`, `DecisionsAreNew`,
`FinishedIsFinal`.  The inductive invariant `IInv` joins the types and the stage order with
four facts about advances under way: who is past its entry holds the lease
(`LeaseIsHeld`), its operation is still active and the run unfinished (`WorkIsLive`), its
attempt has no final result (`WorkIsNew`), and every published event id belongs to a
recorded result (`EventsAreRecorded`).  `Commit` is the only step that writes rows; by
`LeaseIsHeld` nobody else is in flight then, which is why the values re-read under the lease
are still true.

Second part: `StatusAlwaysFits` (`StatusFitsRows`), `AdvancesAreAccepted`
(`NoAdvanceIsRejected`), `ReleasesAreAuthorized`, `InterfacesAreApproved`,
`RoundsAreAccounted`.  `RInv` says, relative to `IInv`, which statuses the rows of an
unfinished run have, that review and release have one operation at work each, and that a
review that succeeded leaves only the release to do: without that a decision about one row
could leave another one the status of the run does not fit.  `CInv` ties the rework counter
to the cardinality of the granted rounds.

Third part, over `ConsoleSpec`: `AdvancesAreKept` (`PromisedAdvanceMoves`) and
`ProjectionsAlwaysAgree` (`ProjectionsAgree`).  What the operator is shown is computed from
the latest result, while an advance looks at the rows, so the invariant has to tie the two:
`KInv` says that attempts are numbered without gaps in front of results (`Counted`), that
the operation that is parked was parked with the latest result and how (`LatestParks`), and
the same of the result an advance is about to write (`WorkParks`).  A wait for a human is
entered only where the risk leaves no machine gates; the contract may be attached while it
lasts, which can only take machine gates away (`GatesShrink`), so the wait keeps its kind.
Then each kind of guidance is followed to the advance it promises: a settled round resolves,
an approval or a waiver settles it, and an operation that is not parked gets a fresh attempt.
Both theorems assume `OneAtATime`: with two advances the phase read before the lease may be
of a stage the run has left, see above.

`Reconciler_proofs`: `TypeCorrect`, `CorrectionsAreExclusive` (`CorrectionIsExclusive`),
`CanonicalRunSurvives`, `PassesAlwaysConverge` (`PassesConverge`).  A pass that holds a lease
has the run to itself because the row is locked by who wrote it, also when the lease expired
and was taken over; the invariant follows who holds which row (`OneWriter`, `HeldIsScanned`) and says
that a row whose revision is the scanned one still has the scanned status (`ScanIsPast`).  Convergence is an
argument over whole passes: `QuietInv` says what the undisturbed passes leave.  A pass that
began after the last event knows the rows, leases and facts as they are, and does what they
ask for (`PassKnows`).  After one such pass no open run has an expired lease, nor a repeated
error that the pass could have escalated (`Settled`); those are the rules of `plan_action`
that hide others, so the next pass does all that is left and the one after it acts on
nothing.

`AgentWork_proofs`, attempts: `TypeInvariance`, `TypeCorrect`, `EditsAreKept` (`EditsSurvive`),
`PublicationsAreExact` (`PublicationIsExact`) and `AttemptsPublishOnce`, the refinement of
`PublishOnce` step by step.  `WInv` ties directory, registration in the mirror and index of
the worktree at each step a kill can fall between; `PInv` says that at most one commit of
the operation is on the branch (`OneCommit`), that an attempt about to commit has looked and
nothing landed since, and that at most one request is open (`OneOpen`).
`PublicationsAreExact` assumes `~MayCommit`: an agent that commits in the workspace hides
its edits, see above.  `AttemptsPublishOnce` assumes `MaxMoves < PageSize`: the marker scan
reads one page, so it is false once people pushed a page of commits.

`AgentWork_proofs`, budget: `BudgetInvariant`, `BudgetOvershootIsBounded`
(`OvershootIsBounded`), `BudgetCountedOnce` (`CountedOnce`), `BudgetAggregateAgrees`
(`AggregateAgrees`), from `BudgetAssumption`.  `BInv` joins the types with the calls that may
be in flight (`CallsFit`), the ledger as sum over the charged calls (`LedgerFits`), and what
is left at the limits of run and role for the calls in flight (`RunRoom`, `RoleRoom`).  What
a sum over a finite set is when a call is added or its value changes is shown without
induction on an operator: the fold is a function on subsets, and a smallest set on which it
would be wrong is refuted.

`Provisioning_proofs`: `Invariance`, `ReportsAreTrue` (`ReportIsTrue`), `RetriesRecover`
(`RetryRecovers`), `RepeatsAreNoOps` (`RepeatIsNoOp`).  The invariant relates the mirror to
the call that works in it as long as that call is calm: which commit it reset to, which
packs it laid out, and that what it is about to report is what it pushed.

`Intake_proofs`: `Invariance`, `RepliesAlwaysAgree` (`RepliesAgree`), `ProgressAlwaysKept`
(`ProgressIsKept`).  Needed beyond the types: one stored change has the reference
(`OneReference`, the unique index), a run that a request found is still there
(`FoundIsThere`), and a check under way is later than what is stored or
will be discarded (`ChecksAreLater`).

`Discussion_proofs`: `Invariance`, `RoundsAlwaysSpentOnOrders` (`RoundsAreSpentOnOrders`),
`KeysAlwaysCreateOnce` (`KeysCreateOnce`).  Orders are numbered by time of creation also
among requests that have not written yet (`OrdersAreNumbered`), so a new order is the
newest; `OneOrderPerKey` and `OneCommitPerMarker` cover requests and advances under way, the latter
with what an edit under way knows from its scan;
`RoundsFit` accounts for the round an advance is about to record.

`StageEvidence_proofs`: `Invariance`, `ExitsArePersisted` (`ExitIsPersisted`),
`CommittedAlwaysKept` (`CommittedIsKept`), `RecordsAreAlwaysTrue` (`RecordsAreTrue`), all
under `Serial`: `EvidenceOperationStore` writes one temporary name without a lock, so two
commands in one directory may commit each other's result; the workflow gives a job its own
directory.  `CommandFits` says what each label of a command implies for the files,
`Unfinished` that the directory has no result of an operation about to be executed, and
`True` what a record says: it holds when the record is written and stays, because committed
results and answers of the deployment are only added.  The lookup rests on the fact that a
published record lies at its own address and on the last of finitely many paths.

Only model-checked: the liveness properties `EventuallySettled`, `ComesToRest`,
`WaitIsTakenUp`, `DuplicateIsClosed`, `OrderSettles`, `GuidanceLeadsToRun` and `AttemptEnds`;
fairness is outside the prover's reach.  Every invariant and every action property of the
runs is stated by a theorem.

## Not modelled

- `taskgraph.py`: validation and readiness over a graph that nothing executes yet.
- CI merge protection, `policy/decision_class.py`, `policy/participation.py`: pure
  comparisons of declarations with configuration.
- Context building, SDD and UI specification documents, skills and profiles: parsing and
  text.
- Tracker, telemetry and model harness: external services; the harness appears as
  arbitrary tool calls and commands in `Worktree`.
- `cli/main.py`: argparse declarations.  The commands themselves are actions of the
  modules.
- The React console.
- In modelled parts: the escalation rules over costs and decision classes, drafts and view
  marks, the audit log, the effect table of `EffectLedger` (no caller), redaction, torn
  worktree files, git's own lock files after a kill, local git commands of a bootstrap that
  fail for another reason than a kill, deletions in a delta (`TD-024`).
