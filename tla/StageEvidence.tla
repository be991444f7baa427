--------------------------- MODULE StageEvidence ---------------------------
(***************************************************************************)
(* The evidence of a stage outside the database.  `factory stage run` and  *)
(* `factory release verify` write an evidence directory, the CI job reads  *)
(* the outcome, and `factory run publish` (and the tail of a terminal      *)
(* `factory run advance`) writes run records into the checkout of the runs *)
(* repository.  Commands are processes over one file system: every write,  *)
(* rename and read of a shared file is a step of its own, a process may be *)
(* killed between any two, and a write may fail or be left torn.           *)
(***************************************************************************)
EXTENDS Naturals, FiniteSets

CONSTANTS
    Actors,          \* processes: CI jobs and operators
    Operations,      \* stage runs asked for: [change, run, stage, revision]
    Verifications,   \* release verifications asked for: [change, run, expected, probes]
    Terminal,        \* records of durable runs that just ended
    Digests,         \* image digests the deployment may run
    InitialDigest,   \* the one it runs at first
    SlugOf,          \* change or run id -> path element (lossy)
    Rank,            \* order of the run slugs in a sorted listing
    SmokeAttempts,   \* SMOKE_PROBE_ATTEMPTS
    MonthLength,     \* clock ticks in one partition month
    Serial,          \* do commands on the evidence directory exclude each other?
    None, Torn,      \* no file; a file cut short
    MaxClock, MaxFaults, MaxDeploys   \* bounds

Slugs == {SlugOf[x] : x \in DOMAIN SlugOf}

ASSUME EvidenceAssumption ==
    /\ SmokeAttempts \in Nat \ {0} /\ MonthLength \in Nat \ {0}
    /\ Serial \in BOOLEAN /\ InitialDigest \in Digests
    /\ MaxClock \in Nat /\ MaxFaults \in Nat /\ MaxDeploys \in Nat
    /\ IsFiniteSet(DOMAIN SlugOf) /\ Rank \in [Slugs -> 1 .. Cardinality(DOMAIN SlugOf)]

\* The two commands have tasks of their own, and a durable run has an id and results of its own.
ASSUME TasksAssumption ==
    /\ Operations \cap Verifications = {}
    /\ \A r \in Terminal : /\ \A x \in r.results : x.op \notin Operations
                          /\ \A v \in Verifications : v.run # r.run

VARIABLES
    dir,        \* the evidence directory: its four files
    repo,       \* runs checkout: address -> published snapshot or None
    staging,    \* staging directories that exist: set of [by, at, snapshot]
    deploy,     \* the deployment: digest, sync, health, up
    pc, task, result, record, obs, exit,    \* locals of each process
    clock, faults, deploys,
    committed,  \* history: results that were ever the committed one
    answered    \* history: <<run, digest>> that answered a digest probe

locals == <<pc, task, result, record, obs, exit>>
world  == <<dir, repo, staging, deploy>>
vars   == <<locals, world, clock, faults, deploys, committed, answered>>

(***************************************************************************)
(* Operations, results and records                                         *)
(***************************************************************************)

operation_key(op) == <<op.run, op.stage, op.revision>>

\* ReleaseEvidence: the release section of a record.
ReleaseSection(decision, expected, observed, smoke) ==
    [decision |-> decision, expected |-> expected, observed |-> observed,
     smoke |-> smoke]

\* RunRecord: manifest and change abstracted to the id of the change; `at`
\* is run.created_at; `decided` holds the evidence ids that decisions cite;
\* `clean` says the text is small and holds no secret.
RunRecord(change, run, at, status, results, release) ==
    [change |-> change, run |-> run, at |-> at, status |-> status,
     results |-> results, release |-> release, decided |-> {}, clean |-> TRUE]

\* `refs` holds the evidence ids its gates and findings cite; `mutable` says that
\* the URI of an artifact is not immutable.
StageResult(op, attempt, status, at) ==
    [op |-> op, attempt |-> attempt, status |-> status, at |-> at,
     evidence |-> {}, refs |-> {}, mutable |-> FALSE, blocker |-> FALSE]

\* run_deterministic_stage: the order in which an attempt is stopped.
run_deterministic_stage(op, entry_reason, violations, budget_check, at) ==
    StageResult(op, 1,
        IF entry_reason \/ violations # {} \/ budget_check = "awaiting_decision"
        THEN "blocked" ELSE "waiting", at)

\* execute_stage of the one-shot command: no contract gate, the default budget
\* snapshot, no coordinator.
execute_stage(op, at) == run_deterministic_stage(op, FALSE, {}, None, at)

REPLAYABLE_RESULT_STATUSES == {"succeeded", "waiting"}

stage_operation_key(r) == operation_key(r.op)

\* EvidenceOperationStore.find_existing: absent, torn and foreign files are
\* "no committed result".
find_committed(key) ==
    IF dir.result \in {None, Torn} THEN None
    ELSE IF stage_operation_key(dir.result) # key THEN None
    ELSE dir.result

\* A stage run that succeeded leaves its run running.
_RUN_STATUS_BY_RESULT_STATUS ==
    [waiting |-> "waiting", blocked |-> "blocked", failed |-> "failed",
     succeeded |-> "running"]

build_run_record(op, r) ==
    RunRecord(op.change, op.run, r.at, _RUN_STATUS_BY_RESULT_STATUS[r.status],
              {r}, None)

build_release_run_record(v, section, at) ==
    RunRecord(v.change, v.run, at,
              IF section.decision = "released" THEN "succeeded" ELSE "failed",
              {}, section)

(***************************************************************************)
(* Exit codes and the CI job                                               *)
(***************************************************************************)

exit_code_for(status) ==
    CASE status = "succeeded" -> 0
      [] status = "waiting"   -> 10
      [] status = "blocked"   -> 20
      [] status = "failed"    -> 1

\* parse_stage_result and outcome_for_status: the job reads what the command
\* printed, a StageResult or nothing usable.
outcome_for_status(r) ==
    IF r = None THEN "invalid_input"
    ELSE CASE r.status = "succeeded" -> "ok"
           [] OTHER -> r.status

\* job_exit_code, after main's early returns.
job_exit_code(outcome) ==
    CASE outcome \in {"ok", "waiting"} -> 0
      [] outcome = "blocked" -> 20
      [] outcome = "failed" -> 1
      [] outcome = "invalid_input" -> 2

(***************************************************************************)
(* The release decision                                                    *)
(***************************************************************************)

_digest_failure(o) == o.expected = None \/ o.observed = None \/ o.expected # o.observed

_argo_failure(o) == o.sync # "Synced" \/ o.health # "Healthy"

pre_smoke_failure(o) == _digest_failure(o) \/ _argo_failure(o)

\* Mutant: one probe that passed is enough.
smoke_status_some(smoke) ==
    IF smoke = {} THEN "not_run"
    ELSE IF \E s \in smoke : s.passed THEN "passed" ELSE "failed"

\* SmokeOutcome.status over the set of [name, passed] results.
smoke_status(smoke) ==
    IF smoke = {} THEN "not_run"
    ELSE IF \E s \in smoke : ~s.passed THEN "failed" ELSE "passed"

evaluate_release(o) ==
    IF pre_smoke_failure(o) \/ smoke_status(o.smoke) # "passed"
    THEN "release_failed" ELSE "released"

build_release_evidence(o) ==
    ReleaseSection(evaluate_release(o), o.expected, o.observed, o.smoke)

\* _build_probes: the probes still to run, in order.
NextProbe(v, o) ==
    IF "health" \in v.probes /\ ~\E s \in o.smoke : s.name = "health" THEN "health"
    ELSE IF "digest" \in v.probes /\ ~\E s \in o.smoke : s.name = "digest"
    THEN "digest" ELSE None

(***************************************************************************)
(* The documents                                                           *)
(***************************************************************************)

Probes == {"health", "digest"}

Results == {execute_stage(op, at) : op \in Operations, at \in 0 .. MaxClock}

Sections ==
    [decision : {"released", "release_failed"}, expected : {v.expected : v \in Verifications},
     observed : Digests, smoke : SUBSET [name : Probes, passed : BOOLEAN]]

Records ==
    {build_run_record(x.op, x) : x \in Results} \cup Terminal \cup
    {build_release_run_record(v, e, at) : v \in Verifications, e \in Sections, at \in 0 .. MaxClock}

\* What stands for an absent or a torn file is no document.
ASSUME AbsentAssumption ==
    /\ {None, Torn} \cap (Results \cup Records) = {}
    /\ None \notin Probes \cup {"awaiting_decision"}

(***************************************************************************)
(* The runs repository                                                     *)
(***************************************************************************)

Month(at) == at \div MonthLength

\* run_dir: the partition directory of a record.
run_dir(r) == <<Month(r.at), SlugOf[r.change], SlugOf[r.run]>>

Addresses == (0..Month(MaxClock)) \X Slugs \X Slugs

\* _serialize refuses two results of one attempt of one stage.
Serializable(r) ==
    \A x, y \in r.results :
        x.op.stage = y.op.stage /\ x.attempt = y.attempt => x = y

completion_violations(r) ==
    r.status = "succeeded" /\
    \E x \in r.results :
        x.blocker \/ \E e \in x.evidence : e.required /\ ~e.available

\* The evidence that results declare, in the order of the record.
Declared(results) == UNION {x.evidence : x \in results}

Ids(evidence) == {e.id : e \in evidence}

\* A gate or a finding may cite what its own and earlier results declare, a
\* decision whatever is declared.
evidence_chain_violations(r) ==
    LET declared == Declared(r.results) IN
    \/ completion_violations(r)
    \/ \E e, f \in declared : e.id = f.id /\ e.source # f.source
    \/ r.status = "succeeded" /\ \E e \in declared : e.required /\ e.checksum = None
    \/ \E e \in declared : e.mutable
    \/ \E x \in r.results :
           \/ x.mutable
           \/ ~(x.refs \subseteq Ids(Declared({y \in r.results : y.at <= x.at})))
    \/ ~(r.decided \subseteq Ids(declared))

\* check_payload_size and find_unsafe_values.
Safe(r) == r.clean

\* publish's checks before anything is written.
Acceptable(r) == Serializable(r) /\ Safe(r) /\ ~evidence_chain_violations(r)

\* _record_paths lists every directory of the partition of the change, the
\* staging directories too: pathlib's * also matches names that start with a
\* dot.  A staging name sorts before every published one.
Listed(c) ==
    {[name |-> Rank[a[3]], month |-> a[1], snapshot |-> repo[a]] :
        a \in {b \in Addresses : b[2] = SlugOf[c] /\ repo[b] # None}}
    \cup
    {[name |-> 0, month |-> s.at[1], snapshot |-> s.snapshot] :
        s \in {t \in staging : t.at[2] = SlugOf[c] /\ t.snapshot # None}}

\* An unreadable snapshot fails the whole listing.
Unreadable(c) == \E l \in Listed(c) : l.snapshot = Torn

\* _iter_records: records of another change in the same partition are skipped.
_iter_records(c) == {l \in Listed(c) : l.snapshot.change = c}

\* Not after it in the order of the paths.
Before(m, l) == m.month < l.month \/ (m.month = l.month /\ m.name <= l.name)

\* RunRecordStore.find_existing: the last one in the order of the paths.
find_existing(c) ==
    LET found == _iter_records(c) IN
    IF Unreadable(c) THEN Torn
    ELSE IF found = {} THEN None
    ELSE (CHOOSE l \in found : \A m \in found : Before(m, l)).snapshot

(***************************************************************************)
(* Processes                                                               *)
(***************************************************************************)

Init ==
    /\ dir = [snapshot |-> None, tmp |-> None, result |-> None, record |-> None]
    /\ repo = [a \in Addresses |-> None]
    /\ staging = {}
    /\ deploy = [digest |-> InitialDigest, sync |-> "Synced", health |-> "Healthy",
                  up |-> TRUE]
    /\ pc = [p \in Actors |-> "idle"]
    /\ task = [p \in Actors |-> None]
    /\ result = [p \in Actors |-> None]
    /\ record = [p \in Actors |-> None]
    /\ obs = [p \in Actors |-> None]
    /\ exit = [p \in Actors |-> None]
    /\ clock = 0 /\ faults = 0 /\ deploys = 0
    /\ committed = {} /\ answered = {}

OnDirectory == {"find", "snapshot", "execute", "tmp", "replace", "run_record",
                "emit", "probe", "exited", "job"}

\* A command on the evidence directory may start.
MayStart(p) ==
    /\ pc[p] = "idle"
    /\ Serial => \A q \in Actors : pc[q] \notin OnDirectory

Goto(p, l) == pc' = [pc EXCEPT ![p] = l]

\* The process leaves with a code; what it printed stays in result[p] until the
\* caller has read both.
Leave(p, code) == Goto(p, "exited") /\ exit' = [exit EXCEPT ![p] = code]

\* The process is gone, with all its locals.
Gone(p) ==
    /\ Goto(p, "idle")
    /\ task' = [task EXCEPT ![p] = None]
    /\ result' = [result EXCEPT ![p] = None]
    /\ record' = [record EXCEPT ![p] = None]
    /\ obs' = [obs EXCEPT ![p] = None]
    /\ exit' = [exit EXCEPT ![p] = None]

Fault == faults < MaxFaults /\ faults' = faults + 1

(***************************************************************************)
(* factory stage run --evidence-dir                                        *)
(***************************************************************************)

\* The health probe is the base of the smoke set.
validate_smoke_options(v) == "digest" \in v.probes => "health" \in v.probes

\* The expected digest comes from exactly one source: a flag or an artifact.
resolve_expected_digest(v) == v.expected

\* Every option is resolved before anything is observed.
resolve_inputs(v) == resolve_expected_digest(v) # None /\ validate_smoke_options(v)

\* load_change_snapshot: a file that cannot be read or is no Change ends either
\* command with 2 before it touches anything, as options that do not fit do.
Reject_input(p, t) ==
    /\ MayStart(p)
    /\ \/ Fault
       \/ t \in Verifications /\ ~resolve_inputs(t) /\ UNCHANGED faults
    /\ task' = [task EXCEPT ![p] = t]
    /\ Leave(p, 2)
    /\ UNCHANGED <<world, result, record, obs, clock, deploys, committed, answered>>

\* Snapshot file, input revision and run id are resolved before any work.
Start_stage_run(p, op) ==
    /\ MayStart(p) /\ clock < MaxClock
    /\ task' = [task EXCEPT ![p] = op]
    /\ Goto(p, "find")
    /\ UNCHANGED <<world, result, record, obs, exit, clock, faults, deploys,
                   committed, answered>>

\* A committed waiting or succeeded result of the operation is replayed: the
\* evidence is not touched.
Find_existing(p) ==
    /\ pc[p] = "find"
    /\ LET e == find_committed(operation_key(task[p])) IN
       IF e # None /\ e.status \in REPLAYABLE_RESULT_STATUSES
       THEN result' = [result EXCEPT ![p] = e] /\ Goto(p, "emit")
       ELSE UNCHANGED result /\ Goto(p, "snapshot")
    /\ UNCHANGED <<world, task, record, obs, exit, clock, faults, deploys,
                   committed, answered>>

Persist_input_snapshot(p) ==
    /\ pc[p] = "snapshot"
    /\ \/ /\ dir' = [dir EXCEPT !.snapshot = task[p].revision]
          /\ Goto(p, "execute") /\ UNCHANGED <<exit, faults>>
       \/ \E s \in {dir.snapshot, Torn} :
          /\ dir' = [dir EXCEPT !.snapshot = s] /\ Fault /\ Leave(p, 2)
    /\ UNCHANGED <<repo, staging, deploy, task, result, record, obs, clock,
                   deploys, committed, answered>>

\* collect_run_manifest finds no commit to name: the stage does not start.
No_commit(p) == Fault /\ Leave(p, 2)

\* collect_run_manifest, then execute_stage.
Execute_stage(p) ==
    /\ pc[p] = "execute"
    /\ \/ /\ result' = [result EXCEPT ![p] = execute_stage(task[p], clock)]
          /\ clock' = clock + 1 /\ clock < MaxClock
          /\ Goto(p, "tmp") /\ UNCHANGED <<exit, faults>>
       \/ No_commit(p) /\ UNCHANGED <<result, clock>>
    /\ UNCHANGED <<world, task, record, obs, deploys, committed, answered>>

\* Mutant: a failed write is swallowed and the command goes on.
Record_tmp_swallowed(p) ==
    /\ pc[p] = "tmp"
    /\ \/ dir' = [dir EXCEPT !.tmp = result[p]] /\ Goto(p, "replace") /\ UNCHANGED faults
       \/ UNCHANGED dir /\ Goto(p, "run_record") /\ Fault
    /\ UNCHANGED <<repo, staging, deploy, task, result, record, obs, exit, clock,
                   deploys, committed, answered>>

\* EvidenceOperationStore.record, first half: the .tmp sibling, one name for
\* every process.
Record_tmp(p) ==
    /\ pc[p] = "tmp"
    /\ \/ /\ dir' = [dir EXCEPT !.tmp = result[p]]
          /\ Goto(p, "replace") /\ UNCHANGED <<exit, faults, result>>
       \/ \E s \in {dir.tmp, Torn} :
          /\ dir' = [dir EXCEPT !.tmp = s] /\ Fault /\ Leave(p, 1)
          /\ result' = [result EXCEPT ![p] = None]
    /\ UNCHANGED <<repo, staging, deploy, task, record, obs, clock, deploys,
                   committed, answered>>

\* Second half: the rename is the commit.  It commits whatever the .tmp file
\* holds by now, and fails when another process already moved it away.
Record_replace(p) ==
    /\ pc[p] = "replace"
    /\ IF dir.tmp = None
       THEN /\ Leave(p, 1) /\ result' = [result EXCEPT ![p] = None]
            /\ UNCHANGED <<dir, committed>>
       ELSE /\ dir' = [dir EXCEPT !.result = dir.tmp, !.tmp = None]
            /\ committed' = committed \cup ({dir.tmp} \ {Torn})
            /\ Goto(p, "run_record") /\ UNCHANGED <<exit, result>>
    /\ UNCHANGED <<repo, staging, deploy, task, record, obs, clock, faults,
                   deploys, answered>>

\* build_run_record and persist_run_record: written in place.
Persist_run_record(p) ==
    /\ pc[p] = "run_record"
    /\ \/ /\ dir' = [dir EXCEPT !.record = build_run_record(task[p], result[p])]
          /\ Goto(p, "emit") /\ UNCHANGED <<exit, faults, result>>
       \/ \E s \in {dir.record, Torn} :
          /\ dir' = [dir EXCEPT !.record = s] /\ Fault /\ Leave(p, 1)
          /\ result' = [result EXCEPT ![p] = None]
    /\ UNCHANGED <<repo, staging, deploy, task, record, obs, clock, deploys,
                   committed, answered>>

Emit_result(p) ==
    /\ pc[p] = "emit"
    /\ Leave(p, exit_code_for(result[p].status))
    /\ UNCHANGED <<world, task, result, record, obs, clock, faults, deploys,
                   committed, answered>>

\* The workflow goes on with codes 0 and 10 only; then ci_job reads the printed
\* result and gives the job its own code.
Ci_job(p) ==
    /\ pc[p] = "exited" /\ task[p] \in Operations
    /\ Goto(p, "job")
    /\ exit' = [exit EXCEPT ![p] =
           IF exit[p] \in {0, 10} THEN job_exit_code(outcome_for_status(result[p]))
           ELSE exit[p]]
    /\ UNCHANGED <<world, task, result, record, obs, clock, faults, deploys,
                   committed, answered>>

(***************************************************************************)
(* factory release verify --evidence-dir                                   *)
(***************************************************************************)

\* What the caller read of the deployment and passes in; the probes' results and
\* attempts so far.
ReleaseObservation(v) ==
    [expected |-> resolve_expected_digest(v), observed |-> deploy.digest, sync |-> deploy.sync,
     health |-> deploy.health, smoke |-> {}, attempts |-> 0]

\* The caller reads the deployment and passes the values in.
Start_release_verify(p, v) ==
    /\ MayStart(p) /\ clock < MaxClock
    /\ resolve_inputs(v)
    /\ task' = [task EXCEPT ![p] = v]
    /\ obs' = [obs EXCEPT ![p] = ReleaseObservation(v)]
    /\ Goto(p, "probe")
    /\ UNCHANGED <<world, result, record, exit, clock, faults, deploys, committed,
                   answered>>

\* run_smoke_probes: one result per probe, a failed one never ends the sequence.
Judged(o, n, ok) ==
    [o EXCEPT !.smoke = @ \cup {[name |-> n, passed |-> ok]}, !.attempts = 0]

\* HttpHealthProbe.run: a transport error or a non-2xx answer is retried up to
\* SmokeAttempts times.
Retried(o, n) ==
    IF o.attempts + 1 < SmokeAttempts
    THEN [o EXCEPT !.attempts = @ + 1] ELSE Judged(o, n, FALSE)

\* HttpDigestProbe.run judges the digest on a 2xx answer only.
Answered(o, n) == Judged(o, n, n = "digest" => deploy.digest = o.expected)

\* One GET of the probe in turn.
Probe(p) ==
    LET v == task[p]
        o == obs[p]
        n == NextProbe(v, o)
    IN
    /\ pc[p] = "probe" /\ ~pre_smoke_failure(o) /\ n # None
    /\ \/ /\ deploy.up
          /\ obs' = [obs EXCEPT ![p] = Answered(o, n)]
          /\ answered' = IF n = "digest" THEN answered \cup {<<v.run, deploy.digest>>}
                         ELSE answered
          /\ UNCHANGED faults
       \/ /\ IF deploy.up THEN Fault ELSE UNCHANGED faults
          /\ obs' = [obs EXCEPT ![p] = Retried(o, n)]
          /\ UNCHANGED answered
    /\ UNCHANGED <<world, pc, task, result, record, exit, clock, deploys, committed>>

\* The decision, the record with the release section, the exit code.
Decide_release(p) ==
    /\ pc[p] = "probe" /\ clock < MaxClock
    /\ pre_smoke_failure(obs[p]) \/ NextProbe(task[p], obs[p]) = None
    /\ clock' = clock + 1
    /\ LET e == build_release_evidence(obs[p]) IN
       \/ /\ dir' = [dir EXCEPT !.record =
                  build_release_run_record(task[p], e, clock)]
          /\ Leave(p, IF e.decision = "released" THEN 0 ELSE 1)
          /\ UNCHANGED faults
       \/ \E s \in {dir.record, Torn} :
          /\ dir' = [dir EXCEPT !.record = s] /\ Fault /\ Leave(p, 1)
    /\ UNCHANGED <<repo, staging, deploy, task, result, record, obs, deploys,
                   committed, answered>>

\* The caller has seen the code of the command, or of the job.
End(p) ==
    /\ pc[p] = "job" \/ (pc[p] = "exited" /\ task[p] \in Verifications)
    /\ Gone(p)
    /\ UNCHANGED <<world, clock, faults, deploys, committed, answered>>

(***************************************************************************)
(* factory run publish, and the tail of a terminal factory run advance     *)
(***************************************************************************)

\* load_record: the directory's run_record.json; a missing or torn file exits 2
\* and touches nothing.
Start_publish(p) ==
    /\ pc[p] = "idle" /\ dir.record \notin {None, Torn}
    /\ record' = [record EXCEPT ![p] = dir.record]
    /\ Goto(p, "check")
    /\ UNCHANGED <<world, task, result, obs, exit, clock, faults, deploys,
                   committed, answered>>

\* _publish_run_record: the record a terminal advance builds from the committed
\* state; a refusal is a warning only.
Publish_run_record(p, r) ==
    /\ pc[p] = "idle"
    /\ record' = [record EXCEPT ![p] = r]
    /\ Goto(p, "check")
    /\ UNCHANGED <<world, task, result, obs, exit, clock, faults, deploys,
                   committed, answered>>

\* publish up to the write: the checks, then the snapshot already there.  An
\* equal one is "unchanged", another one an error; both end the command.
Publish_check(p) ==
    /\ pc[p] = "check"
    /\ IF Acceptable(record[p]) /\ repo[run_dir(record[p])] = None
       THEN Goto(p, "open") /\ UNCHANGED <<task, result, record, obs, exit>>
       ELSE Gone(p)
    /\ UNCHANGED <<world, clock, faults, deploys, committed, answered>>

Mine(p) == {s \in staging : s.by = p}

\* _write_atomic: a fresh staging directory whose snapshot is being written...
Open_staging(p) ==
    /\ pc[p] = "open"
    /\ staging' = staging \cup
           {[by |-> p, at |-> run_dir(record[p]), snapshot |-> Torn]}
    /\ Goto(p, "write")
    /\ UNCHANGED <<dir, repo, deploy, task, result, record, obs, exit, clock,
                   faults, deploys, committed, answered>>

\* ...and completed, or given up and removed.
Write_staging(p) ==
    /\ pc[p] = "write"
    /\ \/ /\ staging' = (staging \ Mine(p)) \cup
                  {[by |-> p, at |-> run_dir(record[p]), snapshot |-> record[p]]}
          /\ Goto(p, "rename")
          /\ UNCHANGED <<task, result, record, obs, exit, faults>>
       \/ staging' = staging \ Mine(p) /\ Fault /\ Gone(p)
    /\ UNCHANGED <<dir, repo, deploy, clock, deploys, committed, answered>>

\* Mutant: the rename replaces what is there.
Rename_staging_over(p) ==
    /\ pc[p] = "rename"
    /\ staging' = staging \ Mine(p)
    /\ repo' = [repo EXCEPT ![run_dir(record[p])] = record[p]]
    /\ Gone(p)
    /\ UNCHANGED <<dir, deploy, clock, faults, deploys, committed, answered>>

\* The rename is the commit point.  It fails on a directory that appeared
\* meanwhile; the staging directory is removed either way.
Rename_staging(p) ==
    LET a == run_dir(record[p]) IN
    /\ pc[p] = "rename"
    /\ staging' = staging \ Mine(p)
    /\ repo' = IF repo[a] = None THEN [repo EXCEPT ![a] = record[p]] ELSE repo
    /\ Gone(p)
    /\ UNCHANGED <<dir, deploy, clock, faults, deploys, committed, answered>>

(***************************************************************************)
(* Faults and the environment                                              *)
(***************************************************************************)

\* The process dies.  A file it was writing in place may be cut short; its
\* staging directory stays, no longer anybody's.
Kill(p) ==
    /\ pc[p] # "idle" /\ Fault
    /\ Gone(p)
    /\ \/ UNCHANGED dir
       \/ pc[p] = "snapshot" /\ dir' = [dir EXCEPT !.snapshot = Torn]
       \/ pc[p] = "tmp" /\ dir' = [dir EXCEPT !.tmp = Torn]
       \/ pc[p] = "run_record" /\ dir' = [dir EXCEPT !.record = Torn]
    /\ staging' = {IF s.by = p THEN [s EXCEPT !.by = None] ELSE s : s \in staging}
    /\ UNCHANGED <<repo, deploy, clock, deploys, committed, answered>>

\* Argo moves the deployment, or the service goes down or comes back.
Deploy_moves ==
    /\ deploys < MaxDeploys /\ deploys' = deploys + 1
    /\ \/ \E d \in Digests : deploy' = [deploy EXCEPT !.digest = d]
       \/ \E h \in {"Healthy", "Degraded"} : deploy' = [deploy EXCEPT !.health = h]
       \/ deploy' = [deploy EXCEPT !.up = ~@]
    /\ UNCHANGED <<locals, dir, repo, staging, clock, faults, committed, answered>>

Next ==
    \/ \E p \in Actors :
        \/ \E op \in Operations : Start_stage_run(p, op)
        \/ \E t \in Operations \cup Verifications : Reject_input(p, t)
        \/ Find_existing(p) \/ Persist_input_snapshot(p) \/ Execute_stage(p)
        \/ Record_tmp(p) \/ Record_replace(p) \/ Persist_run_record(p)
        \/ Emit_result(p) \/ Ci_job(p)
        \/ \E v \in Verifications : Start_release_verify(p, v)
        \/ Probe(p) \/ Decide_release(p) \/ End(p)
        \/ Start_publish(p)
        \/ \E r \in Terminal : Publish_run_record(p, r)
        \/ Publish_check(p) \/ Open_staging(p) \/ Write_staging(p)
        \/ Rename_staging(p) \/ Kill(p)
    \/ Deploy_moves

Spec == Init /\ [][Next]_vars

(***************************************************************************)
(* Properties                                                              *)
(***************************************************************************)

Published == {repo[a] : a \in {b \in Addresses : repo[b] # None}}

\* `factory stage run` exits 10, and its CI job is green, only when the result
\* printed is the one the evidence directory holds (persist before wait): after
\* any history of kills, failed writes and runs of other operations there.
ExitIsPersisted ==
    \A p \in Actors :
        \/ pc[p] = "exited" /\ task[p] \in Operations /\ exit[p] = 10
        \/ pc[p] = "job" /\ exit[p] = 0
        => dir.result = result[p]

\* A committed result of an operation is never replaced by another result of the
\* same operation: a repeat of the command replays, it does not execute again.
CommitIsFirst ==
    dir'.result # dir.result /\ dir.result # None =>
        stage_operation_key(dir'.result) # stage_operation_key(dir.result)

\* Every published record of a stage run indexes a result that was committed:
\* no order of failed writes, kills and publications publishes a result that the
\* evidence directory never held.
PublishedIsTrue ==
    \A r \in Published : \A x \in r.results :
        x.op \in Operations => x \in committed

\* A published record is never rewritten or removed, whatever publishers race.
PublishedIsImmutable == \A a \in Addresses : repo[a] # None => repo'[a] = repo[a]

\* The committed result of an operation is not replaced by another of that operation
\* (EvidenceOperationStore.record; the directory has one slot, which the result of
\* another operation may take), and a record in the run repository is never rewritten
\* (RunRecordStore.publish).
CommittedIsKept == [][CommitIsFirst /\ PublishedIsImmutable]_vars

\* A verified run, every accepted verification of which asks for the digest probe.
ProbedDigest(run) ==
    LET asked == {v \in Verifications : v.run = run /\ resolve_inputs(v)}
    IN asked # {} /\ \A v \in asked : "digest" \in v.probes

\* A record that says released, in the directory or published, and whose
\* verification probed the digest, names a digest that the deployment answered
\* with during that run, although the deployment may move at any time.
ReleasedWasServed ==
    \A r \in Published \cup ({dir.record} \ {None, Torn}) :
        r.release # None /\ r.release.decision = "released" /\ ProbedDigest(r.run)
        => <<r.run, r.release.expected>> \in answered

\* With no staging directory about, a lookup by change finds a published record
\* of that very change when there is one, also when two changes share a slug.
LookupIsSound ==
    staging = {} => \A c \in {r.change : r \in Published} :
        find_existing(c) \in {r \in Published : r.change = c}

\* The records of the run repository are true: their results were committed, their releases
\* served, and each can be found by its change.
RecordsAreTrue == PublishedIsTrue /\ ReleasedWasServed /\ LookupIsSound
=============================================================================
