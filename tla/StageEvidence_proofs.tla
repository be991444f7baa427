------------------------- MODULE StageEvidence_proofs -------------------------
(***************************************************************************)
(* Theorems about StageEvidence, for any processes, operations,            *)
(* verifications, deployments and bounds, when the commands on one         *)
(* evidence directory exclude each other (Serial), as the CI workflow's    *)
(* jobs do.                                                                *)
(*                                                                         *)
(* What a command reports is on disk because nobody else writes between    *)
(* its rename and its exit (Exclusive, CommandFits).  A committed result   *)
(* is not replaced because the search before the execution would have      *)
(* found it (Unfinished).  A published record is true because it was true  *)
(* when it was written, and committed results and answers of the           *)
(* deployment are never taken back (True).                                 *)
(***************************************************************************)
EXTENDS StageEvidence, FiniteSetTheorems, NaturalsInduction, WellFoundedInduction, TLAPS

(***************************************************************************)
(* The invariant                                                           *)
(***************************************************************************)

Labels == OnDirectory \cup {"idle", "check", "open", "write", "rename"}

Observations ==
    [expected : {v.expected : v \in Verifications}, observed : Digests, sync : {"Synced"},
     health : {"Healthy", "Degraded"}, smoke : SUBSET [name : Probes, passed : BOOLEAN],
     attempts : Nat]

Directories ==
    [snapshot : {op.revision : op \in Operations} \cup {None, Torn},
     tmp : Results \cup {None, Torn}, result : Results \cup {None},
     record : Records \cup {None, Torn}]

TypeOK ==
    /\ dir \in Directories
    /\ repo \in [Addresses -> Records \cup {None}]
    /\ deploy \in [digest : Digests, sync : {"Synced"}, health : {"Healthy", "Degraded"}, up : BOOLEAN]
    /\ pc \in [Actors -> Labels]
    /\ task \in [Actors -> Operations \cup Verifications \cup {None}]
    /\ result \in [Actors -> Results \cup {None}]
    /\ record \in [Actors -> Records \cup {None}]
    /\ obs \in [Actors -> Observations \cup {None}]
    /\ exit \in [Actors -> Nat \cup {None}]
    /\ clock \in 0 .. MaxClock

Exclusive == \A p, q \in Actors : pc[p] \in OnDirectory /\ pc[q] \in OnDirectory => p = q

\* A stage run has its operation and, once it executed, the result of that operation; what it
\* prints is the committed result.
CommandFits(p) ==
    /\ pc[p] \in {"find", "snapshot", "execute", "tmp", "replace", "run_record", "emit"}
          => task[p] \in Operations
    /\ pc[p] \in {"tmp", "replace", "run_record"} => result[p] \in Results /\ result[p].op = task[p]
    /\ pc[p] = "replace" => dir.tmp = result[p]
    /\ pc[p] = "run_record" => result[p] \in committed
    /\ pc[p] \in {"run_record", "emit"} => result[p] \in Results /\ dir.result = result[p]
    /\ pc[p] = "exited" /\ task[p] \in Operations /\ exit[p] \in {0, 10} => dir.result = result[p]
    /\ pc[p] = "job" /\ exit[p] = 0 => dir.result = result[p]

\* A stage run executes only what the directory has no result of.
Unfinished(p) ==
    pc[p] \in {"snapshot", "execute", "tmp", "replace"} /\ dir.result # None
        => stage_operation_key(dir.result) # operation_key(task[p])

\* A passed digest probe saw the expected digest.
ProbeFits(p) ==
    pc[p] = "probe" =>
        /\ task[p] \in Verifications /\ resolve_inputs(task[p])
        /\ obs[p] \in Observations /\ obs[p].expected = task[p].expected
        /\ \A s \in obs[p].smoke : s.name = "digest" /\ s.passed
              => <<task[p].run, task[p].expected>> \in answered

\* What a record says.
True(r) ==
    /\ \A x \in r.results : x.op \in Operations => x \in committed
    /\ r.release # None /\ r.release.decision = "released" /\ ProbedDigest(r.run)
          => <<r.run, r.release.expected>> \in answered

PublicationFits(p) ==
    pc[p] \in {"check", "open", "write", "rename"} => record[p] \in Records /\ True(record[p])

ProcessFits(p) == CommandFits(p) /\ Unfinished(p) /\ ProbeFits(p) /\ PublicationFits(p)

RecordsFit ==
    /\ \A r \in Records : dir.record = r => True(r)
    /\ \A a \in Addresses, r \in Records : repo[a] = r => True(r) /\ run_dir(r) = a

IInv == TypeOK /\ Exclusive /\ (\A p \in Actors : ProcessFits(p)) /\ RecordsFit

(***************************************************************************)
(* The documents                                                           *)
(***************************************************************************)

\* The one-shot command always ends in a wait.
LEMMA Executes ==
  ASSUME NEW op \in Operations, NEW at \in 0 .. MaxClock
  PROVE  /\ execute_stage(op, at) \in Results
         /\ execute_stage(op, at).op = op /\ execute_stage(op, at).status = "waiting"
<1>1. execute_stage(op, at) \in Results
  BY DEF Results
<1>2. execute_stage(op, at) = StageResult(op, 1, "waiting", at)
  BY AbsentAssumption DEF AbsentAssumption, execute_stage, run_deterministic_stage
<1> QED BY <1>1, <1>2 DEF StageResult

LEMMA ResultFacts ==
  ASSUME NEW x \in Results
  PROVE  x.status = "waiting" /\ x.op \in Operations /\ x # None /\ x # Torn
<1>1. PICK op \in Operations, at \in 0 .. MaxClock : x = execute_stage(op, at)
  BY DEF Results
<1> QED BY <1>1, Executes, AbsentAssumption DEF AbsentAssumption

LEMMA RunRecordFacts ==
  ASSUME NEW x \in Results
  PROVE  /\ build_run_record(x.op, x) \in Records
         /\ build_run_record(x.op, x).results = {x} /\ build_run_record(x.op, x).release = None
<1>1. build_run_record(x.op, x) \in Records
  BY DEF Records
<1> QED BY <1>1 DEF build_run_record, RunRecord

LEMMA ReleaseRecordFacts ==
  ASSUME NEW v \in Verifications, NEW e \in Sections, NEW at \in 0 .. MaxClock
  PROVE  /\ build_release_run_record(v, e, at) \in Records
         /\ build_release_run_record(v, e, at).results = {}
         /\ build_release_run_record(v, e, at).release = e
         /\ build_release_run_record(v, e, at).run = v.run
<1>1. build_release_run_record(v, e, at) \in Records
  BY DEF Records
<1> QED BY <1>1 DEF build_release_run_record, RunRecord

LEMMA TerminalIsTrue ==
  ASSUME NEW r \in Terminal
  PROVE  r \in Records /\ True(r)
<1>1. r \in Records
  BY DEF Records
<1>2. ~ ProbedDigest(r.run)
  BY TasksAssumption DEF TasksAssumption, ProbedDigest
<1>3. \A x \in r.results : x.op \notin Operations
  BY TasksAssumption DEF TasksAssumption
<1> QED BY <1>1, <1>2, <1>3 DEF True

LEMMA NoRecord == None \notin Records /\ Torn \notin Records
BY AbsentAssumption DEF AbsentAssumption

\* Committed results and answers are only added, so what is true stays true.
LEMMA TrueStays ==
  ASSUME NEW r, True(r), committed \subseteq committed', answered \subseteq answered'
  PROVE  True(r)'
BY DEF True

(***************************************************************************)
(* A step of one process                                                   *)
(***************************************************************************)

\* The locals of the others stay.
OthersStay(p) ==
    \A q \in Actors \ {p} :
        /\ pc'[q] = pc[q] /\ task'[q] = task[q] /\ result'[q] = result[q]
        /\ record'[q] = record[q] /\ obs'[q] = obs[q] /\ exit'[q] = exit[q]

\* Only a command on the directory changes its temporary file and its result.
LEMMA ProcessStep ==
  ASSUME IInv, NEW p \in Actors, TypeOK', OthersStay(p),
         committed \subseteq committed', answered \subseteq answered',
         (dir'.tmp = dir.tmp /\ dir'.result = dir.result) \/ pc[p] \in OnDirectory,
         pc'[p] \in OnDirectory => pc[p] \in OnDirectory \/ \A q \in Actors : pc[q] \notin OnDirectory,
         ProcessFits(p)',
         \A r \in Records : dir'.record = r => dir.record = r \/ True(r)',
         \A a \in Addresses, r \in Records :
            repo'[a] = r => repo[a] = r \/ (True(r)' /\ run_dir(r) = a)
  PROVE  IInv'
<1>1. Exclusive'
  BY DEF IInv, Exclusive, OthersStay
<1>2. RecordsFit'
  <2>1. \A r \in Records : dir'.record = r => True(r)'
    BY TrueStays DEF IInv, RecordsFit
  <2>2. \A a \in Addresses, r \in Records : repo'[a] = r => True(r)' /\ run_dir(r) = a
    BY TrueStays DEF IInv, RecordsFit
  <2> QED BY <2>1, <2>2 DEF RecordsFit, run_dir
<1>3. ASSUME NEW q \in Actors \ {p} PROVE ProcessFits(q)'
  <2>1. ProcessFits(q)
    BY DEF IInv
  <2>2. /\ pc'[q] = pc[q] /\ task'[q] = task[q] /\ result'[q] = result[q]
        /\ record'[q] = record[q] /\ obs'[q] = obs[q] /\ exit'[q] = exit[q]
    BY DEF OthersStay
  <2>3. pc[q] \in OnDirectory => dir'.tmp = dir.tmp /\ dir'.result = dir.result
    BY DEF IInv, Exclusive
  <2>4. CommandFits(q)'
    BY <2>1, <2>2, <2>3 DEF ProcessFits, CommandFits, OnDirectory
  <2>5. Unfinished(q)'
    BY <2>1, <2>2, <2>3 DEF ProcessFits, Unfinished, OnDirectory
  <2>6. ProbeFits(q)'
    BY <2>1, <2>2 DEF ProcessFits, ProbeFits
  <2>7. PublicationFits(q)'
    <3>1. PICK r : r = record[q]
      OBVIOUS
    <3>2. True(r) => True(r)'
      BY TrueStays
    <3> QED BY <2>1, <2>2, <3>1, <3>2 DEF ProcessFits, PublicationFits, True
  <2> QED BY <2>4, <2>5, <2>6, <2>7 DEF ProcessFits
<1> QED BY <1>1, <1>2, <1>3 DEF IInv

\* A process that is gone is idle, and fits.
LEMMA GoneFacts ==
  ASSUME IInv, NEW p \in Actors, Gone(p)
  PROVE  /\ pc' \in [Actors -> Labels] /\ pc'[p] = "idle" /\ OthersStay(p) /\ ProcessFits(p)'
         /\ task' \in [Actors -> Operations \cup Verifications \cup {None}]
         /\ result' \in [Actors -> Results \cup {None}]
         /\ record' \in [Actors -> Records \cup {None}]
         /\ obs' \in [Actors -> Observations \cup {None}]
         /\ exit' \in [Actors -> Nat \cup {None}]
<1>1. /\ pc' = [pc EXCEPT ![p] = "idle"] /\ task' = [task EXCEPT ![p] = None]
      /\ result' = [result EXCEPT ![p] = None] /\ record' = [record EXCEPT ![p] = None]
      /\ obs' = [obs EXCEPT ![p] = None] /\ exit' = [exit EXCEPT ![p] = None]
  BY DEF Gone, Goto
<1>2. pc' \in [Actors -> Labels] /\ pc'[p] = "idle"
  BY <1>1 DEF IInv, TypeOK, Labels
<1>3. OthersStay(p)
  BY <1>1 DEF OthersStay, IInv, TypeOK
<1>4. ProcessFits(p)'
  BY <1>2 DEF ProcessFits, CommandFits, Unfinished, ProbeFits, PublicationFits
<1>5. /\ task' \in [Actors -> Operations \cup Verifications \cup {None}]
      /\ result' \in [Actors -> Results \cup {None}]
      /\ record' \in [Actors -> Records \cup {None}]
      /\ obs' \in [Actors -> Observations \cup {None}]
      /\ exit' \in [Actors -> Nat \cup {None}]
  BY <1>1 DEF IInv, TypeOK
<1> QED BY <1>2, <1>3, <1>4, <1>5

\* A step of a process that writes none of the records.
LEMMA PlainStep ==
  ASSUME IInv, NEW p \in Actors, TypeOK', OthersStay(p),
         committed \subseteq committed', answered \subseteq answered',
         (dir'.tmp = dir.tmp /\ dir'.result = dir.result) \/ pc[p] \in OnDirectory,
         pc'[p] \in OnDirectory => pc[p] \in OnDirectory \/ \A q \in Actors : pc[q] \notin OnDirectory,
         ProcessFits(p)', repo' = repo,
         dir'.record = dir.record \/ dir'.record = Torn
  PROVE  IInv'
<1>1. \A r \in Records : dir'.record = r => dir.record = r
  BY NoRecord
<1> QED BY <1>1, ProcessStep

LEMMA Starting ==
  ASSUME Serial, NEW p \in Actors, MayStart(p)
  PROVE  pc[p] = "idle" /\ \A q \in Actors : pc[q] \notin OnDirectory
BY DEF MayStart

LEMMA RejectStep ==
  ASSUME IInv, Serial, NEW p \in Actors, NEW t \in Operations \cup Verifications, Reject_input(p, t)
  PROVE  IInv'
<1>1. /\ task' = [task EXCEPT ![p] = t] /\ pc' = [pc EXCEPT ![p] = "exited"]
      /\ exit' = [exit EXCEPT ![p] = 2]
      /\ UNCHANGED <<dir, repo, deploy, result, record, obs, clock, committed, answered>>
  BY DEF Reject_input, Leave, Goto, world
<1>2. TypeOK'
  BY <1>1 DEF IInv, TypeOK, Labels, OnDirectory
<1>3. OthersStay(p) /\ pc'[p] = "exited" /\ exit'[p] = 2
  BY <1>1 DEF IInv, TypeOK, OthersStay
<1>4. ProcessFits(p)'
  BY <1>3 DEF ProcessFits, CommandFits, Unfinished, ProbeFits, PublicationFits
<1>5. \A q \in Actors : pc[q] \notin OnDirectory
  BY Starting DEF Reject_input
<1> QED BY <1>1, <1>2, <1>3, <1>4, <1>5, PlainStep

LEMMA StartStep ==
  ASSUME IInv, Serial, NEW p \in Actors, NEW op \in Operations, Start_stage_run(p, op)
  PROVE  IInv'
<1>1. /\ task' = [task EXCEPT ![p] = op] /\ pc' = [pc EXCEPT ![p] = "find"]
      /\ UNCHANGED <<dir, repo, deploy, result, record, obs, exit, clock, committed, answered>>
  BY DEF Start_stage_run, Goto, world
<1>2. TypeOK'
  BY <1>1 DEF IInv, TypeOK, Labels, OnDirectory
<1>3. OthersStay(p) /\ pc'[p] = "find" /\ task'[p] = op
  BY <1>1 DEF IInv, TypeOK, OthersStay
<1>4. ProcessFits(p)'
  BY <1>3 DEF ProcessFits, CommandFits, Unfinished, ProbeFits, PublicationFits
<1>5. \A q \in Actors : pc[q] \notin OnDirectory
  BY Starting DEF Start_stage_run
<1> QED BY <1>1, <1>2, <1>3, <1>4, <1>5, PlainStep

\* The search finds the committed result of the operation, whenever there is one.
LEMMA Finds ==
  ASSUME IInv, NEW op
  PROVE  \/ dir.result = None /\ find_committed(operation_key(op)) = None
         \/ /\ dir.result \in Results /\ stage_operation_key(dir.result) # operation_key(op)
            /\ find_committed(operation_key(op)) = None
         \/ /\ dir.result \in Results /\ find_committed(operation_key(op)) = dir.result
            /\ dir.result # None /\ dir.result.status \in REPLAYABLE_RESULT_STATUSES
<1>1. dir.result \in Results \/ dir.result = None
  BY DEF IInv, TypeOK, Directories
<1>2. dir.result \in Results => dir.result # None /\ dir.result # Torn /\ dir.result.status = "waiting"
  BY ResultFacts
<1> QED BY <1>1, <1>2 DEF find_committed, REPLAYABLE_RESULT_STATUSES

LEMMA FindStep ==
  ASSUME IInv, NEW p \in Actors, Find_existing(p)
  PROVE  IInv'
<1>1. pc[p] = "find" /\ task[p] \in Operations
  BY DEF Find_existing, IInv, ProcessFits, CommandFits
<1>2. UNCHANGED <<dir, repo, deploy, task, record, obs, exit, clock, committed, answered>>
  BY DEF Find_existing, world
<1>3. PICK e : e = find_committed(operation_key(task[p]))
  OBVIOUS
<1>4. IF e # None /\ e.status \in REPLAYABLE_RESULT_STATUSES
      THEN result' = [result EXCEPT ![p] = e] /\ pc' = [pc EXCEPT ![p] = "emit"]
      ELSE UNCHANGED result /\ pc' = [pc EXCEPT ![p] = "snapshot"]
  BY <1>3 DEF Find_existing, Goto
<1>5. CASE dir.result \in Results /\ e = dir.result /\ e # None /\ e.status \in REPLAYABLE_RESULT_STATUSES
  <2>1. result' = [result EXCEPT ![p] = e] /\ pc' = [pc EXCEPT ![p] = "emit"]
    BY <1>4, <1>5
  <2>2. TypeOK'
    BY <1>2, <1>5, <2>1 DEF IInv, TypeOK, Labels, OnDirectory
  <2>3. OthersStay(p) /\ pc'[p] = "emit" /\ result'[p] = e
    BY <1>2, <2>1 DEF IInv, TypeOK, OthersStay
  <2>4. ProcessFits(p)'
    BY <1>1, <1>2, <1>5, <2>3 DEF ProcessFits, CommandFits, Unfinished, ProbeFits, PublicationFits
  <2> QED BY <1>1, <1>2, <2>2, <2>3, <2>4, PlainStep DEF OnDirectory
<1>6. CASE e = None /\ (dir.result = None \/ stage_operation_key(dir.result) # operation_key(task[p]))
  <2>1. UNCHANGED result /\ pc' = [pc EXCEPT ![p] = "snapshot"]
    BY <1>4, <1>6
  <2>2. TypeOK'
    BY <1>2, <2>1 DEF IInv, TypeOK, Labels, OnDirectory
  <2>3. OthersStay(p) /\ pc'[p] = "snapshot"
    BY <1>2, <2>1 DEF IInv, TypeOK, OthersStay
  <2>4. CommandFits(p)' /\ ProbeFits(p)' /\ PublicationFits(p)'
    BY <1>1, <1>2, <2>3 DEF CommandFits, ProbeFits, PublicationFits
  <2>5. Unfinished(p)'
    BY <1>2, <1>6 DEF Unfinished, stage_operation_key, operation_key
  <2> QED BY <1>1, <1>2, <2>2, <2>3, <2>4, <2>5, PlainStep DEF OnDirectory, ProcessFits
<1> QED BY <1>3, <1>5, <1>6, Finds

\* A command that leaves with an error it did not print a result with.
LEMMA LeaveStep ==
  ASSUME IInv, NEW p \in Actors, pc[p] \in OnDirectory, Leave(p, 1) \/ Leave(p, 2),
         result' = [result EXCEPT ![p] = None] \/ UNCHANGED result,
         dir' \in Directories, dir'.record = dir.record \/ dir'.record = Torn,
         UNCHANGED <<repo, deploy, task, record, obs, committed, answered>>,
         clock' \in 0 .. MaxClock
  PROVE  IInv'
<1>1. PICK code \in {1, 2} : pc' = [pc EXCEPT ![p] = "exited"] /\ exit' = [exit EXCEPT ![p] = code]
  BY DEF Leave, Goto
<1>2. result' \in [Actors -> Results \cup {None}] /\ \A q \in Actors \ {p} : result'[q] = result[q]
  BY DEF IInv, TypeOK
<1>3. TypeOK'
  <2>1. pc' \in [Actors -> Labels]
    BY <1>1 DEF IInv, TypeOK, Labels, OnDirectory
  <2>2. exit' \in [Actors -> Nat \cup {None}]
    BY <1>1 DEF IInv, TypeOK
  <2> QED BY <1>2, <2>1, <2>2 DEF IInv, TypeOK
<1>4. OthersStay(p) /\ pc'[p] = "exited" /\ exit'[p] = code
  BY <1>1, <1>2 DEF IInv, TypeOK, OthersStay
<1>5. ProcessFits(p)'
  BY <1>4 DEF ProcessFits, CommandFits, Unfinished, ProbeFits, PublicationFits
<1> QED BY <1>3, <1>4, <1>5, PlainStep

\* Each file of the directory, written alone.
LEMMA DirectoryWrites ==
  ASSUME IInv
  PROVE  /\ dir \in Directories
         /\ \A s \in {op.revision : op \in Operations} \cup {None, Torn} :
               LET d == [dir EXCEPT !.snapshot = s]
               IN  d \in Directories /\ d.tmp = dir.tmp /\ d.result = dir.result /\ d.record = dir.record
         /\ \A s \in Results \cup {None, Torn} :
               LET d == [dir EXCEPT !.tmp = s]
               IN  d \in Directories /\ d.tmp = s /\ d.result = dir.result /\ d.record = dir.record
         /\ \A s \in Records \cup {None, Torn} :
               LET d == [dir EXCEPT !.record = s]
               IN  d \in Directories /\ d.tmp = dir.tmp /\ d.result = dir.result /\ d.record = s
         /\ dir.tmp \in Results \cup {None} =>
               LET d == [dir EXCEPT !.result = dir.tmp, !.tmp = None]
               IN  d \in Directories /\ d.tmp = None /\ d.result = dir.tmp /\ d.record = dir.record
<1>1. dir \in Directories
  BY DEF IInv, TypeOK, Directories
<1> QED BY <1>1 DEF Directories

\* A command on the directory goes on to its next label.
LEMMA CommandStep ==
  ASSUME IInv, NEW p \in Actors, pc[p] \in OnDirectory, NEW l \in OnDirectory, Goto(p, l),
         NEW n \in Results \cup {None}, result' = [result EXCEPT ![p] = n],
         dir' \in Directories, dir'.record = dir.record,
         CommandFits(p)', Unfinished(p)', l # "probe",
         UNCHANGED <<repo, deploy, task, record, obs, exit, answered>>,
         committed \subseteq committed', clock' \in 0 .. MaxClock
  PROVE  IInv'
<1>1. pc' = [pc EXCEPT ![p] = l]
  BY DEF Goto
<1>2. TypeOK'
  BY <1>1 DEF IInv, TypeOK, Labels, Directories
<1>3. OthersStay(p) /\ pc'[p] = l
  BY <1>1 DEF IInv, TypeOK, OthersStay
<1>4. ProcessFits(p)'
  BY <1>3 DEF ProcessFits, ProbeFits, PublicationFits, OnDirectory
<1> QED BY <1>2, <1>3, <1>4, PlainStep

LEMMA SnapshotStep ==
  ASSUME IInv, NEW p \in Actors, Persist_input_snapshot(p)
  PROVE  IInv'
<1>1. pc[p] = "snapshot" /\ task[p] \in Operations /\ result[p] \in Results \cup {None}
  BY DEF Persist_input_snapshot, IInv, ProcessFits, CommandFits, TypeOK
<1>2. UNCHANGED <<repo, deploy, task, result, record, obs, clock, committed, answered>>
  BY DEF Persist_input_snapshot
<1>3. result' = [result EXCEPT ![p] = result[p]] /\ clock' \in 0 .. MaxClock
  BY <1>2 DEF IInv, TypeOK
<1>4. CASE dir' = [dir EXCEPT !.snapshot = task[p].revision] /\ Goto(p, "execute") /\ UNCHANGED exit
  <2>1. dir' \in Directories /\ dir'.tmp = dir.tmp /\ dir'.result = dir.result /\ dir'.record = dir.record
    BY <1>1, <1>4, DirectoryWrites
  <2>2. pc'[p] = "execute"
    BY <1>4 DEF Goto, IInv, TypeOK
  <2>3. CommandFits(p)'
    BY <1>1, <1>2, <2>2 DEF CommandFits
  <2>4. Unfinished(p)'
    BY <1>1, <1>2, <2>1 DEF IInv, ProcessFits, Unfinished
  <2> QED BY <1>1, <1>2, <1>3, <1>4, <2>1, <2>3, <2>4, CommandStep DEF OnDirectory
<1>5. ASSUME NEW s \in {dir.snapshot, Torn}, dir' = [dir EXCEPT !.snapshot = s], Leave(p, 2) PROVE IInv'
  <2>1. s \in {op.revision : op \in Operations} \cup {None, Torn}
    BY DEF IInv, TypeOK, Directories
  <2>2. dir' \in Directories /\ dir'.record = dir.record
    BY <1>5, <2>1, DirectoryWrites
  <2> QED BY <1>1, <1>2, <1>3, <1>5, <2>2, LeaveStep DEF OnDirectory
<1> QED BY <1>4, <1>5 DEF Persist_input_snapshot

LEMMA ExecuteStep ==
  ASSUME IInv, NEW p \in Actors, Execute_stage(p)
  PROVE  IInv'
<1>1. pc[p] = "execute" /\ task[p] \in Operations /\ result[p] \in Results \cup {None}
  BY DEF Execute_stage, IInv, ProcessFits, CommandFits, TypeOK
<1>2. UNCHANGED <<dir, repo, deploy, task, record, obs, committed, answered>>
  BY DEF Execute_stage, world
<1>3. dir' \in Directories /\ clock \in 0 .. MaxClock
  BY <1>2, DirectoryWrites DEF IInv, TypeOK
<1>4. CASE /\ result' = [result EXCEPT ![p] = execute_stage(task[p], clock)]
           /\ clock' = clock + 1 /\ clock < MaxClock /\ Goto(p, "tmp") /\ UNCHANGED exit
  <2>1. PICK x \in Results : x = execute_stage(task[p], clock) /\ x.op = task[p]
    BY <1>1, <1>3, Executes
  <2>2. pc'[p] = "tmp" /\ result'[p] = x /\ clock' \in 0 .. MaxClock
    BY <1>3, <1>4, <2>1, EvidenceAssumption DEF Goto, IInv, TypeOK, EvidenceAssumption
  <2>3. CommandFits(p)'
    BY <1>1, <1>2, <2>1, <2>2 DEF CommandFits
  <2>4. Unfinished(p)'
    BY <1>1, <1>2 DEF IInv, ProcessFits, Unfinished
  <2> QED BY <1>1, <1>2, <1>3, <1>4, <2>1, <2>2, <2>3, <2>4, CommandStep DEF OnDirectory
<1>5. CASE Leave(p, 2) /\ UNCHANGED <<result, clock>>
  <2>1. result' = [result EXCEPT ![p] = result[p]]
    BY <1>5 DEF IInv, TypeOK
  <2> QED BY <1>1, <1>2, <1>3, <1>5, <2>1, LeaveStep DEF OnDirectory
<1> QED BY <1>4, <1>5 DEF Execute_stage, No_commit

LEMMA TmpStep ==
  ASSUME IInv, NEW p \in Actors, Record_tmp(p)
  PROVE  IInv'
<1>1. pc[p] = "tmp" /\ task[p] \in Operations /\ result[p] \in Results /\ result[p].op = task[p]
  BY DEF Record_tmp, IInv, ProcessFits, CommandFits
<1>2. UNCHANGED <<repo, deploy, task, record, obs, clock, committed, answered>>
  BY DEF Record_tmp
<1>3. clock' \in 0 .. MaxClock
  BY <1>2 DEF IInv, TypeOK
<1>4. CASE dir' = [dir EXCEPT !.tmp = result[p]] /\ Goto(p, "replace") /\ UNCHANGED <<exit, result>>
  <2>1. dir' \in Directories /\ dir'.tmp = result[p] /\ dir'.result = dir.result /\ dir'.record = dir.record
    BY <1>1, <1>4, DirectoryWrites
  <2>2. pc'[p] = "replace" /\ result' = [result EXCEPT ![p] = result[p]]
    BY <1>4 DEF Goto, IInv, TypeOK
  <2>3. CommandFits(p)'
    BY <1>1, <1>2, <1>4, <2>1, <2>2 DEF CommandFits
  <2>4. Unfinished(p)'
    BY <1>1, <1>2, <2>1 DEF IInv, ProcessFits, Unfinished
  <2> QED BY <1>1, <1>2, <1>3, <1>4, <2>1, <2>2, <2>3, <2>4, CommandStep DEF OnDirectory
<1>5. ASSUME NEW s \in {dir.tmp, Torn}, dir' = [dir EXCEPT !.tmp = s], Leave(p, 1),
             result' = [result EXCEPT ![p] = None]
      PROVE  IInv'
  <2>1. s \in Results \cup {None, Torn}
    BY DEF IInv, TypeOK, Directories
  <2>2. dir' \in Directories /\ dir'.record = dir.record
    BY <1>5, <2>1, DirectoryWrites
  <2> QED BY <1>1, <1>2, <1>3, <1>5, <2>2, LeaveStep DEF OnDirectory
<1> QED BY <1>4, <1>5 DEF Record_tmp

\* The rename commits the process's own result.
LEMMA Replaces ==
  ASSUME IInv, NEW p \in Actors, Record_replace(p)
  PROVE  /\ pc[p] = "replace" /\ task[p] \in Operations /\ result[p] \in Results
         /\ result[p].op = task[p] /\ dir.tmp = result[p] /\ result[p] # None /\ result[p] # Torn
         /\ dir' = [dir EXCEPT !.result = dir.tmp, !.tmp = None]
         /\ committed' = committed \cup {result[p]} /\ Goto(p, "run_record")
         /\ UNCHANGED <<repo, deploy, task, result, record, obs, exit, clock, answered>>
<1>1. /\ pc[p] = "replace" /\ task[p] \in Operations /\ result[p] \in Results
      /\ result[p].op = task[p] /\ dir.tmp = result[p]
  BY DEF Record_replace, IInv, ProcessFits, CommandFits
<1>2. result[p] # None /\ result[p] # Torn
  BY <1>1, ResultFacts
<1> QED BY <1>1, <1>2 DEF Record_replace

LEMMA ReplaceStep ==
  ASSUME IInv, NEW p \in Actors, Record_replace(p)
  PROVE  IInv'
<1>1. /\ pc[p] = "replace" /\ task[p] \in Operations /\ result[p] \in Results
      /\ result[p].op = task[p] /\ dir.tmp = result[p]
      /\ dir' = [dir EXCEPT !.result = dir.tmp, !.tmp = None]
      /\ committed' = committed \cup {result[p]} /\ Goto(p, "run_record")
      /\ UNCHANGED <<repo, deploy, task, result, record, obs, exit, clock, answered>>
  BY Replaces
<1>2. dir' \in Directories /\ dir'.result = result[p] /\ dir'.record = dir.record
  BY <1>1, DirectoryWrites
<1>3. /\ pc'[p] = "run_record" /\ result' = [result EXCEPT ![p] = result[p]]
      /\ clock' \in 0 .. MaxClock
  BY <1>1 DEF Goto, IInv, TypeOK
<1>4. CommandFits(p)' /\ Unfinished(p)'
  BY <1>1, <1>2, <1>3 DEF CommandFits, Unfinished
<1> QED BY <1>1, <1>2, <1>3, <1>4, CommandStep DEF OnDirectory

LEMMA RunRecordStep ==
  ASSUME IInv, NEW p \in Actors, Persist_run_record(p)
  PROVE  IInv'
<1>1. /\ pc[p] = "run_record" /\ task[p] \in Operations /\ result[p] \in Results
      /\ result[p].op = task[p] /\ result[p] \in committed /\ dir.result = result[p]
  BY DEF Persist_run_record, IInv, ProcessFits, CommandFits
<1>2. UNCHANGED <<repo, deploy, task, record, obs, clock, committed, answered>>
  BY DEF Persist_run_record
<1>3. clock' \in 0 .. MaxClock
  BY <1>2 DEF IInv, TypeOK
<1>4. CASE /\ dir' = [dir EXCEPT !.record = build_run_record(task[p], result[p])]
           /\ Goto(p, "emit") /\ UNCHANGED <<exit, result>>
  <2>1. PICK r \in Records : r = build_run_record(task[p], result[p]) /\ r.results = {result[p]} /\ r.release = None
    BY <1>1, RunRecordFacts
  <2>2. dir' \in Directories /\ dir'.result = dir.result /\ dir'.record = r
    BY <1>4, <2>1, DirectoryWrites
  <2>3. True(r)'
    BY <1>1, <1>2, <2>1 DEF True
  <2>4. pc' = [pc EXCEPT ![p] = "emit"]
    BY <1>4 DEF Goto
  <2>5. pc'[p] = "emit" /\ OthersStay(p)
    BY <1>2, <1>4, <2>4 DEF IInv, TypeOK, OthersStay
  <2>6. TypeOK'
    BY <1>2, <1>4, <2>2, <2>4 DEF IInv, TypeOK, Labels, OnDirectory
  <2>7. ProcessFits(p)'
    BY <1>1, <1>2, <1>4, <2>2, <2>5 DEF ProcessFits, CommandFits, Unfinished, ProbeFits, PublicationFits
  <2> QED BY <1>1, <1>2, <2>2, <2>3, <2>5, <2>6, <2>7, ProcessStep DEF OnDirectory
<1>5. ASSUME NEW s \in {dir.record, Torn}, dir' = [dir EXCEPT !.record = s], Leave(p, 1),
             result' = [result EXCEPT ![p] = None]
      PROVE  IInv'
  <2>1. s \in Records \cup {None, Torn}
    BY DEF IInv, TypeOK, Directories
  <2>2. dir' \in Directories /\ (dir'.record = dir.record \/ dir'.record = Torn)
    BY <1>5, <2>1, DirectoryWrites
  <2> QED BY <1>1, <1>2, <1>3, <1>5, <2>2, LeaveStep DEF OnDirectory
<1> QED BY <1>4, <1>5 DEF Persist_run_record

LEMMA ExitCodes ==
  /\ exit_code_for("waiting") = 10
  /\ outcome_for_status(None) = "invalid_input" /\ job_exit_code("invalid_input") = 2
  /\ job_exit_code("waiting") = 0
<1>1. "waiting" # "succeeded" /\ "invalid_input" \notin {"ok", "waiting", "blocked", "failed"}
  OBVIOUS
<1> QED BY <1>1, Zenon DEF exit_code_for, outcome_for_status, job_exit_code

\* The code of the job is a number, and zero only when the command printed a result.
LEMMA JobCode ==
  ASSUME NEW x \in Results \cup {None}
  PROVE  job_exit_code(outcome_for_status(x)) \in Nat
<1>1. CASE x = None
  BY <1>1, ExitCodes
<1>2. CASE x \in Results
  <2>1. x # None /\ x.status = "waiting"
    BY <1>2, ResultFacts
  <2>2. x.status # "succeeded"
    BY <2>1
  <2>3. outcome_for_status(x) = "waiting"
    BY <2>1, <2>2, Zenon DEF outcome_for_status
  <2> QED BY <2>3, ExitCodes
<1> QED BY <1>1, <1>2

LEMMA EmitStep ==
  ASSUME IInv, NEW p \in Actors, Emit_result(p)
  PROVE  IInv'
<1>1. pc[p] = "emit" /\ task[p] \in Operations /\ result[p] \in Results /\ dir.result = result[p]
  BY DEF Emit_result, IInv, ProcessFits, CommandFits
<1>2. UNCHANGED <<dir, repo, deploy, task, result, record, obs, clock, committed, answered>>
  BY DEF Emit_result, world
<1>3. exit_code_for(result[p].status) = 10
  BY <1>1, ResultFacts, ExitCodes
<1>4. pc' = [pc EXCEPT ![p] = "exited"] /\ exit' = [exit EXCEPT ![p] = 10]
  BY <1>3 DEF Emit_result, Leave, Goto
<1>5. pc'[p] = "exited" /\ OthersStay(p)
  BY <1>2, <1>4 DEF IInv, TypeOK, OthersStay
<1>6. TypeOK'
  BY <1>2, <1>4 DEF IInv, TypeOK, Labels, OnDirectory
<1>7. ProcessFits(p)'
  BY <1>1, <1>2, <1>5 DEF ProcessFits, CommandFits, Unfinished, ProbeFits, PublicationFits
<1> QED BY <1>1, <1>2, <1>5, <1>6, <1>7, PlainStep DEF OnDirectory

LEMMA JobStep ==
  ASSUME IInv, NEW p \in Actors, Ci_job(p)
  PROVE  IInv'
<1>1. /\ pc[p] = "exited" /\ task[p] \in Operations /\ result[p] \in Results \cup {None}
      /\ exit[p] \in {0, 10} => dir.result = result[p]
  BY DEF Ci_job, IInv, ProcessFits, CommandFits, TypeOK
<1>2. UNCHANGED <<dir, repo, deploy, task, result, record, obs, clock, committed, answered>>
  BY DEF Ci_job, world
<1>3. PICK code \in Nat \cup {None} :
         exit' = [exit EXCEPT ![p] = code] /\ (exit[p] \notin {0, 10} => code = exit[p])
  BY <1>1, JobCode DEF Ci_job, IInv, TypeOK
<1>4. pc' = [pc EXCEPT ![p] = "job"]
  BY DEF Ci_job, Goto
<1>5. pc'[p] = "job" /\ exit'[p] = code /\ OthersStay(p)
  BY <1>2, <1>3, <1>4 DEF IInv, TypeOK, OthersStay
<1>6. TypeOK'
  BY <1>2, <1>3, <1>4 DEF IInv, TypeOK, Labels, OnDirectory
<1>7. ProcessFits(p)'
  BY <1>1, <1>2, <1>3, <1>5 DEF ProcessFits, CommandFits, Unfinished, ProbeFits, PublicationFits
<1> QED BY <1>1, <1>2, <1>5, <1>6, <1>7, PlainStep DEF OnDirectory

\* A step after which the process is gone, having written none of the records.
LEMMA GoneStep ==
  ASSUME IInv, NEW p \in Actors, Gone(p), dir' \in Directories,
         (dir'.tmp = dir.tmp /\ dir'.result = dir.result) \/ pc[p] \in OnDirectory,
         dir'.record = dir.record \/ dir'.record = Torn,
         UNCHANGED <<repo, deploy, clock, committed, answered>>
  PROVE  IInv'
<1>1. /\ pc' \in [Actors -> Labels] /\ pc'[p] = "idle" /\ OthersStay(p) /\ ProcessFits(p)'
      /\ task' \in [Actors -> Operations \cup Verifications \cup {None}]
      /\ result' \in [Actors -> Results \cup {None}]
      /\ record' \in [Actors -> Records \cup {None}]
      /\ obs' \in [Actors -> Observations \cup {None}]
      /\ exit' \in [Actors -> Nat \cup {None}]
  BY GoneFacts
<1>2. TypeOK'
  BY <1>1 DEF IInv, TypeOK
<1> QED BY <1>1, <1>2, PlainStep DEF OnDirectory

LEMMA EndStep ==
  ASSUME IInv, NEW p \in Actors, End(p)
  PROVE  IInv'
<1>1. Gone(p) /\ UNCHANGED <<dir, repo, deploy, clock, committed, answered>>
  BY DEF End, world
<1> QED BY <1>1, GoneStep, DirectoryWrites

LEMMA KillStep ==
  ASSUME IInv, NEW p \in Actors, Kill(p)
  PROVE  IInv'
<1>1. Gone(p) /\ UNCHANGED <<repo, deploy, clock, committed, answered>>
  BY DEF Kill
<1>2. \/ UNCHANGED dir
      \/ pc[p] = "snapshot" /\ dir' = [dir EXCEPT !.snapshot = Torn]
      \/ pc[p] = "tmp" /\ dir' = [dir EXCEPT !.tmp = Torn]
      \/ pc[p] = "run_record" /\ dir' = [dir EXCEPT !.record = Torn]
  BY DEF Kill
<1>3. /\ dir' \in Directories /\ (dir'.record = dir.record \/ dir'.record = Torn)
      /\ (dir'.tmp = dir.tmp /\ dir'.result = dir.result) \/ pc[p] \in OnDirectory
  <2>1. CASE UNCHANGED dir
    BY <2>1, DirectoryWrites
  <2>2. CASE pc[p] = "snapshot" /\ dir' = [dir EXCEPT !.snapshot = Torn]
    BY <2>2, DirectoryWrites
  <2>3. CASE pc[p] = "tmp" /\ dir' = [dir EXCEPT !.tmp = Torn]
    BY <2>3, DirectoryWrites DEF OnDirectory
  <2>4. CASE pc[p] = "run_record" /\ dir' = [dir EXCEPT !.record = Torn]
    BY <2>4, DirectoryWrites
  <2> QED BY <1>2, <2>1, <2>2, <2>3, <2>4
<1> QED BY <1>1, <1>3, GoneStep

(***************************************************************************)
(* The release verification                                                *)
(***************************************************************************)

LEMMA StartVerifyStep ==
  ASSUME IInv, Serial, NEW p \in Actors, NEW v \in Verifications, Start_release_verify(p, v)
  PROVE  IInv'
<1>1. PICK o : o = ReleaseObservation(v)
  OBVIOUS
<1>2. o \in Observations /\ o.expected = v.expected /\ o.smoke = {}
  BY <1>1 DEF ReleaseObservation, resolve_expected_digest, Observations, IInv, TypeOK
<1>3. /\ task' = [task EXCEPT ![p] = v] /\ pc' = [pc EXCEPT ![p] = "probe"]
      /\ obs' = [obs EXCEPT ![p] = o] /\ resolve_inputs(v)
      /\ UNCHANGED <<dir, repo, deploy, result, record, exit, clock, committed, answered>>
  BY <1>1 DEF Start_release_verify, Goto, world
<1>4. TypeOK'
  BY <1>2, <1>3 DEF IInv, TypeOK, Labels, OnDirectory
<1>5. OthersStay(p) /\ pc'[p] = "probe" /\ task'[p] = v /\ obs'[p] = o
  BY <1>3 DEF IInv, TypeOK, OthersStay
<1>6. ProcessFits(p)'
  BY <1>2, <1>3, <1>5 DEF ProcessFits, CommandFits, Unfinished, ProbeFits, PublicationFits
<1>7. \A q \in Actors : pc[q] \notin OnDirectory
  BY Starting DEF Start_release_verify
<1> QED BY <1>3, <1>4, <1>5, <1>6, <1>7, PlainStep

\* The outcome of a probe: the digest counts as passed only when it is the expected one.
LEMMA ProbeOutcomes ==
  ASSUME IInv, NEW o \in Observations, NEW n \in Probes
  PROVE  /\ Answered(o, n) \in Observations /\ Answered(o, n).expected = o.expected
         /\ \A s \in Answered(o, n).smoke : s.name = "digest" /\ s.passed
               => s \in o.smoke \/ (n = "digest" /\ deploy.digest = o.expected)
         /\ Retried(o, n) \in Observations /\ Retried(o, n).expected = o.expected
         /\ \A s \in Retried(o, n).smoke : s.passed => s \in o.smoke
<1>1. \A ok \in BOOLEAN : /\ Judged(o, n, ok) \in Observations /\ Judged(o, n, ok).expected = o.expected
                          /\ Judged(o, n, ok).smoke = o.smoke \cup {[name |-> n, passed |-> ok]}
  <2>1. SUFFICES ASSUME NEW ok \in BOOLEAN
                 PROVE  /\ Judged(o, n, ok) \in Observations /\ Judged(o, n, ok).expected = o.expected
                        /\ Judged(o, n, ok).smoke = o.smoke \cup {[name |-> n, passed |-> ok]}
    OBVIOUS
  <2>2. PICK t : t = o.smoke \cup {[name |-> n, passed |-> ok]}
    OBVIOUS
  <2>3. t \in SUBSET [name : Probes, passed : BOOLEAN]
    <3>1. o.smoke \in SUBSET [name : Probes, passed : BOOLEAN]
      BY DEF Observations
    <3> QED BY <2>2, <3>1
  <2>4. Judged(o, n, ok) = [o EXCEPT !.smoke = t, !.attempts = 0]
    BY <2>2 DEF Judged
  <2>5. /\ [o EXCEPT !.smoke = t, !.attempts = 0] \in Observations
        /\ [o EXCEPT !.smoke = t, !.attempts = 0].expected = o.expected
        /\ [o EXCEPT !.smoke = t, !.attempts = 0].smoke = t
    BY <2>3 DEF Observations
  <2> QED BY <2>2, <2>4, <2>5
<1>2. PICK ok \in BOOLEAN : ok = (n = "digest" => deploy.digest = o.expected)
  OBVIOUS
<1>3. Answered(o, n) = Judged(o, n, ok)
  BY <1>2 DEF Answered
<1>4. \A s \in Answered(o, n).smoke : s.name = "digest" /\ s.passed
               => s \in o.smoke \/ (n = "digest" /\ deploy.digest = o.expected)
  <2>1. SUFFICES ASSUME NEW s \in o.smoke \cup {[name |-> n, passed |-> ok]}, s.name = "digest", s.passed,
                        s \notin o.smoke
                 PROVE  n = "digest" /\ deploy.digest = o.expected
    BY <1>1, <1>3
  <2>2. s = [name |-> n, passed |-> ok]
    BY <2>1
  <2>3. n = "digest" /\ ok
    BY <2>1, <2>2
  <2> QED BY <1>2, <2>3
<1>5. CASE Retried(o, n) = Judged(o, n, FALSE)
  <2>1. \A s \in o.smoke \cup {[name |-> n, passed |-> FALSE]} : s.passed => s \in o.smoke
    OBVIOUS
  <2>2. /\ Judged(o, n, FALSE) \in Observations /\ Judged(o, n, FALSE).expected = o.expected
        /\ Judged(o, n, FALSE).smoke = o.smoke \cup {[name |-> n, passed |-> FALSE]}
    BY <1>1
  <2>3. Answered(o, n) \in Observations /\ Answered(o, n).expected = o.expected
    BY <1>1, <1>3
  <2> QED BY <1>4, <1>5, <2>1, <2>2, <2>3
<1>6. CASE Retried(o, n) = [o EXCEPT !.attempts = @ + 1]
  <2>1. /\ [o EXCEPT !.attempts = @ + 1] \in Observations
        /\ [o EXCEPT !.attempts = @ + 1].expected = o.expected /\ [o EXCEPT !.attempts = @ + 1].smoke = o.smoke
    BY DEF Observations
  <2> QED BY <1>1, <1>3, <1>4, <1>6, <2>1
<1> QED BY <1>5, <1>6 DEF Retried

LEMMA ProbeStep ==
  ASSUME IInv, NEW p \in Actors, Probe(p)
  PROVE  IInv'
<1>1. /\ pc[p] = "probe" /\ task[p] \in Verifications /\ resolve_inputs(task[p])
      /\ obs[p] \in Observations /\ obs[p].expected = task[p].expected
      /\ \A s \in obs[p].smoke : s.name = "digest" /\ s.passed
              => <<task[p].run, task[p].expected>> \in answered
  BY DEF Probe, IInv, ProcessFits, ProbeFits
<1>2. PICK n : n = NextProbe(task[p], obs[p])
  OBVIOUS
<1>3. n \in Probes
  BY <1>2, AbsentAssumption DEF Probe, NextProbe, Probes, AbsentAssumption
<1>4. UNCHANGED <<dir, repo, deploy, pc, task, result, record, exit, clock, committed>>
  BY DEF Probe, world
<1>5. PICK o \in Observations :
         /\ obs' = [obs EXCEPT ![p] = o] /\ o.expected = task[p].expected
         /\ answered \subseteq answered'
         /\ \A s \in o.smoke : s.name = "digest" /\ s.passed
              => <<task[p].run, task[p].expected>> \in answered'
  <2>0. PICK x : x = obs[p]
    OBVIOUS
  <2>1. CASE /\ obs' = [obs EXCEPT ![p] = Answered(obs[p], n)]
             /\ answered' = IF n = "digest" THEN answered \cup {<<task[p].run, deploy.digest>>}
                            ELSE answered
    <3>1. PICK o \in Observations :
             /\ o = Answered(x, n) /\ o.expected = x.expected
             /\ \A s \in o.smoke : s.name = "digest" /\ s.passed
                   => s \in x.smoke \/ (n = "digest" /\ deploy.digest = x.expected)
      BY <1>1, <1>3, <2>0, ProbeOutcomes
    <3> QED BY <1>1, <2>0, <2>1, <3>1
  <2>2. CASE obs' = [obs EXCEPT ![p] = Retried(obs[p], n)] /\ UNCHANGED answered
    <3>1. PICK o \in Observations :
             o = Retried(x, n) /\ o.expected = x.expected /\ (\A s \in o.smoke : s.passed => s \in x.smoke)
      BY <1>1, <1>3, <2>0, ProbeOutcomes
    <3> QED BY <1>1, <2>0, <2>2, <3>1
  <2> QED BY <1>2, <2>1, <2>2 DEF Probe
<1>6. TypeOK'
  BY <1>4, <1>5 DEF IInv, TypeOK
<1>7. OthersStay(p) /\ pc'[p] = "probe" /\ task'[p] = task[p] /\ obs'[p] = o
  BY <1>1, <1>4, <1>5 DEF IInv, TypeOK, OthersStay
<1>8. ProcessFits(p)'
  BY <1>1, <1>4, <1>5, <1>7 DEF ProcessFits, CommandFits, Unfinished, ProbeFits, PublicationFits
<1> QED BY <1>1, <1>4, <1>5, <1>6, <1>7, <1>8, PlainStep DEF OnDirectory

\* A release is decided only on a passed digest probe, when one was asked for.
LEMMA ReleasedPassed ==
  ASSUME NEW v \in Verifications, NEW o \in Observations, evaluate_release(o) = "released",
         pre_smoke_failure(o) \/ NextProbe(v, o) = None, resolve_inputs(v), "digest" \in v.probes
  PROVE  \E s \in o.smoke : s.name = "digest" /\ s.passed
<1>1. ~ pre_smoke_failure(o) /\ smoke_status(o.smoke) = "passed"
  BY DEF evaluate_release
<1>2. \A s \in o.smoke : s.passed
  BY <1>1 DEF smoke_status
<1>3. NextProbe(v, o) = None
  BY <1>1
<1>4. "health" # None /\ "digest" # None
  BY AbsentAssumption DEF AbsentAssumption, Probes
<1>5. \E s \in o.smoke : s.name = "digest"
  BY <1>3, <1>4 DEF NextProbe
<1> QED BY <1>2, <1>5

LEMMA DecideStep ==
  ASSUME IInv, NEW p \in Actors, Decide_release(p)
  PROVE  IInv'
<1>1. /\ pc[p] = "probe" /\ task[p] \in Verifications /\ resolve_inputs(task[p])
      /\ obs[p] \in Observations /\ obs[p].expected = task[p].expected
      /\ \A s \in obs[p].smoke : s.name = "digest" /\ s.passed
              => <<task[p].run, task[p].expected>> \in answered
      /\ clock \in 0 .. MaxClock
  BY DEF Decide_release, IInv, ProcessFits, ProbeFits, TypeOK
<1>2. /\ UNCHANGED <<repo, deploy, task, result, record, obs, committed, answered>>
      /\ pre_smoke_failure(obs[p]) \/ NextProbe(task[p], obs[p]) = None
  BY DEF Decide_release
<1>3. clock' \in 0 .. MaxClock
  BY <1>1, EvidenceAssumption DEF Decide_release, EvidenceAssumption
<1>4. PICK e : e = build_release_evidence(obs[p])
  OBVIOUS
<1>5. /\ e \in Sections /\ e.expected = task[p].expected
      /\ e.decision = evaluate_release(obs[p])
  BY <1>1, <1>4 DEF build_release_evidence, ReleaseSection, Sections, Observations, evaluate_release
<1>6. CASE /\ dir' = [dir EXCEPT !.record = build_release_run_record(task[p], e, clock)]
           /\ Leave(p, IF e.decision = "released" THEN 0 ELSE 1)
  <2>1. PICK r \in Records : /\ r = build_release_run_record(task[p], e, clock)
                             /\ r.results = {} /\ r.release = e /\ r.run = task[p].run
    BY <1>1, <1>5, ReleaseRecordFacts
  <2>2. dir' \in Directories /\ dir'.tmp = dir.tmp /\ dir'.result = dir.result /\ dir'.record = r
    BY <1>6, <2>1, DirectoryWrites
  <2>3. True(r)'
    <3>1. SUFFICES ASSUME e.decision = "released", ProbedDigest(task[p].run)
                   PROVE  <<task[p].run, task[p].expected>> \in answered
      BY <1>2, <1>5, <2>1 DEF True, ProbedDigest
    <3>2. "digest" \in task[p].probes
      BY <1>1, <3>1 DEF ProbedDigest
    <3>3. \E s \in obs[p].smoke : s.name = "digest" /\ s.passed
      BY <1>1, <1>2, <1>5, <3>1, <3>2, ReleasedPassed
    <3> QED BY <1>1, <3>3
  <2>4. PICK code \in {0, 1} : pc' = [pc EXCEPT ![p] = "exited"] /\ exit' = [exit EXCEPT ![p] = code]
    BY <1>6 DEF Leave, Goto
  <2>5. pc'[p] = "exited" /\ OthersStay(p) /\ task'[p] \notin Operations
    BY <1>1, <1>2, <2>4, TasksAssumption DEF IInv, TypeOK, OthersStay, TasksAssumption
  <2>6. TypeOK'
    <3>1. pc' \in [Actors -> Labels]
      BY <2>4 DEF IInv, TypeOK, Labels, OnDirectory
    <3>2. exit' \in [Actors -> Nat \cup {None}]
      BY <2>4 DEF IInv, TypeOK
    <3> QED BY <1>2, <1>3, <2>2, <3>1, <3>2 DEF IInv, TypeOK
  <2>7. ProcessFits(p)'
    BY <2>5 DEF ProcessFits, CommandFits, Unfinished, ProbeFits, PublicationFits
  <2> QED BY <1>1, <1>2, <2>2, <2>3, <2>5, <2>6, <2>7, ProcessStep DEF OnDirectory
<1>7. ASSUME NEW s \in {dir.record, Torn}, dir' = [dir EXCEPT !.record = s], Leave(p, 1) PROVE IInv'
  <2>1. s \in Records \cup {None, Torn}
    BY DEF IInv, TypeOK, Directories
  <2>2. dir' \in Directories /\ (dir'.record = dir.record \/ dir'.record = Torn)
    BY <1>7, <2>1, DirectoryWrites
  <2> QED BY <1>1, <1>2, <1>3, <1>7, <2>2, LeaveStep DEF OnDirectory
<1> QED BY <1>4, <1>6, <1>7 DEF Decide_release

(***************************************************************************)
(* The publication                                                         *)
(***************************************************************************)

Publishing == {"check", "open", "write", "rename"}

\* A publisher takes up a record, or goes on with the one it has.
LEMMA PublishStep ==
  ASSUME IInv, NEW p \in Actors, NEW l \in Publishing, Goto(p, l), NEW r \in Records, True(r),
         record' = [record EXCEPT ![p] = r],
         UNCHANGED <<dir, repo, deploy, task, result, obs, exit, clock, committed, answered>>
  PROVE  IInv'
<1>1. pc' = [pc EXCEPT ![p] = l]
  BY DEF Goto
<1>2. TypeOK'
  BY <1>1 DEF IInv, TypeOK, Labels, Publishing
<1>3. OthersStay(p) /\ pc'[p] = l /\ record'[p] = r
  BY <1>1 DEF IInv, TypeOK, OthersStay
<1>4. CommandFits(p)' /\ Unfinished(p)' /\ ProbeFits(p)'
  BY <1>3 DEF CommandFits, Unfinished, ProbeFits, Publishing
<1>5. True(r)'
  BY TrueStays
<1>6. PublicationFits(p)'
  BY <1>3, <1>5 DEF PublicationFits, True
<1> QED BY <1>2, <1>3, <1>4, <1>6, PlainStep DEF ProcessFits, OnDirectory, Publishing

LEMMA StartPublishStep ==
  ASSUME IInv, NEW p \in Actors, Start_publish(p)
  PROVE  IInv'
<1>1. PICK r \in Records : r = dir.record /\ True(r)
  BY DEF Start_publish, IInv, TypeOK, Directories, RecordsFit
<1>2. /\ record' = [record EXCEPT ![p] = r] /\ Goto(p, "check")
      /\ UNCHANGED <<dir, repo, deploy, task, result, obs, exit, clock, committed, answered>>
  BY <1>1 DEF Start_publish, world
<1> QED BY <1>1, <1>2, PublishStep DEF Publishing

LEMMA PublishTerminalStep ==
  ASSUME IInv, NEW p \in Actors, NEW r \in Terminal, Publish_run_record(p, r)
  PROVE  IInv'
<1>1. r \in Records /\ True(r)
  BY TerminalIsTrue
<1>2. /\ record' = [record EXCEPT ![p] = r] /\ Goto(p, "check")
      /\ UNCHANGED <<dir, repo, deploy, task, result, obs, exit, clock, committed, answered>>
  BY DEF Publish_run_record, world
<1> QED BY <1>1, <1>2, PublishStep DEF Publishing

\* The steps between the checks and the rename touch staging directories only.
LEMMA StagingStep ==
  ASSUME IInv, NEW p \in Actors, Publish_check(p) \/ Open_staging(p) \/ Write_staging(p)
  PROVE  IInv'
<1>1. PICK r \in Records : r = record[p] /\ True(r) /\ record = [record EXCEPT ![p] = r]
  <2>1. record[p] \in Records /\ True(record[p])
    BY DEF Publish_check, Open_staging, Write_staging, IInv, ProcessFits, PublicationFits
  <2>2. record = [record EXCEPT ![p] = record[p]]
    BY DEF IInv, TypeOK
  <2> QED BY <2>1, <2>2
<1>2. UNCHANGED <<dir, repo, deploy, clock, committed, answered>>
  BY DEF Publish_check, Open_staging, Write_staging, world
<1>3. CASE Gone(p)
  BY <1>2, <1>3, GoneStep, DirectoryWrites
<1>4. CASE (\E l \in Publishing : Goto(p, l)) /\ UNCHANGED <<task, result, record, obs, exit>>
  BY <1>1, <1>2, <1>4, PublishStep
<1> QED BY <1>3, <1>4 DEF Publish_check, Open_staging, Write_staging, Publishing

LEMMA RenameStep ==
  ASSUME IInv, NEW p \in Actors, Rename_staging(p)
  PROVE  IInv'
<1>1. PICK r \in Records : r = record[p] /\ True(r)
  BY DEF Rename_staging, IInv, ProcessFits, PublicationFits
<1>2. /\ repo' = IF repo[run_dir(r)] = None THEN [repo EXCEPT ![run_dir(r)] = r] ELSE repo
      /\ Gone(p) /\ UNCHANGED <<dir, deploy, clock, committed, answered>>
  BY <1>1 DEF Rename_staging
<1>3. /\ pc' \in [Actors -> Labels] /\ pc'[p] = "idle" /\ OthersStay(p) /\ ProcessFits(p)'
      /\ task' \in [Actors -> Operations \cup Verifications \cup {None}]
      /\ result' \in [Actors -> Results \cup {None}]
      /\ record' \in [Actors -> Records \cup {None}]
      /\ obs' \in [Actors -> Observations \cup {None}]
      /\ exit' \in [Actors -> Nat \cup {None}]
  BY <1>2, GoneFacts
<1>4. repo' \in [Addresses -> Records \cup {None}]
  BY <1>2 DEF IInv, TypeOK
<1>5. TypeOK'
  BY <1>2, <1>3, <1>4 DEF IInv, TypeOK
<1>6. True(r)'
  BY <1>1, <1>2, TrueStays
<1>7. \A a \in Addresses : repo'[a] = repo[a] \/ (a = run_dir(r) /\ repo'[a] = r)
  BY <1>2 DEF IInv, TypeOK
<1>8. \A a \in Addresses, x \in Records : repo'[a] = x => repo[a] = x \/ (True(x)' /\ run_dir(x) = a)
  BY <1>6, <1>7
<1> QED BY <1>2, <1>3, <1>5, <1>8, ProcessStep DEF OnDirectory

(***************************************************************************)
(* The invariant holds                                                     *)
(***************************************************************************)

LEMMA DeployStep ==
  ASSUME IInv, Deploy_moves
  PROVE  IInv'
<1>1. UNCHANGED <<pc, task, result, record, obs, exit, dir, repo, clock, committed, answered>>
  BY DEF Deploy_moves, locals
<1>2. deploy' \in [digest : Digests, sync : {"Synced"}, health : {"Healthy", "Degraded"}, up : BOOLEAN]
  <2>1. deploy \in [digest : Digests, sync : {"Synced"}, health : {"Healthy", "Degraded"}, up : BOOLEAN]
    BY DEF IInv, TypeOK
  <2> QED BY <2>1 DEF Deploy_moves
<1>3. TypeOK'
  BY <1>1, <1>2 DEF IInv, TypeOK
<1>4. \A p \in Actors : ProcessFits(p)'
  BY <1>1 DEF IInv, ProcessFits, CommandFits, Unfinished, ProbeFits, PublicationFits, True
<1>5. Exclusive' /\ RecordsFit'
  BY <1>1 DEF IInv, Exclusive, RecordsFit, True, run_dir
<1> QED BY <1>3, <1>4, <1>5 DEF IInv

LEMMA StutterStep ==
  ASSUME IInv, UNCHANGED vars
  PROVE  IInv'
<1>1. UNCHANGED <<pc, task, result, record, obs, exit, dir, repo, deploy, clock, committed, answered>>
  BY DEF vars, locals, world
<1>2. TypeOK'
  BY <1>1 DEF IInv, TypeOK
<1>3. \A p \in Actors : ProcessFits(p)'
  BY <1>1 DEF IInv, ProcessFits, CommandFits, Unfinished, ProbeFits, PublicationFits, True
<1>4. Exclusive' /\ RecordsFit'
  BY <1>1 DEF IInv, Exclusive, RecordsFit, True, run_dir
<1> QED BY <1>2, <1>3, <1>4 DEF IInv

LEMMA InitFits == Init => IInv
<1> SUFFICES ASSUME Init PROVE IInv
  OBVIOUS
<1>1. TypeOK
  BY EvidenceAssumption DEF Init, TypeOK, Directories, Labels, EvidenceAssumption
<1>2. \A p \in Actors : pc[p] = "idle"
  BY DEF Init
<1>3. Exclusive /\ \A p \in Actors : ProcessFits(p)
  BY <1>2 DEF Exclusive, OnDirectory, ProcessFits, CommandFits, Unfinished, ProbeFits, PublicationFits
<1>4. RecordsFit
  BY NoRecord DEF Init, RecordsFit
<1> QED BY <1>1, <1>3, <1>4 DEF IInv

LEMMA NextStep ==
  ASSUME IInv, Serial, [Next]_vars
  PROVE  IInv'
<1>1. CASE UNCHANGED vars
  BY <1>1, StutterStep
<1>2. CASE Deploy_moves
  BY <1>2, DeployStep
<1>3. ASSUME NEW p \in Actors, NEW op \in Operations, Start_stage_run(p, op) PROVE IInv'
  BY <1>3, StartStep
<1>4. ASSUME NEW p \in Actors, NEW t \in Operations \cup Verifications, Reject_input(p, t) PROVE IInv'
  BY <1>4, RejectStep
<1>5. ASSUME NEW p \in Actors, Find_existing(p) PROVE IInv'
  BY <1>5, FindStep
<1>6. ASSUME NEW p \in Actors, Persist_input_snapshot(p) PROVE IInv'
  BY <1>6, SnapshotStep
<1>7. ASSUME NEW p \in Actors, Execute_stage(p) PROVE IInv'
  BY <1>7, ExecuteStep
<1>8. ASSUME NEW p \in Actors, Record_tmp(p) PROVE IInv'
  BY <1>8, TmpStep
<1>9. ASSUME NEW p \in Actors, Record_replace(p) PROVE IInv'
  BY <1>9, ReplaceStep
<1>10. ASSUME NEW p \in Actors, Persist_run_record(p) PROVE IInv'
  BY <1>10, RunRecordStep
<1>11. ASSUME NEW p \in Actors, Emit_result(p) PROVE IInv'
  BY <1>11, EmitStep
<1>12. ASSUME NEW p \in Actors, Ci_job(p) PROVE IInv'
  BY <1>12, JobStep
<1>13. ASSUME NEW p \in Actors, NEW v \in Verifications, Start_release_verify(p, v) PROVE IInv'
  BY <1>13, StartVerifyStep
<1>14. ASSUME NEW p \in Actors, Probe(p) PROVE IInv'
  BY <1>14, ProbeStep
<1>15. ASSUME NEW p \in Actors, Decide_release(p) PROVE IInv'
  BY <1>15, DecideStep
<1>16. ASSUME NEW p \in Actors, End(p) PROVE IInv'
  BY <1>16, EndStep
<1>17. ASSUME NEW p \in Actors, Start_publish(p) PROVE IInv'
  BY <1>17, StartPublishStep
<1>18. ASSUME NEW p \in Actors, NEW r \in Terminal, Publish_run_record(p, r) PROVE IInv'
  BY <1>18, PublishTerminalStep
<1>19. ASSUME NEW p \in Actors, Publish_check(p) \/ Open_staging(p) \/ Write_staging(p) PROVE IInv'
  BY <1>19, StagingStep
<1>20. ASSUME NEW p \in Actors, Rename_staging(p) PROVE IInv'
  BY <1>20, RenameStep
<1>21. ASSUME NEW p \in Actors, Kill(p) PROVE IInv'
  BY <1>21, KillStep
<1> QED BY <1>1, <1>2, <1>3, <1>4, <1>5, <1>6, <1>7, <1>8, <1>9, <1>10, <1>11, <1>12, <1>13, <1>14,
            <1>15, <1>16, <1>17, <1>18, <1>19, <1>20, <1>21 DEF Next

\* In every state the records, the directory and what each process is about to do with them
\* fit together (all of StageEvidence, commands on the directory one at a time).
THEOREM Invariance == Serial => (Spec => []IInv)
<1> SUFFICES ASSUME Serial PROVE Spec => []IInv
  OBVIOUS
<1>1. IInv /\ [Next]_vars => IInv'
  BY NextStep
<1> QED BY <1>1, InitFits, PTL DEF Spec

\* A stage run that exits 10, and a green CI job, report the result that the directory holds,
\* after any history of kills, failed writes and runs of other operations.
THEOREM ExitsArePersisted == Serial => (Spec => []ExitIsPersisted)
<1> SUFFICES ASSUME Serial PROVE Spec => []ExitIsPersisted
  OBVIOUS
<1>1. IInv => ExitIsPersisted
  BY DEF IInv, ProcessFits, CommandFits, ExitIsPersisted
<1> QED BY <1>1, Invariance, PTL

\* Only the rename of a stage run changes the committed result.
LEMMA ResultChanges ==
  ASSUME IInv, [Next]_vars, dir'.result # dir.result
  PROVE  \E p \in Actors : Record_replace(p)
<1>1. CASE UNCHANGED vars
  BY <1>1 DEF vars, world
<1>2. CASE Deploy_moves
  BY <1>2 DEF Deploy_moves
<1>3. ASSUME NEW p \in Actors, NEW s, \/ dir' = [dir EXCEPT !.snapshot = s]
                                      \/ dir' = [dir EXCEPT !.tmp = s]
                                      \/ dir' = [dir EXCEPT !.record = s]
                                      \/ UNCHANGED dir
      PROVE  FALSE
  BY <1>3 DEF IInv, TypeOK, Directories
<1>4. ASSUME NEW p \in Actors, ~ Record_replace(p),
             \/ \E op \in Operations : Start_stage_run(p, op)
             \/ \E t \in Operations \cup Verifications : Reject_input(p, t)
             \/ Find_existing(p) \/ Execute_stage(p) \/ Emit_result(p) \/ Ci_job(p)
             \/ \E v \in Verifications : Start_release_verify(p, v)
             \/ Probe(p) \/ End(p) \/ Start_publish(p)
             \/ \E r \in Terminal : Publish_run_record(p, r)
             \/ Publish_check(p) \/ Open_staging(p) \/ Write_staging(p) \/ Rename_staging(p)
      PROVE  UNCHANGED dir
  BY <1>4 DEF Start_stage_run, Reject_input, Find_existing, Execute_stage, Emit_result, Ci_job,
              Start_release_verify, Probe, End, Start_publish, Publish_run_record, Publish_check,
              Open_staging, Write_staging, Rename_staging, world
<1>5. ASSUME NEW p \in Actors, Persist_input_snapshot(p) \/ Record_tmp(p) \/ Persist_run_record(p) \/ Kill(p)
      PROVE  \E s : \/ dir' = [dir EXCEPT !.snapshot = s] \/ dir' = [dir EXCEPT !.tmp = s]
                    \/ dir' = [dir EXCEPT !.record = s] \/ UNCHANGED dir
  BY <1>5 DEF Persist_input_snapshot, Record_tmp, Persist_run_record, Kill
<1>6. ASSUME NEW p \in Actors, Decide_release(p)
      PROVE  \E s : dir' = [dir EXCEPT !.record = s]
  BY <1>6 DEF Decide_release
<1> QED BY <1>1, <1>2, <1>3, <1>4, <1>5, <1>6 DEF Next

\* The committed result of an operation is never replaced by another of that operation, and
\* a published record is never rewritten or removed.
THEOREM CommittedAlwaysKept == Serial => (Spec => CommittedIsKept)
<1> SUFFICES ASSUME Serial PROVE Spec => CommittedIsKept
  OBVIOUS
<1>1. ASSUME IInv, [Next]_vars PROVE CommitIsFirst
  <2> SUFFICES ASSUME dir'.result # dir.result, dir.result # None
               PROVE  stage_operation_key(dir'.result) # stage_operation_key(dir.result)
    BY DEF CommitIsFirst
  <2>1. PICK p \in Actors : Record_replace(p)
    BY <1>1, ResultChanges
  <2>2. /\ pc[p] = "replace" /\ result[p] \in Results /\ result[p].op = task[p] /\ dir.tmp = result[p]
        /\ dir' = [dir EXCEPT !.result = dir.tmp, !.tmp = None]
    BY <1>1, <2>1, Replaces
  <2>3. dir'.result = result[p]
    BY <1>1, <2>2, DirectoryWrites
  <2>4. stage_operation_key(dir.result) # operation_key(task[p])
    BY <1>1, <2>2 DEF IInv, ProcessFits, Unfinished
  <2> QED BY <2>2, <2>3, <2>4 DEF stage_operation_key
<1>2. ASSUME IInv, [Next]_vars PROVE PublishedIsImmutable
  <2>1. CASE \E p \in Actors : Rename_staging(p)
    BY <1>2, <2>1 DEF Rename_staging, PublishedIsImmutable, IInv, TypeOK
  <2>2. CASE UNCHANGED repo
    BY <2>2 DEF PublishedIsImmutable
  <2> QED BY <1>2, <2>1, <2>2
          DEF Next, vars, world, Start_stage_run, Reject_input, Find_existing, Persist_input_snapshot,
              Execute_stage, Record_tmp, Record_replace, Persist_run_record, Emit_result, Ci_job,
              Start_release_verify, Probe, Decide_release, End, Start_publish, Publish_run_record,
              Publish_check, Open_staging, Write_staging, Kill, Deploy_moves
<1>3. IInv /\ [Next]_vars => [CommitIsFirst /\ PublishedIsImmutable]_vars
  BY <1>1, <1>2
<1>4. Spec => []IInv
  BY Invariance
<1> QED BY <1>3, <1>4, PTL DEF Spec, CommittedIsKept

(***************************************************************************)
(* The lookup by change                                                    *)
(***************************************************************************)

LessThan == {pair \in Nat \X Nat : pair[1] < pair[2]}

LEMMA SmallestNumber ==
  ASSUME NEW T \in SUBSET Nat, T # {}
  PROVE  \E x \in T : \A y \in T : x <= y
<1>1. IsWellFoundedOn(LessThan, Nat)
  BY NatLessThanWellFounded DEF OpToRel, LessThan
<1>2. PICK x \in T : \A y \in T : ~ (<<y, x>> \in LessThan)
  BY <1>1, WFMin
<1>3. ASSUME NEW y \in T PROVE x <= y
  <2>1. <<y, x>> \notin LessThan /\ x \in Nat /\ y \in Nat
    BY <1>2
  <2> QED BY <2>1 DEF LessThan
<1> QED BY <1>3

LEMMA GreatestNumber ==
  ASSUME NEW n \in Nat, NEW T \in SUBSET (0 .. n), T # {}
  PROVE  \E x \in T : \A y \in T : y <= x
<1> DEFINE D == {n - y : y \in T}
<1>1. D \in SUBSET Nat /\ D # {}
  <2>1. \A y \in T : n - y \in Nat
    OBVIOUS
  <2> QED BY <2>1
<1>2. PICK m \in D : \A k \in D : m <= k
  <2> HIDE DEF D
  <2> QED BY <1>1, SmallestNumber
<1>3. PICK x \in T : m = n - x
  BY <1>2
<1>4. ASSUME NEW y \in T PROVE y <= x
  <2>1. n - y \in D /\ x \in 0 .. n /\ y \in 0 .. n
    OBVIOUS
  <2>2. m <= n - y
    BY <1>2, <2>1
  <2> QED BY <1>3, <2>1, <2>2
<1> QED BY <1>4


Bounded(K, N, found) == found # {} /\ \A l \in found : l.month \in 0 .. K /\ l.name \in 0 .. N

\* Of finitely many paths one is the last.
LEMMA LastPath ==
  ASSUME NEW K \in Nat, NEW N \in Nat, NEW found, Bounded(K, N, found)
  PROVE  \E l \in found : \A m \in found : Before(m, l)
<1>1. PICK M : M = {l.month : l \in found}
  OBVIOUS
<1>2. M \in SUBSET (0 .. K) /\ M # {}
  BY <1>1 DEF Bounded
<1>3. PICK k \in M : \A j \in M : j <= k
  BY <1>2, GreatestNumber
<1>4. PICK S : S = {l \in found : l.month = k}
  OBVIOUS
<1>5. PICK Q : Q = {l.name : l \in S}
  OBVIOUS
<1>6. Q \in SUBSET (0 .. N) /\ Q # {}
  BY <1>1, <1>3, <1>4, <1>5 DEF Bounded
<1>7. PICK n \in Q : \A j \in Q : j <= n
  BY <1>6, GreatestNumber
<1>8. PICK l \in S : l.name = n
  BY <1>5, <1>7
<1>9. ASSUME NEW m \in found PROVE Before(m, l)
  <2>1. m.month \in M /\ m.month <= k /\ m.month \in 0 .. K /\ k \in 0 .. K /\ l.month = k
    BY <1>1, <1>2, <1>3, <1>4, <1>8 DEF Bounded
  <2>2. m.month = k => m.name <= l.name
    BY <1>4, <1>5, <1>7, <1>8
  <2> QED BY <2>1, <2>2 DEF Before
<1> QED BY <1>4, <1>8, <1>9

\* With no staging directory about, a lookup by change finds a record of that change.
LEMMA Lookup ==
  ASSUME IInv
  PROVE  LookupIsSound
<1> SUFFICES ASSUME staging = {}, NEW c \in {r.change : r \in Published}
             PROVE  find_existing(c) \in {r \in Published : r.change = c}
  BY DEF LookupIsSound
<1>1. PICK B : B = {b \in Addresses : b[2] = SlugOf[c] /\ repo[b] # None}
  OBVIOUS
<1>2. \A b \in B : b \in Addresses /\ repo[b] \in Records /\ repo[b] # Torn /\ repo[b] \in Published
  BY <1>1, NoRecord DEF IInv, TypeOK, Published
<1>3. Listed(c) = {[name |-> Rank[b[3]], month |-> b[1], snapshot |-> repo[b]] : b \in B}
  BY <1>1 DEF Listed
<1>4. ~ Unreadable(c)
  BY <1>2, <1>3 DEF Unreadable
<1>5. PICK found : found = _iter_records(c)
  OBVIOUS
<1>6. \A l \in found : l.snapshot \in Published /\ l.snapshot.change = c
  BY <1>2, <1>3, <1>5 DEF _iter_records
<1>7. found # {}
  <2>1. PICK a \in Addresses : repo[a] # None /\ repo[a].change = c
    BY DEF Published
  <2>2. run_dir(repo[a]) = a
    BY <2>1 DEF IInv, TypeOK, RecordsFit
  <2>3. a[2] = SlugOf[c]
    BY <2>1, <2>2 DEF run_dir
  <2>4. a \in B
    BY <1>1, <2>1, <2>3
  <2>5. [name |-> Rank[a[3]], month |-> a[1], snapshot |-> repo[a]] \in Listed(c)
    BY <1>3, <2>4
  <2> QED BY <1>5, <2>1, <2>5 DEF _iter_records
<1>8. PICK K \in Nat, N \in Nat : K = Month(MaxClock) /\ N = Cardinality(DOMAIN SlugOf)
  <2>1. Month(MaxClock) \in Nat
    BY EvidenceAssumption DEF EvidenceAssumption, Month
  <2>2. Cardinality(DOMAIN SlugOf) \in Nat
    BY EvidenceAssumption, FS_CardinalityType DEF EvidenceAssumption
  <2> QED BY <2>1, <2>2
<1>9. Bounded(K, N, found)
  <2>1. \A b \in B : b[1] \in 0 .. K /\ b[3] \in Slugs
    BY <1>2, <1>8 DEF Addresses
  <2>2. \A b \in B : Rank[b[3]] \in 0 .. N
    BY <2>1, <1>8, EvidenceAssumption DEF EvidenceAssumption
  <2> QED BY <1>3, <1>5, <1>7, <2>1, <2>2 DEF _iter_records, Bounded
<1>10. \E l \in found : \A m \in found : Before(m, l)
  BY <1>9, LastPath
<1>11. PICK l \in found : find_existing(c) = l.snapshot
  BY <1>4, <1>5, <1>7, <1>10 DEF find_existing
<1> QED BY <1>6, <1>11

\* Published records are true: their results were committed, a release they claim was served
\* by the deployment, and a lookup by change finds one of that change.
THEOREM RecordsAreAlwaysTrue == Serial => (Spec => []RecordsAreTrue)
<1> SUFFICES ASSUME Serial PROVE Spec => []RecordsAreTrue
  OBVIOUS
<1>1. ASSUME IInv PROVE RecordsAreTrue
  <2>1. \A r \in Published : r \in Records /\ True(r)
    BY <1>1 DEF Published, IInv, TypeOK, RecordsFit
  <2>2. \A r \in {dir.record} \ {None, Torn} : True(r)
    BY <1>1 DEF IInv, TypeOK, Directories, RecordsFit
  <2>3. PublishedIsTrue /\ ReleasedWasServed
    BY <2>1, <2>2 DEF PublishedIsTrue, ReleasedWasServed, True
  <2> QED BY <1>1, <2>3, Lookup DEF RecordsAreTrue
<1> QED BY <1>1, Invariance, PTL
=============================================================================
