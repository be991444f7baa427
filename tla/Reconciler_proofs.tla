-------------------------- MODULE Reconciler_proofs --------------------------
(***************************************************************************)
(* Proofs about the global reconciler, for any number of runs, drivers and *)
(* passes, with or without a configured owner id and whatever is observed: *)
(* a pass that corrects a run has it to itself, the oldest run survives,   *)
(* and passes that nothing disturbs come to an end.                        *)
(***************************************************************************)
EXTENDS Reconciler, WellFoundedInduction, TLAPS

(***************************************************************************)
(* The inductive invariant                                                 *)
(***************************************************************************)

\* Only the pass with the global lease has a transaction open.
OnePass == \A p \in Passes : global # p => pass[p] = IdlePass

\* What is only written to the journal is never a plan to apply.
Applicable == {"none", "lease_takeover", "supersede", "record_merge", "escalate"}
PlansApply == \A p \in Passes : pass[p].plan \in Applicable

\* A run has one writer: the pass that wrote its lease row, or one driver.
OneWriter ==
    /\ \A p \in Passes, r \in Runs : pass[p].held[r] # NoLease => \A d \in Drivers : driver[d].run # r
    /\ \A d, e \in Drivers : driver[d] # NoDriver /\ driver[d].run = driver[e].run => d = e
    /\ \A p \in Passes, r \in Runs : pass[p].writes[r] # "none" => pass[p].held[r] # NoLease

\* The bound on revisions leaves room for the write of a driver.
RoomToWrite == \A d \in Drivers : driver[d] # NoDriver => revision[driver[d].run] < MaxRevision

\* No scan is ahead of its row, and a row scanned at the revision it still has is unchanged.
ScanIsPast ==
    \A p \in Passes, r \in Runs :
        /\ r \in pass[p].todo => pass[p].scan[r] # NoScan
        /\ pass[p].scan[r] # NoScan =>
            /\ pass[p].scan[r].revision <= revision[r]
            /\ pass[p].scan[r].revision = revision[r] => pass[p].scan[r].status = status[r]

\* A pass takes the lease only of a run it has scanned.
HeldIsScanned == \A p \in Passes, r \in Runs : pass[p].held[r] # NoLease => pass[p].scan[r] # NoScan

\* An active run of the scan comes before r.
HasElder(p, r) == \E s \in Runs : s < r /\ pass[p].scan[s].status \in ACTIVE_RUN_STATUSES

EldersKnown ==
    \A p \in Passes, r \in Runs :
        /\ pass[p].writes[r] = "superseded" => HasElder(p, r)
        /\ pass[p].plan = "supersede" /\ IsCurrent(p, r) => HasElder(p, r)

IInv ==
    /\ TypeOK
    /\ OnePass
    /\ PlansApply
    /\ OneWriter
    /\ RoomToWrite
    /\ ScanIsPast
    /\ HeldIsScanned
    /\ EldersKnown

(***************************************************************************)
(* Lemmas about the operators                                              *)
(***************************************************************************)

\* The plan is one of the actions, for any facts.
LEMMA PlanKinds ==
    ASSUME NEW k
    PROVE  plan_action(k) \in ActionKinds
<1>1. approved_passed_action(k) \in ActionKinds
  BY DEF approved_passed_action, ActionKinds
<1> QED
  BY <1>1 DEF plan_action, ActionKinds

\* A run is planned to be superseded only next to an older active one.
LEMMA SupersedeHasElder ==
    ASSUME NEW k, plan_action(k) = "supersede"
    PROVE  \E s \in k.siblings : s < k.run
<1>1. approved_passed_action(k) # "supersede"
  BY DEF approved_passed_action
<1> QED
  BY <1>1 DEF plan_action, detect_duplicate_runs

\* Lease rows that are written are lease rows.
LEMMA LeaseRows ==
    ASSUME ReconcilerAssumption, TypeOK, NEW r \in Runs
    PROVE  /\ AcquiredToken(r) \in 1 .. MaxRevision
           /\ Granted(r) \in Lease /\ Granted(r) # NoLease
           /\ Bump(revision[r]) \in 1 .. MaxRevision
           /\ revision[r] <= Bump(revision[r])
<1>1. lease[r] \in Lease \union {NoLease} /\ revision[r] \in 1 .. MaxRevision /\ MaxRevision \in Nat \ {0}
  BY DEF TypeOK, ReconcilerAssumption
<1>2. lease[r].token \in 0 .. MaxRevision
  BY <1>1 DEF Lease, NoLease
<1>3. AcquiredToken(r) \in 1 .. MaxRevision
  BY <1>1, <1>2 DEF AcquiredToken
<1>4. default_owner_id # "none"
  BY DEF default_owner_id
<1>5. Granted(r) \in Lease /\ Granted(r) # NoLease
  BY <1>3, <1>4 DEF Granted, Lease, NoLease
<1> QED
  BY <1>1, <1>3, <1>5 DEF Bump

\* An idle pass is a pass.
LEMMA IdleIsPass == ASSUME ReconcilerAssumption PROVE IdlePass \in PassState
<1>1. NoFacts \in ExternalFacts
  BY DEF NoFacts, ExternalFacts
<1> QED
  BY <1>1 DEF IdlePass, PassState, ActionKinds

LEMMA IdleFacts ==
    /\ IdlePass.plan = "none" /\ IdlePass.plan \in Applicable /\ IdlePass.todo = {}
    /\ \A r \in Runs : /\ IdlePass.writes[r] = "none" /\ IdlePass.held[r] = NoLease
                       /\ IdlePass.scan[r] = NoScan
<1>1. "none" \in Applicable
  BY DEF Applicable
<1> QED
  BY <1>1 DEF IdlePass

\* A pass that is done with a run keeps its scan and its writes.
LEMMA PassedOver ==
    ASSUME NEW p \in Passes, NEW r \in Runs, pass[p] \in PassState
    PROVE  /\ Passed_over(p, r) \in PassState
           /\ Passed_over(p, r).plan = "none" /\ Passed_over(p, r).todo = pass[p].todo \ {r}
           /\ Passed_over(p, r).scan = pass[p].scan
           /\ Passed_over(p, r).writes = pass[p].writes /\ Passed_over(p, r).held = pass[p].held
<1>1. NoFacts \in ExternalFacts
  BY DEF NoFacts, ExternalFacts
<1> QED
  BY <1>1 DEF Passed_over, PassState, ActionKinds

(***************************************************************************)
(* Steps                                                                   *)
(***************************************************************************)

LEMMA InitIInv == ASSUME ReconcilerAssumption, Init PROVE IInv
<1>1. TypeOK
  <2>1. pass \in [Passes -> PassState]
    BY IdleIsPass DEF Init
  <2>2. facts \in [Runs -> ExternalFacts]
    BY DEF Init, NoFacts, ExternalFacts
  <2> QED
    BY <2>1, <2>2 DEF Init, TypeOK, ReconcilerAssumption, RunStatus, DriverState
<1>2. \A p \in Passes : pass[p] = IdlePass
  BY DEF Init
<1>3. \A d \in Drivers : driver[d] = NoDriver
  BY DEF Init
<1>4. \A r \in Runs : r # 0
  BY DEF ReconcilerAssumption
<1>5. OnePass /\ PlansApply
  BY <1>2, IdleFacts DEF OnePass, PlansApply
<1>6. OneWriter /\ RoomToWrite
  BY <1>2, <1>3 DEF OneWriter, RoomToWrite, IdlePass
<1>7. ScanIsPast /\ HeldIsScanned /\ EldersKnown
  BY <1>2 DEF ScanIsPast, HeldIsScanned, EldersKnown, IdlePass, NoScan
<1> QED
  BY <1>1, <1>5, <1>6, <1>7 DEF IInv

\* The start of a pass: its scan is the present.
LEMMA RunPassIInv ==
    ASSUME ReconcilerAssumption, IInv, NEW p \in Passes, Run_pass(p)
    PROVE  IInv'
<1> DEFINE S == [r \in Runs |-> IF r \in Scanned
                     THEN [status |-> status[r], revision |-> revision[r]] ELSE NoScan]
           F == [r \in Runs |-> IF r \in Scanned THEN facts[r] ELSE NoFacts]
           X == [IdlePass EXCEPT !.todo = Scanned, !.scan = S, !.seen = F]
<1>1. /\ pass' = [pass EXCEPT ![p] = X]
      /\ global' = p /\ global = "none"
      /\ UNCHANGED <<status, revision, failures, lease, facts, driver, mishaps, quiet>>
  BY DEF Run_pass, Row
<1>2. TypeOK /\ IdlePass \in PassState
  BY IdleIsPass DEF IInv
<1>3. S \in [Runs -> [status : RunStatus, revision : 1 .. MaxRevision] \union {NoScan}]
      /\ F \in [Runs -> ExternalFacts] /\ Scanned \in SUBSET Runs
  BY <1>2 DEF TypeOK, Scanned, NoFacts, ExternalFacts
<1>4. /\ X \in PassState
      /\ X.todo = Scanned /\ X.scan = S /\ X.plan = IdlePass.plan
      /\ X.writes = IdlePass.writes /\ X.held = IdlePass.held
  <2> HIDE DEF S, F
  <2> QED BY <1>2, <1>3 DEF PassState
<1>5. /\ IdlePass.plan = "none" /\ \A r \in Runs : IdlePass.writes[r] = "none"
      /\ \A r \in Runs : IdlePass.held[r] = NoLease
  BY IdleFacts
<1> HIDE DEF X
<1>6. pass'[p] = X /\ \A q \in Passes : q # p => pass'[q] = pass[q]
  BY <1>1, <1>2 DEF TypeOK
<1>7. TypeOK'
  BY <1>1, <1>2, <1>4 DEF TypeOK
<1>8. OnePass'
  <2>1. \A q \in Passes : pass[q] = IdlePass
    BY <1>1 DEF IInv, OnePass, ReconcilerAssumption
  <2> QED BY <2>1, <1>1, <1>6 DEF OnePass
<1>9. PlansApply'
  BY <1>4, <1>5, <1>6 DEF IInv, PlansApply, Applicable
<1>10. OneWriter' /\ RoomToWrite'
  BY <1>1, <1>4, <1>5, <1>6 DEF IInv, OneWriter, RoomToWrite
<1>11. ScanIsPast'
  <2> SUFFICES ASSUME NEW q \in Passes, NEW r \in Runs
               PROVE  ScanIsPast!(q, r)'
    BY DEF ScanIsPast
  <2>1. CASE q # p
    BY <2>1, <1>1, <1>6 DEF IInv, ScanIsPast
  <2>2. CASE q = p
    <3>1. pass'[q].scan[r] = IF r \in Scanned
                     THEN [status |-> status[r], revision |-> revision[r]] ELSE NoScan
      BY <2>2, <1>4, <1>6
    <3>2. revision[r] \in 1 .. MaxRevision
      BY <1>2 DEF TypeOK
    <3> QED BY <2>2, <3>1, <3>2, <1>1, <1>4, <1>6 DEF NoScan
  <2> QED BY <2>1, <2>2
<1>12. HeldIsScanned'
  BY <1>1, <1>4, <1>5, <1>6 DEF IInv, HeldIsScanned
<1>13. EldersKnown'
  <2> SUFFICES ASSUME NEW q \in Passes, NEW s \in Runs
               PROVE  EldersKnown!(q, s)'
    BY DEF EldersKnown
  <2>1. CASE q # p
    BY <2>1, <1>6 DEF IInv, EldersKnown, HasElder, IsCurrent
  <2>2. CASE q = p
    BY <2>2, <1>4, <1>5, <1>6
  <2> QED BY <2>1, <2>2
<1> QED
  BY <1>7, <1>8, <1>9, <1>10, <1>11, <1>12, <1>13 DEF IInv

\* A run that needs nothing is passed over, another one gets its plan.
LEMMA ReconcileOneIInv ==
    ASSUME ReconcilerAssumption, IInv, NEW p \in Passes, NEW r \in Runs, Reconcile_one(p, r)
    PROVE  IInv'
<1> DEFINE k == assemble_facts(p, r)
           a == plan_action(k)
<1>1. /\ global = p /\ IsCurrent(p, r) /\ pass[p].plan = "none"
      /\ pass' = [pass EXCEPT ![p] =
                    IF Journal_only(a) THEN Passed_over(p, r) ELSE [pass[p] EXCEPT !.plan = a]]
      /\ UNCHANGED <<status, revision, failures, lease, facts, driver, global, mishaps, quiet>>
  BY DEF Reconcile_one
<1>2. TypeOK /\ pass[p] \in PassState
  BY DEF IInv, TypeOK
<1>3. a \in ActionKinds
  BY PlanKinds
<1>4. a = "supersede" => HasElder(p, r)
  <2> SUFFICES ASSUME a = "supersede" PROVE HasElder(p, r)
    OBVIOUS
  <2>1. \E s \in k.siblings : s < k.run
    BY SupersedeHasElder
  <2>2. k.siblings \subseteq group_active_by_change(p) /\ k.run = r
    BY DEF assemble_facts
  <2> QED BY <2>1, <2>2 DEF group_active_by_change, HasElder
<1> HIDE DEF a
<1> DEFINE X == IF Journal_only(a) THEN Passed_over(p, r) ELSE [pass[p] EXCEPT !.plan = a]
<1>5. pass' = [pass EXCEPT ![p] = X]
  BY <1>1
<1>6. /\ X \in PassState /\ X.scan = pass[p].scan /\ X.writes = pass[p].writes /\ X.held = pass[p].held
      /\ X.todo \subseteq pass[p].todo
      /\ X.plan # "none" => X.plan = a /\ X.todo = pass[p].todo /\ ~ Journal_only(a)
  <2>1. CASE Journal_only(a)
    BY <2>1, <1>2, PassedOver
  <2>2. CASE ~ Journal_only(a)
    <3>1. X = [pass[p] EXCEPT !.plan = a]
      BY <2>2
    <3> HIDE DEF X
    <3> QED BY <3>1, <2>2, <1>1, <1>2, <1>3 DEF PassState
  <2> QED BY <2>1, <2>2
<1> HIDE DEF X
<1>7. pass'[p] = X /\ \A q \in Passes : q # p => pass'[q] = pass[q]
  BY <1>5, <1>2 DEF TypeOK
<1>8. TypeOK'
  BY <1>1, <1>2, <1>5, <1>6 DEF TypeOK
<1>9. OnePass'
  BY <1>1, <1>7 DEF IInv, OnePass, ReconcilerAssumption
<1>10. PlansApply'
  BY <1>3, <1>6, <1>7 DEF IInv, PlansApply, Applicable, Journal_only, ActionKinds
<1>11. \A q \in Passes : /\ pass'[q].scan = pass[q].scan /\ pass'[q].writes = pass[q].writes
                          /\ pass'[q].held = pass[q].held /\ pass'[q].todo \subseteq pass[q].todo
  BY <1>6, <1>7
<1>12. OneWriter' /\ RoomToWrite'
  BY <1>1, <1>11 DEF IInv, OneWriter, RoomToWrite
<1>14. HeldIsScanned'
  BY <1>1, <1>11 DEF IInv, HeldIsScanned
<1>15. ScanIsPast'
  BY <1>1, <1>11 DEF IInv, ScanIsPast
<1>13. EldersKnown'
  <2> SUFFICES ASSUME NEW q \in Passes, NEW s \in Runs
               PROVE  EldersKnown!(q, s)'
    BY DEF EldersKnown
  <2>1. CASE q # p
    BY <2>1, <1>7 DEF IInv, EldersKnown, HasElder, IsCurrent
  <2>2. CASE q = p
    <3>1. HasElder(q, s)' <=> HasElder(q, s)
      BY <2>2, <1>6, <1>7 DEF HasElder
    <3>2. pass'[q].writes[s] = "superseded" => HasElder(q, s)
      BY <2>2, <1>6, <1>7 DEF IInv, EldersKnown
    <3>3. pass'[q].plan = "supersede" /\ IsCurrent(q, s)' => s = r /\ a = "supersede"
      BY <2>2, <1>1, <1>6, <1>7 DEF IsCurrent, ReconcilerAssumption
    <3> QED BY <3>1, <3>2, <3>3, <1>4, <2>2
  <2> QED BY <2>1, <2>2
<1> QED
  BY <1>8, <1>9, <1>10, <1>12, <1>13, <1>14, <1>15 DEF IInv

\* A correction is written only where nobody else is at work.
LEMMA ApplyIInv ==
    ASSUME ReconcilerAssumption, IInv, NEW p \in Passes, NEW r \in Runs, Apply(p, r)
    PROVE  IInv'
<1> DEFINE a == pass[p].plan
           target == ACTION_TARGETS[a]
           skips == \/ a # "lease_takeover"
                       /\ target \notin RUN_STATUS_TRANSITIONS[pass[p].scan[r].status]
                    \/ ~ Acquirable(r, PassOwner)
           row == Granted(r)
           corrects == /\ a # "lease_takeover"
                       /\ update_status(pass[p].scan[r], target, pass[p].scan[r].revision, row.token, row.token)
           w == IF corrects THEN target ELSE "none"
           X == IF skips THEN Passed_over(p, r)
                ELSE [Passed_over(p, r) EXCEPT !.held[r] = row, !.writes[r] = w]
<1>1. /\ global = p /\ IsCurrent(p, r) /\ a # "none"
      /\ skips \/ ~ Locked(r)
      /\ pass' = [pass EXCEPT ![p] = X]
      /\ UNCHANGED <<status, revision, failures, lease, facts, driver, global, mishaps, quiet>>
  BY DEF Apply
<1>2. TypeOK /\ pass[p] \in PassState
  BY DEF IInv, TypeOK
<1>3. row \in Lease /\ row # NoLease
  BY <1>2, LeaseRows
<1>4. a \in Applicable \ {"none"}
  BY <1>1 DEF IInv, PlansApply
<1>5. /\ a # "lease_takeover" => target \in RunStatus
      /\ a # "lease_takeover" /\ target = "superseded" => a = "supersede"
  BY <1>4 DEF Applicable, ACTION_TARGETS, RunStatus
<1>6. w \in RunStatus \union {"none"}
  BY <1>5
<1>7. /\ pass[p].scan[r] # NoScan
      /\ w = "superseded" => HasElder(p, r)
  <2>1. pass[p].scan[r] # NoScan
    BY <1>1 DEF IInv, ScanIsPast, IsCurrent
  <2>2. w = "superseded" => a = "supersede"
    BY <1>5
  <2> QED BY <2>1, <2>2, <1>1 DEF IInv, EldersKnown
<1> HIDE DEF row, w, corrects, target
<1>8. \/ X = Passed_over(p, r)
      \/ /\ ~ Locked(r)
         /\ X = [Passed_over(p, r) EXCEPT !.held[r] = row, !.writes[r] = w]
  BY <1>1
<1> HIDE DEF X, skips
<1>9. /\ X \in PassState /\ X.plan = "none" /\ X.todo = pass[p].todo \ {r} /\ X.scan = pass[p].scan
      /\ \A s \in Runs : s # r => X.held[s] = pass[p].held[s] /\ X.writes[s] = pass[p].writes[s]
      /\ \/ X.held[r] = pass[p].held[r] /\ X.writes[r] = pass[p].writes[r]
         \/ ~ Locked(r) /\ X.held[r] = row /\ X.writes[r] = w
  <2>1. CASE X = Passed_over(p, r)
    BY <2>1, <1>2, PassedOver
  <2>2. CASE ~ Locked(r) /\ X = [Passed_over(p, r) EXCEPT !.held[r] = row, !.writes[r] = w]
    <3> DEFINE Y == Passed_over(p, r)
    <3>1. /\ Y \in PassState /\ Y.plan = "none" /\ Y.todo = pass[p].todo \ {r} /\ Y.scan = pass[p].scan
          /\ Y.writes = pass[p].writes /\ Y.held = pass[p].held
      BY <1>2, PassedOver
    <3>2. X = [Y EXCEPT !.held[r] = row, !.writes[r] = w]
      BY <2>2
    <3> HIDE DEF Y
    <3>3. /\ X.held = [Y.held EXCEPT ![r] = row] /\ X.writes = [Y.writes EXCEPT ![r] = w]
          /\ X.plan = Y.plan /\ X.todo = Y.todo /\ X.scan = Y.scan /\ X.seen = Y.seen
          /\ X = [todo |-> X.todo, scan |-> X.scan, seen |-> X.seen, plan |-> X.plan,
                  writes |-> X.writes, held |-> X.held]
      BY <3>1, <3>2 DEF PassState
    <3>4. /\ Y.held \in [Runs -> Lease \union {NoLease}]
          /\ Y.writes \in [Runs -> RunStatus \union {"none"}]
      BY <3>1 DEF PassState
    <3>5. /\ X.held \in [Runs -> Lease \union {NoLease}]
          /\ X.writes \in [Runs -> RunStatus \union {"none"}]
          /\ X.held[r] = row /\ X.writes[r] = w
          /\ \A s \in Runs : s # r => X.held[s] = Y.held[s] /\ X.writes[s] = Y.writes[s]
      BY <3>3, <3>4, <1>3, <1>6
    <3>6. X \in PassState
      BY <3>1, <3>3, <3>5 DEF PassState
    <3> QED BY <3>1, <3>3, <3>5, <3>6, <2>2
  <2> QED BY <1>8, <2>1, <2>2
<1>10. pass'[p] = X /\ \A q \in Passes : q # p => pass'[q] = pass[q]
  BY <1>1, <1>2 DEF TypeOK
<1>11. TypeOK'
  BY <1>1, <1>2, <1>9 DEF TypeOK
<1>12. OnePass' /\ PlansApply'
  BY <1>1, <1>9, <1>10 DEF IInv, OnePass, PlansApply, Applicable
<1>13. RoomToWrite'
  BY <1>1 DEF IInv, RoomToWrite
<1>14. \A q \in Passes : pass'[q].scan = pass[q].scan /\ pass'[q].todo \subseteq pass[q].todo
  BY <1>9, <1>10
<1>15. ScanIsPast'
  BY <1>1, <1>14 DEF IInv, ScanIsPast
<1>16. OneWriter'
  <2>1. \A d, e \in Drivers : driver'[d] # NoDriver /\ driver'[d].run = driver'[e].run => d = e
    BY <1>1 DEF IInv, OneWriter
  <2>2. ASSUME NEW q \in Passes, NEW s \in Runs
        PROVE  /\ pass'[q].held[s] # NoLease => \A d \in Drivers : driver'[d].run # s
               /\ pass'[q].writes[s] # "none" => pass'[q].held[s] # NoLease
    <3>1. CASE q # p \/ s # r
      BY <3>1, <1>1, <1>9, <1>10 DEF IInv, OneWriter
    <3>2. CASE q = p /\ s = r
      BY <3>2, <1>1, <1>3, <1>9, <1>10 DEF IInv, OneWriter, Locked
    <3> QED BY <3>1, <3>2
  <2> QED BY <2>1, <2>2 DEF OneWriter
<1>17. HeldIsScanned'
  <2> SUFFICES ASSUME NEW q \in Passes, NEW s \in Runs, pass'[q].held[s] # NoLease
               PROVE  pass'[q].scan[s] # NoScan
    BY DEF HeldIsScanned
  <2>1. CASE q = p /\ s = r
    BY <2>1, <1>7, <1>14
  <2>2. CASE q # p \/ s # r
    BY <2>2, <1>9, <1>10, <1>14 DEF IInv, HeldIsScanned
  <2> QED BY <2>1, <2>2
<1>18. EldersKnown'
  <2> SUFFICES ASSUME NEW q \in Passes, NEW s \in Runs
               PROVE  EldersKnown!(q, s)'
    BY DEF EldersKnown
  <2>1. HasElder(q, s)' <=> HasElder(q, s)
    BY <1>14 DEF HasElder
  <2>2. CASE q # p
    BY <2>1, <2>2, <1>10 DEF IInv, EldersKnown, IsCurrent
  <2>3. CASE q = p
    <3>1. pass'[q].plan # "supersede"
      BY <2>3, <1>9, <1>10
    <3>2. pass'[q].writes[s] = "superseded" => HasElder(q, s)
      BY <2>3, <1>7, <1>9, <1>10 DEF IInv, EldersKnown
    <3> QED BY <2>1, <3>1, <3>2
  <2> QED BY <2>2, <2>3
<1> QED
  BY <1>11, <1>12, <1>13, <1>15, <1>16, <1>17, <1>18 DEF IInv

\* The commit moves only rows that no driver is at, and leaves every pass idle.
LEMMA CommitIInv ==
    ASSUME ReconcilerAssumption, IInv, NEW p \in Passes, Commit_pass(p)
    PROVE  IInv'
<1>1. /\ global = p /\ global' = "none"
      /\ status' = [r \in Runs |-> IF pass[p].writes[r] # "none" THEN pass[p].writes[r] ELSE status[r]]
      /\ revision' = [r \in Runs |-> IF pass[p].writes[r] # "none" THEN Bump(pass[p].scan[r].revision) ELSE revision[r]]
      /\ lease' = [r \in Runs |-> IF pass[p].held[r] # NoLease THEN pass[p].held[r] ELSE lease[r]]
      /\ pass' = [pass EXCEPT ![p] = IdlePass]
      /\ quiet' = IF quiet < 3 THEN quiet + 1 ELSE 3
      /\ UNCHANGED <<failures, facts, driver, mishaps>>
  BY DEF Commit_pass
<1>2. TypeOK /\ pass[p] \in PassState /\ IdlePass \in PassState
  BY IdleIsPass DEF IInv, TypeOK
<1>3. \A r \in Runs : pass[p].writes[r] # "none" => Bump(pass[p].scan[r].revision) \in 1 .. MaxRevision
  <2> SUFFICES ASSUME NEW r \in Runs, pass[p].writes[r] # "none"
               PROVE  Bump(pass[p].scan[r].revision) \in 1 .. MaxRevision
    OBVIOUS
  <2>1. pass[p].scan[r] # NoScan
    BY DEF IInv, OneWriter, HeldIsScanned
  <2>2. pass[p].scan[r].revision \in 1 .. MaxRevision /\ MaxRevision \in Nat
    BY <2>1, <1>2 DEF PassState, ReconcilerAssumption
  <2> QED BY <2>2 DEF Bump
<1>4. /\ pass[p].writes \in [Runs -> RunStatus \union {"none"}]
      /\ pass[p].held \in [Runs -> Lease \union {NoLease}]
  BY <1>2 DEF PassState
<1>5. \A q \in Passes : pass'[q] = IdlePass
  BY <1>1, <1>2 DEF IInv, OnePass, TypeOK
<1>6. TypeOK'
  <2>1. /\ status' \in [Runs -> RunStatus] /\ revision' \in [Runs -> 1 .. MaxRevision]
        /\ lease' \in [Runs -> Lease \union {NoLease}]
    BY <1>1, <1>2, <1>3, <1>4 DEF TypeOK
  <2>2. pass' \in [Passes -> PassState] /\ quiet' \in 0 .. 3
    BY <1>1, <1>2 DEF TypeOK
  <2> QED BY <1>1, <1>2, <2>1, <2>2 DEF TypeOK
<1>7. OnePass' /\ PlansApply' /\ ScanIsPast' /\ HeldIsScanned' /\ EldersKnown'
  BY <1>5, IdleFacts DEF OnePass, PlansApply, ScanIsPast, HeldIsScanned, EldersKnown
<1>8. OneWriter'
  BY <1>1, <1>5, IdleFacts DEF IInv, OneWriter
<1>9. RoomToWrite'
  <2> SUFFICES ASSUME NEW d \in Drivers, driver[d] # NoDriver
               PROVE  revision'[driver[d].run] < MaxRevision
    BY <1>1 DEF RoomToWrite
  <2>1. driver[d].run \in Runs
    BY <1>2 DEF TypeOK, DriverState
  <2>2. pass[p].writes[driver[d].run] = "none"
    BY <2>1 DEF IInv, OneWriter
  <2> QED BY <1>1, <2>1, <2>2 DEF IInv, RoomToWrite
<1> QED
  BY <1>6, <1>7, <1>8, <1>9 DEF IInv

LEMMA PassKilledIInv ==
    ASSUME ReconcilerAssumption, IInv, NEW p \in Passes, Pass_killed(p)
    PROVE  IInv'
<1>1. /\ global = p /\ global' = "none" /\ mishaps < MaxMishaps /\ mishaps' = mishaps + 1
      /\ pass' = [pass EXCEPT ![p] = IdlePass] /\ quiet' = 0
      /\ UNCHANGED <<status, revision, failures, lease, facts, driver>>
  BY DEF Pass_killed
<1>2. TypeOK /\ IdlePass \in PassState
  BY IdleIsPass DEF IInv
<1>3. \A q \in Passes : pass'[q] = IdlePass
  BY <1>1, <1>2 DEF IInv, OnePass, TypeOK
<1>4. TypeOK'
  BY <1>1, <1>2 DEF TypeOK, ReconcilerAssumption
<1>5. OnePass' /\ PlansApply' /\ ScanIsPast' /\ HeldIsScanned' /\ EldersKnown'
  BY <1>3, IdleFacts DEF OnePass, PlansApply, ScanIsPast, HeldIsScanned, EldersKnown
<1>6. OneWriter' /\ RoomToWrite'
  BY <1>1, <1>3, IdleFacts DEF IInv, OneWriter, RoomToWrite
<1> QED
  BY <1>4, <1>5, <1>6 DEF IInv

LEMMA TakeLeaseIInv ==
    ASSUME ReconcilerAssumption, IInv, NEW d \in Drivers, NEW r \in Runs,
           NEW op \in {"advance", "withdraw"}, Take_lease(d, r, op)
    PROVE  IInv'
<1>1. /\ ~ Locked(r) /\ revision[r] < MaxRevision
      /\ driver' = [driver EXCEPT ![d] = [run |-> r, token |-> AcquiredToken(r), op |-> op]]
      /\ UNCHANGED <<status, revision, failures, lease, facts, pass, global, mishaps, quiet>>
  BY DEF Take_lease
<1>2. TypeOK /\ AcquiredToken(r) \in 1 .. MaxRevision
  BY LeaseRows DEF IInv
<1>3. driver' \in [Drivers -> DriverState]
  BY <1>1, <1>2 DEF TypeOK, DriverState
<1>4. /\ driver'[d].run = r /\ \A e \in Drivers : e # d => driver'[e] = driver[e]
  BY <1>1, <1>2 DEF TypeOK
<1>5. /\ \A e \in Drivers : driver[e].run # r
      /\ \A p \in Passes : pass[p].held[r] = NoLease
  BY <1>1 DEF Locked
<1>6. TypeOK'
  BY <1>1, <1>2, <1>3 DEF TypeOK
<1>7. OnePass' /\ PlansApply' /\ ScanIsPast' /\ EldersKnown'
  BY <1>1 DEF IInv, OnePass, PlansApply, ScanIsPast, EldersKnown, HasElder, IsCurrent
<1>8. OneWriter'
  <2>1. ASSUME NEW p \in Passes, NEW s \in Runs, pass'[p].held[s] # NoLease, NEW e \in Drivers
        PROVE  driver'[e].run # s
    <3>1. pass[p].held[s] # NoLease
      BY <2>1, <1>1
    <3>2. s # r
      BY <3>1, <1>5
    <3>3. CASE e = d
      BY <3>2, <3>3, <1>4
    <3>4. CASE e # d
      BY <3>1, <3>4, <1>4 DEF IInv, OneWriter
    <3> QED BY <3>3, <3>4
  <2>2. ASSUME NEW e \in Drivers, NEW g \in Drivers, driver'[e] # NoDriver, driver'[e].run = driver'[g].run
        PROVE  e = g
    <3>1. CASE e = d \/ g = d
      BY <3>1, <1>4, <1>5, <2>2
    <3>2. CASE e # d /\ g # d
      BY <3>2, <1>4, <2>2 DEF IInv, OneWriter
    <3> QED BY <3>1, <3>2
  <2>3. \A p \in Passes, s \in Runs : pass'[p].writes[s] # "none" => pass'[p].held[s] # NoLease
    BY <1>1 DEF IInv, OneWriter
  <2> QED BY <2>1, <2>2, <2>3 DEF OneWriter
<1>9. RoomToWrite'
  BY <1>1, <1>4 DEF IInv, RoomToWrite
<1>10. HeldIsScanned'
  BY <1>1 DEF IInv, HeldIsScanned
<1> QED
  BY <1>6, <1>7, <1>8, <1>9, <1>10 DEF IInv

\* A driver writes the row it alone may write, and the revision grows.
LEMMA WriteIInv ==
    ASSUME ReconcilerAssumption, IInv, NEW d \in Drivers, driver[d] # NoDriver,
           NEW target \in RunStatus, Write_and_release(d, target),
           failures' \in [Runs -> 0 .. 2]
    PROVE  IInv'
<1> DEFINE r == driver[d].run
<1>1. /\ status' = [status EXCEPT ![r] = target] /\ revision' = [revision EXCEPT ![r] = Bump(revision[r])]
      /\ lease' = [lease EXCEPT ![r] = NoLease] /\ driver' = [driver EXCEPT ![d] = NoDriver]
      /\ quiet' = 0 /\ UNCHANGED <<facts, pass, global, mishaps>>
  BY DEF Write_and_release
<1>2. TypeOK /\ r \in Runs /\ revision[r] < MaxRevision /\ revision[r] \in 1 .. MaxRevision
      /\ MaxRevision \in Nat
  BY DEF IInv, TypeOK, DriverState, RoomToWrite, ReconcilerAssumption
<1>3. Bump(revision[r]) = revision[r] + 1
  BY <1>2 DEF Bump
<1>4. /\ \A p \in Passes : pass[p].held[r] = NoLease /\ pass[p].writes[r] = "none"
      /\ \A e \in Drivers : e # d => driver[e].run # r
  BY <1>2 DEF IInv, OneWriter
<1> HIDE DEF r
<1>5. /\ status' \in [Runs -> RunStatus] /\ revision' \in [Runs -> 1 .. MaxRevision]
      /\ lease' \in [Runs -> Lease \union {NoLease}] /\ driver' \in [Drivers -> DriverState]
      /\ \A s \in Runs : s # r => status'[s] = status[s] /\ revision'[s] = revision[s]
      /\ revision'[r] = revision[r] + 1
      /\ driver'[d] = NoDriver /\ \A e \in Drivers : e # d => driver'[e] = driver[e]
  BY <1>1, <1>2, <1>3 DEF TypeOK, DriverState
<1>6. TypeOK'
  BY <1>1, <1>2, <1>5 DEF TypeOK
<1>7. OnePass' /\ PlansApply' /\ EldersKnown'
  BY <1>1 DEF IInv, OnePass, PlansApply, EldersKnown, HasElder, IsCurrent
<1>8. \A s \in Runs : NoDriver.run # s
  BY DEF NoDriver, ReconcilerAssumption
<1>9. OneWriter'
  <2>1. \A p \in Passes, s \in Runs : pass'[p].held[s] # NoLease => \A e \in Drivers : driver'[e].run # s
    BY <1>1, <1>5, <1>8 DEF IInv, OneWriter
  <2>2. ASSUME NEW e \in Drivers, NEW g \in Drivers, driver'[e] # NoDriver, driver'[e].run = driver'[g].run
        PROVE  e = g
    <3>1. e # d /\ driver'[e] = driver[e] /\ driver[e].run \in Runs
      BY <1>2, <1>5, <2>2 DEF TypeOK, DriverState
    <3>2. g # d
      BY <3>1, <2>2, <1>5, <1>8
    <3> QED BY <3>1, <3>2, <2>2, <1>5 DEF IInv, OneWriter
  <2>3. \A p \in Passes, s \in Runs : pass'[p].writes[s] # "none" => pass'[p].held[s] # NoLease
    BY <1>1 DEF IInv, OneWriter
  <2> QED BY <2>1, <2>2, <2>3 DEF OneWriter
<1>10. RoomToWrite'
  <2> SUFFICES ASSUME NEW e \in Drivers, driver'[e] # NoDriver
               PROVE  revision'[driver'[e].run] < MaxRevision
    BY DEF RoomToWrite
  <2>1. e # d /\ driver'[e] = driver[e] /\ driver[e].run \in Runs /\ driver[e].run # r
    BY <1>2, <1>4, <1>5 DEF TypeOK, DriverState
  <2> QED BY <2>1, <1>5 DEF IInv, RoomToWrite
<1>11. ScanIsPast'
  <2> SUFFICES ASSUME NEW p \in Passes, NEW s \in Runs
               PROVE  ScanIsPast!(p, s)'
    BY DEF ScanIsPast
  <2>1. CASE s # r
    BY <2>1, <1>1, <1>5 DEF IInv, ScanIsPast
  <2>2. CASE s = r
    <3>1. pass[p].scan[r] # NoScan => pass[p].scan[r].revision \in 1 .. MaxRevision
      BY <1>2 DEF TypeOK, PassState
    <3> QED BY <2>2, <3>1, <1>1, <1>2, <1>5 DEF IInv, ScanIsPast
  <2> QED BY <2>1, <2>2
<1>12. HeldIsScanned'
  BY <1>1 DEF IInv, HeldIsScanned
<1> QED
  BY <1>6, <1>7, <1>9, <1>10, <1>11, <1>12 DEF IInv

LEMMA DriverKilledIInv ==
    ASSUME ReconcilerAssumption, IInv, NEW d \in Drivers, Driver_killed(d)
    PROVE  IInv'
<1>1. /\ driver' = [driver EXCEPT ![d] = NoDriver] /\ mishaps < MaxMishaps /\ mishaps' = mishaps + 1
      /\ UNCHANGED <<status, revision, failures, lease, facts, pass, global, quiet>>
  BY DEF Driver_killed
<1>2. TypeOK
  BY DEF IInv
<1>3. /\ driver' \in [Drivers -> DriverState]
      /\ driver'[d] = NoDriver /\ \A e \in Drivers : e # d => driver'[e] = driver[e]
  BY <1>1, <1>2 DEF TypeOK, DriverState
<1>4. \A s \in Runs : NoDriver.run # s
  BY DEF NoDriver, ReconcilerAssumption
<1>5. TypeOK'
  BY <1>1, <1>2, <1>3 DEF TypeOK, ReconcilerAssumption
<1>6. OnePass' /\ PlansApply' /\ EldersKnown' /\ ScanIsPast'
  BY <1>1 DEF IInv, OnePass, PlansApply, EldersKnown, HasElder, IsCurrent, ScanIsPast
<1>7. OneWriter'
  <2>1. \A p \in Passes, s \in Runs : pass'[p].held[s] # NoLease => \A e \in Drivers : driver'[e].run # s
    BY <1>1, <1>3, <1>4 DEF IInv, OneWriter
  <2>2. ASSUME NEW e \in Drivers, NEW g \in Drivers, driver'[e] # NoDriver, driver'[e].run = driver'[g].run
        PROVE  e = g
    <3>1. e # d /\ driver'[e] = driver[e] /\ driver[e].run \in Runs
      BY <1>2, <1>3, <2>2 DEF TypeOK, DriverState
    <3>2. g # d
      BY <3>1, <2>2, <1>3, <1>4
    <3> QED BY <3>1, <3>2, <2>2, <1>3 DEF IInv, OneWriter
  <2>3. \A p \in Passes, s \in Runs : pass'[p].writes[s] # "none" => pass'[p].held[s] # NoLease
    BY <1>1 DEF IInv, OneWriter
  <2> QED BY <2>1, <2>2, <2>3 DEF OneWriter
<1>8. RoomToWrite'
  BY <1>1, <1>3 DEF IInv, RoomToWrite
<1>9. HeldIsScanned'
  BY <1>1, <1>3, <1>4 DEF IInv, HeldIsScanned
<1> QED
  BY <1>5, <1>6, <1>7, <1>8, <1>9 DEF IInv

\* Time and the provider move neither rows nor anybody's memory.
LEMMA WorldIInv ==
    ASSUME ReconcilerAssumption, IInv, NEW r \in Runs,
           Elapse(r) \/ \E f \in Observable : Provider_moves(r, f)
    PROVE  IInv'
<1>1. UNCHANGED <<status, revision, failures, driver, pass, global>>
  BY DEF Elapse, Provider_moves
<1>2. TypeOK
  BY DEF IInv
<1>3. CASE Elapse(r)
  <2>1. /\ lease' = [lease EXCEPT ![r].life = "expired"] /\ lease[r] # NoLease
        /\ quiet' = 0 /\ UNCHANGED <<facts, mishaps>>
    BY <1>3 DEF Elapse, NoLease
  <2>2. lease[r] \in Lease
    BY <1>2, <2>1 DEF TypeOK
  <2>3. [lease[r] EXCEPT !.life = "expired"] \in Lease
    BY <2>2 DEF Lease
  <2>4. lease' \in [Runs -> Lease \union {NoLease}]
    BY <1>2, <2>1, <2>3 DEF TypeOK
  <2> QED BY <1>1, <1>2, <2>1, <2>4 DEF TypeOK, IInv, OnePass, PlansApply, EldersKnown, HasElder,
             IsCurrent, ScanIsPast, OneWriter, RoomToWrite, HeldIsScanned
<1>4. CASE \E f \in Observable : Provider_moves(r, f)
  <2>1. PICK f \in Observable : Provider_moves(r, f)
    BY <1>4
  <2>2. TypeOK'
    BY <1>1, <1>2, <2>1 DEF TypeOK, Provider_moves, ReconcilerAssumption
  <2> QED BY <1>1, <2>2 DEF IInv, OnePass, PlansApply, EldersKnown, HasElder,
             IsCurrent, ScanIsPast, OneWriter, RoomToWrite, HeldIsScanned
<1> QED
  BY <1>3, <1>4

\* Every step keeps the invariant.
LEMMA NextIInv == ASSUME ReconcilerAssumption, IInv, [Next]_vars PROVE IInv'
<1>1. CASE UNCHANGED vars
  <2>1. UNCHANGED <<status, revision, failures, lease, facts, driver, pass, global, mishaps, quiet>>
    BY <1>1 DEF vars
  <2>2. TypeOK'
    BY <2>1 DEF IInv, TypeOK
  <2>3. OnePass' /\ PlansApply'
    BY <2>1 DEF IInv, OnePass, PlansApply
  <2>4. OneWriter' /\ RoomToWrite' /\ HeldIsScanned'
    BY <2>1 DEF IInv, OneWriter, RoomToWrite, HeldIsScanned
  <2>5. ScanIsPast' /\ EldersKnown'
    BY <2>1 DEF IInv, ScanIsPast, IsCurrent, EldersKnown, HasElder
  <2> QED BY <2>2, <2>3, <2>4, <2>5 DEF IInv
<1>2. ASSUME NEW p \in Passes, Pass_step(p) \/ Pass_killed(p) PROVE IInv'
  BY <1>2, RunPassIInv, ReconcileOneIInv, ApplyIInv, CommitIInv, PassKilledIInv DEF Pass_step
<1>3. ASSUME NEW d \in Drivers, NEW r \in Runs, NEW op \in {"advance", "withdraw"}, Take_lease(d, r, op)
      PROVE  IInv'
  BY <1>3, TakeLeaseIInv
<1>4. ASSUME NEW d \in Drivers, NEW target \in RunStatus, NEW fails \in BOOLEAN,
             Persist_decision(d, target, fails)
      PROVE  IInv'
  <2>1. driver[d] # NoDriver /\ driver[d].run \in Runs /\ failures \in [Runs -> 0 .. 2]
    BY <1>4 DEF Persist_decision, NoDriver, IInv, TypeOK, DriverState
  <2>2. failures' \in [Runs -> 0 .. 2]
    <3> DEFINE s == driver[d].run
               n == IF ~ fails THEN 0 ELSE IF failures[s] = 2 THEN 2 ELSE failures[s] + 1
    <3>1. failures' = [failures EXCEPT ![s] = n]
      BY <1>4 DEF Persist_decision
    <3>2. failures[s] \in 0 .. 2
      BY <2>1
    <3>3. n \in 0 .. 2
      BY <3>2
    <3> QED BY <2>1, <3>1, <3>3
  <2>3. Write_and_release(d, target)
    BY <1>4 DEF Persist_decision
  <2> QED BY <2>1, <2>2, <2>3, WriteIInv
<1>5. ASSUME NEW d \in Drivers, Withdraw_run(d) PROVE IInv'
  <2>1. driver[d] # NoDriver /\ failures' \in [Runs -> 0 .. 2]
    BY <1>5 DEF Withdraw_run, NoDriver, IInv, TypeOK
  <2>2. Write_and_release(d, "canceled") /\ "canceled" \in RunStatus
    BY <1>5 DEF Withdraw_run, RunStatus
  <2> QED BY <2>1, <2>2, WriteIInv
<1>6. ASSUME NEW d \in Drivers, Driver_killed(d) PROVE IInv'
  BY <1>6, DriverKilledIInv
<1>7. ASSUME NEW r \in Runs, Elapse(r) \/ \E f \in Observable : Provider_moves(r, f) PROVE IInv'
  BY <1>7, WorldIInv
<1>8. {"running", "waiting", "blocked", "succeeded", "failed"} \subseteq RunStatus
  BY DEF RunStatus
<1> QED
  BY <1>1, <1>2, <1>3, <1>4, <1>5, <1>6, <1>7, <1>8 DEF Next

(***************************************************************************)
(* Theorems                                                                *)
(***************************************************************************)

LEMMA Invariance == Spec => []IInv
<1> USE ReconcilerAssumption
<1>1. Init => IInv
  BY InitIInv
<1>2. IInv /\ [Next]_vars => IInv'
  BY NextIInv
<1> QED
  BY <1>1, <1>2, PTL DEF Spec

\* Rows, leases and the memory of drivers and passes keep their types; in particular a pass
\* plans only actions of the table and writes only statuses of a run.
THEOREM TypeCorrect == Spec => []TypeOK
<1>1. IInv => TypeOK
  BY DEF IInv
<1> QED
  BY Invariance, <1>1, PTL

\* A pass that holds the lease of a run has the run to itself until it commits, however many
\* drivers, operators and passes work on the runs (acquire, _apply): what its correction can
\* overwrite was committed between the scan and the lease, and shows in the revision.
THEOREM CorrectionsAreExclusive == Spec => []CorrectionIsExclusive
<1>1. IInv => CorrectionIsExclusive
  <2> SUFFICES ASSUME IInv, NEW p \in Passes, NEW r \in Runs, pass[p].held[r] # NoLease
               PROVE  /\ \A d \in Drivers : driver[d].run # r
                      /\ \A q \in Passes : pass[q].held[r] # NoLease => q = p
                      /\ revision[r] = pass[p].scan[r].revision => status[r] = pass[p].scan[r].status
    BY DEF CorrectionIsExclusive
  <2>1. \A d \in Drivers : driver[d].run # r
    BY DEF IInv, OneWriter
  <2>2. \A q \in Passes : pass[q].held[r] # NoLease => global = q
    BY IdleFacts DEF IInv, OnePass
  <2>3. revision[r] = pass[p].scan[r].revision => status[r] = pass[p].scan[r].status
    BY DEF IInv, HeldIsScanned, ScanIsPast
  <2> QED BY <2>1, <2>2, <2>3
<1> QED
  BY Invariance, <1>1, PTL

LessThan == {pair \in Nat \X Nat : pair[1] < pair[2]}

\* A set of run ids has a smallest one.
LEMMA SmallestId ==
    ASSUME NEW T \in SUBSET Nat, T # {}
    PROVE  \E x \in T : \A y \in T : x <= y
<1>1. IsWellFoundedOn(LessThan, Nat)
  BY NatLessThanWellFounded DEF OpToRel, LessThan
<1>2. PICK x \in T : \A y \in T : ~ (<<y, x>> \in LessThan)
  BY <1>1, WFMin
<1>3. ASSUME NEW y \in T PROVE x <= y
  <2>1. <<y, x>> \notin LessThan /\ x \in Nat /\ y \in Nat
    BY <1>2
  <2>2. ~ (y < x)
    BY <2>1 DEF LessThan
  <2> QED BY <2>1, <2>2
<1> QED
  BY <1>3

\* Closing duplicates leaves the oldest active run of the scan open, for any set of runs
\* (detect_duplicate_runs).
THEOREM CanonicalRunSurvives == Spec => []CanonicalSurvives
<1> USE ReconcilerAssumption
<1>1. ASSUME IInv PROVE CanonicalSurvives
  <2> SUFFICES ASSUME NEW p \in Passes, NEW r \in Runs, pass[p].writes[r] = "superseded"
               PROVE  \E s \in Runs : /\ s < r
                                      /\ pass[p].scan[s].status \in ACTIVE_RUN_STATUSES
                                      /\ pass[p].writes[s] # "superseded"
    BY DEF CanonicalSurvives
  <2> DEFINE T == {s \in Runs : pass[p].scan[s].status \in ACTIVE_RUN_STATUSES}
  <2>1. PICK e \in T : e < r
    BY <1>1 DEF IInv, EldersKnown, HasElder
  <2>2. T \in SUBSET Nat /\ T # {} /\ Runs \subseteq Nat
    BY <2>1 DEF ReconcilerAssumption
  <2>3. PICK m \in T : \A y \in T : m <= y
    BY <2>2, SmallestId
  <2>4. m < r
    BY <2>1, <2>2, <2>3
  <2>5. ~ HasElder(p, m)
    BY <2>2, <2>3 DEF HasElder
  <2>6. pass[p].writes[m] # "superseded"
    BY <2>5, <1>1 DEF IInv, EldersKnown
  <2> QED BY <2>4, <2>6
<1> QED
  BY Invariance, <1>1, PTL

(***************************************************************************)
(* Passes that find nothing new                                            *)
(***************************************************************************)

\* What a pass that scans now would know of r, plan for it and do.
Now(r) ==
    [run |-> r, status |-> status[r],
     siblings |-> {s \in Runs : status[s] \in ACTIVE_RUN_STATUSES} \ {r},
     lease |-> lease[r], repeated |-> detect_repeated(r), facts |-> facts[r]]

PlanNow(r) == plan_action(Now(r))

MayWrite(r) ==
    PlanNow(r) # "lease_takeover" => ACTION_TARGETS[PlanNow(r)] \in RUN_STATUS_TRANSITIONS[status[r]]

Acts(r) ==
    /\ r \in Scanned /\ ~ Journal_only(PlanNow(r))
    /\ MayWrite(r) /\ Acquirable(r, PassOwner)

WriteOf(r) == IF PlanNow(r) = "lease_takeover" THEN "none" ELSE ACTION_TARGETS[PlanNow(r)]

\* A pass that began after the last event knows the present and does what it asks for.
PassKnows(p) ==
    /\ pass[p].todo \subseteq Scanned
    /\ \A r \in Runs :
        /\ pass[p].scan[r] = IF r \in Scanned
               THEN [status |-> status[r], revision |-> revision[r]] ELSE NoScan
        /\ r \in pass[p].todo => pass[p].seen[r] = facts[r]
        /\ IsCurrent(p, r) /\ pass[p].plan # "none" =>
               pass[p].plan = PlanNow(r) /\ ~ Journal_only(PlanNow(r))
        /\ r \in Scanned \ pass[p].todo /\ Acts(r) =>
               pass[p].held[r] = Granted(r) /\ pass[p].writes[r] = WriteOf(r)
        /\ ~ (r \in Scanned \ pass[p].todo /\ Acts(r)) =>
               pass[p].held[r] = NoLease /\ pass[p].writes[r] = "none"

\* After one such pass no open run has an expired lease, or a repeated error the pass could
\* have escalated; after two there is nothing to do.
Settled(r) ==
    r \in Scanned =>
        /\ ~ detect_expired_lease(Now(r))
        /\ detect_repeated_error(Now(r)) => ~ Acquirable(r, PassOwner)

QuietInv ==
    /\ quiet >= 1 => \A p \in Passes : global = p => PassKnows(p)
    /\ quiet = 2 => \A r \in Runs : Settled(r)
    /\ quiet = 3 => \A r \in Runs : ~ Acts(r)

(***************************************************************************)
(* Lemmas about what a pass would do now                                   *)
(***************************************************************************)

Rep(r) == detect_repeated(r) /\ status[r] \in WAITING_ON_WORK
Exp(r) == lease[r] # NoLease /\ lease[r].life = "expired"
Dup(r) == status[r] \in ACTIVE_RUN_STATUSES
          /\ \E s \in Runs : s # r /\ s < r /\ status[s] \in ACTIVE_RUN_STATUSES
Mer(r) == facts[r].request = "merged" /\ status[r] # "succeeded"
Rest(st, f) ==
    IF f.merge # "none" /\ f.request = "open" /\ st \in WAITING_ON_WORK
    THEN approved_passed_action([facts |-> f])
    ELSE IF f.behind /\ st \in WAITING_ON_WORK THEN "update_branch" ELSE "none"

\* The rules in their order.
LEMMA PlanRules ==
    ASSUME NEW r \in Scanned
    PROVE  /\ Rep(r) => PlanNow(r) = "escalate"
           /\ ~ Rep(r) /\ Exp(r) => PlanNow(r) = "lease_takeover"
           /\ ~ Rep(r) /\ ~ Exp(r) /\ Dup(r) => PlanNow(r) = "supersede"
           /\ ~ Rep(r) /\ ~ Exp(r) /\ ~ Dup(r) /\ Mer(r) => PlanNow(r) = "record_merge"
           /\ ~ Rep(r) /\ ~ Exp(r) /\ ~ Dup(r) /\ ~ Mer(r) => PlanNow(r) = Rest(status[r], facts[r])
<1>1. PICK k : k = Now(r)
  OBVIOUS
<1>2. /\ k.run = r /\ k.status = status[r] /\ k.lease = lease[r] /\ k.facts = facts[r]
      /\ (k.repeated <=> detect_repeated(r))
      /\ k.siblings = {s \in Runs : status[s] \in ACTIVE_RUN_STATUSES} \ {r}
  BY <1>1 DEF Now
<1>3. k.status \notin SKIPPED_RUN_STATUSES
  BY <1>2 DEF Scanned, SCANNED_RUN_STATUSES, SKIPPED_RUN_STATUSES
<1>4. (detect_repeated_error(k) <=> Rep(r)) /\ (detect_expired_lease(k) <=> Exp(r))
  BY <1>2 DEF detect_repeated_error, detect_expired_lease, Rep, Exp
<1>5. detect_duplicate_runs(k) <=> Dup(r)
  BY <1>2 DEF detect_duplicate_runs, Dup
<1>6. detect_merged_change_request(k) <=> Mer(r)
  BY <1>2 DEF detect_merged_change_request, Mer
<1>7. approved_passed_action(k) = approved_passed_action([facts |-> facts[r]])
  BY <1>2, Zenon DEF approved_passed_action
<1>8. PlanNow(r) = plan_action(k)
  BY <1>1 DEF PlanNow
<1> QED
  BY <1>2, <1>3, <1>4, <1>5, <1>6, <1>7, <1>8
  DEF plan_action, Rest, detect_approved_passed, detect_branch_behind

\* What is left to the last rules: an escalation needs an open request and a run at work.
LEMMA RestRules ==
    ASSUME NEW st, NEW f
    PROVE  \/ Journal_only(Rest(st, f))
           \/ Rest(st, f) = "escalate" /\ f.request = "open" /\ st \in WAITING_ON_WORK
<1>1. approved_passed_action([facts |-> f]) \in {"plan_merge", "escalate", "wait_for_human"}
  BY DEF approved_passed_action
<1> QED
  BY <1>1 DEF Rest, Journal_only

LEMMA PlanNowKinds ==
    ASSUME NEW r \in Scanned
    PROVE  PlanNow(r) \in {"escalate", "lease_takeover", "supersede", "record_merge"} \/ Journal_only(PlanNow(r))
  BY PlanRules, RestRules

\* The table leads from every active status to "superseded", and to "blocked" from a run
\* at work.
LEMMA TableFacts ==
    /\ \A s \in ACTIVE_RUN_STATUSES : "superseded" \in RUN_STATUS_TRANSITIONS[s]
    /\ \A s \in WAITING_ON_WORK : "blocked" \in RUN_STATUS_TRANSITIONS[s] /\ s \in ACTIVE_RUN_STATUSES
    /\ \A s \in SCANNED_RUN_STATUSES : "blocked" \in RUN_STATUS_TRANSITIONS[s] => s \in ACTIVE_RUN_STATUSES
    /\ "blocked" \notin WAITING_ON_WORK /\ "blocked" \in SCANNED_RUN_STATUSES
    /\ "superseded" \notin SCANNED_RUN_STATUSES \union ACTIVE_RUN_STATUSES \union WAITING_ON_WORK
    /\ "succeeded" \notin SCANNED_RUN_STATUSES \union ACTIVE_RUN_STATUSES \union WAITING_ON_WORK
    /\ ACTION_TARGETS["supersede"] = "superseded" /\ ACTION_TARGETS["record_merge"] = "succeeded"
    /\ ACTION_TARGETS["escalate"] = "blocked"
    /\ WAITING_ON_WORK \subseteq SCANNED_RUN_STATUSES /\ ACTIVE_RUN_STATUSES \subseteq SCANNED_RUN_STATUSES
  BY DEF ACTIVE_RUN_STATUSES, WAITING_ON_WORK, SCANNED_RUN_STATUSES, RUN_STATUS_TRANSITIONS,
         RunTerminal, ACTION_TARGETS

LEMMA SettledIs ==
    ASSUME NEW r
    PROVE  Settled(r) <=> (r \in Scanned => ~ Exp(r) /\ (Rep(r) => ~ Acquirable(r, PassOwner)))
<1>1. PICK k : k = Now(r)
  OBVIOUS
<1>2. k.status = status[r] /\ k.lease = lease[r] /\ (k.repeated <=> detect_repeated(r))
  BY <1>1 DEF Now
<1>3. (detect_repeated_error(k) <=> Rep(r)) /\ (detect_expired_lease(k) <=> Exp(r))
  BY <1>2 DEF detect_repeated_error, detect_expired_lease, Rep, Exp
<1> QED
  BY <1>1, <1>3 DEF Settled

\* Nothing moved: the same plans.
LEMMA NothingMoved ==
    ASSUME UNCHANGED <<status, revision, failures, lease, facts>>
    PROVE  /\ Scanned' = Scanned
           /\ \A r : /\ PlanNow(r)' = PlanNow(r) /\ WriteOf(r)' = WriteOf(r)
                     /\ (Acts(r)' <=> Acts(r)) /\ (Settled(r)' <=> Settled(r))
                     /\ Granted(r)' = Granted(r)
<1>1. Scanned' = Scanned
  BY DEF Scanned
<1>2. ASSUME NEW r PROVE Now(r)' = Now(r)
  BY DEF Now, detect_repeated
<1>3. ASSUME NEW r PROVE PlanNow(r)' = PlanNow(r)
  BY <1>2 DEF PlanNow
<1>4. ASSUME NEW r PROVE WriteOf(r)' = WriteOf(r) /\ (MayWrite(r)' <=> MayWrite(r))
  BY <1>3 DEF WriteOf, MayWrite
<1>5. ASSUME NEW r
      PROVE  (Acquirable(r, PassOwner)' <=> Acquirable(r, PassOwner)) /\ Granted(r)' = Granted(r)
  BY DEF Acquirable, PassOwner, Granted, AcquiredToken, default_owner_id
<1>6. ASSUME NEW r PROVE (Acts(r)' <=> Acts(r)) /\ (Settled(r)' <=> Settled(r))
  BY <1>1, <1>2, <1>3, <1>4, <1>5 DEF Acts, Settled
<1> QED
  BY <1>1, <1>3, <1>4, <1>5, <1>6

(***************************************************************************)
(* Steps of a pass                                                         *)
(***************************************************************************)

LEMMA OnlyThatPass ==
    ASSUME ReconcilerAssumption, IInv, NEW p \in Passes, global' = p, PassKnows(p)',
           UNCHANGED <<status, revision, failures, lease, facts, quiet>>, QuietInv
    PROVE  QuietInv'
<1>1. quiet' >= 1 => \A q \in Passes : global' = q => PassKnows(q)'
  OBVIOUS
<1> QED
  BY <1>1, NothingMoved DEF QuietInv

\* The scan of a pass is the present.
LEMMA RunPassQuiet ==
    ASSUME ReconcilerAssumption, IInv, QuietInv, NEW p \in Passes, Run_pass(p)
    PROVE  QuietInv'
<1>1. PICK S : S = [r \in Runs |-> IF r \in Scanned
                     THEN [status |-> status[r], revision |-> revision[r]] ELSE NoScan]
  OBVIOUS
<1>2. PICK F : F = [r \in Runs |-> IF r \in Scanned THEN facts[r] ELSE NoFacts]
  OBVIOUS
<1>3. PICK X : X = [IdlePass EXCEPT !.todo = Scanned, !.scan = S, !.seen = F]
  OBVIOUS
<1>4. /\ pass' = [pass EXCEPT ![p] = X] /\ global' = p
      /\ UNCHANGED <<status, revision, failures, lease, facts, driver, mishaps, quiet>>
  BY <1>1, <1>2, <1>3 DEF Run_pass, Row
<1>5. IdlePass \in PassState
  BY IdleIsPass
<1>6. /\ X.todo = Scanned /\ X.scan = S /\ X.seen = F /\ X.plan = IdlePass.plan
      /\ X.writes = IdlePass.writes /\ X.held = IdlePass.held
  BY <1>3, <1>5 DEF PassState
<1>7. pass'[p] = X
  BY <1>4 DEF IInv, TypeOK
<1>8. Scanned' = Scanned /\ Scanned \subseteq Runs
  BY <1>4, NothingMoved DEF Scanned
<1>9. PassKnows(p)'
  <2>1. pass'[p].todo \subseteq Scanned'
    BY <1>6, <1>7, <1>8
  <2>2. ASSUME NEW r \in Runs
        PROVE  /\ pass'[p].scan[r] = IF r \in Scanned'
                      THEN [status |-> status'[r], revision |-> revision'[r]] ELSE NoScan
               /\ r \in pass'[p].todo => pass'[p].seen[r] = facts'[r]
               /\ pass'[p].plan = "none"
               /\ pass'[p].held[r] = NoLease /\ pass'[p].writes[r] = "none"
               /\ r \notin Scanned' \ pass'[p].todo
    BY <1>1, <1>2, <1>4, <1>6, <1>7, <1>8, IdleFacts
  <2> QED BY <2>1, <2>2 DEF PassKnows
<1> QED
  BY <1>4, <1>9, OnlyThatPass

\* A pass that knows the present plans for a run what is planned now.
LEMMA KnownFacts ==
    ASSUME NEW p \in Passes, PassKnows(p), NEW r \in Runs, r \in pass[p].todo
    PROVE  assemble_facts(p, r) = Now(r) /\ r \in Scanned
<1>1. r \in Scanned /\ pass[p].scan[r].status = status[r] /\ pass[p].seen[r] = facts[r]
  <2>1. r \in Scanned /\ pass[p].seen[r] = facts[r]
    BY DEF PassKnows
  <2>2. pass[p].scan[r] = [status |-> status[r], revision |-> revision[r]]
    BY <2>1 DEF PassKnows
  <2> QED BY <2>1, <2>2
<1>2. ASSUME NEW s \in Runs
      PROVE  pass[p].scan[s].status \in ACTIVE_RUN_STATUSES <=> status[s] \in ACTIVE_RUN_STATUSES
  <2>1. CASE s \in Scanned
    <3>1. pass[p].scan[s] = [status |-> status[s], revision |-> revision[s]]
      BY <2>1 DEF PassKnows
    <3> QED BY <3>1
  <2>2. CASE s \notin Scanned
    <3>1. pass[p].scan[s] = NoScan
      BY <2>2 DEF PassKnows
    <3>2. status[s] \notin ACTIVE_RUN_STATUSES
      BY <2>2, TableFacts DEF Scanned
    <3> QED BY <3>1, <3>2 DEF NoScan, ACTIVE_RUN_STATUSES
  <2> QED BY <2>1, <2>2
<1>3. group_active_by_change(p) = {s \in Runs : status[s] \in ACTIVE_RUN_STATUSES}
  BY <1>2 DEF group_active_by_change
<1> QED
  BY <1>1, <1>3 DEF assemble_facts, Now

\* Passing over r: nothing else of the pass changes.
LEMMA PassedOverSeen ==
    ASSUME NEW p \in Passes, NEW r \in Runs, pass[p] \in PassState
    PROVE  \A s \in Runs : s # r => Passed_over(p, r).seen[s] = pass[p].seen[s]
  BY DEF Passed_over, PassState

LEMMA ReconcileOneQuiet ==
    ASSUME ReconcilerAssumption, IInv, QuietInv, NEW p \in Passes, NEW r \in Runs, Reconcile_one(p, r)
    PROVE  QuietInv'
<1>1. PICK a : a = plan_action(assemble_facts(p, r))
  OBVIOUS
<1>2. /\ global = p /\ IsCurrent(p, r) /\ pass[p].plan = "none"
      /\ pass' = [pass EXCEPT ![p] =
                    IF Journal_only(a) THEN Passed_over(p, r) ELSE [pass[p] EXCEPT !.plan = a]]
      /\ UNCHANGED <<status, revision, failures, lease, facts, driver, global, mishaps, quiet>>
  BY <1>1 DEF Reconcile_one
<1>3. TypeOK /\ pass[p] \in PassState /\ r \in pass[p].todo
  BY <1>2 DEF IInv, TypeOK, IsCurrent
<1>4. CASE ~ (quiet >= 1)
  BY <1>2, <1>4 DEF QuietInv, IInv, TypeOK
<1>5. CASE quiet >= 1
  <2>1. PassKnows(p)
    BY <1>2, <1>5 DEF QuietInv
  <2>2. a = PlanNow(r) /\ r \in Scanned
    BY <2>1, <1>1, <1>3, KnownFacts DEF PlanNow
  <2>3. /\ pass[p].held[r] = NoLease /\ pass[p].writes[r] = "none"
    BY <2>1, <1>3 DEF PassKnows
  <2>4. /\ Scanned' = Scanned
        /\ \A s \in Runs : /\ PlanNow(s)' = PlanNow(s) /\ WriteOf(s)' = WriteOf(s)
                           /\ (Acts(s)' <=> Acts(s)) /\ Granted(s)' = Granted(s)
    BY <1>2, NothingMoved
  <2>5. CASE Journal_only(a)
    <3>1. PICK X : X = Passed_over(p, r)
      OBVIOUS
    <3>2. pass'[p] = X
      BY <3>1, <2>5, <1>2, <1>3 DEF TypeOK
    <3>3. /\ X.plan = "none" /\ X.todo = pass[p].todo \ {r} /\ X.scan = pass[p].scan
          /\ X.writes = pass[p].writes /\ X.held = pass[p].held
          /\ \A s \in Runs : s # r => X.seen[s] = pass[p].seen[s]
      BY <3>1, <1>3, PassedOver, PassedOverSeen
    <3>4. ~ Acts(r)
      BY <2>2, <2>5 DEF Acts
    <3>5. X.todo \subseteq Scanned'
      BY <3>3, <2>1, <2>4 DEF PassKnows
    <3>6. ASSUME NEW s \in Runs
          PROVE  /\ X.scan[s] = IF s \in Scanned'
                        THEN [status |-> status'[s], revision |-> revision'[s]] ELSE NoScan
                 /\ s \in X.todo => X.seen[s] = facts'[s]
                 /\ s \in Scanned' \ X.todo /\ Acts(s)' =>
                        X.held[s] = Granted(s)' /\ X.writes[s] = WriteOf(s)'
                 /\ ~ (s \in Scanned' \ X.todo /\ Acts(s)') =>
                        X.held[s] = NoLease /\ X.writes[s] = "none"
      <4>1. X.scan[s] = IF s \in Scanned'
                    THEN [status |-> status'[s], revision |-> revision'[s]] ELSE NoScan
        BY <3>3, <2>1, <2>4, <1>2 DEF PassKnows
      <4>2. s \in X.todo => X.seen[s] = facts'[s]
        BY <3>3, <2>1, <1>2 DEF PassKnows
      <4>3. CASE s = r
        BY <4>1, <4>2, <4>3, <3>3, <3>4, <2>3, <2>4
      <4>4. CASE s # r
        BY <4>1, <4>2, <4>4, <3>3, <2>1, <2>4 DEF PassKnows
      <4> QED BY <4>3, <4>4
    <3>7. PassKnows(p)'
      BY <3>2, <3>3, <3>5, <3>6 DEF PassKnows
    <3> QED BY <3>7, <1>2, OnlyThatPass
  <2>6. CASE ~ Journal_only(a)
    <3>1. PICK X : X = [pass[p] EXCEPT !.plan = a]
      OBVIOUS
    <3>2. pass'[p] = X
      BY <3>1, <2>6, <1>2, <1>3 DEF TypeOK
    <3>3. /\ X.plan = a /\ X.todo = pass[p].todo /\ X.scan = pass[p].scan /\ X.seen = pass[p].seen
          /\ X.writes = pass[p].writes /\ X.held = pass[p].held
      BY <3>1, <1>3 DEF PassState
    <3>4. ASSUME NEW s \in Runs, s \in X.todo, \A t \in X.todo : s <= t PROVE s = r
      BY <3>3, <3>4, <1>2 DEF IsCurrent, ReconcilerAssumption
    <3>5. PassKnows(p)'
      <4>1. X.todo \subseteq Scanned'
        BY <3>3, <2>1, <2>4 DEF PassKnows
      <4>2. ASSUME NEW s \in Runs
            PROVE  /\ X.scan[s] = IF s \in Scanned'
                          THEN [status |-> status'[s], revision |-> revision'[s]] ELSE NoScan
                   /\ s \in X.todo => X.seen[s] = facts'[s]
                   /\ s \in Scanned' \ X.todo /\ Acts(s)' =>
                          X.held[s] = Granted(s)' /\ X.writes[s] = WriteOf(s)'
                   /\ ~ (s \in Scanned' \ X.todo /\ Acts(s)') =>
                          X.held[s] = NoLease /\ X.writes[s] = "none"
        BY <3>3, <2>1, <2>4, <1>2 DEF PassKnows
      <4>3. ASSUME NEW s \in Runs, IsCurrent(p, s)'
            PROVE  X.plan = PlanNow(s)' /\ ~ Journal_only(PlanNow(s)')
        <5>1. s = r
          BY <4>3, <3>2, <3>4 DEF IsCurrent
        <5> QED BY <5>1, <3>3, <2>2, <2>4, <2>6
      <4>4. ASSUME NEW s \in Runs, IsCurrent(p, s)'
            PROVE  X.plan = PlanNow(s)' /\ ~ Journal_only(PlanNow(s))'
        BY <4>3, <4>4 DEF Journal_only
      <4> QED BY <4>1, <4>2, <4>4, <3>2 DEF PassKnows
    <3> QED BY <3>5, <1>2, OnlyThatPass
  <2> QED BY <2>5, <2>6
<1> QED
  BY <1>4, <1>5

LEMMA ApplyQuiet ==
    ASSUME ReconcilerAssumption, IInv, QuietInv, NEW p \in Passes, NEW r \in Runs, Apply(p, r)
    PROVE  QuietInv'
<1>1. PICK a : a = pass[p].plan
  OBVIOUS
<1>2. PICK target : target = ACTION_TARGETS[a]
  OBVIOUS
<1>3. PICK skips \in BOOLEAN :
          skips <=> \/ a # "lease_takeover"
                       /\ target \notin RUN_STATUS_TRANSITIONS[pass[p].scan[r].status]
                    \/ ~ Acquirable(r, PassOwner)
  OBVIOUS
<1>4. PICK row : row = Granted(r)
  OBVIOUS
<1>5. PICK w : w = IF a # "lease_takeover"
                      /\ update_status(pass[p].scan[r], target, pass[p].scan[r].revision, row.token, row.token)
                   THEN target ELSE "none"
  OBVIOUS
<1>6. PICK X : X = IF skips THEN Passed_over(p, r)
                   ELSE [Passed_over(p, r) EXCEPT !.held[r] = row, !.writes[r] = w]
  OBVIOUS
<1>7. /\ global = p /\ IsCurrent(p, r) /\ a # "none"
      /\ pass' = [pass EXCEPT ![p] = X]
      /\ UNCHANGED <<status, revision, failures, lease, facts, driver, global, mishaps, quiet>>
  BY <1>1, <1>2, <1>3, <1>4, <1>5, <1>6 DEF Apply
<1>8. TypeOK /\ pass[p] \in PassState /\ r \in pass[p].todo
  BY <1>7 DEF IInv, TypeOK, IsCurrent
<1>9. pass'[p] = X
  BY <1>7, <1>8 DEF TypeOK
<1>10. CASE ~ (quiet >= 1)
  BY <1>7, <1>10 DEF QuietInv, IInv, TypeOK
<1>11. CASE quiet >= 1
  <2>1. PassKnows(p)
    BY <1>7, <1>11 DEF QuietInv
  <2>2. a = PlanNow(r) /\ ~ Journal_only(a) /\ r \in Scanned
    BY <2>1, <1>1, <1>7, <1>8 DEF PassKnows
  <2>3. /\ pass[p].held[r] = NoLease /\ pass[p].writes[r] = "none"
        /\ pass[p].scan[r].status = status[r] /\ pass[p].scan[r].revision = revision[r]
    <3>1. pass[p].scan[r] = [status |-> status[r], revision |-> revision[r]]
      BY <2>1, <2>2 DEF PassKnows
    <3>2. pass[p].held[r] = NoLease /\ pass[p].writes[r] = "none"
      BY <2>1, <1>8 DEF PassKnows
    <3> QED BY <3>1, <3>2
  <2>4. Acts(r) <=> ~ skips
    BY <2>2, <2>3, <1>2, <1>3 DEF Acts, MayWrite
  <2>5. ~ skips => w = WriteOf(r)
    BY <2>2, <2>3, <1>2, <1>3, <1>5 DEF update_status, RunPath, WriteOf
  <2>6. PICK Y : Y = Passed_over(p, r)
    OBVIOUS
  <2>7. /\ Y \in PassState /\ Y.plan = "none" /\ Y.todo = pass[p].todo \ {r} /\ Y.scan = pass[p].scan
        /\ Y.writes = pass[p].writes /\ Y.held = pass[p].held
        /\ \A s \in Runs : s # r => Y.seen[s] = pass[p].seen[s]
    BY <2>6, <1>8, PassedOver, PassedOverSeen
  <2>8. /\ X.plan = "none" /\ X.todo = pass[p].todo \ {r} /\ X.scan = pass[p].scan
        /\ \A s \in Runs : s # r => X.seen[s] = pass[p].seen[s]
        /\ \A s \in Runs : s # r => X.held[s] = pass[p].held[s] /\ X.writes[s] = pass[p].writes[s]
        /\ X.held[r] = (IF Acts(r) THEN Granted(r) ELSE NoLease)
        /\ X.writes[r] = (IF Acts(r) THEN WriteOf(r) ELSE "none")
    <3>1. CASE skips
      <4>1. X = Y /\ ~ Acts(r)
        BY <3>1, <2>4, <2>6, <1>6
      <4> QED BY <4>1, <2>3, <2>7
    <3>2. CASE ~ skips
      <4>1. X = [Y EXCEPT !.held[r] = row, !.writes[r] = w] /\ Acts(r)
        BY <3>2, <2>4, <2>6, <1>6
      <4>2. /\ X.held = [Y.held EXCEPT ![r] = row] /\ X.writes = [Y.writes EXCEPT ![r] = w]
            /\ X.plan = Y.plan /\ X.todo = Y.todo /\ X.scan = Y.scan /\ X.seen = Y.seen
        BY <4>1, <2>7 DEF PassState
      <4>3. /\ Y.held \in [Runs -> Lease \union {NoLease}]
            /\ Y.writes \in [Runs -> RunStatus \union {"none"}]
        BY <2>7 DEF PassState
      <4>4. /\ X.held[r] = row /\ X.writes[r] = w
            /\ \A s \in Runs : s # r => X.held[s] = Y.held[s] /\ X.writes[s] = Y.writes[s]
        BY <4>2, <4>3
      <4> QED BY <4>1, <4>2, <4>4, <3>2, <2>5, <2>7, <1>4
    <3> QED BY <3>1, <3>2
  <2>9. /\ Scanned' = Scanned
        /\ \A s \in Runs : /\ WriteOf(s)' = WriteOf(s)
                           /\ (Acts(s)' <=> Acts(s)) /\ Granted(s)' = Granted(s)
    BY <1>7, NothingMoved
  <2>10. X.todo \subseteq Scanned'
    BY <2>1, <2>8, <2>9 DEF PassKnows
  <2>11. ASSUME NEW s \in Runs
         PROVE  /\ X.scan[s] = IF s \in Scanned'
                       THEN [status |-> status'[s], revision |-> revision'[s]] ELSE NoScan
                /\ s \in X.todo => X.seen[s] = facts'[s]
                /\ s \in Scanned' \ X.todo /\ Acts(s)' =>
                       X.held[s] = Granted(s)' /\ X.writes[s] = WriteOf(s)'
                /\ ~ (s \in Scanned' \ X.todo /\ Acts(s)') =>
                       X.held[s] = NoLease /\ X.writes[s] = "none"
    <3>1. X.scan[s] = IF s \in Scanned'
                  THEN [status |-> status'[s], revision |-> revision'[s]] ELSE NoScan
      BY <2>1, <2>8, <2>9, <1>7 DEF PassKnows
    <3>2. s \in X.todo => X.seen[s] = facts'[s]
      BY <2>1, <2>8, <1>7 DEF PassKnows
    <3>3. CASE s = r
      BY <3>1, <3>2, <3>3, <2>2, <2>8, <2>9
    <3>4. CASE s # r
      BY <3>1, <3>2, <3>4, <2>1, <2>8, <2>9 DEF PassKnows
    <3> QED BY <3>3, <3>4
  <2>12. PassKnows(p)'
    BY <2>8, <2>10, <2>11, <1>9 DEF PassKnows
  <2> QED BY <2>12, <1>7, OnlyThatPass
<1> QED
  BY <1>10, <1>11

\* What a pass leaves of a run when it commits.
LEMMA CommitMoves ==
    ASSUME ReconcilerAssumption, IInv, QuietInv, quiet >= 1, NEW p \in Passes, Commit_pass(p),
           NEW r \in Runs
    PROVE  /\ failures' = failures /\ facts' = facts
           /\ Acts(r) => /\ lease'[r] = Granted(r)
                         /\ status'[r] = IF WriteOf(r) # "none" THEN WriteOf(r) ELSE status[r]
           /\ ~ Acts(r) => /\ status'[r] = status[r] /\ lease'[r] = lease[r]
                           /\ (Exp(r)' <=> Exp(r))
                           /\ (Acquirable(r, PassOwner)' <=> Acquirable(r, PassOwner))
           /\ Acts(r) => ~ Exp(r)'
<1>1. /\ global = p /\ pass[p].todo = {}
      /\ status' = [s \in Runs |-> IF pass[p].writes[s] # "none" THEN pass[p].writes[s] ELSE status[s]]
      /\ lease' = [s \in Runs |-> IF pass[p].held[s] # NoLease THEN pass[p].held[s] ELSE lease[s]]
      /\ UNCHANGED <<failures, facts>>
  BY DEF Commit_pass
<1>2. PassKnows(p)
  BY <1>1 DEF QuietInv
<1>3. Granted(r) # NoLease /\ Granted(r).life = "live"
  BY LeaseRows DEF Granted, IInv
<1>4. ASSUME Acts(r)
      PROVE  /\ lease'[r] = Granted(r) /\ ~ Exp(r)'
             /\ status'[r] = IF WriteOf(r) # "none" THEN WriteOf(r) ELSE status[r]
  <2>1. pass[p].held[r] = Granted(r) /\ pass[p].writes[r] = WriteOf(r)
    BY <1>1, <1>2, <1>4 DEF PassKnows, Acts
  <2> QED BY <2>1, <1>1, <1>3 DEF Exp
<1>5. ASSUME ~ Acts(r)
      PROVE  status'[r] = status[r] /\ lease'[r] = lease[r]
  <2>1. pass[p].held[r] = NoLease /\ pass[p].writes[r] = "none"
    BY <1>2, <1>5 DEF PassKnows
  <2> QED BY <2>1, <1>1
<1>6. ASSUME ~ Acts(r)
      PROVE  /\ (Exp(r)' <=> Exp(r))
             /\ (Acquirable(r, PassOwner)' <=> Acquirable(r, PassOwner))
  BY <1>5, <1>6 DEF Exp, Acquirable, PassOwner
<1> QED
  BY <1>1, <1>4, <1>5, <1>6

\* What is written closes a run, or blocks one that was active.
LEMMA WritesAre ==
    ASSUME NEW r \in Runs, Acts(r)
    PROVE  /\ PlanNow(r) \in {"escalate", "lease_takeover", "supersede", "record_merge"}
           /\ PlanNow(r) = "lease_takeover" => WriteOf(r) = "none"
           /\ PlanNow(r) = "supersede" => WriteOf(r) = "superseded"
           /\ PlanNow(r) = "record_merge" => WriteOf(r) = "succeeded"
           /\ PlanNow(r) = "escalate" => WriteOf(r) = "blocked" /\ status[r] \in ACTIVE_RUN_STATUSES
<1>1. r \in Scanned /\ ~ Journal_only(PlanNow(r)) /\ MayWrite(r)
  BY DEF Acts
<1>2. PlanNow(r) \in {"escalate", "lease_takeover", "supersede", "record_merge"}
  BY <1>1, PlanNowKinds
<1>3. PlanNow(r) = "escalate" => status[r] \in ACTIVE_RUN_STATUSES
  BY <1>1, TableFacts DEF MayWrite, Scanned
<1> QED
  BY <1>2, <1>3, TableFacts DEF WriteOf

\* A run a pass could act on, and did not, had no repeated error, no expired lease and no
\* older run beside it.
LEMMA IdleRuns ==
    ASSUME NEW r \in Scanned, ~ Acts(r)
    PROVE  /\ Rep(r) => ~ Acquirable(r, PassOwner)
           /\ ~ Exp(r)
           /\ Dup(r) => ~ Acquirable(r, PassOwner)
<1>1. ASSUME Rep(r) PROVE ~ Acquirable(r, PassOwner)
  <2>1. PlanNow(r) = "escalate" /\ status[r] \in WAITING_ON_WORK
    BY <1>1, PlanRules DEF Rep
  <2>2. MayWrite(r) /\ ~ Journal_only(PlanNow(r))
    BY <2>1, TableFacts DEF MayWrite, Journal_only
  <2> QED BY <2>2 DEF Acts
<1>2. ASSUME Exp(r) PROVE FALSE
  <2>1. Acquirable(r, PassOwner)
    BY <1>2 DEF Exp, Acquirable
  <2>2. PlanNow(r) = "lease_takeover"
    BY <1>1, <1>2, <2>1, PlanRules
  <2> QED BY <2>1, <2>2 DEF Acts, MayWrite, Journal_only
<1>3. ASSUME Dup(r), Acquirable(r, PassOwner) PROVE FALSE
  <2>1. PlanNow(r) = "supersede" /\ status[r] \in ACTIVE_RUN_STATUSES
    BY <1>1, <1>2, <1>3, PlanRules DEF Dup
  <2>2. MayWrite(r) /\ ~ Journal_only(PlanNow(r))
    BY <2>1, TableFacts DEF MayWrite, Journal_only
  <2> QED BY <2>2, <1>3 DEF Acts
<1> QED
  BY <1>1, <1>2, <1>3

LEMMA CommitQuiet ==
    ASSUME ReconcilerAssumption, IInv, QuietInv, NEW p \in Passes, Commit_pass(p)
    PROVE  QuietInv'
<1>1. /\ global' = "none" /\ quiet' = (IF quiet < 3 THEN quiet + 1 ELSE 3) /\ quiet \in 0 .. 3
  BY DEF Commit_pass, IInv, TypeOK
<1>2. \A q \in Passes : global' # q
  BY <1>1 DEF ReconcilerAssumption
<1>3. CASE quiet = 0
  BY <1>1, <1>2, <1>3 DEF QuietInv
<1>4. ASSUME quiet >= 1, NEW r \in Runs
      PROVE  /\ failures' = failures /\ facts' = facts
             /\ Acts(r) => /\ lease'[r] = Granted(r) /\ ~ Exp(r)'
                           /\ status'[r] = IF WriteOf(r) # "none" THEN WriteOf(r) ELSE status[r]
             /\ ~ Acts(r) => /\ status'[r] = status[r]
                             /\ (Exp(r)' <=> Exp(r))
                             /\ (Acquirable(r, PassOwner)' <=> Acquirable(r, PassOwner))
  BY <1>4, CommitMoves
<1>5. CASE quiet = 1
  <2>1. ASSUME NEW r \in Runs, r \in Scanned'
        PROVE  ~ Exp(r)' /\ (Rep(r)' => ~ Acquirable(r, PassOwner)')
    <3>1. CASE Acts(r)
      <4>1. ASSUME Rep(r)' PROVE FALSE
        <5>1. r \in Scanned
          BY <3>1 DEF Acts
        <5>2. status'[r] \in WAITING_ON_WORK /\ detect_repeated(r)
          BY <4>1, <1>4, <1>5 DEF Rep, detect_repeated
        <5>3. WriteOf(r) \notin {"blocked", "superseded", "succeeded"}
          BY <5>2, <3>1, <1>4, <1>5, TableFacts
        <5>4. PlanNow(r) = "lease_takeover" /\ status'[r] = status[r]
          BY <5>3, <3>1, <1>4, <1>5, WritesAre
        <5>5. ~ Rep(r)
          BY <5>1, <5>4, PlanRules
        <5> QED BY <5>2, <5>4, <5>5 DEF Rep
      <4> QED BY <4>1, <3>1, <1>4, <1>5
    <3>2. CASE ~ Acts(r)
      <4>1. status'[r] = status[r] /\ r \in Scanned
        BY <2>1, <3>2, <1>4, <1>5 DEF Scanned
      <4>2. Rep(r)' <=> Rep(r)
        BY <4>1, <1>4, <1>5 DEF Rep, detect_repeated
      <4> QED BY <4>1, <4>2, <3>2, <1>4, <1>5, IdleRuns
    <3> QED BY <3>1, <3>2
  <2>2. ASSUME NEW r \in Runs
        PROVE Settled(r)' <=> (r \in Scanned' => ~ Exp(r)' /\ (Rep(r)' => ~ Acquirable(r, PassOwner)'))
    <3>1. PICK k : k = Now(r)'
      OBVIOUS
    <3>2. k.status = status'[r] /\ k.lease = lease'[r] /\ (k.repeated <=> detect_repeated(r)')
      BY <3>1 DEF Now
    <3>3. (detect_repeated_error(k) <=> Rep(r)') /\ (detect_expired_lease(k) <=> Exp(r)')
      BY <3>2 DEF detect_repeated_error, detect_expired_lease, Rep, Exp
    <3> QED BY <3>1, <3>3 DEF Settled, detect_repeated_error, detect_expired_lease, Rep, Exp
  <2>3. \A r \in Runs : Settled(r)'
    BY <2>1, <2>2
  <2> QED BY <2>3, <1>1, <1>2, <1>5 DEF QuietInv
<1>6. CASE quiet >= 2
  <2>0. quiet >= 1
    BY <1>1, <1>6
  \* The active runs are among those that were.
  <2>1. ASSUME NEW s \in Runs, status'[s] \in ACTIVE_RUN_STATUSES PROVE status[s] \in ACTIVE_RUN_STATUSES
    <3>1. CASE ~ Acts(s)
      BY <2>1, <3>1, <1>4, <2>0
    <3>2. CASE Acts(s)
      <4>1. status'[s] = IF WriteOf(s) # "none" THEN WriteOf(s) ELSE status[s]
        BY <3>2, <1>4, <2>0
      <4>2. WriteOf(s) = "none" \/ WriteOf(s) = "superseded" \/ WriteOf(s) = "succeeded"
            \/ status[s] \in ACTIVE_RUN_STATUSES
        BY <3>2, WritesAre
      <4>3. "superseded" \notin ACTIVE_RUN_STATUSES /\ "succeeded" \notin ACTIVE_RUN_STATUSES
        BY DEF ACTIVE_RUN_STATUSES
      <4> QED BY <2>1, <4>1, <4>2, <4>3
    <3> QED BY <3>1, <3>2
  <2>2. ASSUME NEW r \in Runs, ~ Dup(r) PROVE ~ Dup(r)'
    BY <2>1, <2>2 DEF Dup
  <2>3. ASSUME NEW r \in Runs, Acts(r)' PROVE FALSE
    <3>1. r \in Scanned' /\ ~ Journal_only(PlanNow(r))' /\ MayWrite(r)' /\ Acquirable(r, PassOwner)'
      BY <2>3 DEF Acts
    <3>2. /\ Rep(r)' => PlanNow(r)' = "escalate"
          /\ ~ Rep(r)' /\ Exp(r)' => PlanNow(r)' = "lease_takeover"
          /\ ~ Rep(r)' /\ ~ Exp(r)' /\ Dup(r)' => PlanNow(r)' = "supersede"
          /\ ~ Rep(r)' /\ ~ Exp(r)' /\ ~ Dup(r)' /\ Mer(r)' => PlanNow(r)' = "record_merge"
          /\ ~ Rep(r)' /\ ~ Exp(r)' /\ ~ Dup(r)' /\ ~ Mer(r)' =>
                PlanNow(r)' = Rest(status'[r], facts'[r])
      <4>1. PICK k : k = Now(r)'
        OBVIOUS
      <4>2. /\ k.run = r /\ k.status = status'[r] /\ k.lease = lease'[r] /\ k.facts = facts'[r]
            /\ (k.repeated <=> detect_repeated(r)')
            /\ k.siblings = {s \in Runs : status'[s] \in ACTIVE_RUN_STATUSES} \ {r}
        BY <4>1 DEF Now
      <4>3. k.status \notin SKIPPED_RUN_STATUSES
        BY <4>2, <3>1 DEF Scanned, SCANNED_RUN_STATUSES, SKIPPED_RUN_STATUSES
      <4>4. (detect_repeated_error(k) <=> Rep(r)') /\ (detect_expired_lease(k) <=> Exp(r)')
        BY <4>2 DEF detect_repeated_error, detect_expired_lease, Rep, Exp
      <4>5. detect_duplicate_runs(k) <=> Dup(r)'
        BY <4>2 DEF detect_duplicate_runs, Dup
      <4>6. detect_merged_change_request(k) <=> Mer(r)'
        BY <4>2 DEF detect_merged_change_request, Mer
      <4>7. approved_passed_action(k) = approved_passed_action([facts |-> facts'[r]])
        BY <4>2, Zenon DEF approved_passed_action
      <4>8. PlanNow(r)' = plan_action(k)
        BY <4>1 DEF PlanNow, plan_action, detect_repeated_error, detect_expired_lease,
             detect_duplicate_runs, detect_merged_change_request, detect_approved_passed,
             detect_branch_behind, approved_passed_action
      <4> QED
        BY <4>2, <4>3, <4>4, <4>5, <4>6, <4>7, <4>8
        DEF plan_action, Rest, detect_approved_passed, detect_branch_behind
    <3>3. Journal_only(PlanNow(r)') <=> Journal_only(PlanNow(r))'
      BY DEF Journal_only
    <3>4. CASE Acts(r)
      <4>1. quiet = 2 /\ r \in Scanned /\ Acquirable(r, PassOwner)
        BY <3>4, <1>1, <1>6 DEF QuietInv, Acts
      <4>2. ~ Exp(r) /\ ~ Rep(r)
        BY <4>1, SettledIs DEF QuietInv
      <4>3. status'[r] = IF WriteOf(r) # "none" THEN WriteOf(r) ELSE status[r]
        BY <3>4, <1>4, <2>0
      <4>4. WriteOf(r) # "superseded" /\ WriteOf(r) # "succeeded"
        BY <4>3, <3>1, TableFacts DEF Scanned
      <4>5. PlanNow(r) \in {"escalate", "lease_takeover"}
        BY <4>4, <3>4, WritesAre
      <4>6. ~ Dup(r) /\ ~ Mer(r) /\ PlanNow(r) = Rest(status[r], facts[r])
        BY <4>1, <4>2, <4>5, PlanRules
      <4>7. PlanNow(r) = "escalate" /\ facts[r].request = "open"
        BY <4>5, <4>6, RestRules DEF Journal_only
      <4>8. status'[r] = "blocked"
        BY <4>3, <4>7, <3>4, WritesAre
      <4>9. ~ Rep(r)'
        BY <4>8, TableFacts DEF Rep
      <4>10. ~ Exp(r)' /\ ~ Dup(r)'
        BY <4>6, <2>2, <3>4, <1>4, <2>0
      <4>11. ~ Mer(r)'
        BY <4>7, <1>4, <2>0 DEF Mer
      <4>12. PlanNow(r)' = Rest("blocked", facts[r])
        BY <4>8, <4>9, <4>10, <4>11, <3>2, <1>4, <2>0
      <4> QED BY <4>12, <3>1, <3>3, RestRules, TableFacts
    <3>5. CASE ~ Acts(r)
      <4>1. /\ status'[r] = status[r] /\ facts' = facts /\ failures' = failures
            /\ (Exp(r)' <=> Exp(r)) /\ Acquirable(r, PassOwner)
        BY <3>1, <3>5, <1>4, <2>0
      <4>2. r \in Scanned
        BY <4>1, <3>1 DEF Scanned
      <4>3. ~ Exp(r) /\ ~ Rep(r) /\ ~ Dup(r)
        BY <4>1, <4>2, <3>5, IdleRuns
      <4>4. ~ Exp(r)' /\ ~ Dup(r)' /\ (Rep(r)' <=> Rep(r)) /\ (Mer(r)' <=> Mer(r))
        BY <4>1, <4>3, <2>2 DEF Rep, Mer, detect_repeated
      <4>5. PlanNow(r)' = PlanNow(r)
        <5>1. Rest(status'[r], facts'[r]) = Rest(status[r], facts[r])
          BY <4>1
        <5>2. CASE Mer(r)
          BY <5>2, <4>2, <4>3, <4>4, <3>2, PlanRules
        <5>3. CASE ~ Mer(r)
          <6>1. PlanNow(r) = Rest(status[r], facts[r])
            BY <5>3, <4>2, <4>3, PlanRules
          <6>2. PlanNow(r)' = Rest(status'[r], facts'[r])
            BY <5>3, <4>3, <4>4, <3>2
          <6> QED BY <5>1, <6>1, <6>2
        <5> QED BY <5>2, <5>3
      <4>6. MayWrite(r)
        BY <4>1, <4>5, <3>1 DEF MayWrite
      <4> QED BY <4>1, <4>2, <4>5, <4>6, <3>1, <3>3, <3>5 DEF Acts
    <3> QED BY <3>4, <3>5
  <2>4. quiet' = 3
    BY <1>1, <1>6
  <2> QED BY <2>3, <2>4, <1>2 DEF QuietInv
<1> QED
  BY <1>1, <1>3, <1>5, <1>6

\* A step that moves no row leaves the pass's knowledge alone.
LEMMA RestQuiet ==
    ASSUME UNCHANGED <<status, revision, failures, lease, facts, pass, global, quiet>>, QuietInv
    PROVE  QuietInv'
<1>1. /\ Scanned' = Scanned
      /\ \A r : /\ PlanNow(r)' = PlanNow(r) /\ WriteOf(r)' = WriteOf(r)
                /\ (Acts(r)' <=> Acts(r)) /\ (Settled(r)' <=> Settled(r))
                /\ Granted(r)' = Granted(r)
  BY NothingMoved
<1>2. ASSUME NEW r PROVE Journal_only(PlanNow(r))' <=> Journal_only(PlanNow(r))
  BY <1>1 DEF Journal_only
<1>3. ASSUME NEW p, NEW r PROVE IsCurrent(p, r)' <=> IsCurrent(p, r)
  BY DEF IsCurrent
<1>4. ASSUME NEW p, PassKnows(p) PROVE PassKnows(p)'
  BY <1>1, <1>2, <1>3, <1>4 DEF PassKnows
<1> QED
  BY <1>1, <1>4 DEF QuietInv

\* Everything but a pass that commits starts the count again, or moves no row.
LEMMA NextQuiet ==
    ASSUME ReconcilerAssumption, IInv, QuietInv, [Next]_vars
    PROVE  QuietInv'
<1>1. ASSUME quiet' = 0 PROVE QuietInv'
  BY <1>1 DEF QuietInv
<1>2. ASSUME NEW p \in Passes, Pass_step(p) \/ Pass_killed(p) PROVE QuietInv'
  BY <1>1, <1>2, RunPassQuiet, ReconcileOneQuiet, ApplyQuiet, CommitQuiet DEF Pass_step, Pass_killed
<1>3. ASSUME NEW d \in Drivers, NEW r \in Runs, NEW op \in {"advance", "withdraw"}, Take_lease(d, r, op)
      PROVE  QuietInv'
  BY <1>3, RestQuiet DEF Take_lease
<1>4. ASSUME NEW d \in Drivers, Driver_killed(d) PROVE QuietInv'
  BY <1>4, RestQuiet DEF Driver_killed
<1>5. ASSUME NEW d \in Drivers,
             \/ \E target \in {"running", "waiting", "blocked", "succeeded", "failed"}, fails \in BOOLEAN :
                  Persist_decision(d, target, fails)
             \/ Withdraw_run(d)
      PROVE  QuietInv'
  BY <1>1, <1>5 DEF Persist_decision, Withdraw_run, Write_and_release
<1>6. ASSUME NEW r \in Runs, Elapse(r) \/ \E f \in Observable : Provider_moves(r, f)
      PROVE  QuietInv'
  BY <1>1, <1>6 DEF Elapse, Provider_moves
<1>7. CASE UNCHANGED vars
  BY <1>7, RestQuiet DEF vars
<1> QED
  BY <1>2, <1>3, <1>4, <1>5, <1>6, <1>7 DEF Next

\* Repeated passes over the same data come to nothing (GlobalReconciler), whatever the number
\* of runs and whether or not the owner id is configured: once three passes have ended and
\* nothing else happened, the next one finds nothing to write and no lease to take.
THEOREM PassesAlwaysConverge == Spec => []PassesConverge
<1> USE ReconcilerAssumption
<1>1. Init => QuietInv
  BY DEF Init, QuietInv
<1>2. IInv /\ QuietInv /\ [Next]_vars => QuietInv'
  BY NextQuiet
<1>3. IInv /\ QuietInv => PassesConverge
  <2>1. SUFFICES ASSUME IInv, QuietInv, quiet = 3, NEW p \in Passes, NEW r \in Runs
                 PROVE  pass[p].writes[r] = "none" /\ pass[p].held[r] = NoLease
    BY DEF PassesConverge
  <2>2. CASE global = p
    <3>1. PassKnows(p) /\ ~ Acts(r)
      BY <2>1, <2>2 DEF QuietInv
    <3> QED BY <3>1 DEF PassKnows
  <2>3. CASE global # p
    BY <2>1, <2>3, IdleFacts DEF IInv, OnePass
  <2> QED BY <2>2, <2>3
<1> QED
  BY <1>1, <1>2, <1>3, Invariance, PTL DEF Spec

=============================================================================
