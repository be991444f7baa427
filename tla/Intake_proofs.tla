---------------------------- MODULE Intake_proofs ----------------------------
(***************************************************************************)
(* Theorems about Intake, for any callers, changes and bounds.             *)
(*                                                                         *)
(* The readiness of the product is monotone because of the revision a      *)
(* check read: while the row still has it, what is recorded there was      *)
(* observed before that check observed (ChecksAreLater).  Answers agree    *)
(* because of the index on the reference: a stored reference never moves.  *)
(* The spend is kept by an advance that found its run, because a run that  *)
(* was found stays there (FoundIsThere).                                   *)
(***************************************************************************)
EXTENDS Intake, FiniteSetTheorems, TLAPS

(***************************************************************************)
(* The invariant                                                           *)
(***************************************************************************)

ProductRow == [status : ProductStatus \cup {"none"}, revision : Nat, seen : Nat]
ChangeRow == [brief : Briefs, ref : BOOLEAN, stored : BOOLEAN]
RequestState ==
    [at : {"idle", "observe", "record", "insert", "advance"},
     id : {"none"} \cup ChangeIds \cup Runs, revision : Nat,
     observed : {"none", "baseline_current", "unavailable"}, time : Nat, missed : BOOLEAN]

TypeOK ==
    /\ repository \in [up : BOOLEAN, time : Nat]
    /\ product \in ProductRow
    /\ changes \in [ChangeIds -> ChangeRow]
    /\ runs \in [Runs -> 0 .. Limit + 1]
    /\ request \in [Callers -> RequestState]
    /\ \A c \in Callers : request[c].at = "insert" => request[c].id \in ChangeIds
    /\ \A c \in Callers : request[c].at = "advance" => request[c].id \in Runs

\* A run that was found is there: runs are never deleted.
FoundIsThere ==
    \A c \in Callers : request[c].at = "advance" /\ ~ request[c].missed => runs[request[c].id] # NoRun

\* A check that may still be recorded observed the repository after what is recorded.
ChecksAreLater ==
    /\ product.seen <= repository.time
    /\ \A c \in Callers :
        /\ request[c].at \in {"observe", "record"} => request[c].revision <= product.revision
        /\ request[c].at = "record" => request[c].time <= repository.time
        /\ request[c].at = "record" /\ request[c].revision = product.revision
              => product.seen <= request[c].time

\* One stored change has the reference, and every answer names it or the id delivered.
OneReference ==
    /\ \A i, j \in SameRef : i = j
    /\ replies \subseteq ChangeIds \X ChangeIds
    /\ \A x \in replies : Stored(x[2]) /\ (changes[x[2]].ref \/ x[2] = x[1])

IInv == TypeOK /\ FoundIsThere /\ ChecksAreLater /\ OneReference

(***************************************************************************)
(* The operations                                                          *)
(***************************************************************************)

\* The operations the routes, the commands and the guidance are made of.
LEMMA NextCases ==
  ASSUME [Next]_vars
  PROVE  \/ create_product
         \/ \E c \in Callers : \/ Read_product(c) \/ observe_repository(c) \/ record_validation(c)
                               \/ \E k \in ChangeIds : Check_change(c, k) \/ resolve_run(c, k)
                               \/ \E b \in Briefs : create_change(c, b)
                               \/ Commit_advance(c) \/ Kill(c)
         \/ \E k \in ChangeIds, b \in Briefs : Create_from_command(k, b) \/ update_brief(k, b)
         \/ Lose_repository \/ Restore_repository
         \/ UNCHANGED vars
<1>1. ASSUME NEW c \in Callers, Request(c)
      PROVE  \/ create_product \/ Read_product(c)
             \/ \E k \in ChangeIds : Check_change(c, k) \/ resolve_run(c, k)
             \/ \E k \in ChangeIds, b \in Briefs : Create_from_command(k, b) \/ update_brief(k, b)
  BY <1>1 DEF Request, Api_product, Api_create, Api_brief, Cli_product, Cli_create, Cli_advance,
              brief_from_args, Briefs
<1>2. ASSUME NEW c \in Callers, Serve(c)
      PROVE  \/ observe_repository(c) \/ record_validation(c) \/ Commit_advance(c)
             \/ \E b \in Briefs : create_change(c, b)
  BY <1>2 DEF Serve, formulate, Briefs
<1>3. ASSUME NEW c \in Callers, Follow_guidance(c)
      PROVE  \/ create_product \/ Read_product(c)
             \/ \E k \in ChangeIds : resolve_run(c, k)
             \/ \E k \in ChangeIds, b \in Briefs : Create_from_command(k, b) \/ update_brief(k, b)
  <2>1. \/ create_product \/ Follow_product(c)
        \/ \E k \in ChangeIds, b \in brief_from_args : Create_from_command(k, b)
        \/ \E k \in ChangeIds : Follow_change(c, k)
    BY <1>3 DEF Follow_guidance
  <2>2. Follow_product(c) => Read_product(c)
    BY DEF Follow_product
  <2>3. \A k \in ChangeIds : Follow_change(c, k) =>
           update_brief(k, "complete") \/ Follow_product(c) \/ resolve_run(c, k)
    BY DEF Follow_change
  <2>4. "complete" \in Briefs /\ brief_from_args \subseteq Briefs
    BY DEF Briefs, brief_from_args
  <2> QED BY <2>1, <2>2, <2>3, <2>4
<1> QED BY <1>1, <1>2, <1>3 DEF Next

LEMMA NoRequestType == NoRequest \in RequestState /\ NoRequest.at = "idle"
BY DEF NoRequest, RequestState

\* A request becomes k and the others stay.
LEMMA GotoFacts ==
  ASSUME TypeOK, NEW c \in Callers, NEW k \in RequestState, Goto(c, k)
  PROVE  /\ request' \in [Callers -> RequestState] /\ request'[c] = k
         /\ \A d \in Callers \ {c} : request'[d] = request[d]
BY DEF TypeOK, Goto

\* The answer x names the change with the reference or the id delivered.
Answers(x) == Stored(x[2]) /\ (changes[x[2]].ref \/ x[2] = x[1])

\* A request that changes no row.
LEMMA RequestStep ==
  ASSUME IInv, NEW c \in Callers, NEW k \in RequestState, Goto(c, k),
         UNCHANGED <<repository, product, changes>>, runs' \in [Runs -> 0 .. Limit + 1],
         \A r \in Runs : runs[r] # NoRun => runs'[r] # NoRun,
         k.at = "advance" /\ ~ k.missed => runs'[k.id] # NoRun,
         replies' \subseteq replies \cup {x \in ChangeIds \X ChangeIds : Answers(x)},
         k.at = "insert" => k.id \in ChangeIds, k.at = "advance" => k.id \in Runs,
         k.at \in {"observe", "record"} => k.revision <= product.revision,
         k.at = "record" => k.time <= repository.time,
         k.at = "record" /\ k.revision = product.revision => product.seen <= k.time
  PROVE  IInv'
<1>1. /\ request' \in [Callers -> RequestState] /\ request'[c] = k
      /\ \A d \in Callers \ {c} : request'[d] = request[d]
  BY GotoFacts DEF IInv
<1>2. TypeOK'
  BY <1>1 DEF IInv, TypeOK
<1>3. ChecksAreLater'
  BY <1>1 DEF IInv, ChecksAreLater
<1>4. OneReference'
  BY DEF IInv, OneReference, SameRef, Stored, Answers
<1>5. FoundIsThere'
  BY <1>1 DEF IInv, FoundIsThere, TypeOK
<1> QED BY <1>2, <1>3, <1>4, <1>5 DEF IInv

LEMMA CreateProductStep == ASSUME IInv, create_product PROVE IInv'
<1>1. /\ product = NoProduct /\ product' = [status |-> "created", revision |-> 1, seen |-> 0]
      /\ UNCHANGED <<repository, changes, runs, request, replies>>
  BY DEF create_product
<1>2. product' \in ProductRow /\ product'.seen = 0 /\ product'.revision = 1
  BY <1>1 DEF ProductRow, ProductStatus
<1>3. product.revision = 0 /\ repository.time \in Nat
  BY <1>1 DEF NoProduct, IInv, TypeOK
<1>4. \A c \in Callers : request[c].time \in Nat /\ request[c].revision \in Nat
  BY DEF IInv, TypeOK, RequestState
<1> QED
  BY <1>1, <1>2, <1>3, <1>4
     DEF IInv, TypeOK, FoundIsThere, ChecksAreLater, OneReference, SameRef, Stored

LEMMA ReadStep == ASSUME IInv, NEW c \in Callers, Read_product(c) PROVE IInv'
<1>1. PICK k : k = [NoRequest EXCEPT !.at = "observe", !.revision = product.revision] /\ Goto(c, k)
  BY DEF Read_product
<1>2. k \in RequestState /\ k.at = "observe" /\ k.revision = product.revision
      /\ product.revision \in Nat
  BY <1>1 DEF NoRequest, RequestState, IInv, TypeOK, ProductRow
<1>3. Goto(c, k) /\ UNCHANGED <<repository, product, changes, runs, replies>>
  BY <1>1 DEF Read_product, rows
<1>4. runs' \in [Runs -> 0 .. Limit + 1]
  BY <1>3 DEF IInv, TypeOK
<1> QED BY <1>2, <1>3, <1>4, RequestStep

LEMMA ObserveStep == ASSUME IInv, NEW c \in Callers, observe_repository(c) PROVE IInv'
<1>0. PICK o \in {"baseline_current", "unavailable"} :
         o = IF repository.up THEN "baseline_current" ELSE "unavailable"
  OBVIOUS
<1>1. PICK k : /\ k = [request[c] EXCEPT !.at = "record", !.time = repository.time, !.observed = o]
               /\ Goto(c, k)
  BY <1>0 DEF observe_repository
<1>2. repository.time \in Nat /\ request[c] \in RequestState
  BY DEF IInv, TypeOK
<1>3. k \in RequestState /\ k.at = "record" /\ k.revision = request[c].revision
      /\ k.time = repository.time
  BY <1>1, <1>2 DEF RequestState
<1>4. request[c].revision <= product.revision /\ product.seen <= repository.time
  BY DEF observe_repository, IInv, ChecksAreLater
<1>5. Goto(c, k) /\ UNCHANGED <<repository, product, changes, runs, replies>>
  BY <1>1 DEF observe_repository, rows
<1>6. runs' \in [Runs -> 0 .. Limit + 1]
  BY <1>5 DEF IInv, TypeOK
<1> QED BY <1>2, <1>3, <1>4, <1>5, <1>6, RequestStep

LEMMA StatusRow ==
  ASSUME NEW row \in ProductRow, NEW target \in ProductStatus
  PROVE  /\ update_status(row, target) \in ProductRow
         /\ update_status(row, target).revision = row.revision + 1
<1>1. PICK u : u = [row EXCEPT !.status = target]
  OBVIOUS
<1>2. u \in ProductRow /\ u.revision = row.revision
  BY <1>1 DEF ProductRow
<1>3. PICK v : v = [u EXCEPT !.revision = row.revision + 1]
  OBVIOUS
<1>4. v \in ProductRow /\ v.revision = row.revision + 1
  BY <1>2, <1>3 DEF ProductRow
<1>5. v = update_status(row, target)
  BY <1>1, <1>3 DEF update_status, ProductRow
<1> QED BY <1>4, <1>5

\* What a recorded check does to the row of the product.
LEMMA Recorded ==
  ASSUME IInv, NEW c \in Callers, record_validation(c)
  PROVE  \/ product' = product
         \/ /\ product' \in ProductRow /\ product'.seen = request[c].time
            /\ product'.revision > product.revision /\ request[c].revision = product.revision
<1>1. PICK t \in {"ready", "error"} : t = product_readiness(request[c].observed)
  BY DEF product_readiness
<1>2. PICK s : s = IF product.status # "validating" THEN update_status(product, "validating") ELSE product
  OBVIOUS
<1>3. product \in ProductRow /\ request[c].time \in Nat
  BY DEF IInv, TypeOK, RequestState
<1>4. s \in ProductRow /\ s.revision >= product.revision
  <2>1. product.revision \in Nat
    BY <1>3 DEF ProductRow
  <2> QED BY <1>2, <1>3, <2>1, StatusRow DEF ProductStatus
<1>5. PICK n : n = update_status(s, t)
  OBVIOUS
<1>6. n \in ProductRow /\ n.revision = s.revision + 1
  BY <1>1, <1>4, <1>5, StatusRow DEF ProductStatus
<1>7. PICK m : m = [n EXCEPT !.seen = request[c].time]
  OBVIOUS
<1>8. m \in ProductRow /\ m.seen = request[c].time /\ m.revision = n.revision
  BY <1>3, <1>6, <1>7 DEF ProductRow
<1>9. product' = product \/ (product' = m /\ product.revision = request[c].revision)
  BY <1>1, <1>2, <1>5, <1>7 DEF record_validation, MayMove
<1>10. m.revision > product.revision
  BY <1>3, <1>4, <1>6, <1>8 DEF ProductRow
<1> QED BY <1>8, <1>9, <1>10

LEMMA RecordStep == ASSUME IInv, NEW c \in Callers, record_validation(c) PROVE IInv'
<1>1. /\ request[c].at = "record" /\ Done(c) /\ UNCHANGED <<repository, changes, runs, replies>>
  BY DEF record_validation
<1>2. CASE product' = product
  BY <1>1, <1>2, RequestStep, NoRequestType DEF Done, IInv, TypeOK
<1>3. CASE /\ product' \in ProductRow /\ product'.seen = request[c].time
           /\ product'.revision > product.revision /\ request[c].revision = product.revision
  <2>1. /\ request' \in [Callers -> RequestState] /\ request'[c] = NoRequest
        /\ \A d \in Callers \ {c} : request'[d] = request[d]
    BY <1>1, GotoFacts, NoRequestType DEF Done, IInv
  <2>2. product.revision \in Nat /\ product'.revision \in Nat /\ repository.time \in Nat
        /\ \A d \in Callers : request[d].revision \in Nat /\ request[d].time \in Nat
    BY <1>3 DEF IInv, TypeOK, ProductRow, RequestState
  <2>3. TypeOK'
    BY <1>1, <1>3, <2>1, NoRequestType DEF IInv, TypeOK
  <2>4. \A d \in Callers : request'[d].at \in {"observe", "record"} =>
           request'[d].revision < product'.revision
    BY <1>3, <2>1, <2>2, NoRequestType DEF IInv, ChecksAreLater
  <2>5. request[c].time <= repository.time
    BY <1>1 DEF IInv, ChecksAreLater
  <2>6. ChecksAreLater'
    <3>1. product'.seen <= repository'.time
      BY <1>1, <1>3, <2>5
    <3>2. \A d \in Callers : request'[d].at = "record" => request'[d].time <= repository'.time
      BY <1>1, <2>1, NoRequestType DEF IInv, ChecksAreLater
    <3>3. \A d \in Callers : request'[d].revision \in Nat
      BY <2>1, <2>2 DEF NoRequest
    <3>4. \A d \in Callers : request'[d].at \in {"observe", "record"} =>
             request'[d].revision <= product'.revision /\ request'[d].revision # product'.revision
      BY <2>2, <2>4, <3>3
    <3> QED BY <3>1, <3>2, <3>4 DEF ChecksAreLater
  <2>7. OneReference' /\ FoundIsThere'
    BY <1>1, <2>1, NoRequestType DEF IInv, OneReference, FoundIsThere, SameRef, Stored
  <2> QED BY <2>3, <2>6, <2>7 DEF IInv
<1> QED BY <1>2, <1>3, Recorded

\* A request that ends without changing a row of the product or of a change.
LEMMA EndStep ==
  ASSUME IInv, NEW c \in Callers, Done(c), UNCHANGED <<repository, product, changes, replies>>,
         runs' \in [Runs -> 0 .. Limit + 1], \A r \in Runs : runs[r] # NoRun => runs'[r] # NoRun
  PROVE  IInv'
BY RequestStep, NoRequestType DEF Done

LEMMA CheckStep ==
  ASSUME IInv, NEW c \in Callers, NEW k \in ChangeIds, Check_change(c, k)
  PROVE  IInv'
<1>0. PICK found : found = IF Stored(k) THEN {k} ELSE SameRef
  OBVIOUS
<1>1. found \subseteq ChangeIds /\ \A j \in found : Stored(j) /\ (changes[j].ref \/ j = k)
  BY <1>0 DEF SameRef
<1>2. /\ UNCHANGED <<repository, product, changes, runs>>
      /\ IF found # {} THEN replies' = replies \cup {<<k, j>> : j \in found} /\ UNCHANGED request
         ELSE Goto(c, [NoRequest EXCEPT !.at = "insert", !.id = k]) /\ UNCHANGED replies
  BY <1>0 DEF Check_change, rows
<1>3. runs' \in [Runs -> 0 .. Limit + 1]
  BY <1>2 DEF IInv, TypeOK
<1>4. CASE found # {}
  <2>1. TypeOK' /\ FoundIsThere' /\ ChecksAreLater'
    BY <1>2, <1>4 DEF IInv, TypeOK, FoundIsThere, ChecksAreLater
  <2>2. replies' = replies \cup {<<k, j>> : j \in found}
    BY <1>2, <1>4
  <2>3. \A x \in replies' : x \in ChangeIds \X ChangeIds /\ Answers(x)
    BY <2>2, <1>1 DEF IInv, OneReference, Answers
  <2>4. OneReference'
    BY <2>3, <1>2 DEF IInv, OneReference, SameRef, Stored, Answers
  <2> QED BY <2>1, <2>4 DEF IInv
<1>5. CASE found = {}
  <2>1. PICK r : r = [NoRequest EXCEPT !.at = "insert", !.id = k] /\ Goto(c, r)
    BY <1>2, <1>5
  <2>2. r \in RequestState /\ r.at = "insert" /\ r.id = k
    BY <2>1 DEF NoRequest, RequestState
  <2> QED BY <1>2, <1>3, <1>5, <2>1, <2>2, RequestStep
<1> QED BY <1>4, <1>5

LEMMA ResolveStep ==
  ASSUME IInv, NEW c \in Callers, NEW k \in ChangeIds, resolve_run(c, k)
  PROVE  IInv'
<1>1. PICK g : g = generated_run_id(k)
  OBVIOUS
<1>2. g \in Runs
  BY <1>1 DEF generated_run_id, Runs, IInv, TypeOK, ChangeRow
<1>0. PICK m \in BOOLEAN : m = (runs[g] = NoRun)
  OBVIOUS
<1>3. PICK r : r = [NoRequest EXCEPT !.at = "advance", !.id = g, !.missed = m] /\ Goto(c, r)
  BY <1>0, <1>1 DEF resolve_run
<1>4. r \in RequestState /\ r.at = "advance" /\ r.id = g /\ r.missed = m
  BY <1>2, <1>3 DEF NoRequest, RequestState
<1>5. runs' \in [Runs -> 0 .. Limit + 1] /\ UNCHANGED <<repository, product, changes, runs, replies>>
  BY DEF resolve_run, rows, IInv, TypeOK
<1> QED BY <1>0, <1>2, <1>3, <1>4, <1>5, RequestStep

\* What an advance leaves in the budget of its run: within the limit, and never less than was
\* spent when it had found the run.
LEMMA Spent ==
  ASSUME IInv, NEW c \in Callers, Commit_advance(c)
  PROVE  /\ runs' \in [Runs -> 0 .. Limit + 1]
         /\ \A r \in Runs : runs[r] # NoRun => runs'[r] # NoRun
         /\ SpendIsKept
<1>1. PICK r : r = request[c].id
  OBVIOUS
<1>2. r \in Runs /\ runs \in [Runs -> 0 .. Limit + 1] /\ request'[c] = NoRequest
  BY <1>1, GotoFacts, NoRequestType DEF Commit_advance, Done, IInv, TypeOK
<1>3. PICK used : used = create_run(r, request[c].missed)
  OBVIOUS
<1>4. PICK cost \in 0 .. 1 : used + cost <= Limit /\ runs' = [runs EXCEPT ![r] = used + cost]
  BY <1>1, <1>3 DEF Commit_advance
<1>5. used \in 0 .. Limit + 1 /\ (request[c].missed \/ used = runs[r])
  BY <1>2, <1>3, IntakeAssumption DEF create_run
<1>6. PICK now : now = used + cost
  OBVIOUS
<1>7. /\ now \in 0 .. Limit /\ now # NoRun /\ (request[c].missed \/ now \in runs[r] .. Limit)
  BY <1>2, <1>4, <1>5, <1>6, IntakeAssumption DEF NoRun
<1>8. runs' = [runs EXCEPT ![r] = now]
  BY <1>4, <1>6
<1>9. \A s \in Runs : runs[s] # NoRun => runs[s] \in runs[s] .. Limit
  BY <1>2, IntakeAssumption DEF NoRun
<1>10. SpendIsKept
  <2> SUFFICES ASSUME NEW s \in Runs, runs[s] # NoRun
               PROVE  runs'[s] \in runs[s] .. Limit \/ ResetsSpend(s)
    BY DEF SpendIsKept
  <2>1. CASE s # r
    BY <1>2, <1>8, <1>9, <2>1
  <2>2. CASE s = r /\ request[c].missed
    BY <1>1, <1>2, <2>2 DEF ResetsSpend
  <2>3. CASE s = r /\ ~ request[c].missed
    BY <1>2, <1>7, <1>8, <2>3
  <2> QED BY <2>1, <2>2, <2>3
<1> QED BY <1>2, <1>7, <1>8, <1>10, IntakeAssumption

LEMMA AdvanceStep == ASSUME IInv, NEW c \in Callers, Commit_advance(c) PROVE IInv'
BY Spent, EndStep DEF Commit_advance

LEMMA KillStep == ASSUME IInv, NEW c \in Callers, Kill(c) PROVE IInv'
BY EndStep DEF Kill, rows, IInv, TypeOK

\* A row of a change becomes n: a new one, or a stored one that keeps its reference.
LEMMA ChangeStep ==
  ASSUME IInv, NEW k \in ChangeIds, NEW n \in ChangeRow, changes' = [changes EXCEPT ![k] = n],
         n.stored, n.ref => (changes[k].ref /\ Stored(k)) \/ SameRef = {},
         Stored(k) /\ changes[k].ref => n.ref,
         UNCHANGED <<repository, product, runs>>,
         replies' \subseteq replies \cup {<<k, k>>},
         TypeOK', FoundIsThere', ChecksAreLater'
  PROVE  IInv'
<1>1. changes \in [ChangeIds -> ChangeRow]
  BY DEF IInv, TypeOK
<1>2. \A j \in ChangeIds : changes'[j] = IF j = k THEN n ELSE changes[j]
  BY <1>1
<1>3. \A i, j \in ChangeIds :
         changes'[i].stored /\ changes'[i].ref /\ changes'[j].stored /\ changes'[j].ref => i = j
  BY <1>2 DEF IInv, OneReference, SameRef, Stored
<1>4. \A x \in replies' : /\ x \in ChangeIds \X ChangeIds
                          /\ changes'[x[2]].stored
                          /\ changes'[x[2]].ref \/ x[2] = x[1]
  BY <1>2 DEF IInv, OneReference, Stored
<1>5. OneReference'
  BY <1>3, <1>4 DEF OneReference, SameRef, Stored
<1> QED BY <1>5 DEF IInv

LEMMA InsertStep ==
  ASSUME IInv, NEW c \in Callers, NEW b \in Briefs, create_change(c, b)
  PROVE  IInv'
<1>1. PICK k : k = request[c].id
  OBVIOUS
<1>2. k \in ChangeIds
  BY <1>1 DEF create_change, IInv, TypeOK
<1>3. PICK n : n = [brief |-> b, ref |-> TRUE, stored |-> TRUE]
  OBVIOUS
<1>4. n \in ChangeRow /\ n.stored
  BY <1>3 DEF ChangeRow
<1>5. /\ changes' = IF Unique(k) THEN [changes EXCEPT ![k] = n] ELSE changes
      /\ replies' = IF Unique(k) \/ Stored(k) THEN replies \cup {<<k, k>>} ELSE replies
      /\ Done(c) /\ UNCHANGED <<repository, product, runs>>
  BY <1>1, <1>3 DEF create_change
<1>6. /\ request' \in [Callers -> RequestState] /\ request'[c] = NoRequest
      /\ \A d \in Callers \ {c} : request'[d] = request[d]
  BY <1>5, GotoFacts, NoRequestType DEF Done, IInv
<1>7. changes' \in [ChangeIds -> ChangeRow]
  BY <1>2, <1>4, <1>5 DEF IInv, TypeOK
<1>8. TypeOK' /\ FoundIsThere' /\ ChecksAreLater'
  BY <1>5, <1>6, <1>7, NoRequestType DEF IInv, TypeOK, FoundIsThere, ChecksAreLater
<1>9. CASE Unique(k)
  BY <1>2, <1>4, <1>5, <1>8, <1>9, ChangeStep DEF Unique
<1>10. CASE ~ Unique(k)
  <2>1. runs' \in [Runs -> 0 .. Limit + 1]
    BY <1>5 DEF IInv, TypeOK
  <2>2. replies' \subseteq replies \cup {x \in ChangeIds \X ChangeIds : Answers(x)}
    BY <1>2, <1>5, <1>10 DEF Answers
  <2> QED BY <1>5, <1>10, <2>1, <2>2, RequestStep, NoRequestType DEF Done
<1> QED BY <1>9, <1>10

LEMMA CommandStep ==
  ASSUME IInv, NEW k \in ChangeIds, NEW b \in Briefs, Create_from_command(k, b)
  PROVE  IInv'
<1>1. PICK n : n = [brief |-> b, ref |-> FALSE, stored |-> TRUE]
  OBVIOUS
<1>2. n \in ChangeRow /\ n.stored /\ ~ n.ref
  BY <1>1 DEF ChangeRow
<1>3. changes' = [changes EXCEPT ![k] = n]
      /\ UNCHANGED <<repository, product, runs, request, replies>>
  BY <1>1 DEF Create_from_command
<1>4. TypeOK' /\ FoundIsThere' /\ ChecksAreLater'
  BY <1>2, <1>3 DEF IInv, TypeOK, FoundIsThere, ChecksAreLater
<1> QED BY <1>2, <1>3, <1>4, ChangeStep DEF Create_from_command

LEMMA BriefStep ==
  ASSUME IInv, NEW k \in ChangeIds, NEW b \in Briefs, update_brief(k, b)
  PROVE  IInv'
<1>1. PICK n : n = [changes[k] EXCEPT !.brief = b]
  OBVIOUS
<1>2. changes[k] \in ChangeRow /\ changes[k].stored
  BY DEF IInv, TypeOK, update_brief, Stored
<1>3. n \in ChangeRow /\ n.stored /\ n.ref = changes[k].ref
  BY <1>1, <1>2 DEF ChangeRow
<1>4. changes' = [changes EXCEPT ![k] = n]
      /\ UNCHANGED <<repository, product, runs, request, replies>>
  BY <1>1 DEF update_brief
<1>5. TypeOK' /\ FoundIsThere' /\ ChecksAreLater'
  BY <1>3, <1>4 DEF IInv, TypeOK, FoundIsThere, ChecksAreLater
<1> QED BY <1>2, <1>3, <1>4, <1>5, ChangeStep DEF Stored

LEMMA RepositoryStep ==
  ASSUME IInv, Lose_repository \/ Restore_repository
  PROVE  IInv'
<1>1. PICK up \in BOOLEAN : repository' = [up |-> up, time |-> repository.time + 1]
  BY DEF Lose_repository, Restore_repository
<1>2. UNCHANGED <<product, changes, runs, request, replies>>
  BY DEF Lose_repository, Restore_repository, rows
<1>3. repository.time \in Nat /\ repository' \in [up : BOOLEAN, time : Nat]
      /\ repository'.time = repository.time + 1
  BY <1>1 DEF IInv, TypeOK
<1>4. product.seen \in Nat /\ \A c \in Callers : request[c].time \in Nat
  BY DEF IInv, TypeOK, ProductRow, RequestState
<1>5. TypeOK' /\ FoundIsThere' /\ ChecksAreLater'
  BY <1>2, <1>3, <1>4 DEF IInv, TypeOK, FoundIsThere, ChecksAreLater
<1>6. OneReference'
  BY <1>2 DEF IInv, OneReference, SameRef, Stored
<1> QED BY <1>5, <1>6 DEF IInv

(***************************************************************************)
(* The theorems                                                            *)
(***************************************************************************)

\* The invariant of the intake: the types, runs that stay, the order of the checks of the
\* product, and one stored change for the external reference.
THEOREM Invariance == Spec => []IInv
<1>1. Init => IInv
  <2> SUFFICES ASSUME Init PROVE IInv
    OBVIOUS
  <2>1. NoProduct \in ProductRow /\ NoProduct.seen = 0
    BY DEF NoProduct, ProductRow
  <2>2. NoChange \in ChangeRow /\ ~ NoChange.stored
    BY DEF NoChange, ChangeRow, Briefs
  <2>3. repository \in [up : BOOLEAN, time : Nat] /\ repository.time = 0
    BY DEF Init
  <2>4. TypeOK
    BY <2>1, <2>2, <2>3, NoRequestType, IntakeAssumption DEF Init, TypeOK, NoRun
  <2>5. ChecksAreLater
    BY <2>1, <2>3, NoRequestType DEF Init, ChecksAreLater
  <2>6. OneReference /\ FoundIsThere
    BY <2>2, NoRequestType DEF Init, OneReference, FoundIsThere, SameRef, Stored
  <2> QED BY <2>4, <2>5, <2>6 DEF IInv
<1>2. IInv /\ [Next]_vars => IInv'
  <2> SUFFICES ASSUME IInv, [Next]_vars PROVE IInv'
    OBVIOUS
  <2>1. UNCHANGED vars => IInv'
    BY DEF vars, rows, IInv, TypeOK, FoundIsThere, ChecksAreLater, OneReference, SameRef, Stored
  <2> QED
    BY <2>1, NextCases, CreateProductStep, ReadStep, ObserveStep, RecordStep, CheckStep,
       ResolveStep, InsertStep, AdvanceStep, KillStep, CommandStep, BriefStep, RepositoryStep
<1> QED BY <1>1, <1>2, PTL DEF Spec

\* create_change: every answer names the one stored change with the external reference, or the
\* id that was delivered when a command had taken it, for any number of overlapping deliveries
\* with any ids.
THEOREM RepliesAlwaysAgree == Spec => []RepliesAgree
<1>1. IInv => RepliesAgree
  <2> SUFFICES ASSUME IInv PROVE RepliesAgree
    OBVIOUS
  <2>1. Cardinality(SameRef) <= 1
    <3>1. CASE SameRef = {}
      BY <3>1, FS_EmptySet
    <3>2. CASE SameRef # {}
      <4>1. PICK k \in SameRef : TRUE
        BY <3>2
      <4>2. SameRef = {k}
        BY <4>1 DEF IInv, OneReference
      <4> QED BY <4>2, FS_Singleton
    <3> QED BY <3>1, <3>2
  <2> QED BY <2>1 DEF RepliesAgree, IInv, OneReference
<1> QED BY <1>1, Invariance, PTL

\* record_validation and create_run: no step takes back what is known of the product's
\* repository, and none but a first advance that overlapped the creation of the run takes back
\* what the run has spent.
THEOREM ProgressAlwaysKept == Spec => ProgressIsKept
<1>1. IInv /\ [Next]_vars => [ReadinessIsMonotone /\ SpendIsKept]_vars
  <2> SUFFICES ASSUME IInv, [Next]_vars PROVE ReadinessIsMonotone /\ SpendIsKept
    OBVIOUS
  <2>1. product.seen \in Nat /\ runs \in [Runs -> 0 .. Limit + 1]
    BY DEF IInv, TypeOK, ProductRow
  <2>2. UNCHANGED product => ReadinessIsMonotone
    BY <2>1 DEF ReadinessIsMonotone
  <2>3. UNCHANGED runs => SpendIsKept
    BY <2>1, IntakeAssumption DEF SpendIsKept, NoRun
  <2>4. create_product => ReadinessIsMonotone
    BY <2>1 DEF create_product, NoProduct, ReadinessIsMonotone
  <2>5. ASSUME NEW c \in Callers, record_validation(c) PROVE ReadinessIsMonotone
    <3>1. request[c].revision = product.revision => product.seen <= request[c].time
      BY <2>5 DEF IInv, ChecksAreLater, record_validation
    <3>2. request[c].time \in Nat
      BY DEF IInv, TypeOK, RequestState
    <3> QED BY <2>1, <2>2, <2>5, <3>1, <3>2, Recorded DEF ReadinessIsMonotone
  <2>6. ASSUME NEW c \in Callers, Commit_advance(c) PROVE SpendIsKept
    BY <2>6, Spent
  <2>7. \/ UNCHANGED product \/ create_product \/ \E c \in Callers : record_validation(c)
    BY NextCases DEF Read_product, observe_repository, Check_change, resolve_run, create_change,
       Commit_advance, Kill, Create_from_command, update_brief, Lose_repository,
       Restore_repository, rows, vars
  <2>8. \/ UNCHANGED runs \/ \E c \in Callers : Commit_advance(c)
    BY NextCases DEF Read_product, observe_repository, Check_change, resolve_run, create_change,
       create_product, record_validation, Kill, Create_from_command, update_brief,
       Lose_repository, Restore_repository, rows, vars
  <2> QED BY <2>2, <2>3, <2>4, <2>5, <2>6, <2>7, <2>8
<1> QED BY <1>1, Invariance, PTL DEF Spec, ProgressIsKept
============================================================================
