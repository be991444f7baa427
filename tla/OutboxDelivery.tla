--------------------------- MODULE OutboxDelivery ---------------------------
(***************************************************************************)
(* The transactional outbox and its dispatcher passes                      *)
(* (orchestration/events, orchestration/state/repositories.py).            *)
(*                                                                         *)
(* Events are appended by the transaction that decides something about an  *)
(* aggregate; each event has one delivery row per consumer.  Dispatcher    *)
(* passes run concurrently (the CronJob's Forbid policy is only an         *)
(* optimisation): a pass reserves a batch in one short transaction, calls  *)
(* the handlers outside any transaction, and records every outcome in a    *)
(* transaction of its own.  Operators replay and skip deliveries at any    *)
(* moment.  A database transaction is one step; a handler call is a step   *)
(* of its own, so reservation, effect and outcome of one delivery          *)
(* interleave with everything else.                                        *)
(*                                                                         *)
(* Time is abstracted: "due" holds the deliveries whose next_attempt_at is *)
(* absent or past, and Elapse lets a lease or a backoff run out whenever   *)
(* it likes (a handler may outlive the reservation lease: LEASE_SECONDS is *)
(* 120 and activeDeadlineSeconds 300).                                     *)
(***************************************************************************)
EXTENDS Integers, FiniteSets, FiniteSetsExt

CONSTANTS
    Events,        \* event ids
    aggregate,     \* aggregate_id of each event: the stream it belongs to
    Consumers,     \* consumer ids
    Passes,        \* dispatcher passes that may overlap
    BatchSize,     \* DISPATCH_BATCH_SIZE
    MaxAttempts,   \* MAX_ATTEMPTS
    MaxCrashes,    \* bound: passes killed between two of their steps
    MaxOperator,   \* bound: operator commands (replay, skip)
    NoItem         \* a pass that has no handler call behind it

ASSUME BoundsAssumption ==
    /\ BatchSize \in Nat \ {0}
    /\ MaxAttempts \in Nat \ {0}
    /\ MaxCrashes \in Nat
    /\ MaxOperator \in Nat

Deliveries == Consumers \X Events

\* ReservedDelivery: the row's identity and its attempts when it was reserved.
Items == Deliveries \X (0 .. MaxAttempts)

ASSUME NoItemAssumption == NoItem \notin Items

ASSUME StreamsAssumption == aggregate \in [Events -> {aggregate[e] : e \in Events}]

DeliveryStatus == {"pending", "failed", "delivered", "dead", "waived"}

VARIABLES
    stored,      \* event ids that have an outbox row
    sequence,    \* its sequence within the aggregate, 0 before it is published
    occurred,    \* its occurred_at, as the publication it was
    clock,       \* number of publications so far
    aged,        \* events past the retention period
    status,      \* event_delivery.status, "absent" when there is no row
    attempts,    \* event_delivery.attempts
    due,         \* deliveries whose next_attempt_at is absent or past
    todo,        \* per pass: reserved deliveries not yet handled
    handled,     \* per pass: the item whose outcome is to be committed, if any
    outcome,     \* per pass: how that handler call ended
    pc,          \* per pass: "idle", "delivering", "committing"
    crashes, commands,
    \* what the outside world saw, never read by the code:
    effects,     \* deliveries whose handler returned without an error
    called,      \* deliveries whose handler was called at all
    skipped      \* deliveries an operator waived

rows == <<stored, sequence, occurred, clock, aged>>
passes == <<todo, handled, outcome, pc, crashes>>
seen == <<effects, called, skipped>>
vars == <<stored, sequence, occurred, clock, aged, status, attempts,
          due, todo, handled, outcome, pc, crashes, commands,
          effects, called, skipped>>

(***************************************************************************)
(* Rules (events/rules.py)                                                 *)
(***************************************************************************)

Reservable == {"pending", "failed"}          \* _RESERVABLE_STATUSES
TerminalAccepted == {"delivered", "waived"}  \* _TERMINAL_ACCEPTED

is_undelivered(s) == s \notin TerminalAccepted \union {"absent"}

\* Mutant of is_dead: parks a row one attempt too late.
is_dead_late(n) == n > MaxAttempts

is_dead(n) == n >= MaxAttempts

\* Mutant of Undelivered: a dead row no longer holds its stream back.
Undelivered_but_dead(c, e) ==
    {f \in stored : aggregate[f] = aggregate[e] /\ status[<<c, f>>] \in Reservable}

\* The rows of one consumer in the stream of event e that still need delivery.
Undelivered(c, e) ==
    {f \in stored : aggregate[f] = aggregate[e] /\ is_undelivered(status[<<c, f>>])}

\* No undelivered row of the stream has a smaller sequence; the candidate's own
\* row is undelivered, so its sequence is the minimum.
ordering_eligible(d) ==
    \A f \in Undelivered(d[1], d[2]) : sequence[d[2]] <= sequence[f]

\* Mutant of is_cleanup_eligible: a dead delivery does not keep its event.
is_cleanup_eligible_dead(e) ==
    /\ e \in aged
    /\ \A c \in Consumers : status[<<c, e>>] \notin Reservable

is_cleanup_eligible(e) ==
    /\ e \in aged
    /\ \A c \in Consumers : ~ is_undelivered(status[<<c, e>>])

(***************************************************************************)
(* Publication, inside the caller's transaction                            *)
(***************************************************************************)

\* max(sequence) + 1 over the rows the outbox still has for the aggregate.
next_sequence(a) ==
    1 + Max({0} \union {sequence[f] : f \in {g \in stored : aggregate[g] = a}})

publish(e, consumers) ==
    /\ sequence[e] = 0
    /\ sequence' = [sequence EXCEPT ![e] = next_sequence(aggregate[e])]
    /\ occurred' = [occurred EXCEPT ![e] = clock + 1]
    /\ clock' = clock + 1
    /\ stored' = stored \union {e}
    /\ LET new == consumers \X {e}
       IN /\ status' = [d \in Deliveries |-> IF d \in new THEN "pending" ELSE status[d]]
          /\ attempts' = [d \in Deliveries |-> IF d \in new THEN 0 ELSE attempts[d]]
          /\ due' = due \union new
    /\ UNCHANGED <<aged, passes, commands, seen>>

(***************************************************************************)
(* A dispatcher pass                                                       *)
(***************************************************************************)

\* Mutant of Candidates: failed rows are never reserved again.
Candidates_pending_only == {d \in due : status[d] = "pending"}

Candidates == {d \in due : status[d] \in Reservable}

\* ORDER BY occurred_at ... LIMIT: the batch is a set of the oldest rows of C (the
\* rows of one event are ordered by the text of their consumer id, which is left open).
IsBatch(B, C) ==
    /\ \A d \in B, o \in C \ B : occurred[d[2]] <= occurred[o[2]]
    /\ \/ B = C /\ Cardinality(B) <= BatchSize
       \/ Cardinality(B) = BatchSize

Reserved(B) == {d \in B : ordering_eligible(d)}

\* Rows another transaction holds at that moment are skipped (SKIP LOCKED), deferred
\* rows are left alone; reserved ones get a lease through next_attempt_at and keep
\* their status.
reserve_batch(p) ==
    /\ pc[p] = "idle"
    /\ \E locked \in SUBSET Candidates : \E B \in SUBSET (Candidates \ locked) :
        /\ IsBatch(B, Candidates \ locked)
        /\ Reserved(B) # {}
        /\ todo' = [todo EXCEPT ![p] = {<<d, attempts[d]>> : d \in Reserved(B)}]
        /\ due' = due \ Reserved(B)
    /\ pc' = [pc EXCEPT ![p] = "delivering"]
    /\ UNCHANGED <<rows, status, attempts, handled, outcome, crashes, commands, seen>>

\* The handler call, outside any transaction.  A handler that raises may have
\* had its effect or not; only a handler that returned counts as one.
deliver_one(p, i) ==
    /\ pc[p] = "delivering"
    /\ i \in todo[p]
    /\ \A j \in todo[p] : occurred[i[1][2]] <= occurred[j[1][2]]
    /\ \E o \in {"delivered", "failed"} :
        /\ outcome' = [outcome EXCEPT ![p] = o]
        /\ effects' = IF o = "delivered" THEN effects \union {i[1]} ELSE effects
    /\ called' = called \union {i[1]}
    /\ handled' = [handled EXCEPT ![p] = i]
    /\ todo' = [todo EXCEPT ![p] = @ \ {i}]
    /\ pc' = [pc EXCEPT ![p] = "committing"]
    /\ UNCHANGED <<rows, status, attempts, due, crashes, commands, skipped>>

\* _fix_success / _fix_failure: the status to record after n attempts.
NewStatus(o, n) ==
    IF o = "delivered" THEN "delivered" ELSE IF is_dead(n) THEN "dead" ELSE "failed"

\* Mutant of Overwritable: the UPDATE has no status guard.
Overwritable_any(d) == status[d] # "absent"

\* UPDATE ... WHERE status IN (pending, failed): matches no row once the
\* delivery is settled, dead or its event deleted.
Overwritable(d) == status[d] \in Reservable

commit_outcome(p) ==
    /\ pc[p] = "committing"
    /\ LET d == handled[p][1]
           n == handled[p][2] + 1
           s == NewStatus(outcome[p], n)
       IN IF Overwritable(d)
            THEN /\ status' = [status EXCEPT ![d] = s]
                 /\ attempts' = [attempts EXCEPT ![d] = n]
                 /\ due' = IF s = "failed" THEN due \ {d} ELSE due \union {d}
            ELSE UNCHANGED <<status, attempts, due>>
    /\ pc' = [pc EXCEPT ![p] = IF todo[p] = {} THEN "idle" ELSE "delivering"]
    /\ handled' = [handled EXCEPT ![p] = NoItem]
    /\ UNCHANGED <<rows, todo, outcome, crashes, commands, seen>>

\* The optional last step of a pass: DELETE, cascading to the delivery rows.
cleanup_expired_events(p) ==
    /\ pc[p] = "idle"
    /\ LET gone == {e \in stored : is_cleanup_eligible(e)}
       IN /\ gone # {}
          /\ stored' = stored \ gone
          /\ status' = [d \in Deliveries |-> IF d[2] \in gone THEN "absent" ELSE status[d]]
    /\ UNCHANGED <<sequence, occurred, clock, aged, attempts, due,
                   passes, commands, seen>>

\* The pass is killed (deadline, eviction): its reservations stay leased.
Crash(p) ==
    /\ pc[p] # "idle"
    /\ crashes < MaxCrashes
    /\ crashes' = crashes + 1
    /\ todo' = [todo EXCEPT ![p] = {}]
    /\ handled' = [handled EXCEPT ![p] = NoItem]
    /\ pc' = [pc EXCEPT ![p] = "idle"]
    /\ UNCHANGED <<rows, status, attempts, due, outcome, commands, seen>>

(***************************************************************************)
(* Operator commands and time                                              *)
(***************************************************************************)

\* One event, one consumer or all of them; nothing happens when nothing matches.
replay(D) ==
    /\ commands < MaxOperator
    /\ commands' = commands + 1
    /\ LET R == {d \in D : status[d] \in {"dead", "failed"}}
       IN /\ R # {}
          /\ status' = [d \in Deliveries |-> IF d \in R THEN "pending" ELSE status[d]]
          /\ attempts' = [d \in Deliveries |-> IF d \in R THEN 0 ELSE attempts[d]]
          /\ due' = due \union R
    /\ UNCHANGED <<rows, passes, seen>>

skip(d) ==
    /\ commands < MaxOperator
    /\ commands' = commands + 1
    /\ status[d] \in {"pending", "failed", "dead"}
    /\ status' = [status EXCEPT ![d] = "waived"]
    /\ skipped' = skipped \union {d}
    /\ UNCHANGED <<rows, attempts, due, passes, effects, called>>

\* A reservation lease or a backoff runs out.
Elapse(d) ==
    /\ status[d] \in Reservable
    /\ d \notin due
    /\ due' = due \union {d}
    /\ UNCHANGED <<rows, status, attempts, passes, commands, seen>>

\* The retention period of an event passes.
Age(e) ==
    /\ e \in stored \ aged
    /\ aged' = aged \union {e}
    /\ UNCHANGED <<stored, sequence, occurred, clock, status, attempts,
                   due, passes, commands, seen>>

(***************************************************************************)
(* Specification                                                           *)
(***************************************************************************)

Init ==
    /\ stored = {}
    /\ sequence = [e \in Events |-> 0]
    /\ occurred = [e \in Events |-> 0]
    /\ clock = 0
    /\ aged = {}
    /\ status = [d \in Deliveries |-> "absent"]
    /\ attempts = [d \in Deliveries |-> 0]
    /\ due = {}
    /\ todo = [p \in Passes |-> {}]
    /\ handled = [p \in Passes |-> NoItem]
    /\ outcome = [p \in Passes |-> "failed"]
    /\ pc = [p \in Passes |-> "idle"]
    /\ crashes = 0
    /\ commands = 0
    /\ effects = {}
    /\ called = {}
    /\ skipped = {}

\* A pass of `factory outbox dispatch` runs on.
Pass(p) ==
    \/ reserve_batch(p)
    \/ \E i \in Items : deliver_one(p, i)
    \/ commit_outcome(p)
    \/ cleanup_expired_events(p)

\* `factory outbox replay`: one delivery of an event, or those of all its consumers.
run_replay_command ==
    \/ \E d \in Deliveries : replay({d})
    \/ \E e \in Events : replay(Consumers \X {e})

\* `factory outbox skip`: one delivery.
run_skip_command == \E d \in Deliveries : skip(d)

Operator == run_replay_command \/ run_skip_command

Environment ==
    \/ \E e \in Events, S \in SUBSET Consumers : publish(e, S)
    \/ \E d \in Deliveries : Elapse(d)
    \/ \E e \in Events : Age(e)
    \/ \E p \in Passes : Crash(p)

Next == (\E p \in Passes : Pass(p)) \/ Operator \/ Environment

Spec == Init /\ [][Next]_vars

\* The CronJob starts passes for ever, a started pass runs on, clocks run.
Fairness ==
    /\ \A p \in Passes :
        /\ WF_vars(reserve_batch(p))
        /\ WF_vars(\E i \in Items : deliver_one(p, i))
        /\ WF_vars(commit_outcome(p))
    /\ \A d \in Deliveries : WF_vars(Elapse(d))

FairSpec == Spec /\ Fairness

(***************************************************************************)
(* Properties                                                              *)
(***************************************************************************)

\* Every row, snapshot and ghost has its type.
TypeOK ==
    /\ stored \in SUBSET Events
    /\ sequence \in [Events -> Nat]
    /\ occurred \in [Events -> Nat]
    /\ clock \in Nat
    /\ aged \in SUBSET Events
    /\ status \in [Deliveries -> DeliveryStatus \union {"absent"}]
    /\ attempts \in [Deliveries -> 0 .. MaxAttempts]
    /\ due \in SUBSET Deliveries
    /\ todo \in [Passes -> SUBSET Items]
    /\ handled \in [Passes -> Items \union {NoItem}]
    /\ outcome \in [Passes -> {"delivered", "failed"}]
    /\ pc \in [Passes -> {"idle", "delivering", "committing"}]
    /\ crashes \in 0 .. MaxCrashes
    /\ commands \in 0 .. MaxOperator
    /\ effects \in SUBSET Deliveries
    /\ called \in SUBSET Deliveries
    /\ skipped \in SUBSET Deliveries

\* Ordering (reserve_batch, ordering_eligible): a consumer's handler is called for
\* an event only when every event published before it in the stream is settled for
\* that consumer, and stays so: over expired leases, overlapping and killed passes,
\* replays, skips, and sequence numbers that cleanup makes the outbox hand out again.
InOrder ==
    \A d \in called, f \in stored :
        aggregate[f] = aggregate[d[2]] /\ occurred[f] < occurred[d[2]]
            => ~ is_undelivered(status[<<d[1], f>>])

\* At-least-once (commit_outcome, cleanup): a delivery counts as delivered, and an
\* event leaves the outbox, only after the consumer's handler really returned or an
\* operator waived the delivery; no late outcome turns a waived one into delivered.
NothingLost ==
    \A d \in Deliveries :
        /\ status[d] = "delivered" => d \in effects
        /\ status[d] = "waived" => d \in skipped
        /\ status[d] = "absent" /\ d \in called => d \in effects \union skipped

\* The attempt budget (is_dead): the attempts of a row and of every snapshot a pass
\* holds leave room for one more attempt, unless the row is dead or settled, however
\* stale the snapshot is that an outcome was computed from.
AttemptBudget ==
    /\ \A d \in Deliveries : status[d] \in Reservable => attempts[d] < MaxAttempts
    /\ \A d \in Deliveries : status[d] = "dead" => attempts[d] = MaxAttempts
    /\ \A p \in Passes : \A i \in todo[p] : i[2] < MaxAttempts

\* A settled delivery is final (the guard of commit_outcome, replay, skip): only the
\* deletion of its event takes the row away.
SettledIsFinal ==
    [][\A d \in Deliveries :
        status[d] \in TerminalAccepted => status'[d] \in {status[d], "absent"}]_vars

\* The stream of a delivery has a dead row at or before it.
Stuck(d) ==
    \E f \in stored : /\ aggregate[f] = aggregate[d[2]]
                       /\ sequence[f] <= sequence[d[2]]
                       /\ status[<<d[1], f>>] = "dead"

\* Every delivery is eventually settled, or waits behind a dead one for the operator
\* (events/rules.py: a failing consumer is parked "instead of retrying indefinitely"),
\* even when overlapping passes commit outcomes computed from stale attempts.
EventuallySettled ==
    \A d \in Deliveries :
        status[d] \in Reservable ~> (status[d] \notin Reservable \/ Stuck(d))
=============================================================================
