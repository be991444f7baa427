----------------------- MODULE OutboxDelivery_proofs -----------------------
(***************************************************************************)
(* Proofs about OutboxDelivery, for any number of events, streams,         *)
(* consumers and passes and for every batch size and attempt budget.       *)
(***************************************************************************)
EXTENDS OutboxDelivery, WellFoundedInduction, TLAPS

(***************************************************************************)
(* The maximum next_sequence takes exists                                  *)
(***************************************************************************)

LessThan == {pair \in Nat \X Nat : pair[1] < pair[2]}

\* A non-empty set of naturals has a least element.
LEMMA LeastNatural ==
    ASSUME NEW T \in SUBSET Nat, T # {}
    PROVE  \E x \in T : \A y \in T : x <= y
<1>1. IsWellFoundedOn(LessThan, Nat)
    BY NatLessThanWellFounded DEF OpToRel, LessThan
<1>2. PICK x \in T : \A y \in T : ~ (<<y, x>> \in LessThan)
    BY <1>1, WFMin
<1>3. ASSUME NEW y \in T PROVE x <= y
    <2>1. <<y, x>> \notin LessThan /\ x \in Nat /\ y \in Nat
        BY <1>2
    <2>2. ~ (y < x)
        BY <2>1 DEF LessThan
    <2> QED
        BY <2>1, <2>2
<1> QED
    BY <1>2, <1>3

\* A bounded non-empty set of naturals has a maximum, so Max is well defined on it.
LEMMA MaxOfBounded ==
    ASSUME NEW S \in SUBSET Nat, S # {}, NEW b \in Nat, \A s \in S : s <= b
    PROVE  Max(S) \in S /\ \A s \in S : s <= Max(S)
<1> DEFINE U == {n \in Nat : \A s \in S : s <= n}
<1>1. PICK u \in U : \A v \in U : u <= v
    <2>1. U \in SUBSET Nat /\ b \in U
        OBVIOUS
    <2> QED
        BY <2>1, LeastNatural
<1>2. u \in Nat /\ \A s \in S : s <= u
    OBVIOUS
<1>3. u \in S
    <2> SUFFICES ASSUME u \notin S PROVE FALSE
        OBVIOUS
    <2>1. \A s \in S : s \in Nat /\ s < u
        BY <1>2
    <2>2. PICK s \in S : TRUE
        OBVIOUS
    <2>3. u - 1 \in Nat /\ \A t \in S : t <= u - 1
        BY <1>2, <2>1, <2>2
    <2>4. u - 1 \in U
        BY <2>3
    <2> QED
        BY <1>1, <1>2, <2>4
<1>4. \E x \in S : \A y \in S : x >= y
    BY <1>2, <1>3
<1>5. Max(S) \in S /\ \A y \in S : Max(S) >= y
    BY <1>4 DEF Max
<1> QED
    BY <1>5

(***************************************************************************)
(* Type correctness                                                        *)
(***************************************************************************)

\* A pass that is committing has a handler call behind it.
PassShape == \A p \in Passes : pc[p] = "committing" => handled[p] \in Items

\* What the outbox rows say about publication: an id is used once, the rows hold
\* numbers handed out so far, and only stored events have delivery rows.
RowsShape ==
    /\ \A e \in Events : sequence[e] <= clock /\ occurred[e] <= clock
    /\ \A e \in Events : sequence[e] = 0 => occurred[e] = 0
    /\ \A e \in stored : sequence[e] > 0
    /\ \A d \in Deliveries : status[d] # "absent" => d[2] \in stored

\* The attempt budget, with the item whose outcome is being committed.
Budget ==
    /\ AttemptBudget
    /\ \A p \in Passes : pc[p] = "committing" => handled[p][2] < MaxAttempts

Shape == TypeOK /\ PassShape /\ RowsShape /\ Budget

\* The next sequence is above every stored sequence of the aggregate.
LEMMA NextSequence ==
    ASSUME TypeOK, RowsShape, NEW e \in Events
    PROVE  /\ next_sequence(aggregate[e]) \in Nat
           /\ next_sequence(aggregate[e]) > 0
           /\ next_sequence(aggregate[e]) <= clock + 1
           /\ \A f \in stored : aggregate[f] = aggregate[e]
                                    => sequence[f] < next_sequence(aggregate[e])
<1> DEFINE S == {0} \union {sequence[f] : f \in {g \in stored : aggregate[g] = aggregate[e]}}
<1>1. S \in SUBSET Nat /\ S # {} /\ clock \in Nat /\ \A s \in S : s <= clock
    BY DEF TypeOK, RowsShape
<1>2. Max(S) \in S /\ \A s \in S : s <= Max(S)
    <2> HIDE DEF S
    <2> QED
        BY <1>1, MaxOfBounded
<1>3. Max(S) \in Nat /\ Max(S) <= clock
    BY <1>1, <1>2
<1>4. next_sequence(aggregate[e]) = 1 + Max(S)
    BY DEF next_sequence
<1>5. ASSUME NEW f \in stored, aggregate[f] = aggregate[e]
      PROVE  sequence[f] <= Max(S) /\ sequence[f] \in Nat
    <2>1. sequence[f] \in S
        BY <1>5
    <2> HIDE DEF S
    <2> QED
        BY <2>1, <1>1, <1>2
<1> HIDE DEF S
<1> QED
    BY <1>1, <1>3, <1>4, <1>5

LEMMA ShapeInit == Init => Shape
    BY BoundsAssumption DEF Init, Shape, TypeOK, PassShape, RowsShape, Budget, AttemptBudget,
       DeliveryStatus, Reservable, Deliveries

\* Every step preserves the types, the shape of passes and rows and the budget.
LEMMA ShapeStep == Shape /\ [Next]_vars => Shape'
<1> SUFFICES ASSUME Shape, [Next]_vars
             PROVE  TypeOK' /\ PassShape' /\ RowsShape' /\ Budget'
    BY DEF Shape
<1> USE BoundsAssumption DEF Shape, PassShape, RowsShape, Budget, AttemptBudget,
        Deliveries, Items, DeliveryStatus, Reservable
<1>1. ASSUME NEW p \in Passes, reserve_batch(p) PROVE Shape'
    <2> PICK B \in SUBSET Candidates :
            /\ todo' = [todo EXCEPT ![p] = {<<d, attempts[d]>> : d \in Reserved(B)}]
            /\ due' = due \ Reserved(B)
        BY <1>1 DEF reserve_batch
    <2>1. \A d \in Reserved(B) : d \in Deliveries /\ attempts[d] \in 0 .. MaxAttempts
                                                  /\ attempts[d] < MaxAttempts
        BY DEF Reserved, Candidates, TypeOK
    <2>2. TypeOK'
        BY <1>1, <2>1 DEF reserve_batch, TypeOK, rows, seen
    <2> QED
        BY <1>1, <2>1, <2>2 DEF reserve_batch, TypeOK, rows, seen
<1>2. ASSUME NEW p \in Passes, NEW i \in Items, deliver_one(p, i) PROVE Shape'
    <2>1. TypeOK'
        BY <1>2 DEF deliver_one, TypeOK, rows
    <2> QED
        BY <1>2, <2>1 DEF deliver_one, TypeOK, rows
<1>3. ASSUME NEW p \in Passes, commit_outcome(p) PROVE Shape'
    <2> DEFINE d == handled[p][1]
               n == handled[p][2] + 1
               s == NewStatus(outcome[p], n)
    <2>1. d \in Deliveries /\ n \in 1 .. MaxAttempts
        BY <1>3 DEF commit_outcome, TypeOK
    <2>2. s \in DeliveryStatus /\ (s = "dead" => n = MaxAttempts)
                               /\ (s \in Reservable => n < MaxAttempts)
        BY <2>1 DEF NewStatus, is_dead
    <2>3. TypeOK'
        BY <1>3, <2>1, <2>2 DEF commit_outcome, TypeOK, rows, seen
    <2>4. PassShape' /\ \A q \in Passes : pc'[q] = "committing" => handled'[q][2] < MaxAttempts
        BY <1>3 DEF commit_outcome, TypeOK
    <2>5. \A q \in Passes : \A i \in todo'[q] : i[2] < MaxAttempts
        BY <1>3 DEF commit_outcome
    <2>6. CASE Overwritable(d)
        <3> HIDE DEF s, n
        <3>1. /\ status' = [status EXCEPT ![d] = s]
              /\ attempts' = [attempts EXCEPT ![d] = n]
              /\ UNCHANGED rows
            BY <1>3, <2>6 DEF commit_outcome, s, n
        <3> HIDE DEF d
        <3>2. status[d] # "absent"
            BY <2>6 DEF Overwritable
        <3>3. RowsShape'
            BY <2>1, <2>2, <3>1, <3>2 DEF TypeOK, rows
        <3>4. AttemptBudget'
            BY <2>1, <2>2, <2>5, <3>1 DEF TypeOK
        <3> QED
            BY <2>3, <2>4, <3>3, <3>4
    <2>7. CASE ~ Overwritable(d)
        BY <1>3, <2>3, <2>4, <2>5, <2>7 DEF commit_outcome, TypeOK, rows
    <2> QED
        BY <2>6, <2>7
<1>4. ASSUME NEW p \in Passes, cleanup_expired_events(p) PROVE Shape'
    <2>1. TypeOK'
        BY <1>4 DEF cleanup_expired_events, TypeOK, passes, seen
    <2> QED
        BY <1>4, <2>1 DEF cleanup_expired_events, TypeOK, passes, seen
<1>5. ASSUME NEW D \in SUBSET Deliveries, replay(D) PROVE Shape'
    <2>1. TypeOK'
        BY <1>5 DEF replay, TypeOK, rows, passes, seen
    <2> QED
        BY <1>5, <2>1 DEF replay, TypeOK, rows, passes, seen
<1>6. ASSUME NEW d \in Deliveries, skip(d) PROVE Shape'
    <2>1. TypeOK'
        BY <1>6 DEF skip, TypeOK, rows, passes
    <2> QED
        BY <1>6, <2>1 DEF skip, TypeOK, rows, passes
<1>7. ASSUME NEW e \in Events, NEW S \in SUBSET Consumers, publish(e, S) PROVE Shape'
    <2> DEFINE n == next_sequence(aggregate[e])
    <2>1. n \in Nat /\ n > 0 /\ n <= clock + 1
        BY NextSequence
    <2>2. TypeOK'
        BY <1>7, <2>1 DEF publish, TypeOK, passes, seen
    <2> HIDE DEF n
    <2>3. RowsShape'
        BY <1>7, <2>1, <2>2 DEF publish, TypeOK, passes, seen, n
    <2> QED
        BY <1>7, <2>2, <2>3 DEF publish, TypeOK, passes, seen
<1>8. ASSUME NEW d \in Deliveries, Elapse(d) PROVE Shape'
    BY <1>8 DEF Elapse, TypeOK, rows, passes, seen
<1>9. ASSUME NEW e \in Events, Age(e) PROVE Shape'
    BY <1>9 DEF Age, TypeOK, passes, seen
<1>10. ASSUME NEW p \in Passes, Crash(p) PROVE Shape'
    BY <1>10 DEF Crash, TypeOK, rows, seen
<1>11. CASE UNCHANGED vars
    BY <1>11 DEF vars, TypeOK
<1>12. \A d \in Deliveries, e \in Events : {d} \in SUBSET Deliveries
                                        /\ Consumers \X {e} \in SUBSET Deliveries
    OBVIOUS
<1> QED
    BY <1>1, <1>2, <1>3, <1>4, <1>5, <1>6, <1>7, <1>8, <1>9, <1>10, <1>11, <1>12
    DEF Next, Pass, Operator, run_replay_command, run_skip_command, Environment

\* The types of every row, snapshot and counter hold in every reachable state,
\* for every number of passes, events and consumers.
THEOREM TypeCorrect == Spec => []TypeOK
<1>1. Shape => TypeOK
    BY DEF Shape
<1> QED
    BY ShapeInit, ShapeStep, <1>1, PTL DEF Spec

\* The attempt budget of every row is respected, however stale the snapshot an
\* outcome was computed from (_fix_failure, is_dead).
THEOREM BudgetKept == Spec => []AttemptBudget
<1>1. Shape => AttemptBudget
    BY DEF Shape, Budget
<1> QED
    BY ShapeInit, ShapeStep, <1>1, PTL DEF Spec

(***************************************************************************)
(* Ordering                                                                *)
(***************************************************************************)

\* Within a stream the stored events have their sequences in publication order,
\* although cleanup lets the outbox hand out a sequence number twice.
StreamOrder ==
    \A e, f \in stored : aggregate[e] = aggregate[f] /\ occurred[e] < occurred[f]
                            => sequence[e] < sequence[f]

\* Every event published before the event of d in its stream is settled for the consumer.
Cleared(d) ==
    \A f \in stored : aggregate[f] = aggregate[d[2]] /\ occurred[f] < occurred[d[2]]
                        => ~ is_undelivered(status[<<d[1], f>>])

\* What a pass has in hand, or a handler was called for, was published and is cleared.
Taken ==
    /\ \A p \in Passes : \A i \in todo[p] : sequence[i[1][2]] > 0 /\ Cleared(i[1])
    /\ \A d \in called : sequence[d[2]] > 0 /\ Cleared(d)

Order == StreamOrder /\ Taken

\* A settled row is never undelivered again: the guards of commit_outcome, replay and skip.
LEMMA SettledStays ==
    ASSUME Shape, [Next]_vars, NEW d \in Deliveries, status[d] \in TerminalAccepted
    PROVE  status'[d] \in {status[d], "absent"}
<1> USE DEF Shape, TypeOK, TerminalAccepted
<1>1. ASSUME NEW p \in Passes, commit_outcome(p) PROVE status'[d] = status[d]
    <2>1. handled[p][1] \in Deliveries
        BY <1>1 DEF commit_outcome, PassShape, Items
    <2>2. Overwritable(handled[p][1]) => handled[p][1] # d
        BY DEF Overwritable, Reservable
    <2> QED
        BY <1>1, <2>1, <2>2 DEF commit_outcome
<1>2. ASSUME NEW e \in Events, NEW S \in SUBSET Consumers, publish(e, S)
      PROVE  status'[d] = status[d]
    <2>1. d[2] # e
        BY <1>2 DEF publish, RowsShape
    <2> QED
        BY <1>2, <2>1 DEF publish, Deliveries
<1>3. ASSUME NEW D \in SUBSET Deliveries, replay(D) PROVE status'[d] = status[d]
    BY <1>3 DEF replay
<1>4. ASSUME NEW e \in Deliveries, skip(e) PROVE status'[d] = status[d]
    BY <1>4 DEF skip
<1>5. ASSUME NEW p \in Passes, cleanup_expired_events(p)
      PROVE  status'[d] \in {status[d], "absent"}
    BY <1>5 DEF cleanup_expired_events
<1>6. \A e \in Deliveries, f \in Events : {e} \in SUBSET Deliveries
                                       /\ Consumers \X {f} \in SUBSET Deliveries
    BY DEF Deliveries
<1>7. ASSUME UNCHANGED status PROVE status'[d] = status[d]
    BY <1>7
<1>8. CASE UNCHANGED vars
    BY <1>7, <1>8 DEF vars
<1>9. ASSUME NEW p \in Passes, reserve_batch(p) \/ (\E i \in Items : deliver_one(p, i)) \/ Crash(p)
      PROVE  status'[d] = status[d]
    BY <1>7, <1>9 DEF reserve_batch, deliver_one, Crash
<1>10. ASSUME (\E e \in Deliveries : Elapse(e)) \/ (\E e \in Events : Age(e))
       PROVE  status'[d] = status[d]
    BY <1>7, <1>10 DEF Elapse, Age
<1> QED
    BY <1>1, <1>2, <1>3, <1>4, <1>5, <1>6, <1>8, <1>9, <1>10
    DEF Next, Pass, Operator, run_replay_command, run_skip_command, Environment

\* A delivery row appears only when its event is published.
LEMMA AbsentStays ==
    ASSUME Shape, [Next]_vars, NEW d \in Deliveries, d[2] \in stored, status[d] = "absent"
    PROVE  status'[d] = "absent"
<1> USE DEF Shape, TypeOK
<1>1. ASSUME NEW p \in Passes, commit_outcome(p) PROVE status'[d] = "absent"
    <2>1. handled[p][1] \in Deliveries
        BY <1>1 DEF commit_outcome, PassShape, Items
    <2>2. Overwritable(handled[p][1]) => handled[p][1] # d
        BY DEF Overwritable, Reservable
    <2> QED
        BY <1>1, <2>1, <2>2 DEF commit_outcome
<1>2. ASSUME NEW e \in Events, NEW S \in SUBSET Consumers, publish(e, S)
      PROVE  status'[d] = "absent"
    <2>1. d[2] # e
        BY <1>2 DEF publish, RowsShape
    <2> QED
        BY <1>2, <2>1 DEF publish, Deliveries
<1>3. ASSUME (\E D \in SUBSET Deliveries : replay(D)) \/ (\E e \in Deliveries : skip(e))
             \/ (\E p \in Passes : cleanup_expired_events(p))
      PROVE  status'[d] = "absent"
    BY <1>3 DEF replay, skip, cleanup_expired_events
<1>4. \A e \in Deliveries, f \in Events : {e} \in SUBSET Deliveries
                                       /\ Consumers \X {f} \in SUBSET Deliveries
    BY DEF Deliveries
<1>5. ASSUME UNCHANGED status PROVE status'[d] = "absent"
    BY <1>5
<1> QED
    BY <1>1, <1>2, <1>3, <1>4, <1>5
    DEF Next, Pass, Operator, run_replay_command, run_skip_command, Environment, reserve_batch, deliver_one, Crash, Elapse, Age, vars

\* Once a consumer's delivery is settled, no outcome, replay or skip reopens it.
THEOREM SettledFinal == Spec => SettledIsFinal
<1>1. Shape /\ [Next]_vars =>
        [\A d \in Deliveries :
            status[d] \in TerminalAccepted => status'[d] \in {status[d], "absent"}]_vars
    BY SettledStays
<1> QED
    BY ShapeInit, ShapeStep, <1>1, PTL DEF Spec, SettledIsFinal

\* How the rows can change: nothing new is stored but a freshly published event.
LEMMA RowChange ==
    ASSUME Shape, [Next]_vars
    PROVE  \/ /\ stored' \subseteq stored
              /\ UNCHANGED <<sequence, occurred>>
           \/ \E e \in Events :
                /\ e \notin stored /\ sequence[e] = 0
                /\ stored' = stored \union {e}
                /\ sequence' = [sequence EXCEPT ![e] = next_sequence(aggregate[e])]
                /\ occurred' = [occurred EXCEPT ![e] = clock + 1]
    BY DEF Next, Pass, Operator, run_replay_command, run_skip_command, Environment, reserve_batch, deliver_one, commit_outcome,
       cleanup_expired_events, replay, skip, publish, Elapse, Age, Crash, vars, rows,
       Shape, RowsShape

LEMMA StreamOrderStep == Shape /\ StreamOrder /\ [Next]_vars => StreamOrder'
<1> SUFFICES ASSUME Shape, StreamOrder, [Next]_vars,
                    NEW e \in stored', NEW f \in stored',
                    aggregate[e] = aggregate[f], occurred'[e] < occurred'[f]
             PROVE  sequence'[e] < sequence'[f]
    BY DEF StreamOrder
<1> USE DEF Shape, TypeOK
<1>1. CASE stored' \subseteq stored /\ UNCHANGED <<sequence, occurred>>
    BY <1>1 DEF StreamOrder
<1>2. ASSUME NEW g \in Events, g \notin stored, stored' = stored \union {g},
             sequence' = [sequence EXCEPT ![g] = next_sequence(aggregate[g])],
             occurred' = [occurred EXCEPT ![g] = clock + 1]
      PROVE  sequence'[e] < sequence'[f]
    <2>1. CASE f = g
        <3>1. e # g
            BY <1>2, <2>1
        <3> QED
            BY <1>2, <2>1, <3>1, NextSequence
    <2>2. CASE e = g /\ f # g
        BY <1>2, <2>2 DEF RowsShape
    <2>3. CASE e # g /\ f # g
        BY <1>2, <2>3 DEF StreamOrder
    <2> QED
        BY <2>1, <2>2, <2>3
<1> QED
    BY <1>1, <1>2, RowChange

\* A cleared delivery of a published event stays cleared.
LEMMA ClearedStays ==
    ASSUME Shape, [Next]_vars, NEW d \in Deliveries, sequence[d[2]] > 0, Cleared(d)
    PROVE  sequence'[d[2]] > 0 /\ Cleared(d)'
<1> USE DEF Shape, TypeOK
<1>1. d[1] \in Consumers /\ d[2] \in Events
    BY DEF Deliveries
<1>2. sequence'[d[2]] = sequence[d[2]] /\ occurred'[d[2]] = occurred[d[2]]
    BY <1>1, RowChange
<1>3. ASSUME NEW f \in stored', aggregate[f] = aggregate[d[2]], occurred'[f] < occurred'[d[2]]
      PROVE  ~ is_undelivered(status'[<<d[1], f>>])
    <2>1. f \in stored /\ occurred'[f] = occurred[f]
        BY <1>1, <1>2, <1>3, RowChange DEF RowsShape
    <2>2. ~ is_undelivered(status[<<d[1], f>>]) /\ f \in Events
        BY <1>2, <1>3, <2>1 DEF Cleared
    <2>3. <<d[1], f>> \in Deliveries
        BY <1>1, <2>2 DEF Deliveries
    <2>4. CASE status[<<d[1], f>>] \in TerminalAccepted
        BY <2>3, <2>4, SettledStays DEF is_undelivered
    <2>5. CASE status[<<d[1], f>>] = "absent"
        <3>1. status'[<<d[1], f>>] = "absent"
            BY <2>1, <2>3, <2>5, AbsentStays
        <3> QED
            BY <3>1 DEF is_undelivered
    <2> QED
        BY <2>2, <2>3, <2>4, <2>5 DEF is_undelivered
<1> QED
    BY <1>1, <1>2, <1>3 DEF Cleared

\* A reserved delivery is cleared: the ordering gate, in publication order.
LEMMA ReservedCleared ==
    ASSUME Shape, StreamOrder, NEW B \in SUBSET Candidates, NEW d \in Reserved(B)
    PROVE  d \in Deliveries /\ sequence[d[2]] > 0 /\ Cleared(d)
<1> USE DEF Shape, TypeOK
<1>1. /\ d \in Deliveries
      /\ status[d] \in Reservable
      /\ \A f \in Undelivered(d[1], d[2]) : sequence[d[2]] <= sequence[f]
    BY DEF Reserved, Candidates, ordering_eligible
<1>2. d[2] \in stored /\ d[2] \in Events /\ sequence[d[2]] > 0
    BY <1>1 DEF RowsShape, Reservable, Deliveries
<1>3. ASSUME NEW f \in stored, aggregate[f] = aggregate[d[2]], occurred[f] < occurred[d[2]],
             is_undelivered(status[<<d[1], f>>])
      PROVE  FALSE
    <2>1. sequence[f] < sequence[d[2]]
        BY <1>2, <1>3 DEF StreamOrder
    <2>2. f \in Undelivered(d[1], d[2])
        BY <1>3 DEF Undelivered
    <2> QED
        BY <1>1, <1>2, <2>1, <2>2
<1> QED
    BY <1>1, <1>2, <1>3 DEF Cleared

LEMMA OrderInit == Init => Order
    BY DEF Init, Order, StreamOrder, Taken

LEMMA OrderStep == Shape /\ Order /\ [Next]_vars => Order'
<1> SUFFICES ASSUME Shape, Order, [Next]_vars PROVE Taken'
    BY StreamOrderStep DEF Order
<1> DEFINE Held(d) == sequence[d[2]] > 0 /\ Cleared(d)
<1>1. \A d \in Deliveries : Held(d) => Held(d)'
    BY ClearedStays
<1>2. /\ \A p \in Passes : \A i \in todo[p] : i[1] \in Deliveries /\ Held(i[1])
      /\ \A d \in called : d \in Deliveries /\ Held(d)
    BY DEF Order, Taken, Shape, TypeOK, Items
<1> HIDE DEF Held
<1>3. /\ \A p \in Passes : \A i \in todo[p] : Held(i[1])'
      /\ \A d \in called : Held(d)'
    BY <1>1, <1>2
<1>4. ASSUME NEW p \in Passes, reserve_batch(p)
      PROVE  /\ called' = called
             /\ \A q \in Passes : \A i \in todo'[q] : Held(i[1])'
    <2>1. PICK B \in SUBSET Candidates :
            todo' = [todo EXCEPT ![p] = {<<d, attempts[d]>> : d \in Reserved(B)}]
        BY <1>4 DEF reserve_batch
    <2>2. \A d \in Reserved(B) : Held(d)'
        BY <1>1, ReservedCleared DEF Held, Order
    <2>3. ASSUME NEW q \in Passes, NEW i \in todo'[q] PROVE Held(i[1])'
        <3>1. CASE q = p
            BY <2>1, <2>2, <3>1 DEF Shape, TypeOK
        <3>2. CASE q # p
            BY <1>3, <2>1, <3>2 DEF Shape, TypeOK
        <3> QED
            BY <3>1, <3>2
    <2> QED
        BY <1>4, <2>3 DEF reserve_batch, seen
<1>5. ASSUME NEW p \in Passes, NEW j \in Items, deliver_one(p, j)
      PROVE  /\ \A d \in called' : Held(d)'
             /\ \A q \in Passes : \A i \in todo'[q] : Held(i[1])'
    BY <1>3, <1>5 DEF deliver_one, Shape, TypeOK
<1>6. ASSUME NEW p \in Passes, Crash(p)
      PROVE  /\ called' = called
             /\ \A q \in Passes : \A i \in todo'[q] : Held(i[1])'
    BY <1>3, <1>6 DEF Crash, Shape, TypeOK, seen
<1>7. \/ UNCHANGED <<todo, called>>
      \/ \E p \in Passes : \/ reserve_batch(p)
                           \/ \E j \in Items : deliver_one(p, j)
                           \/ Crash(p)
    BY DEF Next, Pass, Operator, run_replay_command, run_skip_command, Environment, commit_outcome, cleanup_expired_events,
       replay, skip, publish, Elapse, Age, vars, passes, seen
<1>8. /\ \A d \in called' : Held(d)'
      /\ \A q \in Passes : \A i \in todo'[q] : Held(i[1])'
    BY <1>3, <1>4, <1>5, <1>6, <1>7
<1> QED
    BY <1>8 DEF Taken, Held

\* A consumer's handler is never called for an event while an earlier event of the
\* stream is unsettled for that consumer (reserve_batch, ordering_eligible), whatever
\* passes overlap, die or outlive their lease and whatever the operator does.
THEOREM DeliveriesInOrder == Spec => []InOrder
<1>1. Init => Shape /\ Order
    BY ShapeInit, OrderInit
<1>2. (Shape /\ Order) /\ [Next]_vars => (Shape /\ Order)'
    BY ShapeStep, OrderStep
<1>3. Shape /\ Order => InOrder
    BY DEF Order, Taken, Cleared, InOrder
<1> QED
    BY <1>1, <1>2, <1>3, PTL DEF Spec

(***************************************************************************)
(* Acceptance                                                              *)
(***************************************************************************)

\* NothingLost, with the handler calls and reservations passes still hold.
Accepted ==
    /\ NothingLost
    /\ \A d \in called : sequence[d[2]] > 0
    /\ \A p \in Passes : pc[p] = "committing" /\ outcome[p] = "delivered"
                            => handled[p][1] \in effects
    /\ \A p \in Passes : \A i \in todo[p] :
        /\ sequence[i[1][2]] > 0
        /\ status[i[1]] = "absent" => i[1] \in effects \union skipped

LEMMA AcceptedInit == Init => Accepted
    BY DEF Init, Accepted, NothingLost

LEMMA AcceptedStep == Shape /\ Accepted /\ [Next]_vars => Accepted'
<1> SUFFICES ASSUME Shape, Accepted, [Next]_vars PROVE Accepted'
    OBVIOUS
<1> USE DEF Shape, TypeOK, Accepted, NothingLost
<1>1. ASSUME NEW p \in Passes, reserve_batch(p) PROVE Accepted'
    <2>1. PICK B \in SUBSET Candidates :
            todo' = [todo EXCEPT ![p] = {<<d, attempts[d]>> : d \in Reserved(B)}]
        BY <1>1 DEF reserve_batch
    <2>2. \A d \in Reserved(B) : d \in Deliveries /\ status[d] # "absent" /\ sequence[d[2]] > 0
        BY DEF Reserved, Candidates, Reservable, RowsShape
    <2>3. ASSUME NEW q \in Passes, NEW i \in todo'[q]
          PROVE  sequence[i[1][2]] > 0 /\ (status[i[1]] = "absent" => i[1] \in effects \union skipped)
        <3>1. CASE q = p
            BY <2>1, <2>2, <3>1
        <3>2. CASE q # p
            BY <2>1, <3>2
        <3> QED
            BY <3>1, <3>2
    <2> QED
        BY <1>1, <2>3 DEF reserve_batch, rows, seen
<1>2. ASSUME NEW p \in Passes, NEW i \in Items, deliver_one(p, i) PROVE Accepted'
    <2>1. i[1] \in Deliveries /\ sequence[i[1][2]] > 0
            /\ (status[i[1]] = "absent" => i[1] \in effects \union skipped)
        BY <1>2 DEF deliver_one, Items
    <2>2. effects \subseteq effects' /\ called' = called \union {i[1]}
        BY <1>2 DEF deliver_one
    <2>3. \A q \in Passes : todo'[q] \subseteq todo[q]
        BY <1>2 DEF deliver_one
    <2>4. \A q \in Passes : pc'[q] = "committing" /\ outcome'[q] = "delivered"
                                => handled'[q][1] \in effects'
        BY <1>2, <2>2 DEF deliver_one
    <2>5. UNCHANGED <<sequence, status, skipped>>
        BY <1>2 DEF deliver_one, rows
    <2> QED
        BY <2>1, <2>2, <2>3, <2>4, <2>5
<1>3. ASSUME NEW p \in Passes, commit_outcome(p) PROVE Accepted'
    <2>1. handled[p][1] \in Deliveries
        BY <1>3 DEF commit_outcome, PassShape, Items
    <2>2. UNCHANGED <<sequence, todo, outcome, effects, called, skipped>>
        BY <1>3 DEF commit_outcome, rows, seen
    <2>3. \A d \in Deliveries : \/ status'[d] = status[d]
                                \/ /\ d = handled[p][1] /\ status'[d] = NewStatus(outcome[p], handled[p][2] + 1)
        BY <1>3, <2>1 DEF commit_outcome
    <2>4. NewStatus(outcome[p], handled[p][2] + 1) \notin {"absent", "waived"}
            /\ (NewStatus(outcome[p], handled[p][2] + 1) = "delivered" => outcome[p] = "delivered")
        BY DEF NewStatus
    <2>5. pc[p] = "committing" /\ \A q \in Passes : pc'[q] = "committing" => pc[q] = "committing" /\ handled'[q] = handled[q]
        BY <1>3 DEF commit_outcome
    <2>6. \A q \in Passes : \A i \in todo[q] : i[1] \in Deliveries
        BY DEF Items
    <2> QED
        BY <2>1, <2>2, <2>3, <2>4, <2>5, <2>6
<1>4. ASSUME NEW p \in Passes, cleanup_expired_events(p) PROVE Accepted'
    <2>1. UNCHANGED <<sequence, todo, handled, outcome, pc, effects, called, skipped>>
        BY <1>4 DEF cleanup_expired_events, passes, seen
    <2>2. \A d \in Deliveries : \/ status'[d] = status[d]
                                \/ status'[d] = "absent" /\ ~ is_undelivered(status[d])
        BY <1>4 DEF cleanup_expired_events, is_cleanup_eligible, Deliveries
    <2>3. \A q \in Passes : \A i \in todo[q] : i[1] \in Deliveries
        BY DEF Items
    <2> QED
        BY <2>1, <2>2, <2>3 DEF is_undelivered, TerminalAccepted
<1>5. ASSUME NEW D \in SUBSET Deliveries, replay(D) PROVE Accepted'
    <2>1. \A q \in Passes : \A i \in todo[q] : i[1] \in Deliveries
        BY DEF Items
    <2> QED
        BY <1>5, <2>1 DEF replay, rows, passes, seen
<1>6. ASSUME NEW d \in Deliveries, skip(d) PROVE Accepted'
    <2>1. \A q \in Passes : \A i \in todo[q] : i[1] \in Deliveries
        BY DEF Items
    <2> QED
        BY <1>6, <2>1 DEF skip, rows, passes
<1>7. ASSUME NEW e \in Events, NEW S \in SUBSET Consumers, publish(e, S) PROVE Accepted'
    <2>1. \A q \in Passes : \A i \in todo[q] : i[1] \in Deliveries /\ i[1][2] # e
        BY <1>7 DEF Items, publish
    <2>2. \A d \in called : d[2] # e
        BY <1>7 DEF publish
    <2>3. \A d \in Deliveries : IF d[2] = e THEN status'[d] \in {"pending", status[d]}
                                            ELSE status'[d] = status[d]
        BY <1>7 DEF publish, Deliveries
    <2>4. \A f \in Events : f # e => sequence'[f] = sequence[f]
        BY <1>7 DEF publish
    <2>5. UNCHANGED <<todo, handled, outcome, pc, effects, called, skipped>>
        BY <1>7 DEF publish, passes, seen
    <2>6. \A d \in Deliveries : d[2] \in Events
        BY DEF Deliveries
    <2> QED
        BY <2>1, <2>2, <2>3, <2>4, <2>5, <2>6
<1>8. ASSUME NEW p \in Passes, Crash(p) PROVE Accepted'
    <2>1. \A q \in Passes : todo'[q] \subseteq todo[q] /\ (pc'[q] = "committing" => pc[q] = "committing" /\ handled'[q] = handled[q])
        BY <1>8 DEF Crash
    <2> QED
        BY <1>8, <2>1 DEF Crash, rows, seen
<1>9. ASSUME UNCHANGED <<sequence, status, todo, handled, outcome, pc, effects, called, skipped>>
      PROVE  Accepted'
    BY <1>9
<1>10. \A d \in Deliveries, e \in Events : {d} \in SUBSET Deliveries
                                        /\ Consumers \X {e} \in SUBSET Deliveries
    BY DEF Deliveries
<1>11. ASSUME (\E d \in Deliveries : Elapse(d)) \/ (\E e \in Events : Age(e)) \/ UNCHANGED vars
       PROVE  Accepted'
    BY <1>9, <1>11 DEF Elapse, Age, vars, rows, passes, seen
<1> HIDE DEF Shape, TypeOK, Accepted, NothingLost
<1>12. ASSUME NEW p \in Passes, Pass(p) PROVE Accepted'
    BY <1>1, <1>2, <1>3, <1>4, <1>12 DEF Pass
<1>13. ASSUME Operator PROVE Accepted'
    <2>1. CASE \E d \in Deliveries : replay({d})
        <3> PICK d \in Deliveries : replay({d})
            BY <2>1
        <3>1. {d} \in SUBSET Deliveries
            OBVIOUS
        <3> QED
            BY <1>5, <3>1
    <2>2. CASE \E d \in Deliveries : skip(d)
        BY <1>6, <2>2
    <2>3. CASE \E e \in Events : replay(Consumers \X {e})
        <3> PICK e \in Events : replay(Consumers \X {e})
            BY <2>3
        <3>1. Consumers \X {e} \in SUBSET Deliveries
            BY DEF Deliveries
        <3> QED
            BY <1>5, <3>1
    <2> QED
        BY <1>13, <2>1, <2>2, <2>3 DEF Operator, run_replay_command, run_skip_command
<1>14. ASSUME Environment PROVE Accepted'
    BY <1>7, <1>8, <1>11, <1>14 DEF Environment
<1> QED
    BY <1>11, <1>12, <1>13, <1>14 DEF Next

\* A delivery counts as delivered, and an event leaves the outbox, only when the
\* handler returned or an operator waived it (commit_outcome, cleanup_expired_events).
THEOREM DeliveriesAccepted == Spec => []NothingLost
<1>1. Init => Shape /\ Accepted
    BY ShapeInit, AcceptedInit
<1>2. (Shape /\ Accepted) /\ [Next]_vars => (Shape /\ Accepted)'
    BY ShapeStep, AcceptedStep
<1>3. Shape /\ Accepted => NothingLost
    BY DEF Accepted
<1> QED
    BY <1>1, <1>2, <1>3, PTL DEF Spec
=============================================================================
