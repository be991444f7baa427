----------------------------- MODULE Discussion -----------------------------
(***************************************************************************)
(* The discussion of one phase of a change: the questions of the agent,    *)
(* the operator's comment, the rework orders, the decisions and the        *)
(* document they are about (changes/conversations.py, orchestration/state/ *)
(* conversation_store.py, conversation_ops.py, conversations.py,           *)
(* orchestration/artifacts.py and the surfaces over them).                 *)
(*                                                                         *)
(* A request of the API or of the command line is a transaction that reads *)
(* documents without a lock and later replaces them as a whole; an advance *)
(* of the run is another.  Each is modelled by the step that reads and the *)
(* step that writes and commits, so that others commit in between.  A      *)
(* commit on the branch is no part of the transaction it happens in.       *)
(*                                                                         *)
(* The phase has one document.  A revision is the number of commits on its *)
(* branch, 0 before the first.  The advances of a run are serialised by    *)
(* its lease, so there is one driver.  A request that is refused or inert  *)
(* changes nothing and is left out.                                        *)
(***************************************************************************)
EXTENDS Integers, Sequences, FiniteSets

CONSTANTS
    Clients,        \* requests of the API or commands that may be in flight
    Texts,          \* the contents of the document
    AgentTexts,     \* those the agent writes
    Anchored,       \* those in which the fragment of the questions is found
    Keys,           \* idempotency keys of rework orders
    MaxRounds,      \* budget.max_rework_rounds
    MaxQuestions,   \* bound: the first attempts may ask one question each
    MaxEvents       \* bound: requests begun, requests and advances killed, and attempts that
                    \* fail after their commit

ASSUME DiscussionAssumption ==
    /\ Anchored \subseteq Texts /\ AgentTexts \subseteq Texts
    /\ {MaxRounds, MaxQuestions, MaxEvents} \subseteq Nat

QuestionStatus == {"open", "answered", "resolved", "stale"}
CommentStatus == {"open", "addressed", "closed"}
ReworkOrderStatus == {"pending", "in_progress", "done", "escalated"}

QUESTION_STATUS_TRANSITIONS ==
    [open |-> {"answered", "stale"}, answered |-> {"resolved", "stale"},
     resolved |-> {}, stale |-> {}]
COMMENT_STATUS_TRANSITIONS ==
    [open |-> {"addressed", "closed"}, addressed |-> {"open", "closed"}, closed |-> {}]
REWORK_ORDER_STATUS_TRANSITIONS ==
    [pending |-> {"in_progress", "escalated"}, in_progress |-> {"done", "escalated"},
     done |-> {}, escalated |-> {}]

\* The ids of questions are derived from the attempt that asks them.
QuestionIds == 1 .. MaxQuestions
NoQuestion == [status |-> "none"]
Question == [status : QuestionStatus]

\* The comment of the operator, the revision its anchor names and the order that carries it.
NoComment == [status |-> "none", revision |-> 0, order |-> 0]

\* An order, its idempotency key, the revision it is about and what it carries.
OrderIds == 1 .. MaxEvents
NoOrder == [key |-> "none", status |-> "none", comment |-> FALSE, instruction |-> FALSE,
            revision |-> 0]

VARIABLES
    branch,      \* the commits of the change branch: the idempotency marker of each, and
                 \* the length of the branch when it was scanned for the marker
    content,     \* the text of the document at the head
    questions,   \* question rows
    comment,     \* the comment row
    orders,      \* rework order rows, numbered in the order of their creation
    decisions,   \* decision rows of the phase: outcome and revision
    run,         \* status of the run and rework rounds used
    attempt,     \* number of the attempt that is next to execute
    driver,      \* the advance under way
    requests,    \* the requests under way
    events       \* number of these events

vars == <<branch, content, questions, comment, orders, decisions, run, attempt, driver, requests,
          events>>
rows == <<questions, comment, orders, decisions>>

head == Len(branch)

Idle == [op |-> "none"]
IdleDriver == [pc |-> "idle", order |-> 0, action |-> "none",
               asks |-> FALSE, claims |-> FALSE]

(***************************************************************************)
(* The documents and their store                                           *)
(***************************************************************************)

Of(status) == {i \in OrderIds : orders[i].status = status}
Stored == {i \in OrderIds : orders[i] # NoOrder}
Newest(S) == IF S = {} THEN 0 ELSE CHOOSE i \in S : \A j \in S : i >= j
Oldest(S) == IF S = {} THEN 0 ELSE CHOOSE i \in S : \A j \in S : i <= j

pending_rework_order == Oldest(Of("pending"))
active_rework_order == Oldest(Of("in_progress"))

list_questions(statuses) == {q \in QuestionIds : questions[q].status \in statuses}

\* Insert unless the id is stored.
add_question(stored, q) ==
    IF stored[q] = NoQuestion THEN [stored EXCEPT ![q] = [status |-> "open"]] ELSE stored

\* A save replaces the stored document as a whole, whatever it is by now.
save_question(q, document) == questions' = [questions EXCEPT ![q] = document]
save_comment(document) == comment' = document

add_comment(revision) == comment' = [status |-> "open", revision |-> revision, order |-> 0]

\* DecisionRepository.record
record(decision) == decisions' = decisions \union {decision}

\* Question.apply_status, Comment.apply_status, ReworkOrder.apply_status
Moved(document, table, target) ==
    IF target \in table[document.status] THEN [document EXCEPT !.status = target] ELSE document

answer_with(question) == Moved(question, QUESTION_STATUS_TRANSITIONS, "answered")
start(order) == Moved(order, REWORK_ORDER_STATUS_TRANSITIONS, "in_progress")
finish(order) == Moved(order, REWORK_ORDER_STATUS_TRANSITIONS, "done")
escalate(order) == Moved(order, REWORK_ORDER_STATUS_TRANSITIONS, "escalated")

\* A key gives the id of an order; without one it is fresh.
derived_id(id, key) ==
    IF \E i \in Stored : orders[i].key = key /\ key # "none"
      THEN CHOOSE i \in Stored : orders[i].key = key
      ELSE id

\* Insert unless the id is stored.
add_rework_order(id, order) ==
    IF derived_id(id, order.key) \in Stored THEN UNCHANGED orders
                                            ELSE orders' = [orders EXCEPT ![id] = order]

(***************************************************************************)
(* The phase gate and the decisions                                        *)
(***************************************************************************)

\* The questions of the agent are blocking.
blocks_gate == list_questions({"open"}) # {}

phase_gate_available ==
    /\ head # 0 \/ \E d \in decisions : d[1] = "waived"
    /\ ~ blocks_gate
    /\ Of("pending") = {} /\ Of("in_progress") = {}

\* An approval bound to the current revision, or a waiver.
Settled == \E d \in decisions : d = <<"approved", head>> \/ d[1] = "waived"

(***************************************************************************)
(* The bounded loop over the orders                                        *)
(***************************************************************************)

\* The remarks of an order are its comment and its instruction, which no other order has.
SameRemarks(a, b) == ~ a.instruction /\ ~ b.instruction /\ a.comment = b.comment

\* An order from before the first commit is about no revision and compares with none.
SameRevision(a, b) == a.revision = b.revision /\ a.revision # 0

\* A round needs budget, and progress since the pass before.
plan_rework(used, sameRevision, sameRemarks) ==
    IF used >= MaxRounds \/ sameRevision \/ sameRemarks THEN "stop" ELSE "rework"

plan_rework_order ==
    LET last == Newest(Stored)
        previous == Newest(Stored \ {last})
        repeated == Stored \ {last} # {}
    IN plan_rework(run.used,
                   repeated /\ SameRevision(orders[previous], orders[last]),
                   repeated /\ SameRemarks(orders[previous], orders[last]))

\* What an advance of the waiting run would do, from the rows and the branch as they are.
build_gate_resolution ==
    CASE pending_rework_order # 0 -> plan_rework_order
      [] pending_rework_order = 0 /\ Settled -> "pass"
      [] OTHER -> "replay"

(***************************************************************************)
(* Requests: answers                                                       *)
(***************************************************************************)

Event == events < MaxEvents /\ events' = events + 1
Starts(c) == requests[c] = Idle /\ Event

Busy(c, request) == requests' = [requests EXCEPT ![c] = request]
Free(c) == requests' = [requests EXCEPT ![c] = Idle]

\* answer_question up to the save: only an open question takes an answer.
Read_question(c, q) ==
    /\ Starts(c)
    /\ questions[q].status = "open"
    /\ Busy(c, [op |-> "answer", q |-> q, read |-> questions[q]])
    /\ UNCHANGED <<branch, content, rows, run, attempt, driver>>

\* The document that was read is answered and saved.
answer_question(c) ==
    /\ requests[c].op = "answer"
    /\ save_question(requests[c].q, answer_with(requests[c].read))
    /\ Free(c)
    /\ UNCHANGED <<branch, content, comment, orders, decisions, run, attempt, driver, events>>

(***************************************************************************)
(* Requests: the comment                                                   *)
(***************************************************************************)

\* A new comment is bound to the head of the branch.
create_comment(c) ==
    /\ Starts(c)
    /\ comment = NoComment
    /\ add_comment(head)
    /\ UNCHANGED <<branch, content, questions, orders, decisions, run, attempt, driver, requests>>

Read_comment(c, target) ==
    /\ Starts(c)
    /\ comment # NoComment
    /\ target \in COMMENT_STATUS_TRANSITIONS[comment.status]
    /\ Busy(c, [op |-> "comment", target |-> target, read |-> comment])
    /\ UNCHANGED <<branch, content, rows, run, attempt, driver>>

\* address_comment, close_comment, reopen_comment
Transition_comment(c) ==
    /\ requests[c].op = "comment"
    /\ save_comment(Moved(requests[c].read, COMMENT_STATUS_TRANSITIONS, requests[c].target))
    /\ Free(c)
    /\ UNCHANGED <<branch, content, questions, orders, decisions, run, attempt, driver, events>>

(***************************************************************************)
(* Requests: the send-back and the decisions                               *)
(***************************************************************************)

\* The time of creation orders the orders, also those that are not committed yet.
NextId == 1 + Newest(Stored \union {requests[c].id : c \in {d \in Clients : requests[d].op = "rework"}})

\* issue_rework_order up to the insert: no order of the key, none pending or running.
\* An order names the comment, gives an instruction, or both.
Check_rework_order(c, key, named, instruction) ==
    /\ Starts(c)
    /\ derived_id(0, key) = 0
    /\ Of("pending") = {} /\ Of("in_progress") = {}
    /\ named => comment # NoComment
    /\ named \/ instruction
    /\ Busy(c, [op |-> "rework", id |-> NextId, named |-> named, read |-> comment, head |-> head,
                order |-> [key |-> key, status |-> "pending", comment |-> named,
                           instruction |-> instruction,
                           revision |-> IF named /\ comment.revision # 0 THEN comment.revision
                                                                         ELSE head]])
    /\ UNCHANGED <<branch, content, rows, run, attempt, driver>>

\* The comments learn their order, and the decision shows the send-back.
issue_rework_order(c) ==
    LET r == requests[c]
    IN /\ r.op = "rework"
       /\ add_rework_order(r.id, r.order)
       /\ IF r.named THEN save_comment([r.read EXCEPT !.order = derived_id(r.id, r.order.key)])
                     ELSE UNCHANGED comment
       /\ record(<<"rejected", r.head>>)
       /\ Free(c)
       /\ UNCHANGED <<branch, content, questions, run, attempt, driver, events>>

\* record_phase_decision up to the insert.  An approval needs the gate open; both are about
\* the revision that is read.
Check_phase_gate(c, outcome) ==
    /\ Starts(c)
    /\ outcome = "approved" => phase_gate_available /\ head # 0
    /\ Busy(c, [op |-> "decide", decision |-> <<outcome, head>>])
    /\ UNCHANGED <<branch, content, rows, run, attempt, driver>>

record_phase_decision(c) ==
    /\ requests[c].op = "decide"
    /\ record(requests[c].decision)
    /\ Free(c)
    /\ UNCHANGED <<branch, content, questions, comment, orders, run, attempt, driver, events>>

(***************************************************************************)
(* Requests: the edit of the document                                      *)
(***************************************************************************)

\* ArtifactService._write up to the commit.  An edit of a revision whose text the head no
\* longer has is refused, so the base is the head, or none (0) when the client names none.
Check_edit(c, text, base) ==
    /\ Starts(c)
    /\ base \in {0, head}
    /\ Busy(c, [op |-> "edit", text |-> text, base |-> base, unchanged |-> text = content])
    /\ UNCHANGED <<branch, content, rows, run, attempt, driver>>

marker_commit(key) == {r \in 1 .. head : branch[r].key = key}

\* Mutant of publish_scan: the marker is not looked for.
publish_scan_blind(key) == TRUE

\* publish_commit up to the scan: a commit that carries the marker is the commit of this
\* effect, and there is nothing to publish.
publish_scan(key) == marker_commit(key) = {}

\* The rest of publish_commit: the commit is put on the head that is read after the scan.
publish_commit(text, key, scanned) ==
    /\ branch' = Append(branch, [key |-> key, scanned |-> scanned])
    /\ content' = text

\* The update of the branch is refused when the branch moved after the head was read, and
\* it was read after the scan.
publish_refused(scanned) == head # scanned /\ UNCHANGED <<branch, content>>

\* apply_revision: the questions whose fragment the new text has lost.
LostQuestions(text) ==
    IF text \in Anchored THEN {} ELSE list_questions({"open", "answered"})

\* The key of an edit that brings none.
edit_effect_key(r) == <<"edit", r.text, r.base>>

\* After the write: the questions of the document are read.
Saved(r) == [op |-> "saved", lost |-> LostQuestions(r.text), read |-> questions]

\* The text is that of the head, or the commit is there, or it is to be made.
Scan_edit(c) ==
    LET r == requests[c]
    IN /\ r.op = "edit"
       /\ Busy(c, IF r.unchanged \/ ~ publish_scan(edit_effect_key(r))
                    THEN Saved(r)
                    ELSE [op |-> "move", text |-> r.text, base |-> r.base, scanned |-> head])
       /\ UNCHANGED <<branch, content, rows, run, attempt, driver, events>>

\* The commit lands, or the request fails with nothing written.
Publish_edit(c) ==
    LET r == requests[c]
    IN /\ r.op = "move"
       /\ \/ publish_commit(r.text, edit_effect_key(r), r.scanned) /\ Busy(c, Saved(r))
          \/ publish_refused(r.scanned) /\ Free(c)
       /\ UNCHANGED <<rows, run, attempt, driver, events>>

edit_document(c) ==
    LET r == requests[c]
    IN /\ r.op = "saved"
       /\ questions' = [q \in QuestionIds |->
                          IF q \in r.lost THEN Moved(r.read[q], QUESTION_STATUS_TRANSITIONS, "stale")
                                          ELSE questions[q]]
       /\ Free(c)
       /\ UNCHANGED <<branch, content, comment, orders, decisions, run, attempt, driver, events>>

\* A request that is killed before it committed leaves nothing behind, except its commit
\* on the branch.
Request_killed(c) ==
    /\ requests[c].op = "saved"
    /\ Event
    /\ Free(c)
    /\ UNCHANGED <<branch, content, rows, run, attempt, driver>>

(***************************************************************************)
(* The advance                                                             *)
(***************************************************************************)

InputOrder ==
    IF active_rework_order # 0 THEN active_rework_order ELSE pending_rework_order

\* load_conversation_inputs, and for a waiting run the observation of its gate.
Load_inputs ==
    /\ driver.pc = "idle"
    /\ run.status # "passed"
    /\ LET action == IF run.status = "waiting" THEN build_gate_resolution ELSE "execute"
       IN /\ action # "replay"
          /\ driver' = [IdleDriver EXCEPT
                          !.pc = IF action = "execute" THEN "agent" ELSE "record",
                          !.order = InputOrder,
                          !.action = action]
    /\ UNCHANGED <<branch, content, rows, run, attempt, requests, events>>

agent_effect_key == <<"agent", attempt>>

\* The attempt is over with what the agent published: it may ask a question and may claim
\* that it addressed the comment.
Published ==
    \E asks \in BOOLEAN, claims \in BOOLEAN :
        /\ asks => attempt \in QuestionIds
        /\ claims => driver.order # 0 /\ orders[driver.order].comment
        /\ driver' = [driver EXCEPT !.pc = "record", !.action = "request_approval",
                                    !.asks = asks, !.claims = claims]

\* The attempt fails at its boundary.
Attempt_blocked == driver' = [driver EXCEPT !.pc = "record", !.action = "stop"]

\* The agent's commit, unless it is there already.  Only the driver makes commits of this
\* marker, so the scan and the commit are one step; an update that is refused is an attempt
\* that fails.
Publish_stage ==
    IF publish_scan(agent_effect_key)
      THEN \E text \in AgentTexts : publish_commit(text, agent_effect_key, head)
      ELSE UNCHANGED <<branch, content>>

\* The agent works with the inputs and publishes its commit; or it fails, before the
\* commit or after it.
Execute_stage ==
    /\ driver.pc = "agent"
    /\ \/ Publish_stage /\ Published /\ UNCHANGED events
       \/ Publish_stage /\ Attempt_blocked /\ Event
       \/ UNCHANGED <<branch, content, events>> /\ Attempt_blocked
    /\ UNCHANGED <<rows, run, attempt, requests>>

store_questions(stored) ==
    IF driver.asks THEN add_question(stored, attempt) ELSE stored

\* The answered questions of the phase are resolved when the round is over.
Resolved(stored) ==
    [q \in QuestionIds |-> IF stored[q].status = "answered"
                             THEN Moved(stored[q], QUESTION_STATUS_TRANSITIONS, "resolved")
                             ELSE stored[q]]

\* Only the comments the agent claims, and only open ones.
mark_addressed ==
    IF driver.claims /\ comment.status = "open"
      THEN Moved(comment, COMMENT_STATUS_TRANSITIONS, "addressed") ELSE comment

\* Mutant of Escalated: only the order under way is closed.
Escalated_running == [i \in OrderIds |->
                        IF orders[i].status = "in_progress" THEN escalate(orders[i]) ELSE orders[i]]

Escalated == [i \in OrderIds |->
                IF orders[i].status \in {"pending", "in_progress"} THEN escalate(orders[i])
                                                                   ELSE orders[i]]

\* Mutant of Started: every pending order is started.
Started_all == [i \in OrderIds |->
                  IF orders[i].status = "pending" THEN start(orders[i]) ELSE orders[i]]

\* The oldest pending order takes the round.
Started == [i \in OrderIds |->
              IF i = pending_rework_order THEN start(orders[i]) ELSE orders[i]]

\* The end of the advance: the decision of the flow and record_stage_outcome, committed
\* together.
Record_rework ==
    /\ driver.action = "rework"
    /\ run' = [status |-> "running", used |-> run.used + 1]
    /\ orders' = Started
    /\ UNCHANGED <<questions, comment, attempt>>

Record_stop ==
    /\ driver.action = "stop"
    /\ run' = [run EXCEPT !.status = "blocked"]
    /\ orders' = Escalated
    /\ UNCHANGED <<questions, comment, attempt>>

Record_pass ==
    /\ driver.action = "pass"
    /\ run' = [run EXCEPT !.status = "passed"]
    /\ UNCHANGED <<questions, comment, orders, attempt>>

Record_wait ==
    /\ driver.action = "request_approval"
    /\ run' = [run EXCEPT !.status = "waiting"]
    /\ attempt' = attempt + 1
    /\ questions' = Resolved(store_questions(questions))
    /\ IF active_rework_order # 0
         THEN /\ orders' = [orders EXCEPT ![active_rework_order] = finish(@)]
              /\ comment' = mark_addressed
         ELSE UNCHANGED <<orders, comment>>

record_stage_outcome ==
    /\ driver.pc = "record"
    /\ Record_rework \/ Record_stop \/ Record_pass \/ Record_wait
    /\ driver' = IdleDriver
    /\ UNCHANGED <<branch, content, decisions, requests, events>>

Driver_killed ==
    /\ driver.pc = "record"
    /\ Event
    /\ driver' = IdleDriver
    /\ UNCHANGED <<branch, content, rows, run, attempt, requests>>

(***************************************************************************)
(* Specification                                                           *)
(***************************************************************************)

Init ==
    /\ branch = <<>> /\ content = "none"
    /\ questions = [q \in QuestionIds |-> NoQuestion]
    /\ comment = NoComment
    /\ orders = [i \in OrderIds |-> NoOrder]
    /\ decisions = {}
    /\ run = [status |-> "running", used |-> 0]
    /\ attempt = 1
    /\ driver = IdleDriver
    /\ requests = [c \in Clients |-> Idle]
    /\ events = 0

\* The routes of the API.  A create may carry an idempotency key.
Api_answer(c) == \E q \in QuestionIds : Read_question(c, q)
Api_comment(c) == create_comment(c)
Api_transition(c) == \E target \in CommentStatus : Read_comment(c, target)
Api_rework(c) ==
    \E key \in Keys \union {"none"}, named, instruction \in BOOLEAN :
        Check_rework_order(c, key, named, instruction)
Api_approval(c) == \E outcome \in {"approved", "waived"} : Check_phase_gate(c, outcome)
Api_edit(c) == \E text \in Texts, base \in {0, head} : Check_edit(c, text, base)

\* The commands.  They have no keys, and none moves a comment.
Cli_answer(c) == \E q \in QuestionIds : Read_question(c, q)
Cli_comment(c) == create_comment(c)
Cli_rework(c) ==
    \E named, instruction \in BOOLEAN : Check_rework_order(c, "none", named, instruction)
Cli_approve(c) == \E outcome \in {"approved", "waived"} : Check_phase_gate(c, outcome)
Cli_edit(c) == \E text \in Texts, base \in {0, head} : Check_edit(c, text, base)

Request(c) ==
    \/ Api_answer(c) \/ Api_comment(c) \/ Api_transition(c)
    \/ Api_rework(c) \/ Api_approval(c) \/ Api_edit(c)

Command(c) == Cli_answer(c) \/ Cli_comment(c) \/ Cli_rework(c) \/ Cli_approve(c) \/ Cli_edit(c)

End(c) ==
    \/ answer_question(c)
    \/ Transition_comment(c)
    \/ issue_rework_order(c)
    \/ record_phase_decision(c)
    \/ Scan_edit(c)
    \/ Publish_edit(c)
    \/ edit_document(c)

Advance == Load_inputs \/ Execute_stage \/ record_stage_outcome

Next ==
    \/ \E c \in Clients : Request(c) \/ Command(c) \/ End(c) \/ Request_killed(c)
    \/ Advance
    \/ Driver_killed

Spec == Init /\ [][Next]_vars

\* The run is advanced again and again, and a request under way ends.
FairSpec == Spec /\ WF_vars(Advance) /\ \A c \in Clients : WF_vars(End(c))

(***************************************************************************)
(* Properties                                                              *)
(***************************************************************************)

\* record_stage_outcome: at most one order is executed at a time, although two requests
\* can pass the check for a pending order together, and the rounds of the budget are spent
\* on orders: every order under way or done took one, and no other did.
RoundsAreSpentOnOrders ==
    LET executed == Cardinality(Of("in_progress")) + Cardinality(Of("done"))
    IN /\ Cardinality(Of("in_progress")) <= 1
       /\ executed <= run.used
       /\ run.used <= executed + Cardinality(Of("escalated"))

\* derived_id, add_rework_order, publish_commit: a request repeated under its key while
\* the first is still under way issues one order.  An attempt of the agent, killed and
\* repeated any number of times while edits land next to it, leaves one commit on the
\* branch.  An edit leaves a second commit only when it had looked for its marker before
\* the first commit landed.
KeysCreateOnce ==
    /\ \A i, j \in Stored : orders[i].key = orders[j].key /\ orders[i].key # "none" => i = j
    /\ \A r, s \in 1 .. head :
          r < s /\ branch[r].key = branch[s].key
            => branch[s].key[1] = "edit" /\ branch[s].scanned < r

\* plan_rework_order, record_stage_outcome: the orders that were accepted are executed or
\* escalated in the end, all of them, unless the phase is passed.
OrderSettles ==
    LET unsettled == Of("pending") \union Of("in_progress")
    IN unsettled # {} ~> (unsettled = {} \/ run.status = "passed")
=============================================================================
