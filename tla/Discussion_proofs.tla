-------------------------- MODULE Discussion_proofs --------------------------
(***************************************************************************)
(* Theorems about Discussion, for any clients, texts, keys and bounds.     *)
(*                                                                         *)
(* Two requests may pass the check for a pending order together, so that   *)
(* several orders are pending; the rounds stay accounted because only the  *)
(* advance starts, ends and escalates orders, because a run that is not    *)
(* running has none under way (RoundsFit), and because a rework it decided *)
(* still finds the pending order it saw.  Two requests get different ids   *)
(* because an order that is not inserted yet counts too (OrdersAreNumbered).*)
(***************************************************************************)
EXTENDS Discussion, FiniteSetTheorems, NaturalsInduction, SequenceTheorems, WellFoundedInduction, TLAPS

(***************************************************************************)
(* The invariant                                                           *)
(***************************************************************************)

QuestionRow == Question \cup {NoQuestion}
CommentRow == [status : CommentStatus \cup {"none"}, revision : Nat, order : Nat]
Order == [key : Keys \cup {"none"}, status : ReworkOrderStatus, comment : BOOLEAN,
          instruction : BOOLEAN, revision : Nat]
Marker == ({"edit"} \X Texts \X Nat) \cup ({"agent"} \X Nat)
Commit == [key : Marker, scanned : Nat]

Answering == [op : {"answer"}, q : QuestionIds, read : Question]
Commenting == [op : {"comment"}, target : CommentStatus, read : CommentRow]
Reworking == [op : {"rework"}, id : Nat, named : BOOLEAN, read : CommentRow, head : Nat, order : Order]
Deciding == [op : {"decide"}, decision : {"approved", "waived"} \X Nat]
Editing == [op : {"edit"}, text : Texts, base : Nat, unchanged : BOOLEAN]
Moving == [op : {"move"}, text : Texts, base : Nat, scanned : Nat]
Saving == [op : {"saved"}, lost : SUBSET QuestionIds, read : [QuestionIds -> QuestionRow]]
RequestState ==
    {Idle} \cup Answering \cup Commenting \cup Reworking \cup Deciding \cup Editing \cup Moving
        \cup Saving

DriverState ==
    [pc : {"idle", "agent", "record"}, order : Nat,
     action : {"none", "execute", "rework", "stop", "pass", "request_approval"},
     asks : BOOLEAN, claims : BOOLEAN]

TypeOK ==
    /\ branch \in Seq(Commit)
    /\ questions \in [QuestionIds -> QuestionRow]
    /\ comment \in CommentRow
    /\ orders \in [OrderIds -> Order \cup {NoOrder}]
    /\ run \in [status : {"running", "waiting", "blocked", "passed"}, used : Nat]
    /\ attempt \in Nat
    /\ driver \in DriverState
    /\ requests \in [Clients -> RequestState]
    /\ events \in 0 .. MaxEvents

\* The requests that are about to insert an order.
Sending == {c \in Clients : requests[c].op = "rework"}

\* Orders, inserted or not, are numbered as they come, and a new one is pending.
OrdersAreNumbered ==
    /\ \A i \in Stored : i <= events
    /\ \A c \in Sending : /\ requests[c].id \in 1 .. events /\ requests[c].id \notin Stored
                          /\ requests[c].order.status = "pending"
    /\ \A c, d \in Sending : requests[c].id = requests[d].id => c = d

\* One order per key and one commit per marker but for edits that overlap: the two parts of
\* KeysCreateOnce.  An edit that is about to land saw no commit of its marker when it looked.
OneOrderPerKey ==
    \A i, j \in Stored : orders[i].key = orders[j].key /\ orders[i].key # "none" => i = j
OneCommitPerMarker ==
    /\ \A r, s \in 1 .. head :
          r < s /\ branch[r].key = branch[s].key
            => branch[s].key[1] = "edit" /\ branch[s].scanned < r
    /\ \A c \in Clients : requests[c].op = "move" =>
          /\ requests[c].scanned \in 0 .. head
          /\ \A r \in 1 .. head :
                branch[r].key = edit_effect_key(requests[c]) => requests[c].scanned < r

Executed == Cardinality(Of("in_progress")) + Cardinality(Of("done"))

\* At most one order is under way, none unless the run is running, and what an advance has
\* decided about the orders it read still fits them.
RoundsFit ==
    /\ \A i, j \in Of("in_progress") : i = j
    /\ run.status # "running" => Of("in_progress") = {}
    /\ driver.pc = "record" /\ driver.action \in {"rework", "pass"} => run.status = "waiting"
    /\ driver.pc = "record" /\ driver.action = "rework" => Of("pending") # {}
    /\ Executed <= run.used
    /\ run.used <= Executed + Cardinality(Of("escalated"))

IInv == TypeOK /\ OrdersAreNumbered /\ OneOrderPerKey /\ OneCommitPerMarker /\ RoundsFit

(***************************************************************************)
(* The actions                                                             *)
(***************************************************************************)

\* The handlers the routes and the commands are made of.
LEMMA NextCases ==
  ASSUME [Next]_vars
  PROVE  \/ \E c \in Clients :
              \/ \E q \in QuestionIds : Read_question(c, q)
              \/ create_comment(c)
              \/ \E target \in CommentStatus : Read_comment(c, target)
              \/ \E key \in Keys \cup {"none"}, named, instruction \in BOOLEAN :
                    Check_rework_order(c, key, named, instruction)
              \/ \E outcome \in {"approved", "waived"} : Check_phase_gate(c, outcome)
              \/ \E text \in Texts, base \in {0, head} : Check_edit(c, text, base)
              \/ answer_question(c) \/ Transition_comment(c) \/ issue_rework_order(c)
              \/ record_phase_decision(c) \/ Scan_edit(c) \/ Publish_edit(c)
              \/ edit_document(c) \/ Request_killed(c)
         \/ Load_inputs \/ Execute_stage \/ record_stage_outcome \/ Driver_killed
         \/ UNCHANGED vars
<1>1. ASSUME NEW c \in Clients, Cli_rework(c)
      PROVE  \E key \in Keys \cup {"none"}, named, instruction \in BOOLEAN :
                Check_rework_order(c, key, named, instruction)
  BY <1>1 DEF Cli_rework
<1> QED
  BY <1>1 DEF Next, Request, Command, End, Advance, Api_answer, Api_comment, Api_transition,
     Api_rework, Api_approval, Api_edit, Cli_answer, Cli_comment, Cli_approve, Cli_edit

LEMMA Idles == Idle \in RequestState /\ Idle.op = "none"
BY DEF Idle, RequestState

\* A request is what its operation says.
LEMMA OpFacts ==
  ASSUME TypeOK, NEW c \in Clients
  PROVE  /\ requests[c].op = "answer" => requests[c] \in Answering
         /\ requests[c].op = "comment" => requests[c] \in Commenting
         /\ requests[c].op = "rework" => requests[c] \in Reworking
         /\ requests[c].op = "edit" => requests[c] \in Editing
         /\ requests[c].op = "move" => requests[c] \in Moving
         /\ requests[c].op = "saved" => requests[c] \in Saving
<1>1. requests[c] \in RequestState
  BY DEF TypeOK
<1>2. requests[c] \in {Idle} => requests[c].op = "none"
  BY Idles
<1>3. /\ requests[c] \in Answering => requests[c].op = "answer"
      /\ requests[c] \in Commenting => requests[c].op = "comment"
      /\ requests[c] \in Reworking => requests[c].op = "rework"
      /\ requests[c] \in Deciding => requests[c].op = "decide"
      /\ requests[c] \in Editing => requests[c].op = "edit"
      /\ requests[c] \in Moving => requests[c].op = "move"
      /\ requests[c] \in Saving => requests[c].op = "saved"
  BY DEF Answering, Commenting, Reworking, Deciding, Editing, Moving, Saving
<1> QED BY <1>1, <1>2, <1>3 DEF RequestState

LEMMA Bounds == {MaxRounds, MaxQuestions, MaxEvents} \subseteq Nat
BY DiscussionAssumption DEF DiscussionAssumption

LEMMA OrderRow ==
  ASSUME TypeOK, NEW i \in OrderIds
  PROVE  /\ orders[i] \in Order \/ orders[i] = NoOrder
         /\ i \in Stored <=> orders[i] \in Order
         /\ \A t \in ReworkOrderStatus : i \in Of(t) => orders[i] \in Order /\ orders[i].status = t
<1>1. NoOrder \notin Order /\ NoOrder.status \notin ReworkOrderStatus
  BY DEF NoOrder, Order, ReworkOrderStatus
<1> QED BY <1>1 DEF TypeOK, Stored, Of

\* Nothing about the orders changes.
LEMMA RoundsStay ==
  ASSUME IInv, UNCHANGED <<orders, run, driver>>
  PROVE  RoundsFit' /\ OneOrderPerKey'
BY DEF IInv, RoundsFit, Executed, Of, OneOrderPerKey, Stored

\* A request becomes k, which does not insert an order.
LEMMA RequestStep ==
  ASSUME IInv, NEW c \in Clients, NEW k \in RequestState, k.op # "rework",
         requests' = [requests EXCEPT ![c] = k],
         UNCHANGED <<orders, run, driver, attempt>>,
         events' \in 0 .. MaxEvents, events' >= events,
         questions' \in [QuestionIds -> QuestionRow], comment' \in CommentRow,
         branch' \in Seq(Commit), OneCommitPerMarker'
  PROVE  IInv'
<1>1. TypeOK'
  BY DEF IInv, TypeOK
<1>2. \A d \in Clients : requests'[d] = IF d = c THEN k ELSE requests[d]
  BY DEF IInv, TypeOK
<1>3. Sending' \subseteq Sending /\ \A d \in Sending' : requests'[d] = requests[d]
  BY <1>2 DEF Sending
<1>4. Stored' = Stored
  BY DEF Stored
<1>5. events \in Nat /\ events' \in Nat /\ \A i \in OrderIds : i \in Nat
  BY Bounds DEF IInv, TypeOK, OrderIds
<1>6. \A i \in Stored : i \in OrderIds
  BY DEF Stored
<1>7. OrdersAreNumbered'
  <2>1. \A i \in Stored' : i <= events'
    BY <1>4, <1>5, <1>6 DEF IInv, OrdersAreNumbered
  <2>2. \A d \in Sending' : /\ requests'[d].id \in 1 .. events' /\ requests'[d].id \notin Stored'
                            /\ requests'[d].order.status = "pending"
    BY <1>3, <1>4, <1>5 DEF IInv, OrdersAreNumbered
  <2>3. \A d, e \in Sending' : requests'[d].id = requests'[e].id => d = e
    BY <1>3 DEF IInv, OrdersAreNumbered
  <2> QED BY <2>1, <2>2, <2>3 DEF OrdersAreNumbered
<1> QED BY <1>1, <1>7, RoundsStay DEF IInv

\* The event a request is counted as.
LEMMA EventFacts ==
  ASSUME IInv, Event
  PROVE  events' \in 0 .. MaxEvents /\ events' = events + 1 /\ events \in Nat
BY Bounds DEF IInv, TypeOK, Event

\* A request that is not about to land a commit leaves the markers as they are.
LEMMA MarkersStay ==
  ASSUME IInv, NEW c \in Clients, NEW k, k.op # "move", UNCHANGED branch,
         requests' = [requests EXCEPT ![c] = k]
  PROVE  OneCommitPerMarker'
<1>1. \A d \in Clients : requests'[d].op = "move" => requests'[d] = requests[d]
  BY DEF IInv, TypeOK
<1>2. head' = head
  BY DEF head
<1> QED BY <1>1, <1>2 DEF IInv, OneCommitPerMarker, edit_effect_key

\* A request that only begins, or ends without writing anything the orders depend on.
LEMMA PlainStep ==
  ASSUME IInv, NEW c \in Clients, NEW k \in RequestState, k.op \notin {"rework", "move"},
         requests' = [requests EXCEPT ![c] = k],
         UNCHANGED <<orders, run, driver, attempt, branch>>,
         events' = events \/ Event,
         questions' \in [QuestionIds -> QuestionRow], comment' \in CommentRow
  PROVE  IInv'
<1>1. branch' \in Seq(Commit) /\ OneCommitPerMarker'
  BY MarkersStay DEF IInv, TypeOK
<1>2. events' \in 0 .. MaxEvents /\ events' >= events
  BY EventFacts, Bounds DEF IInv, TypeOK
<1> QED BY <1>1, <1>2, RequestStep

(***************************************************************************)
(* Requests                                                                *)
(***************************************************************************)

LEMMA ReadQuestionStep ==
  ASSUME IInv, NEW c \in Clients, NEW q \in QuestionIds, Read_question(c, q)
  PROVE  IInv'
<1>1. PICK k : /\ k = [op |-> "answer", q |-> q, read |-> questions[q]]
               /\ requests' = [requests EXCEPT ![c] = k]
  BY DEF Read_question, Busy
<1>2. questions[q] \in Question
  BY DEF Read_question, IInv, TypeOK, QuestionRow, NoQuestion
<1>3. k \in RequestState /\ k.op = "answer"
  BY <1>1, <1>2 DEF RequestState, Answering
<1>4. requests' = [requests EXCEPT ![c] = k] /\ Event
      /\ UNCHANGED <<questions, comment, orders, run, driver, attempt, branch>>
  BY <1>1 DEF Read_question, Starts, rows
<1>5. questions' \in [QuestionIds -> QuestionRow] /\ comment' \in CommentRow
  BY <1>4 DEF IInv, TypeOK
<1> QED BY <1>3, <1>4, <1>5, PlainStep

\* A move along a table changes the status or nothing.
LEMMA MovedQuestion ==
  ASSUME NEW d \in QuestionRow, NEW target \in QuestionStatus
  PROVE  Moved(d, QUESTION_STATUS_TRANSITIONS, target) \in QuestionRow
<1>1. PICK m : m = [d EXCEPT !.status = target]
  OBVIOUS
<1>2. m \in Question
  BY <1>1 DEF QuestionRow, Question, NoQuestion
<1>3. Moved(d, QUESTION_STATUS_TRANSITIONS, target) \in {d, m}
  BY <1>1 DEF Moved
<1> QED BY <1>2, <1>3 DEF QuestionRow

LEMMA AnswerStep ==
  ASSUME IInv, NEW c \in Clients, answer_question(c)
  PROVE  IInv'
<1>1. requests[c] \in Answering
  BY OpFacts DEF IInv, answer_question
<1>2. PICK q \in QuestionIds : q = requests[c].q
  BY <1>1 DEF Answering
<1>3. PICK r \in Question : r = requests[c].read
  BY <1>1 DEF Answering
<1>4. PICK m : m = Moved(r, QUESTION_STATUS_TRANSITIONS, "answered")
  OBVIOUS
<1>5. m \in QuestionRow
  BY <1>4, MovedQuestion DEF QuestionRow, QuestionStatus
<1>6. /\ questions' = [questions EXCEPT ![q] = m] /\ requests' = [requests EXCEPT ![c] = Idle]
      /\ UNCHANGED <<comment, orders, run, driver, attempt, branch, events>>
  BY <1>2, <1>3, <1>4 DEF answer_question, save_question, answer_with, Free
<1>7. questions' \in [QuestionIds -> QuestionRow] /\ comment' \in CommentRow
  BY <1>5, <1>6 DEF IInv, TypeOK
<1> QED BY <1>6, <1>7, Idles, PlainStep

LEMMA CreateCommentStep ==
  ASSUME IInv, NEW c \in Clients, create_comment(c)
  PROVE  IInv'
<1>1. requests' = [requests EXCEPT ![c] = Idle]
  BY DEF create_comment, Starts, IInv, TypeOK
<1>2. head \in Nat
  BY LenProperties DEF IInv, TypeOK, head
<1>3. comment' \in CommentRow
  BY <1>2 DEF create_comment, add_comment, CommentRow, CommentStatus
<1>4. Event /\ UNCHANGED <<questions, orders, run, driver, attempt, branch>>
  BY DEF create_comment, Starts
<1>5. questions' \in [QuestionIds -> QuestionRow]
  BY <1>4 DEF IInv, TypeOK
<1> QED BY <1>1, <1>3, <1>4, <1>5, Idles, PlainStep

LEMMA ReadCommentStep ==
  ASSUME IInv, NEW c \in Clients, NEW target \in CommentStatus, Read_comment(c, target)
  PROVE  IInv'
<1>1. PICK k : /\ k = [op |-> "comment", target |-> target, read |-> comment]
               /\ requests' = [requests EXCEPT ![c] = k]
  BY DEF Read_comment, Busy
<1>2. k \in RequestState /\ k.op = "comment"
  BY <1>1 DEF RequestState, Commenting, IInv, TypeOK
<1>3. requests' = [requests EXCEPT ![c] = k] /\ Event
      /\ UNCHANGED <<questions, comment, orders, run, driver, attempt, branch>>
  BY <1>1 DEF Read_comment, Starts, rows
<1>4. questions' \in [QuestionIds -> QuestionRow] /\ comment' \in CommentRow
  BY <1>3 DEF IInv, TypeOK
<1> QED BY <1>2, <1>3, <1>4, PlainStep

LEMMA MovedComment ==
  ASSUME NEW d \in CommentRow, NEW target \in CommentStatus
  PROVE  Moved(d, COMMENT_STATUS_TRANSITIONS, target) \in CommentRow
<1>1. PICK m : m = [d EXCEPT !.status = target]
  OBVIOUS
<1>2. m \in CommentRow
  BY <1>1 DEF CommentRow
<1>3. Moved(d, COMMENT_STATUS_TRANSITIONS, target) \in {d, m}
  BY <1>1 DEF Moved
<1> QED BY <1>2, <1>3

LEMMA TransitionStep ==
  ASSUME IInv, NEW c \in Clients, Transition_comment(c)
  PROVE  IInv'
<1>1. requests[c] \in Commenting
  BY OpFacts DEF IInv, Transition_comment
<1>2. requests[c].read \in CommentRow /\ requests[c].target \in CommentStatus
  BY <1>1 DEF Commenting
<1>3. comment' \in CommentRow
  BY <1>2, MovedComment DEF Transition_comment, save_comment
<1>4. requests' = [requests EXCEPT ![c] = Idle]
      /\ UNCHANGED <<questions, orders, run, driver, attempt, branch, events>>
  BY DEF Transition_comment, Free
<1>5. questions' \in [QuestionIds -> QuestionRow]
  BY <1>4 DEF IInv, TypeOK
<1> QED BY <1>3, <1>4, <1>5, Idles, PlainStep

LEMMA CheckGateStep ==
  ASSUME IInv, NEW c \in Clients, NEW outcome \in {"approved", "waived"}, Check_phase_gate(c, outcome)
  PROVE  IInv'
<1>1. head \in Nat
  BY LenProperties DEF IInv, TypeOK, head
<1>2. PICK k : /\ k = [op |-> "decide", decision |-> <<outcome, head>>]
               /\ requests' = [requests EXCEPT ![c] = k]
  BY DEF Check_phase_gate, Busy
<1>3. k \in RequestState /\ k.op = "decide"
  BY <1>1, <1>2 DEF RequestState, Deciding
<1>4. requests' = [requests EXCEPT ![c] = k] /\ Event
      /\ UNCHANGED <<questions, comment, orders, run, driver, attempt, branch>>
  BY <1>2 DEF Check_phase_gate, Starts, rows
<1>5. questions' \in [QuestionIds -> QuestionRow] /\ comment' \in CommentRow
  BY <1>4 DEF IInv, TypeOK
<1> QED BY <1>3, <1>4, <1>5, PlainStep

LEMMA DecideStep ==
  ASSUME IInv, NEW c \in Clients, record_phase_decision(c)
  PROVE  IInv'
<1>1. requests' = [requests EXCEPT ![c] = Idle]
      /\ UNCHANGED <<questions, comment, orders, run, driver, attempt, branch, events>>
  BY DEF record_phase_decision, Free
<1>2. questions' \in [QuestionIds -> QuestionRow] /\ comment' \in CommentRow
  BY <1>1 DEF IInv, TypeOK
<1> QED BY <1>1, <1>2, Idles, PlainStep

LEMMA CheckEditStep ==
  ASSUME IInv, NEW c \in Clients, NEW text \in Texts, NEW base \in {0, head},
         Check_edit(c, text, base)
  PROVE  IInv'
<1>1. head \in Nat
  BY LenProperties DEF IInv, TypeOK, head
<1>2. PICK same \in BOOLEAN : same = (text = content)
  OBVIOUS
<1>3. PICK k : /\ k = [op |-> "edit", text |-> text, base |-> base, unchanged |-> same]
               /\ requests' = [requests EXCEPT ![c] = k]
  BY <1>2 DEF Check_edit, Busy
<1>4. k \in RequestState /\ k.op = "edit"
  BY <1>1, <1>3 DEF RequestState, Editing
<1>5. requests' = [requests EXCEPT ![c] = k] /\ Event
      /\ UNCHANGED <<questions, comment, orders, run, driver, attempt, branch>>
  BY <1>3 DEF Check_edit, Starts, rows
<1>6. questions' \in [QuestionIds -> QuestionRow] /\ comment' \in CommentRow
  BY <1>5 DEF IInv, TypeOK
<1> QED BY <1>4, <1>5, <1>6, PlainStep

\* A commit lands whose marker the branch has not, or has only since an edit looked for it.
LEMMA Landed ==
  ASSUME IInv, NEW key \in Marker, NEW scanned \in Nat, NEW text,
         publish_commit(text, key, scanned),
         \A r \in 1 .. head : branch[r].key = key => key[1] = "edit" /\ scanned < r,
         \A d \in Clients : requests'[d].op = "move" => requests'[d] = requests[d]
  PROVE  branch' \in Seq(Commit) /\ OneCommitPerMarker'
<1>1. PICK n : n = [key |-> key, scanned |-> scanned]
  OBVIOUS
<1>2. n \in Commit /\ n.key = key /\ n.scanned = scanned
  BY <1>1 DEF Commit
<1>3. branch' = Append(branch, n) /\ branch \in Seq(Commit)
  BY <1>1 DEF publish_commit, IInv, TypeOK
<1>4. /\ branch' \in Seq(Commit) /\ head \in Nat /\ head' = head + 1
      /\ branch'[head + 1] = n /\ \A r \in 1 .. head : branch'[r] = branch[r]
  BY <1>2, <1>3, AppendProperties, LenProperties DEF head
<1>5. \A r \in 1 .. head' : r \in 1 .. head \/ r = head + 1
  BY <1>4
<1>6. \A r, s \in 1 .. head' :
         r < s /\ branch'[r].key = branch'[s].key
           => branch'[s].key[1] = "edit" /\ branch'[s].scanned < r
  <2> SUFFICES ASSUME NEW r \in 1 .. head', NEW s \in 1 .. head', r < s,
                      branch'[r].key = branch'[s].key
               PROVE  branch'[s].key[1] = "edit" /\ branch'[s].scanned < r
    OBVIOUS
  <2>1. r \in 1 .. head /\ branch'[r] = branch[r]
    BY <1>4, <1>5
  <2>2. CASE s \in 1 .. head
    BY <1>4, <2>1, <2>2 DEF IInv, OneCommitPerMarker
  <2>3. CASE s = head + 1
    BY <1>2, <1>4, <2>1, <2>3
  <2> QED BY <1>5, <2>2, <2>3
<1>7. ASSUME NEW d \in Clients, requests'[d].op = "move"
      PROVE  /\ requests'[d].scanned \in 0 .. head'
             /\ \A r \in 1 .. head' : branch'[r].key = edit_effect_key(requests'[d])
                                       => requests'[d].scanned < r
  <2>1. requests'[d] = requests[d]
    BY <1>7
  <2>2. /\ requests[d].scanned \in 0 .. head
        /\ \A r \in 1 .. head : branch[r].key = edit_effect_key(requests[d])
                                 => requests[d].scanned < r
    BY <1>7, <2>1 DEF IInv, OneCommitPerMarker
  <2> QED BY <1>4, <1>5, <2>1, <2>2
<1> QED BY <1>4, <1>6, <1>7 DEF OneCommitPerMarker, edit_effect_key

LEMMA SavedType ==
  ASSUME IInv, NEW r
  PROVE  Saved(r) \in RequestState /\ Saved(r).op = "saved"
<1>1. LostQuestions(r.text) \in SUBSET QuestionIds
  BY DEF LostQuestions, list_questions
<1> QED BY <1>1 DEF Saved, RequestState, Saving, IInv, TypeOK

LEMMA ScanEditStep ==
  ASSUME IInv, NEW c \in Clients, Scan_edit(c)
  PROVE  IInv'
<1>1. requests[c] \in Editing
  BY OpFacts DEF IInv, Scan_edit
<1>2. PICK r : r = requests[c]
  OBVIOUS
<1>3. /\ UNCHANGED <<questions, comment, orders, run, driver, attempt, branch, events>>
      /\ questions' \in [QuestionIds -> QuestionRow] /\ comment' \in CommentRow
      /\ branch' \in Seq(Commit) /\ events' \in 0 .. MaxEvents /\ events' >= events
      /\ head \in Nat
  BY Bounds, LenProperties DEF Scan_edit, rows, IInv, TypeOK, head
<1>4. CASE requests' = [requests EXCEPT ![c] = Saved(r)]
  BY <1>3, <1>4, SavedType, PlainStep
<1>5. CASE /\ requests' = [requests EXCEPT
                             ![c] = [op |-> "move", text |-> r.text, base |-> r.base, scanned |-> head]]
           /\ publish_scan(edit_effect_key(r))
  <2>1. PICK k : k = [op |-> "move", text |-> r.text, base |-> r.base, scanned |-> head]
    OBVIOUS
  <2>2. k \in RequestState /\ k.op = "move" /\ k.scanned = head
        /\ edit_effect_key(k) = edit_effect_key(r)
    BY <1>1, <1>2, <1>3, <2>1 DEF RequestState, Moving, Editing, edit_effect_key
  <2>3. \A j \in 1 .. head : branch[j].key # edit_effect_key(k)
    BY <1>5, <2>2 DEF publish_scan, marker_commit
  <2>4. \A d \in Clients : requests'[d] = IF d = c THEN k ELSE requests[d]
    BY <1>5, <2>1 DEF IInv, TypeOK
  <2>5. head' = head /\ branch' = branch
    BY <1>3 DEF head
  <2>6. ASSUME NEW d \in Clients, requests'[d].op = "move"
        PROVE  /\ requests'[d].scanned \in 0 .. head
               /\ \A j \in 1 .. head : branch[j].key = edit_effect_key(requests'[d])
                                        => requests'[d].scanned < j
    BY <1>3, <2>2, <2>3, <2>4, <2>6 DEF IInv, OneCommitPerMarker
  <2>7. OneCommitPerMarker'
    <3>1. \A j, l \in 1 .. head : j < l /\ branch[j].key = branch[l].key
                                   => branch[l].key[1] = "edit" /\ branch[l].scanned < j
      BY DEF IInv, OneCommitPerMarker
    <3> QED BY <2>5, <2>6, <3>1 DEF OneCommitPerMarker, edit_effect_key
  <2>8. requests' = [requests EXCEPT ![c] = k]
    BY <1>5, <2>1
  <2> QED BY <1>3, <2>2, <2>7, <2>8, RequestStep
<1> QED BY <1>2, <1>4, <1>5 DEF Scan_edit, Busy

LEMMA PublishEditStep ==
  ASSUME IInv, NEW c \in Clients, Publish_edit(c)
  PROVE  IInv'
<1>1. requests[c] \in Moving
  BY OpFacts DEF IInv, Publish_edit
<1>2. PICK r : r = requests[c]
  OBVIOUS
<1>3. /\ UNCHANGED <<questions, comment, orders, run, driver, attempt, events>>
      /\ questions' \in [QuestionIds -> QuestionRow] /\ comment' \in CommentRow
      /\ events' \in 0 .. MaxEvents /\ events' >= events
  BY Bounds DEF Publish_edit, rows, IInv, TypeOK
<1>4. CASE publish_commit(r.text, edit_effect_key(r), r.scanned)
           /\ requests' = [requests EXCEPT ![c] = Saved(r)]
  <2>1. PICK key : key = edit_effect_key(r)
    OBVIOUS
  <2>2. key \in Marker /\ key[1] = "edit" /\ r.scanned \in Nat /\ r.op = "move"
    BY <1>1, <1>2, <2>1 DEF Moving, Marker, edit_effect_key
  <2>3. \A j \in 1 .. head : branch[j].key = key => r.scanned < j
    BY <1>2, <2>1, <2>2 DEF IInv, OneCommitPerMarker
  <2>4. \A d \in Clients : requests'[d].op = "move" => requests'[d] = requests[d]
    BY <1>4, SavedType DEF IInv, TypeOK
  <2>5. branch' \in Seq(Commit) /\ OneCommitPerMarker'
    BY <1>4, <2>1, <2>2, <2>3, <2>4, Landed
  <2> QED BY <1>3, <1>4, <2>5, SavedType, RequestStep
<1>5. CASE UNCHANGED branch /\ requests' = [requests EXCEPT ![c] = Idle]
  BY <1>3, <1>5, Idles, PlainStep
<1> QED BY <1>2, <1>4, <1>5 DEF Publish_edit, publish_refused, Busy, Free

LEMMA EditStep ==
  ASSUME IInv, NEW c \in Clients, edit_document(c)
  PROVE  IInv'
<1>1. requests[c] \in Saving
  BY OpFacts DEF IInv, edit_document
<1>2. PICK r : r = requests[c]
  OBVIOUS
<1>3. \A q \in QuestionIds : r.read[q] \in QuestionRow /\ questions[q] \in QuestionRow
  BY <1>1, <1>2 DEF Saving, IInv, TypeOK
<1>4. \A q \in QuestionIds : Moved(r.read[q], QUESTION_STATUS_TRANSITIONS, "stale") \in QuestionRow
  BY <1>3, MovedQuestion DEF QuestionStatus
<1>5. questions' = [q \in QuestionIds |->
                      IF q \in r.lost THEN Moved(r.read[q], QUESTION_STATUS_TRANSITIONS, "stale")
                                      ELSE questions[q]]
  BY <1>2 DEF edit_document
<1>6. questions' \in [QuestionIds -> QuestionRow]
  BY <1>3, <1>4, <1>5
<1>7. requests' = [requests EXCEPT ![c] = Idle]
      /\ UNCHANGED <<comment, orders, run, driver, attempt, branch, events>>
  BY DEF edit_document, Free
<1>8. comment' \in CommentRow
  BY <1>7 DEF IInv, TypeOK
<1> QED BY <1>6, <1>7, <1>8, Idles, PlainStep

LEMMA RequestKilledStep ==
  ASSUME IInv, NEW c \in Clients, Request_killed(c)
  PROVE  IInv'
<1>1. requests' = [requests EXCEPT ![c] = Idle] /\ Event
      /\ UNCHANGED <<questions, comment, orders, run, driver, attempt, branch>>
  BY DEF Request_killed, Free, rows
<1>2. questions' \in [QuestionIds -> QuestionRow] /\ comment' \in CommentRow
  BY <1>1 DEF IInv, TypeOK
<1> QED BY <1>1, <1>2, Idles, PlainStep

(***************************************************************************)
(* The send-back                                                           *)
(***************************************************************************)

LessThan == {pair \in Nat \X Nat : pair[1] < pair[2]}

LEMMA SmallestNumber ==
  ASSUME NEW T \in SUBSET Nat, T # {}
  PROVE  \E x \in T : \A y \in T : x <= y
<1>1. IsWellFoundedOn(LessThan, Nat)
  BY NatLessThanWellFounded DEF OpToRel, LessThan
<1>2. PICK x \in T : \A y \in T : ~ (<<y, x>> \in LessThan)
  BY <1>1, WFMin
<1>3. ASSUME NEW y \in T PROVE x <= y
  <2>1. <<y, x>> \notin LessThan /\ x \in Nat /\ y \in Nat
    BY <1>2
  <2> QED BY <2>1 DEF LessThan
<1> QED BY <1>3

LEMMA GreatestNumber ==
  ASSUME NEW n \in Nat, NEW T \in SUBSET (0 .. n), T # {}
  PROVE  \E x \in T : \A y \in T : y <= x
<1> DEFINE D == {n - y : y \in T}
<1>1. D \in SUBSET Nat /\ D # {}
  <2>1. \A y \in T : n - y \in Nat
    OBVIOUS
  <2> QED BY <2>1
<1>2. PICK m \in D : \A k \in D : m <= k
  <2> HIDE DEF D
  <2> QED BY <1>1, SmallestNumber
<1>3. PICK x \in T : m = n - x
  BY <1>2
<1>4. ASSUME NEW y \in T PROVE y <= x
  <2>1. n - y \in D /\ x \in 0 .. n /\ y \in 0 .. n
    OBVIOUS
  <2>2. m <= n - y
    BY <1>2, <2>1
  <2> QED BY <1>3, <2>1, <2>2
<1> QED BY <1>4

LEMMA NewestIsLast ==
  ASSUME NEW n \in Nat, NEW T \in SUBSET (0 .. n)
  PROVE  Newest(T) \in 0 .. n /\ \A i \in T : i <= Newest(T)
<1>1. CASE T = {}
  BY <1>1 DEF Newest
<1>2. CASE T # {}
  <2>1. \E x \in T : \A y \in T : x >= y
    BY <1>2, GreatestNumber
  <2>2. Newest(T) \in T /\ \A y \in T : Newest(T) >= y
    BY <1>2, <2>1 DEF Newest
  <2> QED BY <2>2
<1> QED BY <1>1, <1>2

\* The number of a new order is one that no order has, inserted or not.
LEMMA NextIdIsNew ==
  ASSUME IInv
  PROVE  /\ NextId \in 1 .. events + 1 /\ NextId \notin Stored
         /\ \A c \in Sending : requests[c].id # NextId
<1>1. PICK T : T = Stored \cup {requests[c].id : c \in Sending}
  OBVIOUS
<1>2. events \in Nat /\ \A i \in Stored : i \in Nat
  BY Bounds DEF IInv, TypeOK, Stored, OrderIds
<1>3. T \in SUBSET (0 .. events)
  BY <1>1, <1>2 DEF IInv, OrdersAreNumbered
<1>4. NextId = 1 + Newest(T)
  BY <1>1 DEF NextId, Sending
<1>5. Newest(T) \in 0 .. events /\ \A i \in T : i <= Newest(T)
  BY <1>2, <1>3, NewestIsLast
<1>6. NextId \notin T
  BY <1>2, <1>3, <1>4, <1>5
<1>7. NextId \in 1 .. events + 1
  BY <1>2, <1>4, <1>5
<1>8. NextId \notin Stored /\ \A c \in Sending : requests[c].id # NextId
  BY <1>1, <1>6
<1> QED BY <1>7, <1>8

LEMMA CheckReworkStep ==
  ASSUME IInv, NEW c \in Clients, NEW key \in Keys \cup {"none"}, NEW named \in BOOLEAN,
         NEW instruction \in BOOLEAN, Check_rework_order(c, key, named, instruction)
  PROVE  IInv'
<1>1. head \in Nat /\ comment \in CommentRow /\ comment.revision \in Nat
  BY LenProperties DEF IInv, TypeOK, head, CommentRow
<1>2. PICK rev \in Nat : rev = IF named /\ comment.revision # 0 THEN comment.revision ELSE head
  BY <1>1
<1>3. PICK o : o = [key |-> key, status |-> "pending", comment |-> named,
                    instruction |-> instruction, revision |-> rev]
  OBVIOUS
<1>4. o \in Order /\ o.status = "pending"
  BY <1>2, <1>3 DEF Order, ReworkOrderStatus
<1>5. PICK id : id = NextId
  OBVIOUS
<1>6. PICK k : /\ k = [op |-> "rework", id |-> id, named |-> named, read |-> comment, head |-> head,
                       order |-> o]
               /\ requests' = [requests EXCEPT ![c] = k]
  BY <1>2, <1>3, <1>5 DEF Check_rework_order, Busy
<1>7. /\ events' \in 0 .. MaxEvents /\ events' = events + 1 /\ events \in Nat
      /\ requests[c] = Idle
      /\ UNCHANGED <<branch, questions, comment, orders, run, attempt, driver>>
  BY EventFacts DEF Check_rework_order, Starts, rows
<1>8. id \in 1 .. events' /\ id \notin Stored /\ \A d \in Sending : requests[d].id # id
  BY <1>5, <1>7, NextIdIsNew
<1>9. k \in RequestState /\ k.op = "rework" /\ k.id = id /\ k.order.status = "pending"
  BY <1>1, <1>4, <1>6, <1>8 DEF RequestState, Reworking
<1>10. \A d \in Clients : requests'[d] = IF d = c THEN k ELSE requests[d]
  BY <1>6 DEF IInv, TypeOK
<1>11. TypeOK'
  BY <1>6, <1>7, <1>9 DEF IInv, TypeOK
<1>12. Sending' = Sending \cup {c} /\ c \notin Sending
  BY <1>7, <1>9, <1>10, Idles DEF Sending
<1>13. Stored' = Stored /\ \A i \in Stored : i \in Nat
  BY <1>7, Bounds DEF Stored, OrderIds
<1>14. OrdersAreNumbered'
  <2>1. \A i \in Stored' : i <= events'
    BY <1>7, <1>13 DEF IInv, OrdersAreNumbered
  <2>2. \A d \in Sending' : /\ requests'[d].id \in 1 .. events' /\ requests'[d].id \notin Stored'
                            /\ requests'[d].order.status = "pending"
    BY <1>7, <1>8, <1>9, <1>10, <1>12, <1>13 DEF IInv, OrdersAreNumbered, Sending
  <2>3. \A d, e \in Sending' : requests'[d].id = requests'[e].id => d = e
    BY <1>8, <1>9, <1>10, <1>12 DEF IInv, OrdersAreNumbered, Sending
  <2> QED BY <2>1, <2>2, <2>3 DEF OrdersAreNumbered
<1>15. OneCommitPerMarker'
  BY <1>6, <1>7, <1>9, MarkersStay
<1> QED BY <1>7, <1>11, <1>14, <1>15, RoundsStay DEF IInv

\* An order is inserted as a pending one, unless its key has one.
LEMMA Inserted ==
  ASSUME IInv, NEW id \in OrderIds, id \notin Stored, NEW o \in Order, o.status = "pending",
         add_rework_order(id, o)
  PROVE  \/ UNCHANGED orders
         \/ /\ orders' = [orders EXCEPT ![id] = o]
            /\ \A i \in Stored : orders[i].key = o.key => o.key = "none"
<1>1. CASE derived_id(id, o.key) \in Stored
  BY <1>1 DEF add_rework_order
<1>2. CASE derived_id(id, o.key) \notin Stored
  <2>1. orders' = [orders EXCEPT ![id] = o]
    BY <1>2 DEF add_rework_order
  <2>2. ASSUME NEW i \in Stored, orders[i].key = o.key, o.key # "none" PROVE FALSE
    <3>1. derived_id(id, o.key) = CHOOSE j \in Stored : orders[j].key = o.key
      BY <2>2 DEF derived_id
    <3>2. (CHOOSE j \in Stored : orders[j].key = o.key) \in Stored
      BY <2>2
    <3> QED BY <1>2, <3>1, <3>2
  <2> QED BY <2>1, <2>2
<1> QED BY <1>1, <1>2

LEMMA SendStep ==
  ASSUME IInv, NEW c \in Clients, issue_rework_order(c)
  PROVE  IInv'
<1>1. PICK r : r = requests[c]
  OBVIOUS
<1>2. r \in Reworking /\ c \in Sending
  BY <1>1, OpFacts DEF IInv, issue_rework_order, Sending
<1>3. r.id \in 1 .. events /\ r.id \notin Stored /\ r.order.status = "pending"
  BY <1>1, <1>2 DEF IInv, OrdersAreNumbered
<1>4. r.id \in OrderIds /\ r.id \in Nat /\ r.order \in Order /\ r.read \in CommentRow
      /\ \A i \in Stored : i \in Nat
  BY <1>2, <1>3, Bounds DEF Reworking, IInv, TypeOK, OrderIds, Stored
<1>5. /\ add_rework_order(r.id, r.order) /\ requests' = [requests EXCEPT ![c] = Idle]
      /\ UNCHANGED <<branch, questions, run, attempt, driver, events>>
      /\ \/ comment' = comment
         \/ comment' = [r.read EXCEPT !.order = derived_id(r.id, r.order.key)]
  BY <1>1 DEF issue_rework_order, Free, save_comment
<1>6. comment' \in CommentRow
  <2>1. derived_id(r.id, r.order.key) \in Nat
    <3>1. CASE \E i \in Stored : orders[i].key = r.order.key /\ r.order.key # "none"
      <4>1. (CHOOSE i \in Stored : orders[i].key = r.order.key) \in Stored
        BY <3>1
      <4> QED BY <1>4, <3>1, <4>1 DEF derived_id
    <3>2. CASE ~ \E i \in Stored : orders[i].key = r.order.key /\ r.order.key # "none"
      BY <1>4, <3>2 DEF derived_id
    <3> QED BY <3>1, <3>2
  <2>2. PICK n \in Nat : n = derived_id(r.id, r.order.key)
    BY <2>1
  <2>3. [r.read EXCEPT !.order = n] \in CommentRow
    BY <1>4 DEF CommentRow
  <2> QED BY <1>5, <2>2, <2>3 DEF IInv, TypeOK
<1>7. CASE UNCHANGED orders
  <2>1. questions' \in [QuestionIds -> QuestionRow]
    BY <1>5 DEF IInv, TypeOK
  <2> QED BY <1>5, <1>6, <1>7, <2>1, Idles, PlainStep
<1>8. CASE /\ orders' = [orders EXCEPT ![r.id] = r.order]
           /\ \A i \in Stored : orders[i].key = r.order.key => r.order.key = "none"
  <2>1. \A i \in OrderIds : orders'[i] = IF i = r.id THEN r.order ELSE orders[i]
    BY <1>4, <1>8 DEF IInv, TypeOK
  <2>2. \A d \in Clients : requests'[d] = IF d = c THEN Idle ELSE requests[d]
    BY <1>5 DEF IInv, TypeOK
  <2>3. TypeOK'
    BY <1>4, <1>5, <1>6, <1>8, Idles DEF IInv, TypeOK
  <2>4. r.order # NoOrder
    BY <1>4 DEF Order, NoOrder, ReworkOrderStatus
  <2>5. Stored' = Stored \cup {r.id}
    BY <1>4, <2>1, <2>4 DEF Stored
  <2>6. Sending' = Sending \ {c}
    BY <2>2, Idles DEF Sending
  <2>7. OrdersAreNumbered'
    <3>1. \A i \in Stored' : i <= events'
      BY <1>3, <1>5, <2>5, Bounds DEF IInv, OrdersAreNumbered, TypeOK
    <3>2. \A d \in Sending' : requests'[d] = requests[d] /\ requests[d].id # r.id
      BY <1>1, <1>2, <2>2, <2>6 DEF IInv, OrdersAreNumbered, Sending
    <3>3. \A d \in Sending' : /\ requests'[d].id \in 1 .. events' /\ requests'[d].id \notin Stored'
                              /\ requests'[d].order.status = "pending"
      BY <1>5, <2>5, <2>6, <3>2 DEF IInv, OrdersAreNumbered
    <3>4. \A d, e \in Sending' : requests'[d].id = requests'[e].id => d = e
      BY <2>6, <3>2 DEF IInv, OrdersAreNumbered
    <3> QED BY <3>1, <3>3, <3>4 DEF OrdersAreNumbered
  <2>8. OneOrderPerKey'
    BY <1>3, <1>4, <1>8, <2>1, <2>5 DEF IInv, OneOrderPerKey, Stored
  <2>9. OneCommitPerMarker'
    BY <1>5, Idles, MarkersStay
  <2>10. \A t \in ReworkOrderStatus \ {"pending"} : Of(t)' = Of(t)
    <3>1. NoOrder.status = "none"
      BY DEF NoOrder
    <3>2. orders[r.id] = NoOrder
      BY <1>3, <1>4 DEF Stored
    <3> QED BY <1>3, <2>1, <3>1, <3>2 DEF Of, ReworkOrderStatus
  <2>11. Of("pending") \subseteq Of("pending")'
    BY <1>3, <2>1 DEF Of
  <2>12. RoundsFit'
    BY <1>5, <2>10, <2>11 DEF IInv, RoundsFit, Executed, ReworkOrderStatus
  <2> QED BY <2>3, <2>7, <2>8, <2>9, <2>12 DEF IInv
<1> QED BY <1>3, <1>4, <1>5, <1>7, <1>8, Inserted

(***************************************************************************)
(* The advance                                                             *)
(***************************************************************************)

\* An advance that has only read, or committed to the branch, or was killed.
LEMMA DriverStep ==
  ASSUME IInv, driver' \in DriverState, branch' \in Seq(Commit), OneCommitPerMarker',
         UNCHANGED <<questions, comment, orders, run, attempt, requests>>,
         events' = events \/ Event,
         driver'.pc = "record" /\ driver'.action \in {"rework", "pass"} => run.status = "waiting",
         driver'.pc = "record" /\ driver'.action = "rework" => Of("pending") # {}
  PROVE  IInv'
<1>1. events' \in 0 .. MaxEvents /\ events' >= events /\ events \in Nat
  BY EventFacts, Bounds DEF IInv, TypeOK
<1>2. TypeOK'
  BY <1>1 DEF IInv, TypeOK
<1>3. Stored' = Stored /\ Sending' = Sending /\ \A i \in Stored : i \in Nat
  BY Bounds DEF Stored, Sending, OrderIds
<1>4. OrdersAreNumbered'
  <2>1. \A i \in Stored' : i <= events'
    BY <1>1, <1>3 DEF IInv, OrdersAreNumbered
  <2>2. \A d \in Sending' : /\ requests'[d].id \in 1 .. events' /\ requests'[d].id \notin Stored'
                            /\ requests'[d].order.status = "pending"
    BY <1>1, <1>3 DEF IInv, OrdersAreNumbered
  <2>3. \A d, e \in Sending' : requests'[d].id = requests'[e].id => d = e
    BY <1>3 DEF IInv, OrdersAreNumbered
  <2> QED BY <2>1, <2>2, <2>3 DEF OrdersAreNumbered
<1>5. OneOrderPerKey'
  BY DEF IInv, OneOrderPerKey, Stored
<1>6. RoundsFit'
  BY DEF IInv, RoundsFit, Executed, Of
<1> QED BY <1>2, <1>4, <1>5, <1>6 DEF IInv

LEMMA OldestIsIn ==
  ASSUME NEW S \in SUBSET OrderIds
  PROVE  /\ Oldest(S) \in Nat
         /\ S # {} => Oldest(S) \in S
         /\ S = {} => Oldest(S) = 0
<1>1. OrderIds \subseteq Nat
  BY Bounds DEF OrderIds
<1>2. CASE S = {}
  BY <1>2 DEF Oldest
<1>3. CASE S # {}
  <2>1. \E x \in S : \A y \in S : x <= y
    BY <1>1, <1>3, SmallestNumber
  <2>2. Oldest(S) \in S
    BY <1>3, <2>1 DEF Oldest
  <2> QED BY <1>1, <1>3, <2>2
<1> QED BY <1>2, <1>3

\* A rework is decided only about a pending order.
LEMMA Resolution ==
  /\ build_gate_resolution \in {"rework", "stop", "pass", "replay"}
  /\ build_gate_resolution = "rework" => Of("pending") # {}
<1>1. plan_rework_order \in {"stop", "rework"}
  BY DEF plan_rework_order, plan_rework
<1>2. pending_rework_order # 0 => Of("pending") # {}
  BY DEF pending_rework_order, Oldest
<1>3. CASE pending_rework_order # 0
  BY <1>1, <1>2, <1>3 DEF build_gate_resolution
<1>4. CASE pending_rework_order = 0 /\ Settled
  <2>1. build_gate_resolution = "pass"
    BY <1>4 DEF build_gate_resolution
  <2> QED BY <2>1
<1>5. CASE pending_rework_order = 0 /\ ~ Settled
  <2>1. build_gate_resolution = "replay"
    BY <1>5 DEF build_gate_resolution
  <2> QED BY <2>1
<1> QED BY <1>3, <1>4, <1>5

LEMMA LoadStep == ASSUME IInv, Load_inputs PROVE IInv'
<1>1. PICK a : a = IF run.status = "waiting" THEN build_gate_resolution ELSE "execute"
  OBVIOUS
<1>2. PICK p : p = IF a = "execute" THEN "agent" ELSE "record"
  OBVIOUS
<1>4. PICK n : n = InputOrder
  OBVIOUS
<1>5. /\ a # "replay"
      /\ driver' = [IdleDriver EXCEPT !.pc = p, !.order = n, !.action = a]
      /\ UNCHANGED <<branch, questions, comment, orders, run, attempt, requests, events>>
  BY <1>1, <1>2, <1>4 DEF Load_inputs, rows
<1>6. driver' = [pc |-> p, order |-> n, action |-> a, asks |-> FALSE, claims |-> FALSE]
  BY <1>5 DEF IdleDriver
<1>7. a \in {"rework", "stop", "pass", "execute"} /\ (a = "rework" => Of("pending") # {})
      /\ (a # "execute" => run.status = "waiting")
  BY <1>1, <1>5, Resolution
<1>8. n \in Nat
  <2>1. Oldest(Of("in_progress")) \in Nat /\ Oldest(Of("pending")) \in Nat
    BY OldestIsIn DEF Of
  <2> QED BY <1>4, <2>1 DEF InputOrder, active_rework_order, pending_rework_order
<1>10. driver' \in DriverState /\ driver'.action = a
  BY <1>2, <1>6, <1>7, <1>8 DEF DriverState
<1>11. branch' \in Seq(Commit) /\ OneCommitPerMarker'
  BY <1>5 DEF IInv, TypeOK, OneCommitPerMarker, edit_effect_key, head
<1> QED BY <1>5, <1>7, <1>10, <1>11, DriverStep

LEMMA ExecuteStep == ASSUME IInv, Execute_stage PROVE IInv'
<1>1. driver \in DriverState /\ attempt \in Nat /\ branch \in Seq(Commit) /\ head \in Nat
  BY LenProperties DEF IInv, TypeOK, head
<1>2. UNCHANGED <<questions, comment, orders, run, attempt, requests>> /\ (events' = events \/ Event)
  BY DEF Execute_stage, rows
<1>3. branch' \in Seq(Commit) /\ OneCommitPerMarker'
  <2>1. PICK key : key = agent_effect_key
    OBVIOUS
  <2>2. key \in Marker
    BY <1>1, <2>1 DEF Marker, agent_effect_key
  <2>3. CASE UNCHANGED branch
    BY <1>1, <1>2, <2>3 DEF IInv, OneCommitPerMarker, edit_effect_key, head
  <2>4. CASE publish_scan(key) /\ \E text \in AgentTexts : publish_commit(text, key, head)
    <3>1. \A r \in 1 .. head : branch[r].key # key
      BY <2>4 DEF publish_scan, marker_commit
    <3>2. PICK text \in AgentTexts : publish_commit(text, key, head)
      BY <2>4
    <3> QED BY <1>1, <1>2, <2>2, <3>1, <3>2, Landed
  <2> QED BY <2>1, <2>3, <2>4 DEF Execute_stage, Publish_stage
<1>4. driver' \in DriverState /\ driver'.action \in {"request_approval", "stop"}
  <2>1. CASE Published
    <3>1. PICK asks \in BOOLEAN, claims \in BOOLEAN :
             driver' = [driver EXCEPT !.pc = "record", !.action = "request_approval",
                                      !.asks = asks, !.claims = claims]
      BY <2>1 DEF Published
    <3> QED BY <1>1, <3>1 DEF DriverState
  <2>2. CASE Attempt_blocked
    BY <1>1, <2>2 DEF Attempt_blocked, DriverState
  <2> QED BY <2>1, <2>2 DEF Execute_stage
<1> QED BY <1>2, <1>3, <1>4, DriverStep

LEMMA IdleDriverType == IdleDriver \in DriverState /\ IdleDriver.pc = "idle"
BY DEF IdleDriver, DriverState

LEMMA DriverKilledStep == ASSUME IInv, Driver_killed PROVE IInv'
<1>1. /\ driver' = IdleDriver /\ Event
      /\ UNCHANGED <<branch, questions, comment, orders, run, attempt, requests>>
  BY DEF Driver_killed, rows
<1>2. branch' \in Seq(Commit) /\ OneCommitPerMarker'
  BY <1>1 DEF IInv, TypeOK, OneCommitPerMarker, edit_effect_key, head
<1> QED BY <1>1, <1>2, IdleDriverType, DriverStep

(***************************************************************************)
(* The end of the advance                                                  *)
(***************************************************************************)

\* Orders that keep their keys keep their numbers too.
LEMMA OrdersMove ==
  ASSUME IInv, orders' \in [OrderIds -> Order \cup {NoOrder}],
         \A i \in OrderIds : IF orders[i] = NoOrder THEN orders'[i] = NoOrder
                             ELSE orders'[i] \in Order /\ orders'[i].key = orders[i].key,
         UNCHANGED <<branch, requests, events>>
  PROVE  OrdersAreNumbered' /\ OneOrderPerKey' /\ OneCommitPerMarker'
<1>1. NoOrder \notin Order
  BY DEF NoOrder, Order, ReworkOrderStatus
<1>2. Stored' = Stored /\ \A i \in Stored : orders'[i].key = orders[i].key
  BY <1>1 DEF Stored
<1>3. Sending' = Sending
  BY DEF Sending
<1>4. OrdersAreNumbered'
  BY <1>2, <1>3 DEF IInv, OrdersAreNumbered
<1>5. OneOrderPerKey'
  BY <1>2 DEF IInv, OneOrderPerKey
<1>6. OneCommitPerMarker'
  BY DEF IInv, OneCommitPerMarker, head
<1> QED BY <1>4, <1>5, <1>6

\* What the three moves of an order do.
LEMMA MovedOrder ==
  ASSUME NEW o \in Order
  PROVE  /\ o.status = "pending" => start(o) \in Order /\ start(o).status = "in_progress"
                                   /\ start(o).key = o.key
         /\ o.status = "in_progress" => finish(o) \in Order /\ finish(o).status = "done"
                                       /\ finish(o).key = o.key
         /\ o.status \in {"pending", "in_progress"} =>
               escalate(o) \in Order /\ escalate(o).status = "escalated" /\ escalate(o).key = o.key
<1>1. ASSUME NEW t \in ReworkOrderStatus
      PROVE  /\ [o EXCEPT !.status = t] \in Order /\ [o EXCEPT !.status = t].status = t
             /\ [o EXCEPT !.status = t].key = o.key
  BY DEF Order
<1>2. o.status = "pending" => start(o) = [o EXCEPT !.status = "in_progress"]
  BY DEF start, Moved, REWORK_ORDER_STATUS_TRANSITIONS
<1>3. o.status = "in_progress" => finish(o) = [o EXCEPT !.status = "done"]
  BY DEF finish, Moved, REWORK_ORDER_STATUS_TRANSITIONS
<1>4. o.status \in {"pending", "in_progress"} => escalate(o) = [o EXCEPT !.status = "escalated"]
  BY DEF escalate, Moved, REWORK_ORDER_STATUS_TRANSITIONS
<1>5. {"in_progress", "done", "escalated"} \subseteq ReworkOrderStatus
  BY DEF ReworkOrderStatus
<1> QED BY <1>1, <1>2, <1>3, <1>4, <1>5

LEMMA FiniteOrders ==
  ASSUME NEW t
  PROVE  IsFiniteSet(Of(t)) /\ Cardinality(Of(t)) \in Nat
<1>1. IsFiniteSet(OrderIds)
  BY Bounds, FS_Interval DEF OrderIds
<1>2. Of(t) \in SUBSET OrderIds
  BY DEF Of
<1> QED BY <1>1, <1>2, FS_Subset, FS_CardinalityType

\* The recorded outcome fits, when what it says of the orders does.
LEMMA OutcomeFits ==
  ASSUME IInv, driver' = IdleDriver, UNCHANGED <<branch, requests, events>>,
         orders' \in [OrderIds -> Order \cup {NoOrder}],
         \A i \in OrderIds : IF orders[i] = NoOrder THEN orders'[i] = NoOrder
                             ELSE orders'[i] \in Order /\ orders'[i].key = orders[i].key,
         questions' \in [QuestionIds -> QuestionRow], comment' \in CommentRow, attempt' \in Nat,
         run' \in [status : {"running", "waiting", "blocked", "passed"}, used : Nat],
         \A i, j \in Of("in_progress")' : i = j,
         run'.status # "running" => Of("in_progress")' = {},
         Executed' <= run'.used, run'.used <= Executed' + Cardinality(Of("escalated")')
  PROVE  IInv'
<1>1. TypeOK'
  BY IdleDriverType DEF IInv, TypeOK
<1>2. RoundsFit'
  BY IdleDriverType DEF RoundsFit
<1> QED BY <1>1, <1>2, OrdersMove DEF IInv

LEMMA ReworkStep ==
  ASSUME IInv, record_stage_outcome, Record_rework
  PROVE  IInv'
<1>1. /\ driver.pc = "record" /\ driver.action = "rework" /\ driver' = IdleDriver
      /\ run' = [status |-> "running", used |-> run.used + 1] /\ orders' = Started
      /\ UNCHANGED <<branch, questions, comment, attempt, requests, events>>
  BY DEF record_stage_outcome, Record_rework
<1>2. Of("in_progress") = {} /\ Of("pending") # {}
  BY <1>1 DEF IInv, RoundsFit
<1>3. PICK x : x = pending_rework_order
  OBVIOUS
<1>4. x \in Of("pending")
  BY <1>2, <1>3, OldestIsIn DEF pending_rework_order, Of
<1>5. x \in OrderIds /\ orders[x] \in Order /\ orders[x].status = "pending"
  BY <1>4, OrderRow DEF IInv, Of, ReworkOrderStatus
<1>6. PICK o : o = start(orders[x])
  OBVIOUS
<1>7. o \in Order /\ o.status = "in_progress" /\ o.key = orders[x].key
  BY <1>5, <1>6, MovedOrder
<1>8. orders' = [i \in OrderIds |-> IF i = x THEN o ELSE orders[i]]
  BY <1>1, <1>3, <1>6 DEF Started
<1>9. \A i \in OrderIds : orders'[i] = IF i = x THEN o ELSE orders[i]
  BY <1>8
<1>10. orders' \in [OrderIds -> Order \cup {NoOrder}]
  BY <1>7, <1>8 DEF IInv, TypeOK
<1>11. orders[x] # NoOrder /\ \A i \in OrderIds : orders[i] \in Order \/ orders[i] = NoOrder
  BY <1>5, OrderRow DEF IInv, NoOrder, Order, ReworkOrderStatus
<1>12. \A i \in OrderIds : IF orders[i] = NoOrder THEN orders'[i] = NoOrder
                           ELSE orders'[i] \in Order /\ orders'[i].key = orders[i].key
  BY <1>7, <1>9, <1>11
<1>13. Of("in_progress")' = {x}
  BY <1>2, <1>5, <1>7, <1>9 DEF Of
<1>14. Of("done")' = Of("done") /\ Of("escalated")' = Of("escalated")
  BY <1>5, <1>7, <1>9 DEF Of
<1>15. /\ Cardinality(Of("in_progress")) = 0 /\ Cardinality({x}) = 1
       /\ Cardinality(Of("done")) \in Nat /\ Cardinality(Of("escalated")) \in Nat
  BY <1>2, FS_EmptySet, FS_Singleton, FiniteOrders
<1>16. run.used \in Nat /\ run'.used = run.used + 1 /\ run'.status = "running"
       /\ run' \in [status : {"running", "waiting", "blocked", "passed"}, used : Nat]
  BY <1>1 DEF IInv, TypeOK
<1>17. Executed <= run.used /\ run.used <= Executed + Cardinality(Of("escalated"))
  BY DEF IInv, RoundsFit
<1>18. Executed' <= run'.used /\ run'.used <= Executed' + Cardinality(Of("escalated")')
  <2>1. Executed' = 1 + Cardinality(Of("done")) /\ Executed = Cardinality(Of("done"))
    BY <1>13, <1>14, <1>15 DEF Executed
  <2> QED BY <1>14, <1>15, <1>16, <1>17, <2>1
<1>19. \A i, j \in Of("in_progress")' : i = j
  BY <1>13
<1>20. questions' \in [QuestionIds -> QuestionRow] /\ comment' \in CommentRow /\ attempt' \in Nat
  BY <1>1 DEF IInv, TypeOK
<1> QED BY <1>1, <1>10, <1>12, <1>16, <1>18, <1>19, <1>20, OutcomeFits

LEMMA StopStep ==
  ASSUME IInv, record_stage_outcome, Record_stop
  PROVE  IInv'
<1>1. /\ driver' = IdleDriver /\ run' = [run EXCEPT !.status = "blocked"] /\ orders' = Escalated
      /\ UNCHANGED <<branch, questions, comment, attempt, requests, events>>
  BY DEF record_stage_outcome, Record_stop
<1>2. \A i \in OrderIds : orders'[i] = IF orders[i].status \in {"pending", "in_progress"}
                                         THEN escalate(orders[i]) ELSE orders[i]
  BY <1>1 DEF Escalated
<1>3. \A i \in OrderIds : orders[i] \in Order \/ orders[i] = NoOrder
  BY OrderRow DEF IInv
<1>4. NoOrder.status = "none" /\ NoOrder \notin Order
  BY DEF NoOrder, Order, ReworkOrderStatus
<1>5. \A i \in OrderIds : orders[i].status \in {"pending", "in_progress"} =>
         orders'[i] \in Order /\ orders'[i].status = "escalated" /\ orders'[i].key = orders[i].key
  BY <1>2, <1>3, <1>4, MovedOrder
<1>6. \A i \in OrderIds : IF orders[i] = NoOrder THEN orders'[i] = NoOrder
                          ELSE orders'[i] \in Order /\ orders'[i].key = orders[i].key
  BY <1>2, <1>3, <1>4, <1>5
<1>7. orders' \in [OrderIds -> Order \cup {NoOrder}]
  <2>1. orders' = [i \in OrderIds |-> orders'[i]]
    BY <1>1 DEF Escalated
  <2> QED BY <1>6, <2>1
<1>8. Of("in_progress")' = {} /\ Of("done")' = Of("done")
  BY <1>2, <1>5 DEF Of
<1>9. Of("escalated")' = Of("escalated") \cup (Of("in_progress") \cup Of("pending"))
  BY <1>2, <1>5 DEF Of
<1>10. /\ Cardinality(Of("in_progress")) \in Nat /\ Cardinality(Of("done")) \in Nat
       /\ Cardinality(Of("escalated")) \in Nat /\ Cardinality({}) = 0
  BY FiniteOrders, FS_EmptySet
<1>11. Cardinality(Of("escalated")') >= Cardinality(Of("escalated")) + Cardinality(Of("in_progress"))
  <2>1. PICK U : U = Of("escalated") \cup Of("in_progress")
    OBVIOUS
  <2>2. Of("escalated") \cap Of("in_progress") = {}
    BY DEF Of
  <2>3. Cardinality(U) = Cardinality(Of("escalated")) + Cardinality(Of("in_progress"))
    BY <1>10, <2>1, <2>2, FiniteOrders, FS_Union
  <2>4. IsFiniteSet(Of("escalated")')
    BY <1>9, FiniteOrders, FS_Union
  <2>5. U \in SUBSET (Of("escalated")')
    BY <1>9, <2>1
  <2>6. Cardinality(U) <= Cardinality(Of("escalated")')
    BY <2>4, <2>5, FS_Subset
  <2> QED BY <2>3, <2>4, <2>6, <1>10, FS_CardinalityType
<1>12. run.used \in Nat /\ run'.used = run.used /\ run'.status = "blocked"
       /\ run' \in [status : {"running", "waiting", "blocked", "passed"}, used : Nat]
  BY <1>1 DEF IInv, TypeOK
<1>13. Cardinality(Of("escalated")') \in Nat
  BY <1>9, FiniteOrders, FS_Union, FS_CardinalityType
<1>14. Executed <= run.used /\ run.used <= Executed + Cardinality(Of("escalated"))
  BY DEF IInv, RoundsFit
<1>15. Executed' <= run'.used /\ run'.used <= Executed' + Cardinality(Of("escalated")')
  <2>1. /\ Executed' = Cardinality(Of("done"))
        /\ Executed = Cardinality(Of("in_progress")) + Cardinality(Of("done"))
    BY <1>8, <1>10 DEF Executed
  <2> QED BY <1>10, <1>11, <1>12, <1>13, <1>14, <2>1
<1>16. questions' \in [QuestionIds -> QuestionRow] /\ comment' \in CommentRow /\ attempt' \in Nat
  BY <1>1 DEF IInv, TypeOK
<1> QED BY <1>1, <1>6, <1>7, <1>8, <1>12, <1>15, <1>16, OutcomeFits

LEMMA PassStep ==
  ASSUME IInv, record_stage_outcome, Record_pass
  PROVE  IInv'
<1>1. /\ driver.pc = "record" /\ driver.action = "pass" /\ driver' = IdleDriver
      /\ run' = [run EXCEPT !.status = "passed"]
      /\ UNCHANGED <<branch, questions, comment, orders, attempt, requests, events>>
  BY DEF record_stage_outcome, Record_pass
<1>2. Of("in_progress") = {} /\ \A t : Of(t)' = Of(t)
  BY <1>1 DEF IInv, RoundsFit, Of
<1>3. run.used \in Nat /\ run'.used = run.used
      /\ run' \in [status : {"running", "waiting", "blocked", "passed"}, used : Nat]
  BY <1>1 DEF IInv, TypeOK
<1>4. Executed' <= run'.used /\ run'.used <= Executed' + Cardinality(Of("escalated")')
  BY <1>2, <1>3 DEF IInv, RoundsFit, Executed
<1>5. \A i \in OrderIds : IF orders[i] = NoOrder THEN orders'[i] = NoOrder
                          ELSE orders'[i] \in Order /\ orders'[i].key = orders[i].key
  BY <1>1 DEF IInv, TypeOK
<1>6. /\ orders' \in [OrderIds -> Order \cup {NoOrder}]
      /\ questions' \in [QuestionIds -> QuestionRow] /\ comment' \in CommentRow /\ attempt' \in Nat
  BY <1>1 DEF IInv, TypeOK
<1> QED BY <1>1, <1>2, <1>3, <1>4, <1>5, <1>6, OutcomeFits

LEMMA WaitStep ==
  ASSUME IInv, record_stage_outcome, Record_wait
  PROVE  IInv'
<1>1. /\ driver' = IdleDriver /\ run' = [run EXCEPT !.status = "waiting"] /\ attempt' = attempt + 1
      /\ questions' = Resolved(store_questions(questions))
      /\ UNCHANGED <<branch, requests, events>>
  BY DEF record_stage_outcome, Record_wait
<1>2. PICK stored : stored = store_questions(questions)
  OBVIOUS
<1>3. stored \in [QuestionIds -> QuestionRow]
  <2>1. [status |-> "open"] \in QuestionRow
    BY DEF QuestionRow, Question, QuestionStatus
  <2> QED BY <1>2, <2>1 DEF store_questions, add_question, IInv, TypeOK
<1>4. \A q \in QuestionIds : Moved(stored[q], QUESTION_STATUS_TRANSITIONS, "resolved") \in QuestionRow
  BY <1>3, MovedQuestion DEF QuestionStatus
<1>5. questions' \in [QuestionIds -> QuestionRow]
  BY <1>1, <1>2, <1>3, <1>4 DEF Resolved
<1>6. run.used \in Nat /\ run'.used = run.used /\ run'.status = "waiting" /\ attempt' \in Nat
      /\ run' \in [status : {"running", "waiting", "blocked", "passed"}, used : Nat]
  BY <1>1 DEF IInv, TypeOK
<1>7. Executed <= run.used /\ run.used <= Executed + Cardinality(Of("escalated"))
  BY DEF IInv, RoundsFit
<1>8. CASE active_rework_order = 0
  <2>1. Of("in_progress") = {}
    <3>1. Of("in_progress") # {} => active_rework_order \in OrderIds
      BY OldestIsIn DEF active_rework_order, Of
    <3> QED BY <1>8, <3>1, Bounds DEF OrderIds
  <2>2. UNCHANGED <<orders, comment>>
    BY <1>8 DEF Record_wait
  <2>3. \A t : Of(t)' = Of(t)
    BY <2>2 DEF Of
  <2>4. Executed' <= run'.used /\ run'.used <= Executed' + Cardinality(Of("escalated")')
    BY <1>6, <1>7, <2>3 DEF Executed
  <2>5. \A i \in OrderIds : IF orders[i] = NoOrder THEN orders'[i] = NoOrder
                            ELSE orders'[i] \in Order /\ orders'[i].key = orders[i].key
    BY <2>2 DEF IInv, TypeOK
  <2>6. orders' \in [OrderIds -> Order \cup {NoOrder}] /\ comment' \in CommentRow
    BY <2>2 DEF IInv, TypeOK
  <2> QED BY <1>1, <1>5, <1>6, <2>1, <2>3, <2>4, <2>5, <2>6, OutcomeFits
<1>9. CASE active_rework_order # 0
  <2>1. PICK x : x = active_rework_order
    OBVIOUS
  <2>2. x \in Of("in_progress")
    BY <1>9, <2>1, OldestIsIn DEF active_rework_order, Of
  <2>3. x \in OrderIds /\ orders[x] \in Order /\ orders[x].status = "in_progress"
    BY <2>2, OrderRow DEF IInv, Of, ReworkOrderStatus
  <2>4. PICK o : o = finish(orders[x])
    OBVIOUS
  <2>5. o \in Order /\ o.status = "done" /\ o.key = orders[x].key
    BY <2>3, <2>4, MovedOrder
  <2>6. orders' = [orders EXCEPT ![x] = o] /\ comment' = mark_addressed
    BY <1>9, <2>1, <2>4 DEF Record_wait
  <2>7. \A i \in OrderIds : orders'[i] = IF i = x THEN o ELSE orders[i]
    BY <2>6 DEF IInv, TypeOK
  <2>8. orders' \in [OrderIds -> Order \cup {NoOrder}]
    BY <2>5, <2>6 DEF IInv, TypeOK
  <2>9. orders[x] # NoOrder /\ \A i \in OrderIds : orders[i] \in Order \/ orders[i] = NoOrder
    BY <2>3, OrderRow DEF IInv, NoOrder, Order, ReworkOrderStatus
  <2>10. \A i \in OrderIds : IF orders[i] = NoOrder THEN orders'[i] = NoOrder
                             ELSE orders'[i] \in Order /\ orders'[i].key = orders[i].key
    BY <2>5, <2>7, <2>9
  <2>11. comment' \in CommentRow
    <3>1. comment \in CommentRow /\ Moved(comment, COMMENT_STATUS_TRANSITIONS, "addressed") \in CommentRow
      BY MovedComment DEF IInv, TypeOK, CommentStatus
    <3> QED BY <2>6, <3>1 DEF mark_addressed
  <2>12. Of("in_progress") = {x}
    BY <2>2 DEF IInv, RoundsFit
  <2>13. Of("in_progress")' = {}
    BY <2>3, <2>5, <2>7, <2>12 DEF Of
  <2>14. Of("done")' = Of("done") \cup {x} /\ x \notin Of("done") /\ Of("escalated")' = Of("escalated")
    BY <2>3, <2>5, <2>7 DEF Of
  <2>15. /\ Cardinality(Of("in_progress")) = 1 /\ Cardinality({}) = 0
         /\ Cardinality(Of("done") \cup {x}) = Cardinality(Of("done")) + 1
         /\ Cardinality(Of("done")) \in Nat /\ Cardinality(Of("escalated")) \in Nat
    BY <2>12, <2>14, FiniteOrders, FS_EmptySet, FS_Singleton, FS_AddElement
  <2>16. Executed' <= run'.used /\ run'.used <= Executed' + Cardinality(Of("escalated")')
    BY <1>6, <1>7, <2>13, <2>14, <2>15 DEF Executed
  <2> QED BY <1>1, <1>5, <1>6, <2>8, <2>10, <2>11, <2>13, <2>16, OutcomeFits
<1> QED BY <1>8, <1>9

(***************************************************************************)
(* The theorems                                                            *)
(***************************************************************************)

\* The invariant of the discussion: the types, the numbers of the orders, their keys and the
\* markers of the commits, and the account of the rounds.
THEOREM Invariance == Spec => []IInv
<1>1. Init => IInv
  <2> SUFFICES ASSUME Init PROVE IInv
    OBVIOUS
  <2>1. NoComment \in CommentRow
    BY DEF NoComment, CommentRow
  <2>2. NoOrder.status = "none"
    BY DEF NoOrder
  <2>3. run \in [status : {"running", "waiting", "blocked", "passed"}, used : Nat]
        /\ run.used = 0 /\ run.status = "running"
    BY DEF Init
  <2>4. TypeOK
    BY <2>1, <2>3, Bounds, Idles, IdleDriverType DEF Init, TypeOK, QuestionRow
  <2>5. Stored = {} /\ Sending = {}
    BY Idles DEF Init, Stored, Sending
  <2>6. OrdersAreNumbered /\ OneOrderPerKey
    BY <2>5 DEF OrdersAreNumbered, OneOrderPerKey
  <2>7. head = 0
    BY DEF Init, head
  <2>8. OneCommitPerMarker
    BY <2>5, <2>7, Idles DEF Init, OneCommitPerMarker
  <2>9. Of("in_progress") = {} /\ Of("done") = {} /\ Of("escalated") = {}
    BY <2>2 DEF Init, Of
  <2>10. driver.pc = "idle"
    BY IdleDriverType DEF Init
  <2>11. RoundsFit
    BY <2>3, <2>9, <2>10, FS_EmptySet DEF RoundsFit, Executed
  <2> QED BY <2>4, <2>6, <2>8, <2>11 DEF IInv
<1>2. IInv /\ [Next]_vars => IInv'
  <2> SUFFICES ASSUME IInv, [Next]_vars PROVE IInv'
    OBVIOUS
  <2>1. UNCHANGED vars => IInv'
    BY DEF vars, IInv, TypeOK, OrdersAreNumbered, OneOrderPerKey, OneCommitPerMarker, RoundsFit,
           Executed, Of, Stored, Sending, head, edit_effect_key
  <2>2. record_stage_outcome => IInv'
    BY ReworkStep, StopStep, PassStep, WaitStep DEF record_stage_outcome
  <2>3. ASSUME NEW c \in Clients, \E text \in Texts, base \in {0, head} : Check_edit(c, text, base)
        PROVE  IInv'
    BY <2>3, CheckEditStep
  <2> QED
    BY <2>1, <2>2, <2>3, NextCases, ReadQuestionStep, CreateCommentStep, ReadCommentStep,
       CheckReworkStep, CheckGateStep, AnswerStep, TransitionStep, SendStep, DecideStep,
       ScanEditStep, PublishEditStep, EditStep, RequestKilledStep, LoadStep, ExecuteStep, DriverKilledStep
<1> QED BY <1>1, <1>2, PTL DEF Spec

\* record_stage_outcome: at most one order is executed at a time, and every round of the
\* budget went to an order that is under way, done or escalated, however many requests
\* passed the check for a pending order together.
THEOREM RoundsAlwaysSpentOnOrders == Spec => []RoundsAreSpentOnOrders
<1>1. IInv => RoundsAreSpentOnOrders
  <2> SUFFICES ASSUME IInv PROVE RoundsAreSpentOnOrders
    OBVIOUS
  <2>1. Cardinality(Of("in_progress")) <= 1
    <3>1. CASE Of("in_progress") = {}
      BY <3>1, FS_EmptySet
    <3>2. CASE Of("in_progress") # {}
      <4>1. PICK x \in Of("in_progress") : TRUE
        BY <3>2
      <4>2. Of("in_progress") = {x}
        BY <4>1 DEF IInv, RoundsFit
      <4> QED BY <4>2, FS_Singleton
    <3> QED BY <3>1, <3>2
  <2> QED BY <2>1 DEF RoundsAreSpentOnOrders, IInv, RoundsFit, Executed
<1> QED BY <1>1, Invariance, PTL

\* derived_id, add_rework_order, publish_commit: one order per idempotency key and one commit
\* per attempt of the agent, for any number of repeated requests and killed advances; an edit
\* gets a second commit only when it looked for its marker before the first one landed.
THEOREM KeysAlwaysCreateOnce == Spec => []KeysCreateOnce
<1>1. IInv => KeysCreateOnce
  BY DEF IInv, KeysCreateOnce, OneOrderPerKey, OneCommitPerMarker
<1> QED BY <1>1, Invariance, PTL
=============================================================================
