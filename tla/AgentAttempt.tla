---------------------------- MODULE AgentAttempt ----------------------------
(***************************************************************************)
(* The attempts of one stage operation (stages/agent.py): the agent works  *)
(* in the Worktree, then its delta becomes one commit on the task branch   *)
(* and one open change request through the GitHub REST API.  Every call is *)
(* a step; its answer may be lost after the effect happened.  An attempt   *)
(* that is blocked or killed is made again with the same keys, in the same *)
(* process (the adapter remembers) or in a new one.  Meanwhile people push *)
(* to the branch, merge or close the request and delete the branch.        *)
(***************************************************************************)
EXTENDS Worktree, Sequences, SequencesExt

CONSTANTS
    PageSize,     \* items of the one page a listing reads
    MaxAttempts, MaxMoves   \* bounds

\* The changes of a delta; the commits of people carry changes of no interest here.
Deltas == {None} \cup UNION {[P -> Contents] : P \in SUBSET Paths}
Commits == [by : {"factory", "human"}, delta : Deltas]

ASSUME AttemptAssumption ==
    /\ PageSize \in Nat \ {0} /\ MaxAttempts \in Nat /\ MaxMoves \in Nat
    /\ None \notin Seq(Commits)

VARIABLES
    branch,    \* task branch: the commits above the base, or None
    pulls,     \* status of every change request of the change, in order
    mem,       \* the adapter's memory: [branch, pull, opened]
    changes,   \* what collect_changes returned
    base,      \* the branch as `_head` read it
    sha,       \* the branch up to the commit of this operation
    attempts, moves

scm    == <<branch, pulls>>
locals == <<mem, changes, base, sha>>
avars  == <<scm, locals, attempts, moves>>
vars   == <<wvars, avars>>

Cold == [branch |-> FALSE, pull |-> 0, opened |-> 0]

Factory(delta) == [by |-> "factory", delta |-> delta]
Human == [by |-> "human", delta |-> None]

Init ==
    /\ WorktreeInit
    /\ branch = None /\ pulls = <<>>
    /\ mem = Cold /\ changes = None /\ base = None /\ sha = None
    /\ attempts = 0 /\ moves = 0

Idle(v) == pc' = v /\ UNCHANGED <<worktree, command, edits>>

\* The call fails: no answer, or a status the client does not expect.
Call_fails == Fault /\ Idle("idle")

Step(v) == Idle(v) /\ UNCHANGED counters

(***************************************************************************)
(* The attempt                                                             *)
(***************************************************************************)

\* A new process starts with an empty memory.
Start ==
    /\ pc = "idle" /\ attempts < MaxAttempts /\ attempts' = attempts + 1
    /\ mem' \in {mem, Cold}
    /\ changes' = None /\ base' = None /\ sha' = None
    /\ Step("prepare")
    /\ UNCHANGED <<scm, moves>>

\* run_stage: the agent is done, or the harness has no result.
Harness_ends ==
    /\ pc = "work"
    /\ Step("collect") \/ Call_fails
    /\ UNCHANGED avars

\* Nothing to publish stops the attempt before any effect.  (The review stage falls
\* back to the request under review: RunDriver's Execute_other.)
Collect ==
    /\ pc = "collect"
    /\ IF _porcelain_paths = {} THEN Step("idle") /\ UNCHANGED changes
       ELSE Step("branch") /\ changes' = collect_changes
    /\ UNCHANGED <<scm, mem, base, sha, attempts, moves>>

(***************************************************************************)
(* GitHubRepository                                                        *)
(***************************************************************************)

\* ensure_branch: a remembered key answers at once, an existing branch is used.
Ensure_branch ==
    /\ pc = "branch"
    /\ \/ /\ Step(IF mem.branch \/ branch # None THEN "scan" ELSE "create")
          /\ mem' = [mem EXCEPT !.branch = @ \/ branch # None]
       \/ Call_fails /\ UNCHANGED mem
    /\ UNCHANGED <<scm, changes, base, sha, attempts, moves>>

\* A POST, PATCH or PUT with effect E when Allowed: it is refused, fails on its
\* way, or happens, and then the answer arrives or is lost.
Mutating(Allowed, E, Unchanged, next) ==
    \/ ~Allowed /\ Step("idle") /\ Unchanged
    \/ Call_fails /\ Unchanged
    \/ Allowed /\ E /\ (Step(next) \/ Call_fails)

Create_branch ==
    /\ pc = "create"
    /\ Mutating(branch = None, branch' = <<>>, UNCHANGED branch, "scan")
    /\ mem' = [mem EXCEPT !.branch = pc' = "scan"]
    /\ UNCHANGED <<pulls, changes, base, sha, attempts, moves>>

Page(s) == IF Len(s) <= PageSize THEN s ELSE SubSeq(s, Len(s) - PageSize + 1, Len(s))

\* Mutant: only the head of the branch is looked at.
_marker_commit_head == branch # None /\ branch # <<>> /\ Last(branch).by = "factory"

\* _marker_commit: a commit of this operation among the latest of the branch.
_marker_commit ==
    branch # None /\ \E i \in DOMAIN Page(branch) : Page(branch)[i].by = "factory"

Upto_marker == SubSeq(branch, 1, CHOOSE i \in DOMAIN branch : branch[i].by = "factory")

\* publish_commit first looks for the commit it may already have made.
Scan ==
    /\ pc = "scan"
    /\ \/ /\ Step(IF _marker_commit THEN "find" ELSE "head")
          /\ sha' = IF _marker_commit THEN Upto_marker ELSE sha
       \/ Call_fails /\ UNCHANGED sha
    /\ UNCHANGED <<scm, mem, changes, base, attempts, moves>>

\* _head: a missing branch is a KeyError.
Read_head ==
    /\ pc = "head"
    /\ \/ /\ Step(IF branch = None THEN "idle" ELSE "patch")
          /\ base' = branch
       \/ Call_fails /\ UNCHANGED base
    /\ UNCHANGED <<scm, mem, changes, sha, attempts, moves>>

\* The ref moves only forward: to a child of what is its head now.
Fast_forward == branch = base

\* Tree and commit objects, on top of the head that was read, change nothing
\* visible; moving the ref does.
_create_tree == Append(base, Factory(changes))

Publish_commit ==
    /\ pc = "patch"
    /\ Mutating(Fast_forward, branch' = _create_tree, UNCHANGED branch, "find")
    /\ sha' = IF pc' = "find" THEN branch' ELSE sha
    /\ UNCHANGED <<pulls, mem, changes, base, attempts, moves>>

(***************************************************************************)
(* GitHubPullRequests                                                      *)
(***************************************************************************)

\* find_existing: the remembered request, else the newest of the change.
Found ==
    IF mem.pull # 0 THEN mem.pull ELSE Len(pulls)

\* An open request carries the commit; a merged or closed one does not count.
Find_existing ==
    /\ pc = "find"
    /\ \/ /\ mem' = [mem EXCEPT !.pull = Found]
          /\ Step(IF Found # 0 /\ pulls[Found] = "open" THEN "parked" ELSE "open")
       \/ Call_fails /\ UNCHANGED mem
    /\ UNCHANGED <<scm, changes, base, sha, attempts, moves>>

OpenPulls == {i \in DOMAIN pulls : pulls[i] = "open"}

_find_by_head == OpenPulls

\* _record: the request is remembered by its change and by the key.
_record(n) == [mem EXCEPT !.pull = n, !.opened = n]

\* open: a remembered key answers with its request, whatever became of it; an
\* open request of the branch is recorded.
Open_request ==
    /\ pc = "open"
    /\ \/ /\ Step(IF mem.opened # 0 \/ _find_by_head # {} THEN "parked" ELSE "ensure_head")
          /\ mem' = IF mem.opened # 0 \/ _find_by_head = {} THEN mem
                    ELSE _record(CHOOSE i \in _find_by_head : TRUE)
       \/ Call_fails /\ UNCHANGED mem
    /\ UNCHANGED <<scm, changes, base, sha, attempts, moves>>

\* _ensure_head: a branch deleted meanwhile comes back at the commit.
Ensure_head ==
    /\ pc = "ensure_head"
    /\ \/ branch # None /\ Step("post") /\ UNCHANGED branch
       \/ branch # None /\ Call_fails /\ UNCHANGED branch
       \/ branch = None /\ Mutating(TRUE, branch' = sha, UNCHANGED branch, "post")
    /\ UNCHANGED <<pulls, locals, attempts, moves>>

\* The provider accepts one open request of a branch that differs from its base.
Post_pull ==
    /\ pc = "post"
    /\ Mutating(OpenPulls = {} /\ branch \notin {None, <<>>},
                pulls' = Append(pulls, "open"), UNCHANGED pulls, "parked")
    /\ mem' = IF pc' = "parked" THEN _record(Len(pulls')) ELSE mem
    /\ UNCHANGED <<branch, changes, base, sha, attempts, moves>>

(***************************************************************************)
(* People at the provider                                                  *)
(***************************************************************************)

Move == moves < MaxMoves /\ moves' = moves + 1 /\ UNCHANGED <<wvars, locals, attempts>>

Push_human ==
    /\ Move /\ branch # None /\ branch' = Append(branch, Human) /\ UNCHANGED pulls

\* The branch is deleted after its request was merged or closed, or at once.
Settle_request ==
    /\ Move
    /\ \E i \in OpenPulls, s \in {"merged", "closed"} :
           pulls' = [pulls EXCEPT ![i] = s]
    /\ UNCHANGED branch

Delete_branch ==
    /\ Move /\ branch # None /\ OpenPulls = {} /\ branch' = None /\ UNCHANGED pulls

(***************************************************************************)

Attempt ==
    \/ Mint /\ UNCHANGED avars
    \/ Running /\ UNCHANGED avars
    \/ Harness_ends \/ Collect \/ Ensure_branch \/ Create_branch \/ Scan \/ Read_head
    \/ Publish_commit \/ Find_existing \/ Open_request \/ Ensure_head \/ Post_pull

Next ==
    \/ Start \/ Attempt
    \/ Tools /\ UNCHANGED avars
    \/ (Command_effect \/ Child_ends) /\ UNCHANGED avars
    \/ (Orphan_effect \/ Lose_workspace) /\ UNCHANGED avars
    \/ pc # "parked" /\ Kill /\ UNCHANGED avars
    \/ Push_human \/ Settle_request \/ Delete_branch

Spec == Init /\ [][Next]_vars

\* An attempt that can go on goes on: its HTTP calls have timeouts, a command is
\* timed out in the end, and the git steps, which have no timeout, are assumed to
\* return.  Nothing is assumed of what commands do, of children or of retries.
FairSpec == Spec /\ WF_vars(Attempt)

(***************************************************************************)
(* Properties                                                              *)
(***************************************************************************)

Places == {"idle", "prepare", "mint", "prune", "add", "link", "checkout", "work",
           "command", "drain", "collect", "branch", "create", "scan", "head", "patch",
           "find", "open", "ensure_head", "post", "parked"}

\* Type invariant: nothing works in the directory before it is linked to the
\* mirror at the pinned revision, and the mirror never refuses the mint.
AttemptTypeOK ==
    /\ pc \in Places
    /\ pc \in Places \ {"idle", "prepare", "mint", "prune", "add", "link"}
           => dir = "linked" /\ registered
    /\ pc = "add" => ~registered
    /\ files \in [Paths -> Contents \cup {None}]
    /\ mem.pull \in 0 .. Len(pulls) /\ mem.opened \in 0 .. Len(pulls)

\* prepare_workspace: "agent edits survive a retry".  What a tool or a command
\* last gave a path is what the path holds, through every kill, every blocked
\* attempt and every preparation of the workspace for a retry.
EditsSurvive == \A p \in Paths : edits[p] # Untouched => files[p] = edits[p]

\* What is collected, laid over the pinned revision, is every edit that is not a
\* deletion and the pinned content of every other file: also in a workspace that
\* a kill left half checked out.
DeltaIsTheEdits ==
    pc = "collect" /\ pc' = "branch" =>
        \A p \in Paths :
            LET published == IF p \in DOMAIN changes' THEN changes'[p] ELSE Base[p] IN
            published = IF edits[p] \in {Untouched, None} THEN Base[p] ELSE edits[p]

\* No publication removes a commit of somebody else from the branch.
NothingIsOverwritten == branch # None /\ branch' # None => IsPrefix(branch, branch')

\* What publish_commit lands is the work of the agent on top of the work of others.
PublicationIsExact == [][DeltaIsTheEdits /\ NothingIsOverwritten]_vars

Landed == IF branch = None THEN 0 ELSE Cardinality({i \in DOMAIN branch : branch[i].by = "factory"})

Effect == INSTANCE PublishOnce WITH landed <- Landed, open <- Cardinality(OpenPulls)

\* The attempts of one operation implement PublishOnce: lost answers, kills between
\* any two calls and repeats in warm and cold processes never land a second commit
\* or open a second request.
PublishesOnce == Effect!Spec

\* A background child of a command holds its pipes and the drain after the
\* timeout has no timeout of its own.
HeldByChild == pc = "drain" /\ detached

\* Every attempt ends, waiting or blocked, also when a command hangs; the one
\* exception is an attempt held by a background child of its command.
AttemptEnds == pc \notin {"idle", "parked"} ~> pc \in {"idle", "parked"} \/ HeldByChild
=============================================================================
