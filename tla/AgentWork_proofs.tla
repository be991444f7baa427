------------------------- MODULE AgentWork_proofs -------------------------
(***************************************************************************)
(* Theorems about the work of agents: what their attempts do to a          *)
(* workspace and a provider (AgentAttempt), and what their calls may spend *)
(* (BudgetCoordinator).                                                    *)
(*                                                                         *)
(* Attempts, for any files, contents and bounds: edits survive retries,    *)
(* what is published is what was edited, and the attempts of an operation  *)
(* implement PublishOnce.  The invariant has two halves.  WInv is about    *)
(* the workspace: whatever still may write to it (a command, an orphan)    *)
(* exists only while the directory is linked and checked out, and a path   *)
(* nobody wrote holds the pinned content or nothing.  PInv is about the    *)
(* provider: the branch has at most one commit of the operation and not    *)
(* more commits above it than people made, so that one page of a listing   *)
(* shows it as long as people push less than a page.                       *)
(*                                                                         *)
(* Budget, for any roles, keys, limits and usages: BInv ties the ledger to *)
(* the calls that were charged and leaves room at the limit for one call   *)
(* in flight per role.  It needs what sums over finite sets are, which the *)
(* first lemmas of that part show.                                         *)
(***************************************************************************)
EXTENDS AgentAttempt, BudgetCoordinator, FiniteSetTheorems, WellFoundedInduction, TLAPS

(***************************************************************************)
(* The invariant                                                           *)
(***************************************************************************)

Tree == [Paths -> Contents \cup {None}]
Running_command == [effect : Effects, state : {"running", "exited", "hung"}]

WorkspaceTypeOK ==
    /\ pc \in Places
    /\ dir \in {"absent", "bare", "linked"}
    /\ registered \in BOOLEAN /\ index \in BOOLEAN /\ detached \in BOOLEAN
    /\ head \in Tree /\ files \in Tree
    /\ edits \in [Paths -> Contents \cup {None, Untouched}]
    /\ cmd \in Running_command \cup {None}
    /\ orphan \in Effects \cup {None}

Unlinked == {"mint", "prune", "add", "link"}
InUse == Places \ ({"idle", "prepare"} \cup Unlinked)
Commanding == {"command", "drain"}

\* Where the attempt is tells what is on the disk and what runs in it.
PlacesFit ==
    /\ pc \in {"mint", "prune", "add"} => dir = "absent"
    /\ pc = "link" => dir = "bare"
    /\ pc \in InUse => dir = "linked"
    /\ pc = "add" => ~registered
    /\ dir = "linked" => registered
    /\ cmd # None => pc \in Commanding
    /\ pc \in Commanding => cmd \in Running_command
    /\ dir # "linked" \/ pc = "checkout" =>
           orphan = None /\ \A p \in Paths : edits[p] = Untouched

\* What the files hold, by what was written to them.
FilesFit ==
    /\ EditsSurvive
    /\ \A p \in Paths : edits[p] = Untouched => files[p] \in {Base[p], None}
    /\ ~MayCommit => head = Base

WInv == WorkspaceTypeOK /\ PlacesFit /\ FilesFit

Branches == Seq(Commits) \cup {None}
Statuses == {"open", "merged", "closed"}
Memory == [branch : BOOLEAN, pull : Nat, opened : Nat]

ProviderTypeOK ==
    /\ branch \in Branches /\ base \in Branches /\ sha \in Branches
    /\ pc = "patch" => base # None
    /\ pulls \in Seq(Statuses)
    /\ mem \in Memory /\ mem.pull <= Len(pulls) /\ mem.opened <= Len(pulls)
    /\ changes \in Deltas
    /\ attempts \in Nat /\ moves \in 0 .. MaxMoves

\* Where the commits of the operation are in b.
Marked(b) == IF b = None THEN {} ELSE {i \in DOMAIN b : b[i].by = "factory"}

\* At most one commit of the operation, with only commits of people above it.
OneCommit ==
    /\ \A i, j \in Marked(branch) : i = j
    /\ \A i \in Marked(branch) : Len(branch) - i <= moves

After == {"find", "open", "ensure_head", "post"}

\* What the attempt knows: that nothing landed yet, or what did.
AttemptKnows ==
    /\ pc \in {"head", "patch"} => Marked(branch) = {}
    /\ pc \in After =>
           /\ sha # None /\ Marked(sha) = {Len(sha)}
           /\ branch # None => Marked(branch) # {}

OneOpen == \A i, j \in OpenPulls : i = j

TInv == WInv /\ ProviderTypeOK

PInv == OneCommit /\ AttemptKnows /\ OneOpen

(***************************************************************************)
(* The workspace                                                           *)
(***************************************************************************)

LEMMA WInvInit == ASSUME Init PROVE WInv
BY WorktreeAssumption
DEF Init, WorktreeInit, WInv, WorkspaceTypeOK, PlacesFit, FilesFit, EditsSurvive, Places,
    Tree, Unlinked, InUse, Commanding, Empty, Untouched

\* What a command may do: write a file, delete one, commit where it may, or nothing.
LEMMA ApplyCases ==
  ASSUME NEW e \in Effects, Apply(e)
  PROVE  \/ \E p \in Paths, c \in Contents \cup {None} :
              /\ files' = [files EXCEPT ![p] = c]
              /\ edits' = [edits EXCEPT ![p] = c]
              /\ UNCHANGED <<head, index>>
         \/ MayCommit /\ head' = files /\ index' = TRUE /\ UNCHANGED <<files, edits>>
         \/ UNCHANGED <<files, edits, head, index>>
<1>1. CASE e.kind = "write"
  <2>1. /\ files' = [files EXCEPT ![e.path] = e.content]
        /\ edits' = [edits EXCEPT ![e.path] = e.content]
        /\ UNCHANGED <<head, index>>
    BY <1>1, Zenon DEF Apply
  <2>2. e.path \in Paths /\ e.content \in Contents
    BY <1>1 DEF Effects
  <2> QED BY <2>1, <2>2
<1>2. CASE e.kind = "delete"
  <2>1. /\ files' = [files EXCEPT ![e.path] = None]
        /\ edits' = [edits EXCEPT ![e.path] = None]
        /\ UNCHANGED <<head, index>>
    <3>1. e.kind # "write" BY <1>2
    <3> QED BY <1>2, <3>1, Zenon DEF Apply
  <2>2. e.path \in Paths
    BY <1>2 DEF Effects
  <2> QED BY <2>1, <2>2
<1>3. CASE e.kind = "commit"
  <2>1. head' = files /\ index' = TRUE /\ UNCHANGED <<files, edits>>
    <3>1. e.kind # "write" /\ e.kind # "delete" BY <1>3
    <3> QED BY <1>3, <3>1, Zenon DEF Apply
  <2>2. MayCommit
    BY <1>3 DEF Effects
  <2> QED BY <2>1, <2>2
<1>4. CASE e.kind \notin {"write", "delete", "commit"}
  <2>1. e.kind # "write" /\ e.kind # "delete" /\ e.kind # "commit" BY <1>4
  <2> QED BY <2>1, Zenon DEF Apply
<1> QED BY <1>1, <1>2, <1>3, <1>4

\* Whatever a command does keeps the tie between edits and files.
LEMMA ApplyKeeps ==
  ASSUME WorkspaceTypeOK, FilesFit, NEW e \in Effects, Apply(e)
  PROVE  /\ FilesFit'
         /\ head' \in Tree /\ files' \in Tree /\ index' \in BOOLEAN
         /\ edits' \in [Paths -> Contents \cup {None, Untouched}]
<1>1. CASE \E p \in Paths, c \in Contents \cup {None} :
              /\ files' = [files EXCEPT ![p] = c]
              /\ edits' = [edits EXCEPT ![p] = c]
              /\ UNCHANGED <<head, index>>
  <2>1. PICK p \in Paths, c \in Contents \cup {None} :
              /\ files' = [files EXCEPT ![p] = c]
              /\ edits' = [edits EXCEPT ![p] = c]
              /\ UNCHANGED <<head, index>>
    BY <1>1
  <2>2. c = Untouched => c = None
    BY WorktreeAssumption DEF Untouched
  <2>3. /\ head' \in Tree /\ files' \in Tree /\ index' \in BOOLEAN
        /\ edits' \in [Paths -> Contents \cup {None, Untouched}]
    BY <2>1 DEF WorkspaceTypeOK, Tree
  <2>4. \A q \in Paths : IF q = p THEN files'[q] = c /\ edits'[q] = c
                                  ELSE files'[q] = files[q] /\ edits'[q] = edits[q]
    BY <2>1 DEF WorkspaceTypeOK, Tree
  <2> QED BY <2>1, <2>2, <2>3, <2>4 DEF FilesFit, EditsSurvive
<1>2. CASE MayCommit /\ head' = files /\ index' = TRUE /\ UNCHANGED <<files, edits>>
  BY <1>2 DEF WorkspaceTypeOK, FilesFit, EditsSurvive
<1>3. CASE UNCHANGED <<files, edits, head, index>>
  BY <1>3 DEF WorkspaceTypeOK, FilesFit, EditsSurvive
<1> QED BY <1>1, <1>2, <1>3, ApplyCases

LEMMA MintWInv == ASSUME WInv, Mint PROVE WInv'
<1> USE DEF WInv, WorkspaceTypeOK, PlacesFit, FilesFit, EditsSurvive, Places, Unlinked,
            InUse, Commanding, command
<1>1. CASE prepare_workspace
  <2>1. CASE dir = "linked"
    BY <1>1, <2>1 DEF prepare_workspace, _is_valid_worktree, counters
  <2>2. CASE dir # "linked"
    <3>1. /\ pc = "prepare" /\ pc' = "mint" /\ dir' = "absent" /\ files' = Empty
          /\ UNCHANGED <<registered, head, index, command, edits>>
      BY <1>1, <2>2 DEF prepare_workspace, _is_valid_worktree
    <3>2. Empty \in Tree /\ \A p \in Paths : Empty[p] = None
      BY DEF Empty, Tree
    <3> QED BY <3>1, <3>2, <2>2
  <2> QED BY <2>1, <2>2
<1>2. CASE Fetch
  BY <1>2 DEF Fetch, Blocked, worktree
<1>3. CASE Prune
  BY <1>3 DEF Prune
<1>4. CASE Add
  BY <1>4 DEF Add, Blocked
<1>5. CASE Link
  BY <1>5, WorktreeAssumption DEF Link, Tree
<1>6. CASE Checkout
  <2> DEFINE missing == {p \in Paths : Base[p] # None /\ files[p] = None}
  <2>1. CASE \E p \in missing : files' = [files EXCEPT ![p] = Base[p]] /\ UNCHANGED <<index, pc>>
    <3>1. PICK p \in missing : files' = [files EXCEPT ![p] = Base[p]] /\ UNCHANGED <<index, pc>>
      BY <2>1
    <3>2. UNCHANGED <<dir, registered, head, command, edits>> /\ pc = "checkout"
      BY <1>6 DEF Checkout
    <3>3. /\ files' \in Tree
          /\ \A q \in Paths : files'[q] \in {files[q], Base[q]}
      BY <3>1, WorktreeAssumption DEF Tree
    <3> QED BY <3>1, <3>2, <3>3
  <2>2. CASE index' = TRUE /\ pc' = "work" /\ UNCHANGED files
    BY <1>6, <2>2 DEF Checkout
  <2> QED BY <1>6, <2>1, <2>2 DEF Checkout
<1> QED BY <1>1, <1>2, <1>3, <1>4, <1>5, <1>6 DEF Mint

\* The steps that leave the disk and the commands alone and move between places of one kind.
LEMMA MoveWInv ==
  ASSUME WInv, UNCHANGED <<worktree, command, edits>>, pc' \in Places,
         \/ pc' = "idle" /\ pc \notin Commanding
         \/ pc' = "prepare" /\ pc = "idle"
         \/ pc \in InUse \ Commanding /\ pc' \in InUse \ (Commanding \cup {"checkout"})
         \/ pc' = pc
  PROVE  WInv'
BY DEF WInv, WorkspaceTypeOK, PlacesFit, FilesFit, EditsSurvive, Places, Unlinked,
       InUse, Commanding, command, worktree

LEMMA ToolsWInv == ASSUME WInv, Tools PROVE WInv'
<1>1. ASSUME NEW p \in Paths \ {PatchPath}, NEW c \in Contents, write_file(p, c) PROVE WInv'
  <2> DEFINE e == [kind |-> "write", path |-> p, content |-> c]
  <2>1. e \in Effects BY DEF Effects
  <2>2. Apply(e) /\ UNCHANGED <<dir, registered, pc, command>> /\ pc = "work"
    BY <1>1 DEF write_file, Call
  <2> HIDE DEF e
  <2>3. /\ FilesFit'
        /\ head' \in Tree /\ files' \in Tree /\ index' \in BOOLEAN
        /\ edits' \in [Paths -> Contents \cup {None, Untouched}]
    BY <2>1, <2>2, ApplyKeeps DEF WInv
  <2> QED BY <2>2, <2>3 DEF WInv, WorkspaceTypeOK, PlacesFit, Places, Unlinked, InUse, Commanding, command
<1>2. ASSUME NEW p \in Paths \ {PatchPath}, NEW c \in Contents, apply_patch(p, c) PROVE WInv'
  <2>1. PICK e \in Effects : Spawn(e)
    BY <1>2 DEF apply_patch, Effects
  <2>2. /\ files' = [files EXCEPT ![PatchPath] = c]
        /\ edits' = [edits EXCEPT ![PatchPath] = c]
        /\ UNCHANGED <<dir, registered, head, index>> /\ pc = "work"
    BY <1>2 DEF apply_patch, Call
  <2>3. /\ cmd' \in Running_command /\ pc' = "command" /\ UNCHANGED <<detached, orphan>>
    BY <2>1 DEF Spawn, Running_command
  <2>4. \A q \in Paths : IF q = PatchPath THEN files'[q] = c /\ edits'[q] = c
                                          ELSE files'[q] = files[q] /\ edits'[q] = edits[q]
    BY <2>2 DEF WInv, WorkspaceTypeOK, Tree
  <2>5. files' \in Tree /\ edits' \in [Paths -> Contents \cup {None, Untouched}]
    BY <2>2 DEF WInv, WorkspaceTypeOK, Tree
  <2>6. c # Untouched
    BY WorktreeAssumption DEF Untouched
  <2>7. FilesFit'
    BY <2>2, <2>4, <2>6 DEF WInv, FilesFit, EditsSurvive
  <2> QED
    BY <2>2, <2>3, <2>5, <2>7 DEF WInv, WorkspaceTypeOK, PlacesFit, Places, Unlinked, InUse, Commanding
<1>3. ASSUME NEW e \in Effects, run_command(e) PROVE WInv'
  <2>1. /\ cmd' \in Running_command /\ pc' = "command" /\ UNCHANGED <<detached, orphan>>
    BY <1>3 DEF run_command, Spawn, Running_command
  <2>2. UNCHANGED <<dir, registered, head, index, files, edits>> /\ pc = "work"
    BY <1>3 DEF run_command, Call, worktree
  <2> QED
    BY <2>1, <2>2 DEF WInv, WorkspaceTypeOK, PlacesFit, FilesFit, EditsSurvive, Places, Unlinked, InUse, Commanding
<1> QED BY <1>1, <1>2, <1>3 DEF Tools

LEMMA CommandWInv == ASSUME WInv, Command_effect \/ Child_ends \/ Running PROVE WInv'
<1>1. CASE Command_effect
  <2>1. cmd \in Running_command /\ cmd.effect \in Effects
    BY <1>1 DEF Command_effect, WInv, WorkspaceTypeOK, Running_command
  <2>2. /\ Apply(cmd.effect) /\ cmd' \in Running_command /\ detached' \in BOOLEAN
        /\ UNCHANGED <<dir, registered, pc, orphan>>
    BY <1>1, <2>1, WorktreeAssumption DEF Command_effect, Running_command
  <2>3. pc \in Commanding
    BY <1>1 DEF Command_effect, WInv, PlacesFit
  <2>4. /\ FilesFit'
        /\ head' \in Tree /\ files' \in Tree /\ index' \in BOOLEAN
        /\ edits' \in [Paths -> Contents \cup {None, Untouched}]
    BY <2>1, <2>2, ApplyKeeps DEF WInv
  <2> QED
    BY <2>2, <2>3, <2>4 DEF WInv, WorkspaceTypeOK, PlacesFit, Places, Unlinked, InUse, Commanding
<1>2. CASE Command_returns \/ Drained
  BY <1>2 DEF Command_returns, Drained, worktree, WInv, WorkspaceTypeOK, PlacesFit, FilesFit,
              EditsSurvive, Places, Unlinked, InUse, Commanding
<1>3. CASE Command_timeout
  <2>1. cmd \in Running_command
    BY <1>3 DEF Command_timeout, WInv, PlacesFit, Commanding
  <2>2. cmd' \in Running_command
    BY <1>3, <2>1 DEF Command_timeout, Running_command
  <2> QED
    BY <1>3, <2>2 DEF Command_timeout, worktree, WInv, WorkspaceTypeOK, PlacesFit, FilesFit,
              EditsSurvive, Places, Unlinked, InUse, Commanding
<1>4. CASE Child_ends
  BY <1>4 DEF Child_ends, worktree, WInv, WorkspaceTypeOK, PlacesFit, FilesFit, EditsSurvive
<1> QED BY <1>1, <1>2, <1>3, <1>4 DEF Running

LEMMA FaultsWInv == ASSUME WInv, Kill \/ Orphan_effect \/ Lose_workspace PROVE WInv'
<1>1. CASE Kill
  <2>1. /\ orphan' \in Effects \cup {None}
        /\ orphan' # orphan => pc \in Commanding
    BY <1>1 DEF Kill, WInv, WorkspaceTypeOK, PlacesFit, Running_command
  <2> QED
    BY <1>1, <2>1 DEF Kill, worktree, WInv, WorkspaceTypeOK, PlacesFit, FilesFit,
              EditsSurvive, Places, Unlinked, InUse, Commanding
<1>2. CASE Orphan_effect
  <2>1. orphan \in Effects /\ Apply(orphan)
    BY <1>2 DEF Orphan_effect, WInv, WorkspaceTypeOK
  <2>2. orphan' = None /\ UNCHANGED <<dir, registered, pc, cmd, detached>>
        /\ dir = "linked" /\ pc # "checkout"
    BY <1>2 DEF Orphan_effect, WInv, PlacesFit
  <2>3. /\ FilesFit'
        /\ head' \in Tree /\ files' \in Tree /\ index' \in BOOLEAN
        /\ edits' \in [Paths -> Contents \cup {None, Untouched}]
    BY <2>1, ApplyKeeps DEF WInv
  <2> QED
    BY <2>2, <2>3 DEF WInv, WorkspaceTypeOK, PlacesFit, Places, Unlinked, InUse, Commanding
<1>3. CASE Lose_workspace
  <2>1. Empty \in Tree /\ \A p \in Paths : Empty[p] = None
    BY DEF Empty, Tree
  <2>2. /\ edits' \in [Paths -> Contents \cup {None, Untouched}]
        /\ \A p \in Paths : edits'[p] = Untouched
    BY <1>3 DEF Lose_workspace
  <2> QED
    BY <1>3, <2>1, <2>2 DEF Lose_workspace, WInv, WorkspaceTypeOK, PlacesFit, FilesFit,
              EditsSurvive, Places, Unlinked, InUse, Commanding
<1> QED BY <1>1, <1>2, <1>3

(***************************************************************************)
(* The provider: types                                                     *)
(***************************************************************************)

LEMMA ColdMemory == Cold \in Memory /\ Cold.pull = 0 /\ Cold.opened = 0
BY DEF Cold, Memory

LEMMA ProviderTypeInit == ASSUME Init PROVE ProviderTypeOK
<1>1. None \in Branches /\ None \in Deltas
  BY DEF Branches, Deltas
<1>2. <<>> \in Seq(Statuses) /\ Len(<<>>) = 0
  OBVIOUS
<1> QED
  BY <1>1, <1>2, ColdMemory, AttemptAssumption DEF Init, WorktreeInit, ProviderTypeOK

LEMMA CommitTypes ==
  /\ Human \in Commits
  /\ \A d \in Deltas : Factory(d) \in Commits
  /\ \A b \in Seq(Commits), c \in Commits : Append(b, c) \in Seq(Commits)
<1>1. None \in Deltas BY DEF Deltas
<1>2. Human \in Commits
  BY <1>1 DEF Human, Commits
<1>3. \A d \in Deltas : Factory(d) \in Commits
  BY DEF Factory, Commits
<1>4. \A b \in Seq(Commits), c \in Commits : Append(b, c) \in Seq(Commits)
  OBVIOUS
<1> QED BY <1>2, <1>3, <1>4

LEMMA Recorded ==
  ASSUME mem \in Memory, NEW n \in Nat
  PROVE  _record(n) \in Memory /\ _record(n).pull = n /\ _record(n).opened = n
BY DEF Memory, _record

LEMMA CollectedIsDelta == ASSUME WInv PROVE collect_changes \in Deltas
<1>1. _porcelain_paths \in SUBSET Paths
  BY DEF _porcelain_paths
<1>2. \A p \in _porcelain_paths : files[p] \in Contents
  BY DEF _porcelain_paths, WInv, WorkspaceTypeOK, Tree
<1>3. collect_changes \in [_porcelain_paths -> Contents]
  BY <1>2 DEF collect_changes
<1> QED BY <1>1, <1>3 DEF Deltas

LEMMA MarkerType ==
  ASSUME ProviderTypeOK, _marker_commit
  PROVE  /\ branch \in Seq(Commits) /\ Marked(branch) # {}
         /\ \E i \in Marked(branch) : Upto_marker = SubSeq(branch, 1, i)
         /\ Upto_marker \in Seq(Commits)
<1>1. branch \in Seq(Commits) /\ branch # None
  BY DEF ProviderTypeOK, Branches, _marker_commit
<1>2. PICK j \in DOMAIN Page(branch) : Page(branch)[j].by = "factory"
  BY DEF _marker_commit
<1>3. \E i \in DOMAIN branch : branch[i].by = "factory"
  <2>1. CASE Len(branch) <= PageSize
    BY <1>2, <2>1 DEF Page
  <2>2. CASE ~(Len(branch) <= PageSize)
    <3> DEFINE n == Len(branch) - PageSize
    <3>1. n \in Nat /\ PageSize \in Nat \ {0} /\ Len(branch) \in Nat
      BY <1>1, <2>2, AttemptAssumption
    <3>2. Page(branch) = SubSeq(branch, n + 1, Len(branch))
      BY <2>2 DEF Page
    <3>3. j \in 1 .. Len(branch) - n /\ Page(branch)[j] = branch[n + j]
      <4>1. PICK m \in Nat : m = n
        BY <3>1
      <4>2. SubSeq(branch, m + 1, Len(branch)) = [l \in 1 .. Len(branch) - m |-> branch[m + l]]
        BY <1>1, <3>1, <4>1
      <4>3. Page(branch) = [l \in 1 .. Len(branch) - m |-> branch[m + l]]
        BY <3>2, <4>1, <4>2
      <4>4. j \in 1 .. Len(branch) - m
        BY <1>2, <4>3
      <4> QED BY <4>1, <4>3, <4>4
    <3>4. n + j \in DOMAIN branch
      BY <1>1, <3>1, <3>3
    <3> QED BY <1>2, <3>3, <3>4
  <2> QED BY <2>1, <2>2
<1>4. PICK i \in DOMAIN branch : branch[i].by = "factory" /\ Upto_marker = SubSeq(branch, 1, i)
  BY <1>3 DEF Upto_marker
<1>5. SubSeq(branch, 1, i) \in Seq(Commits)
  BY <1>1, <1>4
<1> QED BY <1>1, <1>4, <1>5 DEF Marked

\* Where the steps of the workspace lead.
LEMMA MintPlaces ==
  ASSUME Mint PROVE pc' \in {"idle", "mint", "prune", "add", "link", "checkout", "work"}
BY DEF Mint, prepare_workspace, Fetch, Prune, Add, Link, Checkout, Blocked

LEMMA RunningPlaces == ASSUME Running PROVE pc' \in {"work", "drain"}
BY DEF Running, Command_returns, Command_timeout, Drained

LEMMA ToolsPlaces == ASSUME Tools PROVE pc' \in {"work", "command"}
BY DEF Tools, write_file, apply_patch, run_command, Call, Spawn

\* Every step: types of the workspace and of the provider.
LEMMA StepTypes == ASSUME TInv, [Next]_vars PROVE TInv'
<1> USE DEF TInv
<1>i. InUse = {"checkout", "work", "command", "drain", "collect", "branch", "create", "scan",
              "head", "patch", "find", "open", "ensure_head", "post", "parked"}
  BY DEF InUse, Places, Unlinked
<1>t. ASSUME UNCHANGED avars, pc' # "patch" \/ pc' = pc PROVE ProviderTypeOK'
  BY <1>t DEF avars, scm, locals, ProviderTypeOK
<1>1. CASE Start
  <2>1. WInv'
    BY <1>1, MoveWInv DEF Start, Step, Idle, Places
  <2>2. ProviderTypeOK'
    <3>1. mem' \in Memory /\ mem'.pull <= Len(pulls) /\ mem'.opened <= Len(pulls)
      BY <1>1, ColdMemory DEF Start, ProviderTypeOK
    <3>2. None \in Branches /\ None \in Deltas
      BY DEF Branches, Deltas
    <3> QED BY <1>1, <3>1, <3>2 DEF Start, Step, Idle, ProviderTypeOK, scm
  <2> QED BY <2>1, <2>2
<1>2. CASE Mint /\ UNCHANGED avars
  BY <1>2, <1>t, MintWInv, MintPlaces
<1>3. CASE Running /\ UNCHANGED avars
  BY <1>3, <1>t, CommandWInv, RunningPlaces
<1>4. CASE Harness_ends
  <2>1. WInv'
    BY <1>4, <1>i, MoveWInv DEF Harness_ends, Step, Call_fails, Idle, Places, Commanding
  <2> QED BY <1>4, <2>1, <1>t DEF Harness_ends, Step, Call_fails, Idle
<1>5. CASE Collect
  <2>1. WInv'
    BY <1>5, <1>i, MoveWInv DEF Collect, Step, Idle, Places, Commanding
  <2>2. ProviderTypeOK'
    BY <1>5, CollectedIsDelta DEF Collect, Step, Call_fails, Idle, ProviderTypeOK, scm
  <2> QED BY <2>1, <2>2
<1>6. CASE Ensure_branch
  <2>1. WInv'
    BY <1>6, <1>i, MoveWInv DEF Ensure_branch, Step, Call_fails, Idle, Places, Commanding
  <2>2. ProviderTypeOK'
    BY <1>6 DEF Ensure_branch, Step, Call_fails, Idle, ProviderTypeOK, scm, Memory
  <2> QED BY <2>1, <2>2
<1>7. CASE Create_branch
  <2>1. WInv'
    BY <1>7, <1>i, MoveWInv DEF Create_branch, Mutating, Step, Call_fails, Idle, Places, Commanding
  <2>2. branch' \in Branches
    <3>1. branch' = branch \/ branch' = <<>>
      BY <1>7 DEF Create_branch, Mutating
    <3>2. <<>> \in Seq(Commits)
      OBVIOUS
    <3> QED BY <3>1, <3>2 DEF ProviderTypeOK, Branches
  <2>3. ProviderTypeOK'
    BY <1>7, <2>2 DEF Create_branch, Mutating, Step, Call_fails, Idle, ProviderTypeOK, Memory
  <2> QED BY <2>1, <2>3
<1>8. CASE Scan
  <2>1. WInv'
    BY <1>8, <1>i, MoveWInv DEF Scan, Step, Call_fails, Idle, Places, Commanding
  <2>2. ProviderTypeOK'
    BY <1>8, MarkerType DEF Scan, Step, Call_fails, Idle, ProviderTypeOK, scm, Branches
  <2> QED BY <2>1, <2>2
<1>9. CASE Read_head
  <2>1. WInv'
    BY <1>9, <1>i, MoveWInv DEF Read_head, Step, Call_fails, Idle, Places, Commanding
  <2>2. ProviderTypeOK'
    BY <1>9 DEF Read_head, Step, Call_fails, Idle, ProviderTypeOK, scm
  <2> QED BY <2>1, <2>2
<1>10. CASE Publish_commit
  <2>1. WInv'
    BY <1>10, <1>i, MoveWInv DEF Publish_commit, Mutating, Step, Call_fails, Idle, Places, Commanding
  <2>2. branch' \in Branches
    <3>1. UNCHANGED branch \/ branch' = _create_tree
      BY <1>10 DEF Publish_commit, Mutating
    <3>2. base \in Seq(Commits) /\ Factory(changes) \in Commits
      BY <1>10, CommitTypes DEF Publish_commit, ProviderTypeOK, Branches
    <3>3. Append(base, Factory(changes)) \in Seq(Commits)
      BY <3>2
    <3> QED BY <3>1, <3>3 DEF ProviderTypeOK, Branches, _create_tree
  <2>3. ProviderTypeOK'
    BY <1>10, <2>2 DEF Publish_commit, Mutating, Step, Call_fails, Idle, ProviderTypeOK
  <2> QED BY <2>1, <2>3
<1>11. CASE Find_existing
  <2>1. WInv'
    BY <1>11, <1>i, MoveWInv DEF Find_existing, Step, Call_fails, Idle, Places, Commanding
  <2>2. ProviderTypeOK'
    BY <1>11 DEF Find_existing, Step, Call_fails, Idle, ProviderTypeOK, scm, Memory, Found
  <2> QED BY <2>1, <2>2
<1>12. CASE Open_request
  <2>1. WInv'
    BY <1>12, <1>i, MoveWInv DEF Open_request, Step, Call_fails, Idle, Places, Commanding
  <2>2. ASSUME _find_by_head # {}
        PROVE  (CHOOSE i \in _find_by_head : TRUE) \in 1 .. Len(pulls)
    BY <2>2 DEF _find_by_head, OpenPulls, ProviderTypeOK
  <2>3. ProviderTypeOK'
    <3>1. mem' \in Memory /\ mem'.pull <= Len(pulls) /\ mem'.opened <= Len(pulls)
      BY <1>12, <2>2, Recorded DEF Open_request, ProviderTypeOK
    <3> QED BY <1>12, <3>1 DEF Open_request, Step, Call_fails, Idle, ProviderTypeOK, scm
  <2> QED BY <2>1, <2>3
<1>13. CASE Ensure_head
  <2>1. WInv'
    BY <1>13, <1>i, MoveWInv DEF Ensure_head, Mutating, Step, Call_fails, Idle, Places, Commanding
  <2>2. branch' \in Branches
    BY <1>13 DEF Ensure_head, Mutating, ProviderTypeOK
  <2>3. ProviderTypeOK'
    BY <1>13, <2>2 DEF Ensure_head, Mutating, Step, Call_fails, Idle, locals, ProviderTypeOK
  <2> QED BY <2>1, <2>3
<1>14. CASE Post_pull
  <2>1. WInv'
    BY <1>14, <1>i, MoveWInv DEF Post_pull, Mutating, Step, Call_fails, Idle, Places, Commanding
  <2>2. (pulls' = pulls /\ pc' = "idle") \/ pulls' = Append(pulls, "open")
    BY <1>14 DEF Post_pull, Mutating, Step, Call_fails, Idle
  <2>3. pulls' \in Seq(Statuses) /\ Len(pulls) <= Len(pulls')
        /\ (pc' = "parked" => Len(pulls') \in Nat)
    BY <2>2 DEF ProviderTypeOK, Statuses
  <2>4. ProviderTypeOK'
    <3>1. mem' \in Memory /\ mem'.pull <= Len(pulls') /\ mem'.opened <= Len(pulls')
      <4>1. CASE pc' = "parked"
        BY <1>14, <2>3, <4>1, Recorded DEF Post_pull, ProviderTypeOK
      <4>2. CASE pc' # "parked"
        <5>1. mem' = mem BY <1>14, <4>2 DEF Post_pull
        <5>2. Len(pulls) \in Nat /\ Len(pulls') \in Nat BY <2>3 DEF ProviderTypeOK
        <5> QED BY <5>1, <5>2, <2>3 DEF ProviderTypeOK, Memory
      <4> QED BY <4>1, <4>2
    <3>2. pc' # "patch"
      BY <1>14 DEF Post_pull, Mutating, Step, Call_fails, Idle
    <3> QED BY <1>14, <2>3, <3>1, <3>2 DEF Post_pull, ProviderTypeOK
  <2> QED BY <2>1, <2>4
<1>15. CASE Tools /\ UNCHANGED avars
  BY <1>15, <1>t, ToolsWInv, ToolsPlaces
<1>16. CASE (Command_effect \/ Child_ends) /\ UNCHANGED avars
  BY <1>16, <1>t, CommandWInv DEF Command_effect, Child_ends
<1>17. CASE (Orphan_effect \/ Lose_workspace \/ Kill) /\ UNCHANGED avars
  BY <1>17, <1>t, FaultsWInv DEF Orphan_effect, Lose_workspace, Kill
<1>18. CASE Push_human \/ Settle_request \/ Delete_branch
  <2>1. Move
    BY <1>18 DEF Push_human, Settle_request, Delete_branch
  <2>2. WInv'
    BY <2>1, MoveWInv DEF Move, wvars, TInv, WInv, WorkspaceTypeOK
  <2>3. branch' \in Branches
    BY <1>18, CommitTypes DEF Push_human, Settle_request, Delete_branch, ProviderTypeOK, Branches
  <2>4. pulls' \in Seq(Statuses) /\ Len(pulls') = Len(pulls)
    <3>1. CASE UNCHANGED pulls BY <3>1 DEF ProviderTypeOK
    <3>2. CASE Settle_request
      BY <3>2 DEF Settle_request, OpenPulls, ProviderTypeOK, Statuses
    <3> QED BY <1>18, <3>1, <3>2 DEF Push_human, Delete_branch
  <2>5. ProviderTypeOK'
    BY <2>1, <2>3, <2>4, AttemptAssumption DEF Move, wvars, locals, ProviderTypeOK
  <2> QED BY <2>2, <2>5
<1>19. CASE UNCHANGED vars
  <2>1. UNCHANGED avars /\ UNCHANGED wvars
    BY <1>19 DEF vars
  <2>2. WInv'
    BY <2>1, MoveWInv DEF wvars, WInv, WorkspaceTypeOK
  <2> QED BY <2>1, <2>2, <1>t DEF wvars
<1> QED
  BY <1>1, <1>2, <1>3, <1>4, <1>5, <1>6, <1>7, <1>8, <1>9, <1>10, <1>11, <1>12, <1>13, <1>14,
     <1>15, <1>16, <1>17, <1>18, <1>19 DEF Next, Attempt

\* The workspace and the provider keep their types and their ties, in every state of every
\* attempt.
THEOREM TypeInvariance == Spec => []TInv
<1>1. Init => TInv
  BY WInvInit, ProviderTypeInit DEF TInv
<1>2. TInv /\ [Next]_vars => TInv'
  BY StepTypes
<1> QED BY <1>1, <1>2, PTL DEF Spec

\* For any tree, contents and bounds, an attempt works only in a directory that is linked
\* to the mirror, the mint is never refused, and the adapter remembers only requests that
\* exist.
THEOREM TypeCorrect == Spec => []AttemptTypeOK
<1>1. TInv => AttemptTypeOK
  BY DEF TInv, WInv, WorkspaceTypeOK, PlacesFit, ProviderTypeOK, Memory, AttemptTypeOK,
         Unlinked, InUse, Tree
<1> QED BY <1>1, TypeInvariance, PTL

\* Whatever is killed, orphaned, lost or prepared again, a path holds what was last
\* written to it.
THEOREM EditsAreKept == Spec => []EditsSurvive
<1>1. TInv => EditsSurvive
  BY DEF TInv, WInv, FilesFit
<1> QED BY <1>1, TypeInvariance, PTL

(***************************************************************************)
(* What is published                                                       *)
(***************************************************************************)

\* The branch stays, appears, disappears or grows by a commit on top.
LEMMA BranchMoves ==
  ASSUME TInv, [Next]_vars
  PROVE  \/ branch' = branch \/ branch = None \/ branch' = None
         \/ branch \in Seq(Commits) /\ \E c \in Commits : branch' = Append(branch, c)
<1> USE DEF TInv, ProviderTypeOK
<1>1. CASE UNCHANGED branch
  BY <1>1
<1>2. CASE Create_branch \/ Ensure_head \/ Delete_branch
  BY <1>2 DEF Create_branch, Ensure_head, Delete_branch, Mutating
<1>3. CASE Publish_commit
  <2>1. branch' = branch \/ (branch = base /\ branch' = Append(base, Factory(changes)))
    BY <1>3 DEF Publish_commit, Mutating, Fast_forward, _create_tree
  <2>2. base \in Seq(Commits) /\ Factory(changes) \in Commits
    BY <1>3, CommitTypes DEF Publish_commit, Branches
  <2> QED BY <2>1, <2>2
<1>4. CASE Push_human
  BY <1>4, CommitTypes DEF Push_human, Branches
<1> QED
  BY <1>1, <1>2, <1>3, <1>4
  DEF Next, Attempt, vars, avars, scm, Start, Harness_ends, Collect, Ensure_branch, Scan,
      Read_head, Find_existing, Open_request, Post_pull, Settle_request

LEMMA CollectExact ==
  ASSUME TInv, [Next]_vars, pc = "collect", pc' = "branch"
  PROVE  changes' = collect_changes
<1>1. CASE Collect
  BY <1>1 DEF Collect, Step, Idle
<1>2. CASE ~Collect
  BY <1>2, MintPlaces, RunningPlaces, ToolsPlaces
  DEF Next, Attempt, vars, wvars, Start, Harness_ends, Ensure_branch, Create_branch, Scan,
      Read_head, Publish_commit, Find_existing, Open_request, Ensure_head, Post_pull,
      Command_effect, Child_ends, Orphan_effect, Lose_workspace, Kill, Push_human,
      Settle_request, Delete_branch, Move
<1> QED BY <1>1, <1>2

\* When agents do not commit in the workspace themselves, every publication is the edits of
\* the agent, exactly, on top of everything others pushed.
THEOREM PublicationsAreExact == ~MayCommit => (Spec => PublicationIsExact)
<1> SUFFICES ASSUME ~MayCommit PROVE Spec => PublicationIsExact
  OBVIOUS
<1>1. ASSUME TInv, [Next]_vars PROVE DeltaIsTheEdits
  <2> SUFFICES ASSUME pc = "collect", pc' = "branch", NEW p \in Paths
               PROVE  (IF p \in DOMAIN changes' THEN changes'[p] ELSE Base[p])
                         = IF edits[p] \in {Untouched, None} THEN Base[p] ELSE edits[p]
    BY DEF DeltaIsTheEdits
  <2>1. changes' = collect_changes
    BY <1>1, CollectExact
  <2>2. /\ p \in DOMAIN changes' <=> files[p] # None /\ (index => files[p] # head[p])
        /\ p \in DOMAIN changes' => changes'[p] = files[p]
    BY <2>1 DEF collect_changes, _porcelain_paths
  <2>3. /\ edits[p] # Untouched => files[p] = edits[p]
        /\ edits[p] = Untouched => files[p] \in {Base[p], None}
        /\ head[p] = Base[p]
    BY <1>1 DEF TInv, WInv, FilesFit, EditsSurvive
  <2>4. CASE p \in DOMAIN changes'
    BY <2>2, <2>3, <2>4
  <2>5. CASE p \notin DOMAIN changes'
    BY <2>2, <2>3, <2>5
  <2> QED BY <2>4, <2>5
<1>2. ASSUME TInv, [Next]_vars PROVE NothingIsOverwritten
  <2> SUFFICES ASSUME branch # None, branch' # None PROVE IsPrefix(branch, branch')
    BY DEF NothingIsOverwritten
  <2>1. branch \in Seq(Commits)
    BY <1>2 DEF TInv, ProviderTypeOK, Branches
  <2>2. IsPrefix(branch, branch)
    BY <2>1 DEF IsPrefix
  <2>3. \A c \in Commits : IsPrefix(branch, Append(branch, c))
    BY <2>1 DEF IsPrefix
  <2> QED BY <1>2, <2>2, <2>3, BranchMoves
<1> QED BY <1>1, <1>2, TypeInvariance, PTL DEF Spec, PublicationIsExact

(***************************************************************************)
(* One commit, one open request                                            *)
(***************************************************************************)

LEMMA AtMostOne ==
  ASSUME NEW S, \A i, j \in S : i = j
  PROVE  Cardinality(S) = IF S = {} THEN 0 ELSE 1
<1>1. CASE S = {}
  BY <1>1, FS_EmptySet
<1>2. CASE S # {}
  <2>1. PICK x \in S : TRUE BY <1>2
  <2>2. S = {x} BY <2>1
  <2> QED BY <1>2, <2>2, FS_Singleton
<1> QED BY <1>1, <1>2

LEMMA MarkedFacts ==
  /\ Marked(None) = {}
  /\ Marked(<<>>) = {}
  /\ \A b \in Seq(Commits), c \in Commits :
        Marked(Append(b, c)) = Marked(b) \cup (IF c.by = "factory" THEN {Len(b) + 1} ELSE {})
  /\ \A b \in Seq(Commits) : Marked(b) \subseteq 1 .. Len(b)
<1>1. \A b \in Seq(Commits) : Marked(b) = {i \in 1 .. Len(b) : b[i].by = "factory"}
  BY AttemptAssumption DEF Marked
<1>2. Marked(None) = {} BY DEF Marked
<1>3. Marked(<<>>) = {} BY DEF Marked
<1>4. ASSUME NEW b \in Seq(Commits), NEW c \in Commits
      PROVE  Marked(Append(b, c)) = Marked(b) \cup (IF c.by = "factory" THEN {Len(b) + 1} ELSE {})
  <2>1. Append(b, c) \in Seq(Commits) /\ Len(Append(b, c)) = Len(b) + 1
        /\ Append(b, c)[Len(b) + 1] = c
        /\ \A i \in 1 .. Len(b) : Append(b, c)[i] = b[i]
    OBVIOUS
  <2>2. Len(b) \in Nat OBVIOUS
  <2>3. Marked(Append(b, c)) = {i \in 1 .. Len(b) + 1 : Append(b, c)[i].by = "factory"}
    BY <1>1, <2>1
  <2>4. Marked(b) = {i \in 1 .. Len(b) : b[i].by = "factory"}
    BY <1>1
  <2> QED BY <2>1, <2>2, <2>3, <2>4
<1> QED BY <1>1, <1>2, <1>3, <1>4

\* A commit of the operation close enough to the head is on the page that is read.
LEMMA InPage ==
  ASSUME ProviderTypeOK, NEW i \in Marked(branch), Len(branch) - i < PageSize
  PROVE  _marker_commit
<1>1. branch \in Seq(Commits) /\ branch # None /\ i \in 1 .. Len(branch) /\ branch[i].by = "factory"
  BY MarkedFacts DEF ProviderTypeOK, Branches, Marked
<1>2. PageSize \in Nat \ {0} /\ Len(branch) \in Nat
  BY <1>1, AttemptAssumption
<1>3. CASE Len(branch) <= PageSize
  BY <1>1, <1>3 DEF Page, _marker_commit
<1>4. CASE ~(Len(branch) <= PageSize)
  <2> DEFINE n == Len(branch) - PageSize
  <2>1. n \in Nat /\ i - n \in 1 .. PageSize
    BY <1>1, <1>2, <1>4
  <2>2. Page(branch) = SubSeq(branch, n + 1, Len(branch))
    BY <1>4 DEF Page
  <2>3. DOMAIN Page(branch) = 1 .. PageSize /\ Page(branch)[i - n] = branch[i]
    <3> DEFINE m == Len(branch)
               k == n + 1
    <3>1. m \in Nat /\ k \in 1 .. m + 1 /\ m - k + 1 = PageSize /\ k + (i - n) - 1 = i
      BY <1>1, <1>2, <2>1, <1>4
    <3> HIDE DEF k, n
    <3>2. /\ DOMAIN SubSeq(branch, k, m) = 1 .. m - k + 1
          /\ \A j \in 1 .. m - k + 1 : SubSeq(branch, k, m)[j] = branch[k + j - 1]
      BY <1>1, <3>1
    <3> QED BY <2>1, <2>2, <3>1, <3>2 DEF k
  <2> QED BY <1>1, <2>1, <2>3 DEF _marker_commit
<1> QED BY <1>3, <1>4

\* The branch up to the one commit of the operation.
LEMMA UptoIsMarked ==
  ASSUME ProviderTypeOK, OneCommit, _marker_commit
  PROVE  Upto_marker # None /\ Marked(Upto_marker) = {Len(Upto_marker)}
<1>1. branch \in Seq(Commits) /\ Upto_marker \in Seq(Commits)
  BY MarkerType
<1>2. PICK i \in Marked(branch) : Upto_marker = SubSeq(branch, 1, i)
  BY MarkerType
<1>3. i \in 1 .. Len(branch) /\ branch[i].by = "factory"
      /\ \A j \in 1 .. Len(branch) : branch[j].by = "factory" => j = i
  BY <1>1, AttemptAssumption DEF OneCommit, Marked
<1>4. Len(Upto_marker) = i /\ DOMAIN Upto_marker = 1 .. i
      /\ \A j \in 1 .. i : Upto_marker[j] = branch[j]
  BY <1>1, <1>2, <1>3
<1>5. Upto_marker # None
  BY <1>1, AttemptAssumption
<1>6. Marked(Upto_marker) = {j \in 1 .. i : branch[j].by = "factory"}
  BY <1>4, <1>5 DEF Marked
<1>7. i \in 1 .. i /\ \A j \in 1 .. i : j \in 1 .. Len(branch)
  BY <1>1, <1>3
<1> QED BY <1>3, <1>4, <1>5, <1>6, <1>7

\* What one step does to the commit and to the request, as PublishOnce names it.
Effects_of_step ==
    LET l == Marked(branch) # {}
        o == OpenPulls # {}
    IN  \/ l' = l /\ o' = o
        \/ ~l /\ l' /\ o' = o
        \/ l /\ ~l' /\ o' = o
        \/ l /\ ~o /\ o' /\ l' = l
        \/ o /\ ~o' /\ l' = l

\* Steps that leave the provider alone and do not enter the publication.
LEMMA Quiet ==
  ASSUME PInv, UNCHANGED <<branch, pulls, moves>>,
         \/ pc' \notin {"head", "patch"} \cup After
         \/ pc' = pc /\ sha' = sha
  PROVE  PInv' /\ Effects_of_step
<1>1. UNCHANGED Marked(branch) /\ UNCHANGED OpenPulls
  BY DEF Marked, OpenPulls
<1>2. pc' = pc /\ sha' = sha => UNCHANGED Marked(sha)
  BY DEF Marked
<1> QED BY <1>1, <1>2 DEF PInv, OneCommit, AttemptKnows, OneOpen, Effects_of_step, After

\* As long as people push less than a page of commits.
LEMMA PublishStep ==
  ASSUME MaxMoves < PageSize, TInv, PInv, [Next]_vars
  PROVE  PInv' /\ Effects_of_step
<1> USE DEF TInv
<1>m. moves \in Nat /\ MaxMoves \in Nat /\ moves <= MaxMoves
  BY AttemptAssumption DEF ProviderTypeOK
<1>o. UNCHANGED pulls => UNCHANGED OpenPulls
  BY DEF OpenPulls
<1>b. UNCHANGED branch => UNCHANGED Marked(branch)
  BY DEF Marked
<1>s. UNCHANGED sha => UNCHANGED Marked(sha)
  BY DEF Marked
<1>q. ASSUME UNCHANGED avars, pc' \notin {"head", "patch"} \cup After \/ pc' = pc
      PROVE  PInv' /\ Effects_of_step
  <2>1. UNCHANGED <<branch, pulls, moves, sha>>
    BY <1>q DEF avars, scm, locals
  <2> QED BY <1>q, <2>1, Quiet
<1>1. CASE Start \/ Collect \/ Ensure_branch
  <2>1. UNCHANGED <<branch, pulls, moves>> /\ pc' \notin {"head", "patch"} \cup After
    BY <1>1 DEF Start, Collect, Ensure_branch, Step, Call_fails, Idle, scm, After
  <2> QED BY <2>1, Quiet
<1>2. CASE Mint /\ UNCHANGED avars
  BY <1>2, <1>q, MintPlaces DEF After
<1>3. CASE Running /\ UNCHANGED avars
  BY <1>3, <1>q, RunningPlaces DEF After
<1>4. CASE Harness_ends
  BY <1>4, <1>q DEF Harness_ends, Step, Call_fails, Idle, After
<1>5. CASE Create_branch
  <2>1. /\ branch' = branch \/ (branch = None /\ branch' = <<>>)
        /\ UNCHANGED <<pulls, moves>> /\ pc' \in {"idle", "scan"}
    BY <1>5 DEF Create_branch, Mutating, Step, Call_fails, Idle
  <2>2. CASE branch' = branch
    BY <2>1, <2>2, Quiet DEF After
  <2>3. CASE branch = None /\ branch' = <<>>
    <3>1. Marked(branch) = {} /\ Marked(branch)' = {}
      BY <2>3, MarkedFacts
    <3> QED BY <2>1, <3>1, <1>o DEF PInv, OneCommit, AttemptKnows, OneOpen, Effects_of_step, After
  <2> QED BY <2>1, <2>2, <2>3
<1>6. CASE Scan
  <2>1. UNCHANGED <<branch, pulls, moves>>
    BY <1>6 DEF Scan, scm
  <2>2. CASE pc' \in {"head", "find"}
    <3>1. pc' = (IF _marker_commit THEN "find" ELSE "head")
          /\ sha' = IF _marker_commit THEN Upto_marker ELSE sha
      BY <1>6, <2>2 DEF Scan, Step, Call_fails, Idle
    <3>2. CASE _marker_commit
      <4>1. sha' # None /\ Marked(sha)' = {Len(sha')}
        BY <3>1, <3>2, UptoIsMarked DEF PInv
      <4>2. Marked(branch) # {}
        BY <3>2, MarkerType
      <4> QED
        BY <2>1, <3>1, <3>2, <4>1, <4>2, <1>o, <1>b
        DEF PInv, OneCommit, AttemptKnows, OneOpen, Effects_of_step, After
    <3>3. CASE ~_marker_commit
      <4>1. Marked(branch) = {}
        <5> SUFFICES ASSUME NEW i \in Marked(branch) PROVE FALSE
          OBVIOUS
        <5>1. branch \in Seq(Commits) /\ i \in 1 .. Len(branch)
          BY MarkedFacts DEF ProviderTypeOK, Branches
        <5>2. Len(branch) - i <= moves
          BY DEF PInv, OneCommit
        <5>3. Len(branch) - i < PageSize
          BY <5>1, <5>2, <1>m, AttemptAssumption
        <5> QED BY <3>3, <5>3, InPage
      <4> QED
        BY <2>1, <3>1, <3>3, <4>1, <1>o, <1>b
        DEF PInv, OneCommit, AttemptKnows, OneOpen, Effects_of_step, After
    <3> QED BY <3>2, <3>3
  <2>3. CASE pc' \notin {"head", "find"}
    <3>1. pc' = "idle"
      BY <1>6, <2>3 DEF Scan, Step, Call_fails, Idle
    <3> QED BY <2>1, <3>1, Quiet DEF After
  <2> QED BY <2>2, <2>3
<1>7. CASE Read_head
  <2>1. UNCHANGED <<branch, pulls, moves>> /\ pc = "head" /\ pc' \in {"idle", "patch"}
    BY <1>7 DEF Read_head, Step, Call_fails, Idle, scm
  <2> QED
    BY <2>1, <1>o, <1>b DEF PInv, OneCommit, AttemptKnows, OneOpen, Effects_of_step, After
<1>8. CASE Publish_commit
  <2>1. /\ \/ branch' = branch /\ pc' = "idle"
           \/ branch = base /\ branch' = Append(base, Factory(changes))
        /\ pc' \in {"idle", "find"} /\ (pc' = "find" => sha' = branch')
        /\ UNCHANGED <<pulls, moves>> /\ pc = "patch"
    BY <1>8 DEF Publish_commit, Mutating, Step, Call_fails, Idle, Fast_forward, _create_tree
  <2>2. CASE branch' = branch /\ pc' = "idle"
    BY <2>1, <2>2, Quiet DEF After
  <2>3. CASE branch = base /\ branch' = Append(base, Factory(changes))
    <3>1. base \in Seq(Commits) /\ Factory(changes) \in Commits /\ branch' \in Seq(Commits)
      BY <2>1, <2>3, CommitTypes DEF ProviderTypeOK, Branches
    <3>2. Marked(branch) = {}
      BY <2>1 DEF PInv, AttemptKnows
    <3>3. Marked(branch') = {Len(branch')}
      <4>1. Factory(changes).by = "factory" BY DEF Factory
      <4>2. Len(branch') = Len(base) + 1 BY <2>3, <3>1
      <4> QED BY <2>3, <3>1, <3>2, <4>1, <4>2, MarkedFacts
    <3>4. branch' # None
      BY <3>1, AttemptAssumption
    <3>5. Len(branch') - Len(branch') <= moves
      BY <3>1, <1>m
    <3>6. OneCommit' /\ OneOpen'
      BY <2>1, <3>3, <3>5, <1>o DEF PInv, OneCommit, OneOpen
    <3>7. AttemptKnows'
      BY <2>1, <3>3, <3>4 DEF AttemptKnows, After
    <3> QED BY <2>1, <3>2, <3>3, <3>6, <3>7, <1>o DEF PInv, Effects_of_step
  <2> QED BY <2>1, <2>2, <2>3
<1>9. CASE Find_existing \/ Open_request
  <2>1. UNCHANGED <<branch, pulls, sha, moves>> /\ pc \in After
        /\ pc' \in After \cup {"idle", "parked"}
    BY <1>9 DEF Find_existing, Open_request, Step, Call_fails, Idle, scm, After
  <2> QED
    BY <2>1, <1>o, <1>b, <1>s DEF PInv, OneCommit, AttemptKnows, OneOpen, Effects_of_step, After
<1>10. CASE Ensure_head
  <2>1. /\ UNCHANGED <<pulls, sha, moves>> /\ pc = "ensure_head" /\ pc' \in {"idle", "post"}
        /\ \/ branch' = branch /\ (pc' = "post" => branch # None)
           \/ branch = None /\ branch' = sha
    BY <1>10 DEF Ensure_head, Mutating, Step, Call_fails, Idle, locals
  <2>2. CASE branch' = branch /\ (pc' = "post" => branch # None)
    BY <2>1, <2>2, <1>o, <1>b, <1>s
    DEF PInv, OneCommit, AttemptKnows, OneOpen, Effects_of_step, After
  <2>3. CASE branch = None /\ branch' = sha
    <3>1. sha # None /\ Marked(sha) = {Len(sha)} /\ sha \in Seq(Commits)
      BY <2>1 DEF PInv, AttemptKnows, After, ProviderTypeOK, Branches
    <3>2. Marked(branch) = {} /\ Marked(branch') = {Len(sha)}
      BY <2>3, <3>1, MarkedFacts
    <3>3. Len(sha) - Len(sha) <= moves
      BY <3>1, <1>m
    <3> QED
      BY <2>1, <2>3, <3>1, <3>2, <3>3, <1>o, <1>s
      DEF PInv, OneCommit, AttemptKnows, OneOpen, Effects_of_step, After
  <2> QED BY <2>1, <2>2, <2>3
<1>11. CASE Post_pull
  <2>1. /\ UNCHANGED <<branch, moves>> /\ pc = "post" /\ pc' \in {"idle", "parked"}
        /\ \/ pulls' = pulls
           \/ OpenPulls = {} /\ branch # None /\ pulls' = Append(pulls, "open")
    BY <1>11 DEF Post_pull, Mutating, Step, Call_fails, Idle
  <2>2. CASE pulls' = pulls
    BY <2>1, <2>2, Quiet DEF After
  <2>3. CASE OpenPulls = {} /\ branch # None /\ pulls' = Append(pulls, "open")
    <3>1. Marked(branch) # {}
      BY <2>1, <2>3 DEF PInv, AttemptKnows, After
    <3>2. OpenPulls' = {Len(pulls) + 1}
      <4>1. pulls \in Seq(Statuses) /\ "open" \in Statuses
        BY DEF ProviderTypeOK, Statuses
      <4>2. /\ DOMAIN pulls' = 1 .. Len(pulls) + 1 /\ Len(pulls) \in Nat
            /\ pulls'[Len(pulls) + 1] = "open"
            /\ \A i \in 1 .. Len(pulls) : pulls'[i] = pulls[i] /\ pulls[i] # "open"
        BY <2>3, <4>1 DEF OpenPulls
      <4> QED BY <4>2 DEF OpenPulls
    <3> QED
      BY <2>1, <2>3, <3>1, <3>2, <1>b
      DEF PInv, OneCommit, AttemptKnows, OneOpen, Effects_of_step, After
  <2> QED BY <2>1, <2>2, <2>3
<1>12. CASE Tools /\ UNCHANGED avars
  BY <1>12, <1>q, ToolsPlaces DEF After
<1>13. CASE (Command_effect \/ Child_ends \/ Orphan_effect \/ Lose_workspace \/ Kill) /\ UNCHANGED avars
  BY <1>13, <1>q DEF Command_effect, Child_ends, Orphan_effect, Lose_workspace, Kill, After
<1>14. CASE Push_human
  <2>1. /\ branch # None /\ branch' = Append(branch, Human) /\ moves' = moves + 1
        /\ UNCHANGED <<pulls, pc, sha>>
    BY <1>14 DEF Push_human, Move, wvars, locals
  <2>2. branch \in Seq(Commits) /\ Human \in Commits /\ Human.by # "factory"
    BY <2>1, CommitTypes DEF ProviderTypeOK, Branches, Human
  <2>3. Marked(branch') = Marked(branch) /\ Marked(branch) \subseteq 1 .. Len(branch)
    BY <2>1, <2>2, MarkedFacts
  <2>4. Len(branch') = Len(branch) + 1 /\ Len(branch) \in Nat
    BY <2>1, <2>2
  <2>5. OneCommit'
    BY <2>1, <2>3, <2>4, <1>m DEF PInv, OneCommit
  <2> QED
    BY <2>1, <2>3, <2>5, <1>o, <1>s DEF PInv, AttemptKnows, OneOpen, Effects_of_step
<1>15. CASE Settle_request
  <2>1. PICK i \in OpenPulls, t \in {"merged", "closed"} : pulls' = [pulls EXCEPT ![i] = t]
    BY <1>15 DEF Settle_request
  <2>2. UNCHANGED <<branch, pc, sha>> /\ moves' = moves + 1
    BY <1>15 DEF Settle_request, Move, wvars, locals
  <2>3. OpenPulls' = {} /\ OpenPulls # {}
    <3>1. \A j \in OpenPulls : j = i
      BY <2>1 DEF PInv, OneOpen
    <3>2. DOMAIN pulls' = DOMAIN pulls
          /\ \A j \in DOMAIN pulls : pulls'[j] = IF j = i THEN t ELSE pulls[j]
      BY <2>1
    <3>3. t # "open"
      BY <2>1
    <3> QED BY <2>1, <3>1, <3>2, <3>3 DEF OpenPulls
  <2>4. OneCommit'
    <3>1. \A j \in Marked(branch) : Len(branch) - j <= moves + 1
      <4> SUFFICES ASSUME NEW j \in Marked(branch) PROVE Len(branch) - j <= moves + 1
        OBVIOUS
      <4>1. branch \in Seq(Commits) /\ j \in 1 .. Len(branch) /\ Len(branch) - j <= moves
        BY MarkedFacts DEF ProviderTypeOK, Branches, PInv, OneCommit
      <4> QED BY <4>1, <1>m
    <3> QED BY <2>2, <3>1, <1>b DEF PInv, OneCommit
  <2> QED
    BY <2>2, <2>3, <2>4, <1>b, <1>s DEF PInv, AttemptKnows, OneOpen, Effects_of_step
<1>16. CASE Delete_branch
  <2>1. branch' = None /\ UNCHANGED <<pulls, pc, sha>>
    BY <1>16 DEF Delete_branch, Move, wvars, locals
  <2>2. Marked(branch') = {}
    BY <2>1, MarkedFacts
  <2> QED
    BY <2>1, <2>2, <1>o, <1>s DEF PInv, OneCommit, AttemptKnows, OneOpen, Effects_of_step
<1>17. CASE UNCHANGED vars
  BY <1>17, <1>q DEF vars, wvars
<1> QED
  BY <1>1, <1>2, <1>3, <1>4, <1>5, <1>6, <1>7, <1>8, <1>9, <1>10, <1>11, <1>12, <1>13, <1>14,
     <1>15, <1>16, <1>17 DEF Next, Attempt

\* The counts PublishOnce speaks of.
LEMMA Counts ==
  ASSUME OneCommit, OneOpen
  PROVE  /\ Landed = IF Marked(branch) = {} THEN 0 ELSE 1
         /\ Cardinality(OpenPulls) = IF OpenPulls = {} THEN 0 ELSE 1
<1>1. Cardinality(Marked(branch)) = IF Marked(branch) = {} THEN 0 ELSE 1
  BY AtMostOne DEF OneCommit
<1>2. Cardinality(OpenPulls) = IF OpenPulls = {} THEN 0 ELSE 1
  BY AtMostOne DEF OneOpen
<1>3. Landed = Cardinality(Marked(branch))
  BY FS_EmptySet DEF Landed, Marked
<1> QED BY <1>1, <1>2, <1>3

\* As long as people push less than a page of commits, the attempts of an operation
\* implement PublishOnce: for any number of attempts, kills and lost answers, no second
\* commit of the operation lands and no second request is opened.
THEOREM AttemptsPublishOnce == MaxMoves < PageSize => (Spec => PublishesOnce)
<1> SUFFICES ASSUME MaxMoves < PageSize PROVE Spec => PublishesOnce
  OBVIOUS
<1>1. Init => PInv /\ Effect!Init
  <2> SUFFICES ASSUME Init PROVE PInv /\ Effect!Init
    OBVIOUS
  <2>1. Marked(branch) = {} /\ OpenPulls = {}
    BY MarkedFacts DEF Init, OpenPulls
  <2>2. PInv
    BY <2>1 DEF PInv, OneCommit, OneOpen, AttemptKnows, After, Init, WorktreeInit
  <2> QED BY <2>1, <2>2, Counts DEF PInv, Effect!Init
<1>2. TInv /\ PInv /\ [Next]_vars => PInv' /\ [Effect!Next]_<<Landed, Cardinality(OpenPulls)>>
  <2> SUFFICES ASSUME TInv, PInv, [Next]_vars
               PROVE  PInv' /\ [Effect!Next]_<<Landed, Cardinality(OpenPulls)>>
    OBVIOUS
  <2>1. PInv' /\ Effects_of_step
    BY PublishStep
  <2>2. /\ Landed = IF Marked(branch) = {} THEN 0 ELSE 1
        /\ Cardinality(OpenPulls) = IF OpenPulls = {} THEN 0 ELSE 1
    BY Counts DEF PInv
  <2>3. /\ Landed' = IF Marked(branch)' = {} THEN 0 ELSE 1
        /\ Cardinality(OpenPulls)' = IF OpenPulls' = {} THEN 0 ELSE 1
    <3>1. Cardinality(Marked(branch)') = IF Marked(branch)' = {} THEN 0 ELSE 1
      <4>1. \A i, j \in Marked(branch)' : i = j
        BY <2>1 DEF PInv, OneCommit
      <4> QED BY <4>1, AtMostOne
    <3>2. Cardinality(OpenPulls') = IF OpenPulls' = {} THEN 0 ELSE 1
      <4>1. \A i, j \in OpenPulls' : i = j
        BY <2>1 DEF PInv, OneOpen
      <4> QED BY <4>1, AtMostOne
    <3>3. Landed' = Cardinality(Marked(branch)')
      BY FS_EmptySet DEF Landed, Marked
    <3> QED BY <3>1, <3>2, <3>3
  <2> QED
    BY <2>1, <2>2, <2>3
    DEF Effects_of_step, Effect!Next, Effect!Publish, Effect!Unpublish, Effect!Open, Effect!Close
<1> QED BY <1>1, <1>2, TypeInvariance, PTL DEF Spec, PublishesOnce, Effect!Spec

(***************************************************************************)
(* Sums over finite sets.  What SumFunctionOnSet computes is shown without *)
(* induction: a smallest set that is a counterexample cannot exist.        *)
(***************************************************************************)

LEMMA SmallestSet ==
  ASSUME NEW S, IsFiniteSet(S), NEW B \in SUBSET (SUBSET S), B # {}
  PROVE  \E T \in B : \A U \in B : U \subseteq T => U = T
<1>1. IsWellFoundedOn(StrictSubsetOrdering(S), SUBSET S)
  BY FS_StrictSubsetOrderingWellFounded, FS_FiniteSubsetsOfFinite
<1>2. PICK T \in B : \A U \in B : ~ (<<U, T>> \in StrictSubsetOrdering(S))
  BY <1>1, WFMin
<1>3. ASSUME NEW U \in B, U \subseteq T PROVE U = T
  <2>1. <<U, T>> \notin StrictSubsetOrdering(S) /\ U \in SUBSET S /\ T \in SUBSET S
    BY <1>2
  <2> QED BY <2>1, <1>3 DEF StrictSubsetOrdering
<1> QED BY <1>2, <1>3

First(s) == CHOOSE x \in s : TRUE

IsIter(f, S, g) ==
    g = [s \in SUBSET S |-> IF s = {} THEN 0 ELSE f[First(s)] + g[s \ {First(s)}]]

LEMMA SumIsIter ==
  ASSUME NEW f, NEW S
  PROVE  SumFunctionOnSet(f, S) = (CHOOSE g : IsIter(f, S, g))[S]
BY DEF SumFunctionOnSet, FoldFunctionOnSet, MapThenFoldSet, IsIter, First

LEMMA FirstIsIn ==
  ASSUME NEW s, s # {}
  PROVE  First(s) \in s
BY DEF First

LEMMA IterAgree ==
  ASSUME NEW f, NEW S, NEW T, IsFiniteSet(S), NEW g, NEW h,
         IsIter(f, S, g), IsIter(f, T, h)
  PROVE  \A U \in SUBSET S : U \in SUBSET T => g[U] = h[U]
<1> DEFINE B == {U \in SUBSET S : U \in SUBSET T /\ g[U] # h[U]}
<1> SUFFICES ASSUME B # {} PROVE FALSE
  OBVIOUS
<1>1. PICK U \in B : \A V \in B : V \subseteq U => V = U
  <2>1. B \in SUBSET (SUBSET S)
    OBVIOUS
  <2> HIDE DEF B
  <2> QED BY <2>1, SmallestSet
<1>2. U \in SUBSET S /\ U \in SUBSET T /\ g[U] # h[U]
  BY <1>1
<1>3. /\ g[U] = IF U = {} THEN 0 ELSE f[First(U)] + g[U \ {First(U)}]
      /\ h[U] = IF U = {} THEN 0 ELSE f[First(U)] + h[U \ {First(U)}]
  BY <1>2 DEF IsIter
<1>4. U # {}
  BY <1>2, <1>3
<1>5. g[U \ {First(U)}] = h[U \ {First(U)}]
  BY <1>1, <1>2, <1>4, FirstIsIn
<1> QED BY <1>2, <1>3, <1>5

LEMMA IterAtTop ==
  ASSUME NEW f, NEW S, IsFiniteSet(S), NEW g, IsIter(f, S, g)
  PROVE  \A U \in SUBSET S : (\E h : IsIter(f, U, h)) => SumFunctionOnSet(f, U) = g[U]
<1> SUFFICES ASSUME NEW U \in SUBSET S, \E h : IsIter(f, U, h)
             PROVE  SumFunctionOnSet(f, U) = g[U]
  OBVIOUS
<1>1. PICK h : h = CHOOSE k : IsIter(f, U, k)
  OBVIOUS
<1>2. IsIter(f, U, h)
  BY <1>1
<1>3. g[U] = h[U]
  BY <1>2, IterAgree
<1> QED BY <1>1, <1>3, SumIsIter

LEMMA IterExists ==
  ASSUME NEW f, NEW S, IsFiniteSet(S)
  PROVE  \A T \in SUBSET S : \E g : IsIter(f, T, g)
<1> DEFINE B == {T \in SUBSET S : ~ \E g : IsIter(f, T, g)}
<1> SUFFICES ASSUME B # {} PROVE FALSE
  OBVIOUS
<1>1. PICK T \in B : \A V \in B : V \subseteq T => V = T
  <2>1. B \in SUBSET (SUBSET S)
    OBVIOUS
  <2> HIDE DEF B
  <2> QED BY <2>1, SmallestSet
<1>2. T \in SUBSET S /\ IsFiniteSet(T) /\ ~ \E g : IsIter(f, T, g)
  BY <1>1, FS_Subset
<1>3. \A V \in SUBSET T : V # T => \E g : IsIter(f, V, g)
  BY <1>1, <1>2
<1>4. PICK F : F = [V \in SUBSET T |-> SumFunctionOnSet(f, V)]
  OBVIOUS
<1>5. PICK g : g = [V \in SUBSET T |->
                       IF V = {} THEN 0 ELSE f[First(V)] + F[V \ {First(V)}]]
  OBVIOUS
<1>6. ASSUME NEW V \in SUBSET T, V # T PROVE g[V] = F[V]
  <2>1. PICK h : IsIter(f, V, h)
    BY <1>3, <1>6
  <2>2. IsFiniteSet(V)
    BY <1>2, FS_Subset
  <2>3. F[V] = h[V]
    BY <2>1, <2>2, <1>4, IterAtTop
  <2>4. CASE V = {}
    <3>1. h[V] = 0
      BY <2>1, <2>4 DEF IsIter
    <3> QED BY <3>1, <2>3, <2>4, <1>5
  <2>5. CASE V # {}
    <3>1. PICK W : W = V \ {First(V)}
      OBVIOUS
    <3>2. W \in SUBSET V /\ W \in SUBSET T /\ W # T
      BY <3>1, <2>5, FirstIsIn
    <3>3. F[W] = h[W]
      <4>1. \E k : IsIter(f, W, k)
        BY <3>2, <1>3
      <4>2. SumFunctionOnSet(f, W) = h[W]
        BY <2>1, <2>2, <3>2, <4>1, IterAtTop
      <4> QED BY <4>2, <3>2, <1>4
    <3>4. h[V] = f[First(V)] + h[W]
      BY <2>1, <2>5, <3>1 DEF IsIter
    <3>5. g[V] = f[First(V)] + F[W]
      BY <1>5, <2>5, <3>1
    <3> QED BY <3>3, <3>4, <3>5, <2>3
  <2> QED BY <2>4, <2>5
<1>7. ASSUME NEW V \in SUBSET T, V # {} PROVE g[V \ {First(V)}] = F[V \ {First(V)}]
  BY <1>6, <1>7, FirstIsIn
<1>8. g = [V \in SUBSET T |-> IF V = {} THEN 0 ELSE f[First(V)] + g[V \ {First(V)}]]
  <2>1. ASSUME NEW V \in SUBSET T
        PROVE  g[V] = IF V = {} THEN 0 ELSE f[First(V)] + g[V \ {First(V)}]
    BY <1>5, <1>7
  <2> QED BY <2>1, <1>5
<1> QED BY <1>2, <1>8 DEF IsIter

LEMMA SumOfNone ==
  ASSUME NEW f
  PROVE  SumFunctionOnSet(f, {}) = 0
<1>1. PICK g : IsIter(f, {}, g) /\ g[{}] = SumFunctionOnSet(f, {})
  <2>1. \E g : IsIter(f, {}, g)
    BY IterExists, FS_EmptySet
  <2> QED BY <2>1, SumIsIter
<1> QED BY <1>1 DEF IsIter

LEMMA SumFirst ==
  ASSUME NEW f, NEW S, IsFiniteSet(S), S # {}
  PROVE  SumFunctionOnSet(f, S) = f[First(S)] + SumFunctionOnSet(f, S \ {First(S)})
<1>1. PICK g : IsIter(f, S, g)
  BY IterExists
<1>2. g[S] = f[First(S)] + g[S \ {First(S)}]
  BY <1>1 DEF IsIter
<1>3. ASSUME NEW U \in SUBSET S PROVE SumFunctionOnSet(f, U) = g[U]
  <2>1. \E h : IsIter(f, U, h)
    BY IterExists
  <2> QED BY <1>1, <2>1, IterAtTop
<1> QED BY <1>2, <1>3, S \ {First(S)} \in SUBSET S

LEMMA SumIsNat ==
  ASSUME NEW f, NEW S, IsFiniteSet(S), \A x \in S : f[x] \in Nat
  PROVE  SumFunctionOnSet(f, S) \in Nat
<1> DEFINE B == {T \in SUBSET S : SumFunctionOnSet(f, T) \notin Nat}
<1> SUFFICES ASSUME B # {} PROVE FALSE
  OBVIOUS
<1>1. PICK T \in B : \A V \in B : V \subseteq T => V = T
  <2>1. B \in SUBSET (SUBSET S)
    OBVIOUS
  <2> HIDE DEF B
  <2> QED BY <2>1, SmallestSet
<1>2. IsFiniteSet(T) /\ T # {}
  <2>1. SumFunctionOnSet(f, T) \notin Nat /\ T \in SUBSET S
    BY <1>1
  <2>2. SumFunctionOnSet(f, {}) \in Nat
    BY SumOfNone
  <2> QED BY <2>1, <2>2, FS_Subset
<1>3. First(T) \in T
  BY <1>2, FirstIsIn
<1>4. SumFunctionOnSet(f, T) = f[First(T)] + SumFunctionOnSet(f, T \ {First(T)})
  BY <1>2, SumFirst
<1>5. SumFunctionOnSet(f, T \ {First(T)}) \in Nat
  BY <1>1, <1>3
<1>6. f[First(T)] \in Nat
  BY <1>1, <1>3
<1> HIDE DEF B
<1>7. SumFunctionOnSet(f, T) \notin Nat
  BY <1>1 DEF B
<1> QED BY <1>4, <1>5, <1>6, <1>7

\* A sum does not depend on the order of its terms.
LEMMA SumStep ==
  ASSUME NEW f, NEW S, IsFiniteSet(S), \A x \in S : f[x] \in Nat, NEW y \in S
  PROVE  SumFunctionOnSet(f, S) = f[y] + SumFunctionOnSet(f, S \ {y})
<1> DEFINE B == {T \in SUBSET S : \E z \in T : SumFunctionOnSet(f, T) # f[z] + SumFunctionOnSet(f, T \ {z})}
<1> SUFFICES ASSUME B # {} PROVE FALSE
  OBVIOUS
<1>1. PICK T \in B : \A V \in B : V \subseteq T => V = T
  <2>1. B \in SUBSET (SUBSET S)
    OBVIOUS
  <2> HIDE DEF B
  <2> QED BY <2>1, SmallestSet
<1>2. T \in SUBSET S /\ \E z \in T : SumFunctionOnSet(f, T) # f[z] + SumFunctionOnSet(f, T \ {z})
  BY <1>1
<1>3. PICK z \in T : SumFunctionOnSet(f, T) # f[z] + SumFunctionOnSet(f, T \ {z})
  BY <1>2
<1>4. PICK x : x = First(T)
  OBVIOUS
<1>5. /\ IsFiniteSet(T) /\ T # {} /\ x \in T
      /\ SumFunctionOnSet(f, T) = f[x] + SumFunctionOnSet(f, T \ {x})
  BY <1>2, <1>3, <1>4, FS_Subset, FirstIsIn, SumFirst
<1>6. x # z
  BY <1>3, <1>5
<1>7. SumFunctionOnSet(f, T \ {x}) = f[z] + SumFunctionOnSet(f, (T \ {x}) \ {z})
  BY <1>1, <1>2, <1>5, <1>6
<1>8. SumFunctionOnSet(f, T \ {z}) = f[x] + SumFunctionOnSet(f, (T \ {z}) \ {x})
  BY <1>1, <1>2, <1>5, <1>6
<1>9. (T \ {x}) \ {z} = (T \ {z}) \ {x}
  OBVIOUS
<1>10. f[x] \in Nat /\ f[z] \in Nat /\ SumFunctionOnSet(f, (T \ {z}) \ {x}) \in Nat
  <2>1. IsFiniteSet((T \ {z}) \ {x})
    BY <1>5, FS_Subset
  <2> QED BY <2>1, <1>2, <1>5, SumIsNat
<1>11. PICK m : m = SumFunctionOnSet(f, (T \ {z}) \ {x})
  OBVIOUS
<1>12. f[x] + (f[z] + m) = f[z] + (f[x] + m)
  BY <1>10, <1>11
<1> QED BY <1>3, <1>5, <1>7, <1>8, <1>9, <1>11, <1>12

LEMMA SumCongruent ==
  ASSUME NEW f, NEW h, NEW S, IsFiniteSet(S), \A x \in S : f[x] = h[x]
  PROVE  SumFunctionOnSet(f, S) = SumFunctionOnSet(h, S)
<1> DEFINE B == {T \in SUBSET S : SumFunctionOnSet(f, T) # SumFunctionOnSet(h, T)}
<1> SUFFICES ASSUME B # {} PROVE FALSE
  OBVIOUS
<1>1. PICK T \in B : \A V \in B : V \subseteq T => V = T
  <2>1. B \in SUBSET (SUBSET S)
    OBVIOUS
  <2> HIDE DEF B
  <2> QED BY <2>1, SmallestSet
<1>2. T \in SUBSET S /\ IsFiniteSet(T) /\ T # {} /\ SumFunctionOnSet(f, T) # SumFunctionOnSet(h, T)
  BY <1>1, FS_Subset, SumOfNone
<1>3. First(T) \in T
  BY <1>2, FirstIsIn
<1>4. /\ SumFunctionOnSet(f, T) = f[First(T)] + SumFunctionOnSet(f, T \ {First(T)})
      /\ SumFunctionOnSet(h, T) = h[First(T)] + SumFunctionOnSet(h, T \ {First(T)})
  BY <1>2, SumFirst
<1>5. SumFunctionOnSet(f, T \ {First(T)}) = SumFunctionOnSet(h, T \ {First(T)})
  BY <1>1, <1>2, <1>3
<1>6. f[First(T)] = h[First(T)]
  BY <1>2, <1>3
<1> QED BY <1>2, <1>4, <1>5, <1>6

LEMMA SumExtend ==
  ASSUME NEW D, IsFiniteSet(D), NEW y, y \notin D,
         NEW f, DOMAIN f = D, NEW g, DOMAIN g = D \cup {y},
         \A x \in D : g[x] = f[x], \A x \in D \cup {y} : g[x] \in Nat
  PROVE  SumFunction(f) \in Nat /\ SumFunction(g) = g[y] + SumFunction(f)
<1>1. IsFiniteSet(D \cup {y})
  BY FS_AddElement
<1>2. SumFunctionOnSet(g, D \cup {y}) = g[y] + SumFunctionOnSet(g, (D \cup {y}) \ {y})
  BY <1>1, SumStep
<1>3. (D \cup {y}) \ {y} = D
  OBVIOUS
<1>4. SumFunctionOnSet(g, D) = SumFunctionOnSet(f, D)
  BY SumCongruent
<1>5. \A x \in D : f[x] \in Nat
  OBVIOUS
<1>6. SumFunctionOnSet(f, D) \in Nat
  BY <1>5, SumIsNat
<1> QED BY <1>2, <1>3, <1>4, <1>6 DEF SumFunction

\* No sum passes the largest term times the number of terms.
LEMMA SumBound ==
  ASSUME NEW f, NEW S, IsFiniteSet(S), NEW m \in Nat, \A x \in S : f[x] \in 0 .. m
  PROVE  SumFunctionOnSet(f, S) <= Cardinality(S) * m
<1> DEFINE B == {T \in SUBSET S : ~ (SumFunctionOnSet(f, T) <= Cardinality(T) * m)}
<1> SUFFICES ASSUME B # {} PROVE FALSE
  OBVIOUS
<1>1. PICK T \in B : \A V \in B : V \subseteq T => V = T
  <2>1. B \in SUBSET (SUBSET S)
    OBVIOUS
  <2> HIDE DEF B
  <2> QED BY <2>1, SmallestSet
<1>2. T \in SUBSET S /\ ~ (SumFunctionOnSet(f, T) <= Cardinality(T) * m)
  BY <1>1
<1>3. IsFiniteSet(T) /\ T # {}
  <2>1. SumFunctionOnSet(f, {}) <= Cardinality({}) * m
    BY SumOfNone, FS_EmptySet
  <2> QED BY <1>2, <2>1, FS_Subset
<1>4. PICK x \in T : TRUE
  BY <1>3
<1>5. PICK U : U = T \ {x}
  OBVIOUS
<1>6. SumFunctionOnSet(f, T) = f[x] + SumFunctionOnSet(f, U)
  BY <1>2, <1>3, <1>5, SumStep
<1>7. SumFunctionOnSet(f, U) <= Cardinality(U) * m
  BY <1>1, <1>2, <1>4, <1>5
<1>8. /\ IsFiniteSet(U) /\ Cardinality(U) \in Nat /\ Cardinality(T) \in Nat
      /\ Cardinality(T) = Cardinality(U) + 1
  <2>1. IsFiniteSet(U) /\ Cardinality(U) = Cardinality(T) - 1
    BY <1>3, <1>4, <1>5, FS_RemoveElement
  <2>2. Cardinality(U) \in Nat /\ Cardinality(T) \in Nat
    BY <1>3, <2>1, FS_CardinalityType
  <2> QED BY <2>1, <2>2
<1>9. SumFunctionOnSet(f, U) \in Nat /\ f[x] \in 0 .. m
  BY <1>2, <1>5, <1>8, SumIsNat
<1>10. (Cardinality(U) + 1) * m = Cardinality(U) * m + m
  BY <1>8
<1>11. PICK n \in Nat : n = Cardinality(U) * m
  BY <1>8
<1>12. PICK s \in Nat : s = SumFunctionOnSet(f, U)
  BY <1>9
<1>13. f[x] + s <= n + m
  BY <1>7, <1>9, <1>11, <1>12
<1> QED BY <1>2, <1>6, <1>8, <1>10, <1>11, <1>12, <1>13

(***************************************************************************)
(* Usages added up                                                         *)
(***************************************************************************)

LEMMA UnsetIs ==
  /\ Unset \notin Nat
  /\ \A u \in UsageSet : u # Unset
  /\ \A l \in LimitSet : l # Unset
  /\ \A e \in UsageSet, b \in BOOLEAN : [estimated |-> e, settled |-> b] # Unset
  /\ \A e \in Usages : e \in UsageSet
  /\ Unset \notin [estimated : Usages, settled : BOOLEAN]
BY BudgetAssumption DEF ReservationSet

LEMMA TokensAreNat ==
  ASSUME NEW u \in UsageSet
  PROVE  /\ _tokens(u) \in Nat /\ _cost(u) \in Nat /\ u.parts \in Nat
         /\ u.cost \in Nat \cup {Unset} /\ u.total \in Nat \cup {Unset}
BY DEF UsageSet, _tokens, _cost

TokensOf(u) == [x \in DOMAIN u |-> _tokens(u[x])]

LEMMA SumUsageParts ==
  ASSUME NEW u, NEW D, IsFiniteSet(D), u \in [D -> UsageSet]
  PROVE  /\ SumUsage(u).total = SumFunction(TokensOf(u))
         /\ SumUsage(u) \in UsageSet
         /\ SumUsage(u).total \in Nat
         /\ _tokens(SumUsage(u)) = SumUsage(u).total
<1>1. PICK R : R = {x \in D : u[x].cost # Unset}
  OBVIOUS
<1>2. IsFiniteSet(R) /\ R \subseteq D
  BY <1>1, FS_Subset
<1>3. PICK t : t = TokensOf(u)
  OBVIOUS
<1>4. PICK p : p = [x \in DOMAIN u |-> u[x].parts]
  OBVIOUS
<1>5. PICK q : q = [x \in R |-> u[x].cost]
  OBVIOUS
<1>6. DOMAIN t = D /\ DOMAIN p = D /\ DOMAIN q = R
  BY <1>3, <1>4, <1>5 DEF TokensOf
<1>7. /\ \A x \in D : t[x] \in Nat
      /\ \A x \in D : p[x] \in Nat
      /\ \A x \in R : q[x] \in Nat
  BY <1>1, <1>2, <1>3, <1>4, <1>5, TokensAreNat DEF TokensOf
<1>8. SumFunction(t) \in Nat /\ SumFunction(p) \in Nat /\ SumFunction(q) \in Nat
  BY <1>2, <1>6, <1>7, SumIsNat DEF SumFunction
<1>9. SumUsage(u) = [total |-> SumFunction(t), parts |-> SumFunction(p),
                     cost |-> IF R = {} THEN Unset ELSE SumFunction(q)]
  BY <1>1, <1>3, <1>4, <1>5 DEF SumUsage, TokensOf
<1>10. (IF R = {} THEN Unset ELSE SumFunction(q)) \in Nat \cup {Unset}
  BY <1>8
<1>11. SumUsage(u) \in UsageSet /\ SumUsage(u).total = SumFunction(t) /\ SumUsage(u).total \in Nat
  BY <1>8, <1>9, <1>10 DEF UsageSet
<1> QED BY <1>11, <1>3, UnsetIs DEF _tokens

\* One more usage: its tokens and, when it is known, its cost are added.
LEMMA SumUsageExtend ==
  ASSUME NEW D, IsFiniteSet(D), NEW y, y \notin D,
         NEW u \in [D -> UsageSet], NEW v \in [D \cup {y} -> UsageSet],
         \A x \in D : v[x] = u[x]
  PROVE  /\ SumUsage(v).total = _tokens(v[y]) + SumUsage(u).total
         /\ SumUsage(v).cost = _add_cost(SumUsage(u).cost, v[y].cost)
<1>1. IsFiniteSet(D \cup {y})
  BY FS_AddElement
<1>2. SumUsage(v).total = _tokens(v[y]) + SumUsage(u).total
  <2>1. PICK t : t = TokensOf(u)
    OBVIOUS
  <2>2. PICK s : s = TokensOf(v)
    OBVIOUS
  <2>3. /\ DOMAIN t = D /\ DOMAIN s = D \cup {y} /\ \A x \in D : s[x] = t[x]
        /\ \A x \in D \cup {y} : s[x] \in Nat /\ s[x] = _tokens(v[x])
    BY <2>1, <2>2, TokensAreNat DEF TokensOf
  <2>4. SumFunction(s) = s[y] + SumFunction(t)
    <3>1. \A x \in D \cup {y} : s[x] \in Nat
      BY <2>3
    <3> QED BY <2>3, <3>1, SumExtend
  <2> QED BY <1>1, <2>1, <2>2, <2>3, <2>4, SumUsageParts
<1>3. SumUsage(v).cost = _add_cost(SumUsage(u).cost, v[y].cost)
  <2>1. PICK R : R = {x \in D : u[x].cost # Unset}
    OBVIOUS
  <2>2. PICK Q : Q = {x \in D \cup {y} : v[x].cost # Unset}
    OBVIOUS
  <2>3. PICK p : p = [x \in R |-> u[x].cost]
    OBVIOUS
  <2>4. PICK q : q = [x \in Q |-> v[x].cost]
    OBVIOUS
  <2>5. /\ SumUsage(u).cost = IF R = {} THEN Unset ELSE SumFunction(p)
        /\ SumUsage(v).cost = IF Q = {} THEN Unset ELSE SumFunction(q)
    BY <2>1, <2>2, <2>3, <2>4 DEF SumUsage
  <2>6. CASE v[y].cost = Unset
    <3>1. Q = R
      BY <2>1, <2>2, <2>6
    <3>2. q = p
      BY <3>1, <2>1, <2>3, <2>4
    <3> QED BY <3>1, <3>2, <2>5, <2>6 DEF _add_cost
  <2>7. CASE v[y].cost # Unset
    <3>1. Q = R \cup {y} /\ y \notin R /\ R \subseteq D
      BY <2>1, <2>2, <2>7
    <3>2. IsFiniteSet(R)
      BY <3>1, FS_Subset
    <3>3. DOMAIN p = R /\ DOMAIN q = R \cup {y} /\ \A x \in R : q[x] = p[x]
      BY <3>1, <2>3, <2>4
    <3>4. \A x \in R \cup {y} : q[x] \in Nat
      BY <3>1, <2>2, <2>4, TokensAreNat
    <3>5. SumFunction(p) \in Nat /\ SumFunction(q) = q[y] + SumFunction(p)
      BY <3>1, <3>2, <3>3, <3>4, SumExtend
    <3>6. q[y] = v[y].cost /\ v[y].cost \in Nat
      BY <3>1, <3>4, <2>4
    <3>7. CASE R = {}
      <4>1. SumFunction(p) = 0
        BY <3>3, <3>7, SumOfNone DEF SumFunction
      <4> QED BY <4>1, <3>1, <3>5, <3>6, <3>7, <2>5 DEF _add_cost
    <3>8. CASE R # {}
      <4>1. SumFunction(p) # Unset
        BY <3>5, UnsetIs
      <4>2. SumUsage(u).cost = SumFunction(p) /\ SumUsage(v).cost = v[y].cost + SumFunction(p)
        BY <3>1, <3>5, <3>6, <3>8, <2>5
      <4>3. v[y].cost + SumFunction(p) = SumFunction(p) + v[y].cost
        BY <3>5, <3>6
      <4> QED BY <4>1, <4>2, <4>3, <2>7 DEF _add_cost
    <3> QED BY <3>7, <3>8
  <2> QED BY <2>6, <2>7
<1> QED BY <1>2, <1>3

\* One usage of a sum changed.
LEMMA SumUsageReplace ==
  ASSUME NEW D, IsFiniteSet(D), NEW y \in D,
         NEW u \in [D -> UsageSet], NEW v \in [D -> UsageSet],
         \A x \in D : x # y => v[x] = u[x]
  PROVE  SumUsage(v).total + _tokens(u[y]) = SumUsage(u).total + _tokens(v[y])
<1>1. PICK C : C = D \ {y}
  OBVIOUS
<1>2. IsFiniteSet(C) /\ y \notin C /\ D = C \cup {y} /\ C \subseteq D
  BY <1>1, FS_Subset
<1>3. PICK w : w = [x \in C |-> u[x]]
  OBVIOUS
<1>4. w \in [C -> UsageSet]
  BY <1>2, <1>3
<1>5. (\A x \in C : u[x] = w[x]) /\ (\A x \in C : v[x] = w[x])
  BY <1>1, <1>3
<1>6. u \in [C \cup {y} -> UsageSet] /\ v \in [C \cup {y} -> UsageSet]
  BY <1>2
<1>7. SumUsage(u).total = _tokens(u[y]) + SumUsage(w).total
  BY <1>2, <1>4, <1>5, <1>6, SumUsageExtend
<1>8. SumUsage(v).total = _tokens(v[y]) + SumUsage(w).total
  BY <1>2, <1>4, <1>5, <1>6, SumUsageExtend
<1>9. SumUsage(w).total \in Nat
  BY <1>2, <1>4, SumUsageParts
<1>10. _tokens(u[y]) \in Nat /\ _tokens(v[y]) \in Nat
  BY TokensAreNat
<1> QED BY <1>7, <1>8, <1>9, <1>10

(***************************************************************************)
(* The invariant of the budget                                             *)
(***************************************************************************)

BudgetTypeOK ==
    /\ ledger \in [Roles -> [usage : UsageSet, calls : Nat]]
    /\ reservations \in [Calls -> [estimated : Usages, settled : BOOLEAN] \cup {Unset}]
    /\ now \in Nat
    /\ charged \in [Calls -> Usages \cup {Unset}]
    /\ honest \in BOOLEAN

ChargedUsage(S) == SumUsage([c \in Charged(S) |-> charged[c]])

\* A call is charged when it is settled, and a role has one call open at a time.
CallsFit ==
    /\ \A c \in Calls : charged[c] # Unset <=> reservations[c] # Unset /\ reservations[c].settled
    /\ \A c, d \in Unsettled(Calls) : c[1] = d[1] => c = d

\* What a role spent is what its calls were charged, and so for the run.
LedgerFits ==
    /\ \A r \in Roles :
           /\ ledger[r].calls = Cardinality(Charged(Of(r)))
           /\ ledger[r].usage.total = ChargedUsage(Of(r)).total
           /\ ledger[r].usage.cost = ChargedUsage(Of(r)).cost
    /\ _settled_run.total = ChargedUsage(Calls).total

\* At the limit: the calls in flight have room for one call per role.
RunRoom ==
    RunLimits.tokens # Unset =>
        /\ ChargedUsage(Calls).total + Cardinality(Unsettled(Calls)) * MaxTokens
               < RunLimits.tokens + Cardinality(Roles) * MaxTokens
        /\ honest => ChargedUsage(Calls).total + _reserved_usage(Calls).total
                         < RunLimits.tokens + MaxTokens

RoleRoom ==
    \A r \in Roles : limits_for(r).tokens # Unset =>
        /\ ChargedUsage(Of(r)).total < limits_for(r).tokens + MaxTokens
        /\ Unsettled(Of(r)) # {} => ChargedUsage(Of(r)).total < limits_for(r).tokens

BInv == BudgetTypeOK /\ CallsFit /\ LedgerFits /\ RunRoom /\ RoleRoom

(***************************************************************************)
(* The constants                                                           *)
(***************************************************************************)

LEMMA CallsAreFinite ==
  /\ IsFiniteSet(Calls)
  /\ \A S \in SUBSET Calls : IsFiniteSet(S)
  /\ \A r : Of(r) \in SUBSET Calls
<1>1. IsFiniteSet(Calls)
  BY BudgetAssumption, FS_Product DEF Calls
<1>2. \A S \in SUBSET Calls : IsFiniteSet(S)
  BY <1>1, FS_Subset
<1> QED BY <1>1, <1>2 DEF Of

LEMMA RoleLimit ==
  ASSUME NEW r \in Roles
  PROVE  /\ limits_for(r).tokens \in (Nat \ {0}) \cup {Unset}
         /\ RunLimits.tokens \in (Nat \ {0}) \cup {Unset}
         /\ RunLimits.cost \in Nat \cup {Unset}
         /\ Allowance[r] = Unset => limits_for(r) = RunLimits
<1>1. RunLimits \in LimitSet /\ (Allowance[r] \in LimitSet \/ Allowance[r] = Unset)
  BY BudgetAssumption
<1>2. CASE Allowance[r] = Unset
  BY <1>1, <1>2 DEF limits_for, LimitSet
<1>3. CASE Allowance[r] \in LimitSet
  <2>1. Allowance[r] # Unset
    BY <1>3, UnsetIs
  <2>2. limits_for(r).tokens = _tighter(RunLimits.tokens, Allowance[r].tokens)
    BY <2>1 DEF limits_for
  <2> QED BY <1>1, <1>3, <2>1, <2>2 DEF LimitSet, _tighter
<1> QED BY <1>1, <1>2, <1>3

\* Of finitely many usages one has the most tokens.
LEMMA GreatestUsage ==
  \E u \in Usages : \A v \in Usages : _tokens(v) <= _tokens(u)
<1> DEFINE B == {T \in SUBSET Usages : T # {} /\ ~ \E u \in T : \A v \in T : _tokens(v) <= _tokens(u)}
<1> SUFFICES ASSUME B # {} PROVE FALSE
  <2>1. Usages # {}
    BY BudgetAssumption
  <2> QED BY <2>1
<1>1. PICK T \in B : \A V \in B : V \subseteq T => V = T
  <2>1. B \in SUBSET (SUBSET Usages)
    OBVIOUS
  <2> HIDE DEF B
  <2> QED BY <2>1, SmallestSet, BudgetAssumption
<1>2. T \in SUBSET Usages /\ T # {} /\ ~ \E u \in T : \A v \in T : _tokens(v) <= _tokens(u)
  BY <1>1
<1>3. \A u \in T : _tokens(u) \in Nat
  BY <1>2, UnsetIs, TokensAreNat
<1>4. PICK x \in T : TRUE
  BY <1>2
<1>5. T \ {x} # {}
  <2>1. ASSUME T \ {x} = {} PROVE FALSE
    <3>1. \A v \in T : _tokens(v) <= _tokens(x)
      BY <2>1, <1>3
    <3> QED BY <3>1, <1>2
  <2> QED BY <2>1
<1>6. PICK u \in T \ {x} : \A v \in T \ {x} : _tokens(v) <= _tokens(u)
  <2>1. T \ {x} \notin B
    BY <1>1, <1>4
  <2> QED BY <2>1, <1>2, <1>5
<1>7. CASE _tokens(x) <= _tokens(u)
  BY <1>2, <1>6, <1>7
<1>8. CASE ~ (_tokens(x) <= _tokens(u))
  <2>1. \A v \in T : _tokens(v) <= _tokens(x)
    BY <1>3, <1>6, <1>8
  <2> QED BY <2>1, <1>2
<1> QED BY <1>7, <1>8

LEMMA MaxTokensIs ==
  /\ MaxTokens \in Nat
  /\ \A u \in Usages : _tokens(u) \in Nat /\ _tokens(u) <= MaxTokens
<1>1. \A u \in Usages : _tokens(u) \in Nat
  BY UnsetIs, TokensAreNat
<1>2. PICK T : T = {_tokens(u) : u \in Usages}
  OBVIOUS
<1>3. PICK u \in Usages : \A v \in Usages : _tokens(v) <= _tokens(u)
  BY GreatestUsage
<1>4. \E x \in T : \A y \in T : x >= y
  BY <1>1, <1>2, <1>3
<1>5. Max(T) \in T /\ \A y \in T : Max(T) >= y
  BY <1>4 DEF Max
<1>6. MaxTokens = Max(T)
  BY <1>2 DEF MaxTokens
<1> QED BY <1>1, <1>2, <1>5, <1>6

\* The calls in flight are of different roles.
LEMMA OpenCalls ==
  ASSUME BInv
  PROVE  /\ Cardinality(Unsettled(Calls)) \in Nat /\ Cardinality(Roles) \in Nat
         /\ Cardinality(Unsettled(Calls)) <= Cardinality(Roles)
         /\ \A r \in Roles : Unsettled(Of(r)) = {} =>
                Cardinality(Unsettled(Calls)) + 1 <= Cardinality(Roles)
<1>1. PICK O : O = Unsettled(Calls)
  OBVIOUS
<1>2. PICK f : f = [c \in O |-> c[1]]
  OBVIOUS
<1>3. O \subseteq Calls /\ IsFiniteSet(O)
  BY <1>1, CallsAreFinite DEF Unsettled, Issued
<1>4. \A c, d \in O : c[1] = d[1] => c = d
  BY <1>1 DEF BInv, CallsFit
<1>5. IsFiniteSet(Roles)
  BY BudgetAssumption
<1>6. f \in Injection(O, Roles)
  BY <1>2, <1>3, <1>4 DEF Injection, IsInjective, Calls
<1>7. Cardinality(O) <= Cardinality(Roles)
  BY <1>5, <1>6, FS_Injection
<1>8. Cardinality(O) \in Nat /\ Cardinality(Roles) \in Nat
  BY <1>3, <1>5, FS_CardinalityType
<1>9. ASSUME NEW r \in Roles, Unsettled(Of(r)) = {}
      PROVE  Cardinality(O) + 1 <= Cardinality(Roles)
  <2>1. \A c \in O : c[1] # r
    BY <1>1, <1>9 DEF Unsettled, Issued, Of
  <2>2. f \in Injection(O, Roles \ {r})
    BY <2>1, <1>2, <1>3, <1>4 DEF Injection, IsInjective, Calls
  <2>3. IsFiniteSet(Roles \ {r}) /\ Cardinality(Roles \ {r}) = Cardinality(Roles) - 1
    BY <1>5, FS_RemoveElement
  <2>4. Cardinality(O) <= Cardinality(Roles \ {r})
    BY <2>2, <2>3, FS_Injection
  <2> QED BY <2>3, <2>4, <1>8
<1> QED BY <1>1, <1>7, <1>8, <1>9

(***************************************************************************)
(* The sums of a state                                                     *)
(***************************************************************************)

LEMMA CallFunctions ==
  ASSUME BudgetTypeOK, NEW S \in SUBSET Calls
  PROVE  /\ IsFiniteSet(Charged(S)) /\ Charged(S) \subseteq S
         /\ IsFiniteSet(Unsettled(S)) /\ Unsettled(S) \subseteq S
         /\ [c \in Charged(S) |-> charged[c]] \in [Charged(S) -> UsageSet]
         /\ [c \in Unsettled(S) |-> reservations[c].estimated] \in [Unsettled(S) -> UsageSet]
         /\ \A c \in Unsettled(S) : reservations[c].estimated \in Usages
         /\ IsFiniteSet(_known_roles) /\ _known_roles \subseteq Roles
         /\ [r \in _known_roles |-> ledger[r].usage] \in [_known_roles -> UsageSet]
<1>1. Charged(S) \in SUBSET S /\ Unsettled(S) \in SUBSET S /\ _known_roles \in SUBSET Roles
  BY DEF Charged, Unsettled, Issued, _known_roles
<1>2. IsFiniteSet(Charged(S)) /\ IsFiniteSet(Unsettled(S)) /\ IsFiniteSet(_known_roles)
  BY <1>1, CallsAreFinite, FS_Subset, BudgetAssumption
<1>3. \A c \in Charged(S) : charged[c] \in UsageSet
  <2>1. \A c \in Charged(S) : c \in Calls /\ charged[c] # Unset
    BY DEF Charged
  <2> QED BY <2>1, UnsetIs DEF BudgetTypeOK
<1>4. \A c \in Unsettled(S) : reservations[c].estimated \in Usages
  <2>1. \A c \in Unsettled(S) : c \in Calls /\ reservations[c] # Unset
    BY DEF Unsettled, Issued
  <2> QED BY <2>1 DEF BudgetTypeOK
<1>5. \A r \in _known_roles : ledger[r].usage \in UsageSet
  BY <1>1 DEF BudgetTypeOK
<1> QED BY <1>1, <1>2, <1>3, <1>4, <1>5, UnsetIs

LEMMA SumsOfState ==
  ASSUME BudgetTypeOK, NEW S \in SUBSET Calls
  PROVE  /\ ChargedUsage(S) \in UsageSet /\ ChargedUsage(S).total \in Nat
         /\ _tokens(ChargedUsage(S)) = ChargedUsage(S).total
         /\ _reserved_usage(S) \in UsageSet /\ _reserved_usage(S).total \in Nat
         /\ _tokens(_reserved_usage(S)) = _reserved_usage(S).total
         /\ _settled_run \in UsageSet /\ _settled_run.total \in Nat
         /\ _tokens(_settled_run) = _settled_run.total
         /\ Committed(S) = ChargedUsage(S).total + _reserved_usage(S).total
<1>1. PICK f : f = [c \in Charged(S) |-> charged[c]]
  OBVIOUS
<1>2. PICK g : g = [c \in Unsettled(S) |-> reservations[c].estimated]
  OBVIOUS
<1>3. PICK h : h = [r \in _known_roles |-> ledger[r].usage]
  OBVIOUS
<1>4. /\ SumUsage(f) \in UsageSet /\ SumUsage(f).total \in Nat
      /\ _tokens(SumUsage(f)) = SumUsage(f).total
      /\ SumUsage(f).total = SumFunction(TokensOf(f))
  BY <1>1, CallFunctions, SumUsageParts
<1>5. /\ SumUsage(g) \in UsageSet /\ SumUsage(g).total \in Nat
      /\ _tokens(SumUsage(g)) = SumUsage(g).total
      /\ SumUsage(g).total = SumFunction(TokensOf(g))
  BY <1>2, CallFunctions, SumUsageParts
<1>6. /\ SumUsage(h) \in UsageSet /\ SumUsage(h).total \in Nat
      /\ _tokens(SumUsage(h)) = SumUsage(h).total
  BY <1>3, CallFunctions, SumUsageParts
<1>7. /\ ChargedUsage(S) = SumUsage(f) /\ _reserved_usage(S) = SumUsage(g)
      /\ _settled_run = SumUsage(h)
  BY <1>1, <1>2, <1>3 DEF ChargedUsage, _reserved_usage, _settled_run
<1>8. Committed(S) = SumFunction(TokensOf(f)) + SumFunction(TokensOf(g))
  <2>1. TokensOf(f) = [c \in Charged(S) |-> _tokens(charged[c])]
    BY <1>1 DEF TokensOf
  <2>2. TokensOf(g) = [c \in Unsettled(S) |-> _tokens(reservations[c].estimated)]
    BY <1>2 DEF TokensOf
  <2> QED BY <2>1, <2>2 DEF Committed
<1> QED BY <1>4, <1>5, <1>6, <1>7, <1>8

LEMMA NothingSpent ==
  ASSUME NEW u, DOMAIN u = {}
  PROVE  SumUsage(u).total = 0 /\ SumUsage(u).cost = Unset
<1>1. {x \in DOMAIN u : u[x].cost # Unset} = {}
  OBVIOUS
<1>2. PICK t : t = [x \in DOMAIN u |-> _tokens(u[x])]
  OBVIOUS
<1>3. SumFunction(t) = 0
  BY <1>2, SumOfNone DEF SumFunction
<1> QED BY <1>1, <1>2, <1>3 DEF SumUsage

\* The estimates of the calls in flight are at most the largest usage each.
LEMMA ReservedBound ==
  ASSUME BudgetTypeOK
  PROVE  _reserved_usage(Calls).total <= Cardinality(Unsettled(Calls)) * MaxTokens
<1>1. PICK g : g = [c \in Unsettled(Calls) |-> reservations[c].estimated]
  OBVIOUS
<1>2. PICK t : t = TokensOf(g)
  OBVIOUS
<1>3. Calls \in SUBSET Calls
  OBVIOUS
<1>4. /\ IsFiniteSet(Unsettled(Calls)) /\ g \in [Unsettled(Calls) -> UsageSet]
      /\ \A c \in Unsettled(Calls) : g[c] \in Usages
  BY <1>1, <1>3, CallFunctions
<1>5. DOMAIN t = Unsettled(Calls) /\ \A c \in Unsettled(Calls) : t[c] \in 0 .. MaxTokens
  BY <1>1, <1>2, <1>4, MaxTokensIs DEF TokensOf
<1>6. SumFunctionOnSet(t, Unsettled(Calls)) <= Cardinality(Unsettled(Calls)) * MaxTokens
  BY <1>4, <1>5, MaxTokensIs, SumBound
<1>7. SumUsage(g).total = SumFunction(t)
  BY <1>2, <1>4, SumUsageParts
<1>8. SumFunction(t) = SumFunctionOnSet(t, Unsettled(Calls))
  BY <1>5 DEF SumFunction
<1>9. _reserved_usage(Calls).total = SumUsage(g).total
  BY <1>1 DEF _reserved_usage
<1> QED BY <1>6, <1>7, <1>8, <1>9

(***************************************************************************)
(* What a reservation and a settlement change                              *)
(***************************************************************************)

LEMMA ReserveStep ==
  ASSUME BInv, NEW r \in Roles, NEW k \in Keys, NEW e \in Usages, reserve(r, k, e),
         NEW S \in SUBSET Calls
  PROVE  /\ <<r, k>> \in Calls /\ <<r, k>> \notin Unsettled(S)
         /\ Charged(S)' = Charged(S) /\ ChargedUsage(S)' = ChargedUsage(S)
         /\ <<r, k>> \in S => /\ Unsettled(S)' = Unsettled(S) \cup {<<r, k>>}
                              /\ _reserved_usage(S)'.total = _tokens(e) + _reserved_usage(S).total
         /\ <<r, k>> \notin S => Unsettled(S)' = Unsettled(S)
<1>1. PICK c : c = <<r, k>>
  OBVIOUS
<1>2. c \in Calls /\ reservations[c] = Unset
  BY <1>1 DEF reserve, Calls
<1>3. PICK z : z = [estimated |-> e, settled |-> FALSE]
  OBVIOUS
<1>4. z # Unset /\ z.estimated = e /\ ~z.settled
  BY <1>3, UnsetIs
<1>5. reservations' = [reservations EXCEPT ![c] = z] /\ charged' = charged
  BY <1>1, <1>3 DEF reserve
<1>6. /\ DOMAIN reservations = Calls
      /\ reservations'[c] = z /\ \A d \in Calls : d # c => reservations'[d] = reservations[d]
  BY <1>2, <1>5 DEF BInv, BudgetTypeOK
<1>7. Charged(S)' = Charged(S) /\ ChargedUsage(S)' = ChargedUsage(S)
  BY <1>5 DEF Charged, ChargedUsage
<1>8. c \notin Unsettled(S)
  BY <1>2 DEF Unsettled, Issued
<1>9. c \notin S => Unsettled(S)' = Unsettled(S)
  BY <1>6 DEF Unsettled, Issued
<1>10. ASSUME c \in S
       PROVE  /\ Unsettled(S)' = Unsettled(S) \cup {c}
              /\ _reserved_usage(S)'.total = _tokens(e) + _reserved_usage(S).total
  <2>1. Unsettled(S)' = Unsettled(S) \cup {c}
    BY <1>2, <1>4, <1>6, <1>10 DEF Unsettled, Issued
  <2>2. PICK D : D = Unsettled(S)
    OBVIOUS
  <2>3. PICK g : g = [d \in Unsettled(S) |-> reservations[d].estimated]
    OBVIOUS
  <2>4. PICK h : h = [d \in Unsettled(S)' |-> reservations'[d].estimated]
    OBVIOUS
  <2>5. IsFiniteSet(D) /\ g \in [D -> UsageSet] /\ D \subseteq S
    BY <2>2, <2>3, CallFunctions DEF BInv
  <2>6. (\A d \in D : h[d] = g[d]) /\ h[c] = e
    BY <2>1, <2>2, <2>3, <2>4, <2>5, <1>4, <1>6, <1>8
  <2>7. h \in [D \cup {c} -> UsageSet]
    <3>1. \A d \in D \cup {c} : h[d] \in UsageSet
      BY <2>5, <2>6, UnsetIs
    <3> QED BY <3>1, <2>1, <2>2, <2>4
  <2>8. SumUsage(h).total = _tokens(h[c]) + SumUsage(g).total
    BY <2>2, <2>5, <2>6, <2>7, <1>8, SumUsageExtend
  <2>9. _reserved_usage(S) = SumUsage(g) /\ _reserved_usage(S)' = SumUsage(h)
    BY <2>3, <2>4 DEF _reserved_usage
  <2> QED BY <2>1, <2>6, <2>8, <2>9
<1> QED BY <1>1, <1>2, <1>7, <1>8, <1>9, <1>10

LEMMA SettleStep ==
  ASSUME BInv, NEW c \in Calls, NEW u \in Usages \cup {Unset}, settle(c, u),
         NEW S \in SUBSET Calls
  PROVE  /\ u \in Usages /\ u.total \in Nat /\ _tokens(u) = u.total
         /\ charged[c] = Unset /\ charged' = [charged EXCEPT ![c] = u]
         /\ c \in Unsettled(Calls) /\ reservations[c].estimated \in Usages
         /\ c \in S => /\ Charged(S)' = Charged(S) \cup {c} /\ c \notin Charged(S)
                       /\ Unsettled(S)' = Unsettled(S) \ {c} /\ c \in Unsettled(S)
                       /\ ChargedUsage(S)'.total = u.total + ChargedUsage(S).total
                       /\ ChargedUsage(S)'.cost = _add_cost(ChargedUsage(S).cost, u.cost)
                       /\ _reserved_usage(S).total =
                              _tokens(reservations[c].estimated) + _reserved_usage(S)'.total
         /\ c \notin S => /\ Charged(S)' = Charged(S) /\ ChargedUsage(S)' = ChargedUsage(S)
                          /\ Unsettled(S)' = Unsettled(S)
<1>1. /\ reservations[c] # Unset /\ ~reservations[c].settled /\ u # Unset /\ u.total # Unset
      /\ reservations' = [reservations EXCEPT ![c].settled = TRUE]
      /\ charged' = [charged EXCEPT ![c] = IF @ = Unset THEN u ELSE @]
  BY DEF settle, MaySettle
<1>2. u \in Usages /\ u \in UsageSet /\ u.total \in Nat /\ _tokens(u) = u.total
  BY <1>1, UnsetIs, TokensAreNat DEF _tokens
<1>3. charged[c] = Unset
  BY <1>1 DEF BInv, CallsFit
<1>4. /\ charged' = [charged EXCEPT ![c] = u]
      /\ charged'[c] = u /\ \A d \in Calls : d # c => charged'[d] = charged[d]
  BY <1>1, <1>3 DEF BInv, BudgetTypeOK
<1>5. PICK y \in [estimated : Usages, settled : BOOLEAN] : y = reservations[c]
  BY <1>1 DEF BInv, BudgetTypeOK
<1>6. /\ reservations'[c] = [y EXCEPT !.settled = TRUE]
      /\ \A d \in Calls : d # c => reservations'[d] = reservations[d]
  BY <1>1, <1>5 DEF BInv, BudgetTypeOK
<1>7. /\ [y EXCEPT !.settled = TRUE] \in [estimated : Usages, settled : BOOLEAN]
      /\ [y EXCEPT !.settled = TRUE].settled = TRUE
  BY <1>5
<1>8. reservations'[c].settled /\ reservations'[c] # Unset
  BY <1>5, <1>6, <1>7, UnsetIs
<1>9. c \in Unsettled(Calls)
  BY <1>1 DEF Unsettled, Issued
<1>10. c \notin S => /\ Charged(S)' = Charged(S) /\ ChargedUsage(S)' = ChargedUsage(S)
                     /\ Unsettled(S)' = Unsettled(S)
  <2> SUFFICES ASSUME c \notin S
               PROVE  /\ Charged(S)' = Charged(S) /\ ChargedUsage(S)' = ChargedUsage(S)
                      /\ Unsettled(S)' = Unsettled(S)
    OBVIOUS
  <2>1. Charged(S)' = Charged(S)
    BY <1>4 DEF Charged
  <2>2. Unsettled(S)' = Unsettled(S)
    BY <1>6 DEF Unsettled, Issued
  <2>3. [d \in Charged(S)' |-> charged'[d]] = [d \in Charged(S) |-> charged[d]]
    BY <2>1, <1>4 DEF Charged
  <2> QED BY <2>1, <2>2, <2>3 DEF ChargedUsage
<1>11. ASSUME c \in S
       PROVE  /\ Charged(S)' = Charged(S) \cup {c} /\ c \notin Charged(S)
              /\ ChargedUsage(S)'.total = u.total + ChargedUsage(S).total
              /\ ChargedUsage(S)'.cost = _add_cost(ChargedUsage(S).cost, u.cost)
  <2>1. Charged(S)' = Charged(S) \cup {c} /\ c \notin Charged(S)
    BY <1>1, <1>3, <1>4, <1>11 DEF Charged
  <2>2. PICK D : D = Charged(S)
    OBVIOUS
  <2>3. PICK g : g = [d \in Charged(S) |-> charged[d]]
    OBVIOUS
  <2>4. PICK h : h = [d \in Charged(S)' |-> charged'[d]]
    OBVIOUS
  <2>5. IsFiniteSet(D) /\ g \in [D -> UsageSet] /\ D \subseteq S
    BY <2>2, <2>3, CallFunctions DEF BInv
  <2>6. (\A d \in D : h[d] = g[d]) /\ h[c] = u
    BY <2>1, <2>2, <2>3, <2>4, <2>5, <1>4
  <2>7. h \in [D \cup {c} -> UsageSet]
    <3>1. \A d \in D \cup {c} : h[d] \in UsageSet
      BY <2>5, <2>6, <1>2
    <3> QED BY <3>1, <2>1, <2>2, <2>4
  <2>8. /\ SumUsage(h).total = _tokens(h[c]) + SumUsage(g).total
        /\ SumUsage(h).cost = _add_cost(SumUsage(g).cost, h[c].cost)
    BY <2>1, <2>2, <2>5, <2>6, <2>7, SumUsageExtend
  <2>9. ChargedUsage(S) = SumUsage(g) /\ ChargedUsage(S)' = SumUsage(h)
    BY <2>3, <2>4 DEF ChargedUsage
  <2> QED BY <2>1, <2>6, <2>8, <2>9, <1>2
<1>12. ASSUME c \in S
       PROVE  /\ Unsettled(S)' = Unsettled(S) \ {c} /\ c \in Unsettled(S)
              /\ _reserved_usage(S).total =
                     _tokens(reservations[c].estimated) + _reserved_usage(S)'.total
  <2>1. Unsettled(S)' = Unsettled(S) \ {c} /\ c \in Unsettled(S)
    BY <1>1, <1>6, <1>8, <1>12 DEF Unsettled, Issued
  <2>2. PICK D : D = Unsettled(S)'
    OBVIOUS
  <2>3. PICK g : g = [d \in Unsettled(S) |-> reservations[d].estimated]
    OBVIOUS
  <2>4. PICK h : h = [d \in Unsettled(S)' |-> reservations'[d].estimated]
    OBVIOUS
  <2>5. IsFiniteSet(Unsettled(S)) /\ g \in [Unsettled(S) -> UsageSet] /\ Unsettled(S) \subseteq S
    BY <2>3, CallFunctions DEF BInv
  <2>6. IsFiniteSet(D) /\ Unsettled(S) = D \cup {c} /\ c \notin D
    BY <2>1, <2>2, <2>5, FS_Subset
  <2>7. (\A d \in D : g[d] = h[d]) /\ g[c] = reservations[c].estimated
    BY <2>1, <2>2, <2>3, <2>4, <2>5, <2>6, <1>6
  <2>8. g \in [D \cup {c} -> UsageSet]
    BY <2>5, <2>6
  <2>9. h \in [D -> UsageSet]
    <3>1. \A d \in D : h[d] \in UsageSet
      BY <2>7, <2>8
    <3> QED BY <3>1, <2>2, <2>4
  <2>10. SumUsage(g).total = _tokens(g[c]) + SumUsage(h).total
    BY <2>6, <2>7, <2>8, <2>9, SumUsageExtend
  <2>11. _reserved_usage(S) = SumUsage(g) /\ _reserved_usage(S)' = SumUsage(h)
    BY <2>3, <2>4 DEF _reserved_usage
  <2> QED BY <2>1, <2>7, <2>10, <2>11
<1> QED BY <1>2, <1>3, <1>4, <1>5, <1>9, <1>10, <1>11, <1>12

LEMMA AddedTokens ==
  ASSUME NEW u \in UsageSet, NEW v \in UsageSet
  PROVE  /\ _add_usage(u, v) \in UsageSet
         /\ _add_usage(u, v).total = _tokens(u) + _tokens(v)
         /\ _tokens(_add_usage(u, v)) = _tokens(u) + _tokens(v)
         /\ _add_usage(u, v).cost = _add_cost(u.cost, v.cost)
<1>1. /\ _tokens(u) \in Nat /\ _tokens(v) \in Nat /\ u.parts \in Nat /\ v.parts \in Nat
      /\ u.cost \in Nat \cup {Unset} /\ v.cost \in Nat \cup {Unset}
  BY TokensAreNat
<1>2. _add_cost(u.cost, v.cost) \in Nat \cup {Unset}
  BY <1>1 DEF _add_cost
<1>3. PICK t \in Nat : t = _tokens(u) + _tokens(v)
  BY <1>1
<1>4. PICK p \in Nat : p = u.parts + v.parts
  BY <1>1
<1>5. PICK k \in Nat \cup {Unset} : k = _add_cost(u.cost, v.cost)
  BY <1>2
<1>6. _add_usage(u, v) = [total |-> t, parts |-> p, cost |-> k]
  BY <1>3, <1>4, <1>5 DEF _add_usage
<1>7. t # Unset
  BY <1>3, UnsetIs
<1> QED BY <1>3, <1>5, <1>6, <1>7 DEF _tokens, UsageSet

\* What an open check says: run and role are below their token limits.
LEMMA CheckedRoom ==
  ASSUME BInv, NEW r \in Roles, ~budget_stop_reason(r)
  PROVE  /\ RunLimits.tokens # Unset =>
                ChargedUsage(Calls).total + _reserved_usage(Calls).total < RunLimits.tokens
         /\ limits_for(r).tokens # Unset =>
                ChargedUsage(Of(r)).total + _reserved_usage(Of(r)).total < limits_for(r).tokens
<1>1. _run_scope = {} /\ _role_scope(r) = {}
  BY DEF budget_stop_reason, check
<1>2. Calls \in SUBSET Calls /\ Of(r) \in SUBSET Calls /\ BudgetTypeOK
  BY CallsAreFinite DEF BInv
<1>3. /\ _settled_run \in UsageSet /\ _reserved_usage(Calls) \in UsageSet
      /\ _tokens(_settled_run) = ChargedUsage(Calls).total
      /\ _tokens(_reserved_usage(Calls)) = _reserved_usage(Calls).total
  BY <1>2, SumsOfState DEF BInv, LedgerFits
<1>4. _tokens(_effective_run) = ChargedUsage(Calls).total + _reserved_usage(Calls).total
  BY <1>3, AddedTokens DEF _effective_run
<1>5. /\ _reserved_usage(Of(r)) \in UsageSet
      /\ _tokens(_reserved_usage(Of(r))) = _reserved_usage(Of(r)).total
      /\ ChargedUsage(Of(r)).total \in Nat
  BY <1>2, SumsOfState
<1>6. /\ ledger[r].usage \in UsageSet
      /\ _tokens(ledger[r].usage) = ChargedUsage(Of(r)).total
  BY <1>5, UnsetIs DEF BInv, BudgetTypeOK, LedgerFits, _tokens
<1>7. _tokens(_effective_usage(r)) = ChargedUsage(Of(r)).total + _reserved_usage(Of(r)).total
  BY <1>5, <1>6, AddedTokens DEF _effective_usage, _settled_usage
<1>8. ~token_budget_exhausted(RunLimits, _effective_run)
  BY <1>1 DEF _run_scope, continuation_violations
<1>9. ~token_budget_exhausted(limits_for(r), _effective_usage(r))
  BY <1>1 DEF _role_scope, continuation_violations
<1>10. /\ ChargedUsage(Calls).total \in Nat /\ _reserved_usage(Calls).total \in Nat
       /\ ChargedUsage(Of(r)).total \in Nat /\ _reserved_usage(Of(r)).total \in Nat
  BY <1>2, SumsOfState
<1> QED BY <1>4, <1>7, <1>8, <1>9, <1>10, RoleLimit DEF token_budget_exhausted

(***************************************************************************)
(* The invariant is inductive                                              *)
(***************************************************************************)

LEMMA BudgetStart == BudgetInit => BInv
<1> SUFFICES ASSUME BudgetInit PROVE BInv
  OBVIOUS
<1>1. BudgetTypeOK
  <2>1. _zero_usage \in UsageSet
    BY DEF _zero_usage, UsageSet
  <2> QED BY <2>1 DEF BudgetInit, BudgetTypeOK
<1>2. CallsFit
  BY DEF BudgetInit, CallsFit, Unsettled, Issued
<1>3. ASSUME NEW S \in SUBSET Calls
      PROVE  /\ Charged(S) = {} /\ Unsettled(S) = {}
             /\ ChargedUsage(S).total = 0 /\ ChargedUsage(S).cost = Unset
             /\ _reserved_usage(S).total = 0
  <2>1. Charged(S) = {} /\ Unsettled(S) = {}
    BY DEF BudgetInit, Charged, Unsettled, Issued
  <2>2. PICK f : f = [c \in Charged(S) |-> charged[c]]
    OBVIOUS
  <2>3. PICK g : g = [c \in Unsettled(S) |-> reservations[c].estimated]
    OBVIOUS
  <2>4. DOMAIN f = {} /\ DOMAIN g = {}
    BY <2>1, <2>2, <2>3
  <2>5. SumUsage(f).total = 0 /\ SumUsage(f).cost = Unset /\ SumUsage(g).total = 0
    BY <2>4, NothingSpent
  <2> QED BY <2>1, <2>2, <2>3, <2>5 DEF ChargedUsage, _reserved_usage
<1>4. LedgerFits
  <2>1. ASSUME NEW r \in Roles
        PROVE  /\ ledger[r].calls = Cardinality(Charged(Of(r)))
               /\ ledger[r].usage.total = ChargedUsage(Of(r)).total
               /\ ledger[r].usage.cost = ChargedUsage(Of(r)).cost
    <3>1. /\ Charged(Of(r)) = {} /\ ChargedUsage(Of(r)).total = 0
          /\ ChargedUsage(Of(r)).cost = Unset
      BY <1>3, CallsAreFinite
    <3>2. ledger[r].calls = 0 /\ ledger[r].usage = _zero_usage
      BY DEF BudgetInit
    <3> QED BY <3>1, <3>2, FS_EmptySet DEF _zero_usage
  <2>2. _settled_run.total = 0
    <3>1. PICK h : h = [r \in _known_roles |-> ledger[r].usage]
      OBVIOUS
    <3>2. PICK t : t = TokensOf(h)
      OBVIOUS
    <3>3. IsFiniteSet(_known_roles) /\ h \in [_known_roles -> UsageSet]
      BY <1>1, <3>1, CallFunctions
    <3>4. DOMAIN t = _known_roles /\ \A r \in _known_roles : t[r] \in 0 .. 0
      <4>1. \A r \in _known_roles : h[r] = _zero_usage
        BY <3>1 DEF BudgetInit, _known_roles
      <4>2. _tokens(_zero_usage) = 0
        BY UnsetIs DEF _tokens, _zero_usage
      <4> QED BY <4>1, <4>2, <3>2, <3>3 DEF TokensOf
    <3>5. SumFunctionOnSet(t, _known_roles) <= Cardinality(_known_roles) * 0
      BY <3>3, <3>4, SumBound
    <3>6. SumFunctionOnSet(t, _known_roles) \in Nat /\ Cardinality(_known_roles) \in Nat
      BY <3>3, <3>4, SumIsNat, FS_CardinalityType
    <3>7. SumFunction(t) = 0
      BY <3>4, <3>5, <3>6 DEF SumFunction
    <3>8. SumUsage(h).total = 0
      BY <3>2, <3>3, <3>7, SumUsageParts
    <3> QED BY <3>1, <3>8 DEF _settled_run
  <2>3. ChargedUsage(Calls).total = 0
    BY <1>3
  <2> QED BY <2>1, <2>2, <2>3 DEF LedgerFits
<1>5. RunRoom
  <2>1. /\ ChargedUsage(Calls).total = 0 /\ _reserved_usage(Calls).total = 0
        /\ Cardinality(Unsettled(Calls)) = 0
    BY <1>3, FS_EmptySet
  <2>2. Cardinality(Roles) \in Nat /\ MaxTokens \in Nat
    BY FS_CardinalityType, BudgetAssumption, MaxTokensIs
  <2>3. PICK p \in Nat : p = Cardinality(Roles) * MaxTokens
    BY <2>2
  <2>4. RunLimits.tokens # Unset => RunLimits.tokens \in Nat \ {0}
    BY RoleLimit, BudgetAssumption
  <2> QED BY <2>1, <2>2, <2>3, <2>4 DEF RunRoom
<1>6. RoleRoom
  <2>1. ASSUME NEW r \in Roles
        PROVE  ChargedUsage(Of(r)).total = 0 /\ Unsettled(Of(r)) = {}
    BY <1>3, CallsAreFinite
  <2> QED BY <2>1, RoleLimit, MaxTokensIs DEF RoleRoom
<1> QED BY <1>1, <1>2, <1>4, <1>5, <1>6 DEF BInv

LEMMA ReserveKeeps ==
  ASSUME BInv, NEW r \in Roles, NEW k \in Keys, NEW e \in Usages, reserve(r, k, e)
  PROVE  BInv'
<1>1. PICK c : c = <<r, k>>
  OBVIOUS
<1>2. c \in Calls /\ c[1] = r /\ c \in Of(r) /\ c \in Calls /\ reservations[c] = Unset
  BY <1>1 DEF reserve, Calls, Of
<1>3. PICK z \in [estimated : Usages, settled : BOOLEAN] : z = [estimated |-> e, settled |-> FALSE]
  OBVIOUS
<1>4. z # Unset /\ z.settled = FALSE
  BY <1>3, UnsetIs
<1>5. /\ reservations' = [reservations EXCEPT ![c] = z]
      /\ ledger' = ledger /\ now' = now /\ charged' = charged /\ honest' = honest
      /\ ~budget_stop_reason(r) /\ Unsettled(Of(r)) = {}
  BY <1>1, <1>3 DEF reserve, Granted
<1>6. BudgetTypeOK'
  BY <1>2, <1>3, <1>5 DEF BInv, BudgetTypeOK
<1>7. ASSUME NEW S \in SUBSET Calls
      PROVE  /\ Charged(S)' = Charged(S) /\ ChargedUsage(S)' = ChargedUsage(S)
             /\ c \in S => /\ Unsettled(S)' = Unsettled(S) \cup {c} /\ c \notin Unsettled(S)
                           /\ _reserved_usage(S)'.total = _tokens(e) + _reserved_usage(S).total
             /\ c \notin S => Unsettled(S)' = Unsettled(S)
  BY <1>1, ReserveStep
<1>8. Calls \in SUBSET Calls /\ \A q \in Roles : Of(q) \in SUBSET Calls
  BY CallsAreFinite
<1>9. CallsFit'
  <2>1. \A d \in Calls : charged'[d] # Unset <=> reservations'[d] # Unset /\ reservations'[d].settled
    <3>1. SUFFICES ASSUME NEW d \in Calls
                   PROVE  charged'[d] # Unset <=> reservations'[d] # Unset /\ reservations'[d].settled
      OBVIOUS
    <3>2. CASE d = c
      BY <3>2, <1>2, <1>4, <1>5 DEF BInv, BudgetTypeOK, CallsFit
    <3>3. CASE d # c
      BY <3>3, <1>5 DEF BInv, BudgetTypeOK, CallsFit
    <3> QED BY <3>2, <3>3
  <2>2. \A d \in Unsettled(Calls) : d[1] # r
    BY <1>5 DEF Unsettled, Issued, Of
  <2>3. \A d, b \in Unsettled(Calls)' : d[1] = b[1] => d = b
    <3>1. Unsettled(Calls)' = Unsettled(Calls) \cup {c}
      BY <1>2, <1>7, <1>8
    <3> QED BY <3>1, <2>2, <1>2 DEF BInv, CallsFit
  <2> QED BY <2>1, <2>3 DEF CallsFit
<1>10. LedgerFits'
  <2>1. \A q \in Roles : /\ ledger'[q].calls = Cardinality(Charged(Of(q))')
                         /\ ledger'[q].usage.total = ChargedUsage(Of(q))'.total
                         /\ ledger'[q].usage.cost = ChargedUsage(Of(q))'.cost
    BY <1>5, <1>7, <1>8 DEF BInv, LedgerFits
  <2>2. _settled_run'.total = _settled_run.total
    <3>1. _known_roles' = _known_roles \cup {r}
      <4>1. \A q \in Roles : q # r => Issued(Of(q))' = Issued(Of(q))
        BY <1>2, <1>5 DEF Issued, Of, BInv, BudgetTypeOK
      <4>2. Issued(Of(r))' # {}
        BY <1>2, <1>4, <1>5 DEF Issued, BInv, BudgetTypeOK
      <4> QED BY <4>1, <4>2, <1>5 DEF _known_roles
    <3>2. PICK D : D = _known_roles
      OBVIOUS
    <3>3. PICK h : h = [q \in _known_roles |-> ledger[q].usage]
      OBVIOUS
    <3>4. PICK g : g = [q \in _known_roles' |-> ledger'[q].usage]
      OBVIOUS
    <3>5. _settled_run = SumUsage(h) /\ _settled_run' = SumUsage(g)
      BY <3>3, <3>4 DEF _settled_run
    <3>6. IsFiniteSet(D) /\ h \in [D -> UsageSet] /\ D \subseteq Roles
      BY <3>2, <3>3, <1>8, CallFunctions DEF BInv
    <3>7. CASE r \in D
      BY <3>1, <3>2, <3>3, <3>4, <3>5, <3>7, <1>5
    <3>8. CASE r \notin D
      <4>1. ledger[r].calls = 0
        BY <3>2, <3>8 DEF _known_roles, BInv, BudgetTypeOK
      <4>2. Charged(Of(r)) = {}
        <5>1. Cardinality(Charged(Of(r))) = 0
          BY <4>1 DEF BInv, LedgerFits
        <5>2. IsFiniteSet(Charged(Of(r)))
          BY <1>8, CallFunctions DEF BInv
        <5> QED BY <5>1, <5>2, FS_EmptySet
      <4>3. PICK f : f = [d \in Charged(Of(r)) |-> charged[d]]
        OBVIOUS
      <4>4. SumUsage(f).total = 0
        BY <4>2, <4>3, NothingSpent
      <4>5. ledger[r].usage.total = 0
        BY <4>3, <4>4 DEF BInv, LedgerFits, ChargedUsage
      <4>6. _tokens(ledger[r].usage) = 0 /\ ledger[r].usage \in UsageSet
        BY <4>5, UnsetIs DEF _tokens, BInv, BudgetTypeOK
      <4>7. /\ g \in [D \cup {r} -> UsageSet] /\ g[r] = ledger[r].usage
            /\ \A q \in D : g[q] = h[q]
        <5>1. g = [q \in D \cup {r} |-> ledger[q].usage]
          BY <3>1, <3>2, <3>4, <1>5
        <5> QED BY <5>1, <3>2, <3>3, <3>6, <4>6
      <4>8. SumUsage(g).total = _tokens(g[r]) + SumUsage(h).total
        BY <3>6, <3>8, <4>7, SumUsageExtend
      <4>9. SumUsage(h).total \in Nat
        BY <3>6, SumUsageParts
      <4> QED BY <4>6, <4>7, <4>8, <4>9, <3>5
    <3> QED BY <3>7, <3>8
  <2>3. ChargedUsage(Calls)' = ChargedUsage(Calls)
    BY <1>7, <1>8
  <2> QED BY <2>1, <2>2, <2>3 DEF BInv, LedgerFits
<1>11. e \in Usages /\ _tokens(e) \in Nat /\ _tokens(e) <= MaxTokens /\ MaxTokens \in Nat
  BY MaxTokensIs
<1>12. RunRoom'
  <2>1. PICK C \in Nat : C = ChargedUsage(Calls).total
    BY <1>8, SumsOfState DEF BInv
  <2>2. PICK E \in Nat : E = _reserved_usage(Calls).total
    BY <1>8, SumsOfState DEF BInv
  <2>3. /\ ChargedUsage(Calls)'.total = C
        /\ _reserved_usage(Calls)'.total = _tokens(e) + E
        /\ Unsettled(Calls)' = Unsettled(Calls) \cup {c} /\ c \notin Unsettled(Calls)
    BY <2>1, <2>2, <1>2, <1>7, <1>8
  <2>4. PICK n \in Nat : n = Cardinality(Unsettled(Calls))
    BY OpenCalls
  <2>5. Cardinality(Unsettled(Calls)') = n + 1
    <3>1. IsFiniteSet(Unsettled(Calls))
      BY <1>8, CallFunctions DEF BInv
    <3> QED BY <3>1, <2>3, <2>4, FS_AddElement
  <2>6. PICK m \in Nat : m = Cardinality(Roles) /\ n + 1 <= m
    BY <2>4, <1>5, OpenCalls
  <2>7. (n + 1) * MaxTokens <= m * MaxTokens
    BY <2>4, <2>6, <1>11
  <2>8. PICK a \in Nat : a = (n + 1) * MaxTokens
    BY <1>11
  <2>9. PICK b \in Nat : b = m * MaxTokens
    BY <1>11
  <2>10. ASSUME RunLimits.tokens # Unset
         PROVE  C + a < RunLimits.tokens + b /\ _tokens(e) + E + C < RunLimits.tokens + MaxTokens
    <3>1. C + E < RunLimits.tokens
      BY <2>1, <2>2, <2>10, <1>5, CheckedRoom
    <3>2. RunLimits.tokens \in Nat
      BY <2>10, RoleLimit
    <3> QED BY <3>1, <3>2, <2>7, <2>8, <2>9, <1>11
  <2>11. (_tokens(e) + E) + C = C + (_tokens(e) + E)
    BY <1>11
  <2> QED BY <2>3, <2>5, <2>6, <2>8, <2>9, <2>10, <2>11 DEF RunRoom
<1>13. RoleRoom'
  <2>1. SUFFICES ASSUME NEW q \in Roles, limits_for(q).tokens # Unset
                 PROVE  /\ ChargedUsage(Of(q))'.total < limits_for(q).tokens + MaxTokens
                        /\ Unsettled(Of(q))' # {} =>
                               ChargedUsage(Of(q))'.total < limits_for(q).tokens
    BY DEF RoleRoom
  <2>2. ChargedUsage(Of(q))' = ChargedUsage(Of(q))
    BY <1>7, <1>8
  <2>3. ChargedUsage(Of(q)).total < limits_for(q).tokens + MaxTokens
    BY <2>1 DEF BInv, RoleRoom
  <2>4. CASE q # r
    <3>1. c \notin Of(q)
      BY <2>4, <1>2 DEF Of
    <3>2. Unsettled(Of(q))' = Unsettled(Of(q))
      BY <3>1, <1>7, <1>8
    <3> QED BY <3>2, <2>1, <2>2 DEF BInv, RoleRoom
  <2>5. CASE q = r
    <3>1. ChargedUsage(Of(r)).total + _reserved_usage(Of(r)).total < limits_for(r).tokens
      BY <2>1, <2>5, <1>5, CheckedRoom
    <3>2. /\ ChargedUsage(Of(r)).total \in Nat /\ _reserved_usage(Of(r)).total \in Nat
          /\ limits_for(r).tokens \in Nat
      BY <2>1, <2>5, <1>8, SumsOfState, RoleLimit DEF BInv
    <3>3. ChargedUsage(Of(r)).total < limits_for(r).tokens
      BY <3>1, <3>2
    <3> QED BY <3>3, <2>2, <2>3, <2>5
  <2> QED BY <2>4, <2>5
<1> QED BY <1>6, <1>9, <1>10, <1>12, <1>13 DEF BInv

LEMMA SettleKeeps ==
  ASSUME BInv, NEW c \in Calls, NEW u \in Usages \cup {Unset}, settle(c, u)
  PROVE  BInv'
<1>1. Calls \in SUBSET Calls /\ \A q \in Roles : Of(q) \in SUBSET Calls
  BY CallsAreFinite
<1>2. /\ u \in Usages /\ u \in UsageSet /\ u.total \in Nat /\ _tokens(u) = u.total
      /\ u.total <= MaxTokens /\ MaxTokens \in Nat
      /\ charged[c] = Unset /\ charged' = [charged EXCEPT ![c] = u]
      /\ c \in Unsettled(Calls) /\ reservations[c].estimated \in Usages
  <2>1. /\ u \in Usages /\ u.total \in Nat /\ _tokens(u) = u.total
        /\ charged[c] = Unset /\ charged' = [charged EXCEPT ![c] = u]
        /\ c \in Unsettled(Calls) /\ reservations[c].estimated \in Usages
    BY <1>1, SettleStep
  <2>2. _tokens(u) <= MaxTokens /\ MaxTokens \in Nat /\ u \in UsageSet
    BY <2>1, MaxTokensIs, UnsetIs
  <2> QED BY <2>1, <2>2
<1>3. PICK r \in Roles : r = c[1]
  BY DEF Calls
<1>4. c \in Of(r) /\ \A q \in Roles : q # r => c \notin Of(q)
  BY <1>3 DEF Of
<1>5. PICK l \in [usage : UsageSet, calls : Nat] : l = ledger[r]
  BY DEF BInv, BudgetTypeOK
<1>6. PICK w \in UsageSet : w = _add_usage(l.usage, u)
  BY <1>2, <1>5, AddedTokens
<1>7. /\ ledger' = [ledger EXCEPT ![r] = [usage |-> w, calls |-> l.calls + 1]]
      /\ reservations' = [reservations EXCEPT ![c].settled = TRUE]
      /\ honest' = (honest /\ u.total <= _tokens(reservations[c].estimated)) /\ now' = now
  BY <1>3, <1>5, <1>6 DEF settle
<1>8. /\ ledger'[r] = [usage |-> w, calls |-> l.calls + 1]
      /\ \A q \in Roles : q # r => ledger'[q] = ledger[q]
  BY <1>7 DEF BInv, BudgetTypeOK
<1>9. PICK y \in [estimated : Usages, settled : BOOLEAN] : y = reservations[c] /\ y.settled = FALSE
  <2>1. reservations[c] # Unset /\ ~reservations[c].settled
    BY DEF settle, MaySettle
  <2> QED BY <2>1 DEF BInv, BudgetTypeOK
<1>10. PICK x \in [estimated : Usages, settled : BOOLEAN] : x = [y EXCEPT !.settled = TRUE]
  BY <1>9
<1>11. x.settled = TRUE /\ x # Unset
  BY <1>9, <1>10, UnsetIs
<1>12. reservations' = [reservations EXCEPT ![c] = x]
  BY <1>7, <1>9, <1>10
<1>13. BudgetTypeOK'
  <2>1. ledger' \in [Roles -> [usage : UsageSet, calls : Nat]]
    BY <1>5, <1>6, <1>7 DEF BInv, BudgetTypeOK
  <2>2. reservations' \in [Calls -> [estimated : Usages, settled : BOOLEAN] \cup {Unset}]
    BY <1>10, <1>12 DEF BInv, BudgetTypeOK
  <2>3. charged' \in [Calls -> Usages \cup {Unset}]
    BY <1>2 DEF BInv, BudgetTypeOK
  <2>4. honest' \in BOOLEAN /\ now' \in Nat
    BY <1>7 DEF BInv, BudgetTypeOK
  <2> QED BY <2>1, <2>2, <2>3, <2>4 DEF BudgetTypeOK
<1>14. ASSUME NEW S \in SUBSET Calls
       PROVE  /\ c \in S => /\ Charged(S)' = Charged(S) \cup {c} /\ c \notin Charged(S)
                            /\ Unsettled(S)' = Unsettled(S) \ {c} /\ c \in Unsettled(S)
                            /\ ChargedUsage(S)'.total = u.total + ChargedUsage(S).total
                            /\ ChargedUsage(S)'.cost = _add_cost(ChargedUsage(S).cost, u.cost)
                            /\ _reserved_usage(S).total =
                                   _tokens(reservations[c].estimated) + _reserved_usage(S)'.total
              /\ c \notin S => /\ Charged(S)' = Charged(S) /\ ChargedUsage(S)' = ChargedUsage(S)
                               /\ Unsettled(S)' = Unsettled(S)
  BY SettleStep
<1>15. CallsFit'
  <2>1. \A d \in Calls : charged'[d] # Unset <=> reservations'[d] # Unset /\ reservations'[d].settled
    <3>1. SUFFICES ASSUME NEW d \in Calls
                   PROVE  charged'[d] # Unset <=> reservations'[d] # Unset /\ reservations'[d].settled
      OBVIOUS
    <3>2. CASE d = c
      <4>1. charged'[d] = u /\ u # Unset /\ reservations'[d] = x
        BY <3>2, <1>2, <1>12, UnsetIs DEF BInv, BudgetTypeOK
      <4> QED BY <4>1, <1>11
    <3>3. CASE d # c
      <4>1. charged'[d] = charged[d] /\ reservations'[d] = reservations[d]
        BY <3>3, <1>2, <1>12 DEF BInv, BudgetTypeOK
      <4> QED BY <4>1 DEF BInv, CallsFit
    <3> QED BY <3>2, <3>3
  <2>2. \A d, b \in Unsettled(Calls)' : d[1] = b[1] => d = b
    <3>1. Unsettled(Calls)' = Unsettled(Calls) \ {c}
      BY <1>1, <1>14
    <3> QED BY <3>1 DEF BInv, CallsFit
  <2> QED BY <2>1, <2>2 DEF CallsFit
<1>16. l.usage \in UsageSet /\ l.usage.total \in Nat /\ _tokens(l.usage) = l.usage.total
  <2>1. ledger[r].usage.total \in Nat
    BY <1>1, SumsOfState DEF BInv, LedgerFits
  <2> QED BY <2>1, <1>5, UnsetIs DEF _tokens
<1>17. w.total = l.usage.total + u.total /\ w.cost = _add_cost(l.usage.cost, u.cost) /\ _tokens(w) = w.total
  BY <1>2, <1>6, <1>16, AddedTokens
<1>18. LedgerFits'
  <2>1. ASSUME NEW q \in Roles
        PROVE  /\ ledger'[q].calls = Cardinality(Charged(Of(q))')
               /\ ledger'[q].usage.total = ChargedUsage(Of(q))'.total
               /\ ledger'[q].usage.cost = ChargedUsage(Of(q))'.cost
    <3>1. CASE q # r
      <4>1. Charged(Of(q))' = Charged(Of(q)) /\ ChargedUsage(Of(q))' = ChargedUsage(Of(q))
        BY <3>1, <1>1, <1>4, <1>14
      <4> QED BY <4>1, <3>1, <1>8 DEF BInv, LedgerFits
    <3>2. CASE q = r
      <4>1. /\ Charged(Of(r))' = Charged(Of(r)) \cup {c} /\ c \notin Charged(Of(r))
            /\ ChargedUsage(Of(r))'.total = u.total + ChargedUsage(Of(r)).total
            /\ ChargedUsage(Of(r))'.cost = _add_cost(ChargedUsage(Of(r)).cost, u.cost)
        BY <1>1, <1>4, <1>14
      <4>2. /\ l.calls = Cardinality(Charged(Of(r)))
            /\ l.usage.total = ChargedUsage(Of(r)).total
            /\ l.usage.cost = ChargedUsage(Of(r)).cost
        BY <1>5 DEF BInv, LedgerFits
      <4>3. Cardinality(Charged(Of(r))') = Cardinality(Charged(Of(r))) + 1
        <5>1. IsFiniteSet(Charged(Of(r)))
          BY <1>1, CallFunctions DEF BInv
        <5> QED BY <5>1, <4>1, FS_AddElement
      <4>4. ledger'[r].calls = l.calls + 1 /\ ledger'[r].usage = w
        BY <1>8
      <4>5. u.total + l.usage.total = l.usage.total + u.total
        BY <1>2, <1>16
      <4> QED BY <4>1, <4>2, <4>3, <4>4, <4>5, <3>2, <1>17
    <3> QED BY <3>1, <3>2
  <2>2. _settled_run'.total = _settled_run.total + u.total
    <3>1. r \in _known_roles
      <4>1. c \in Issued(Of(r))
        BY <1>2, <1>4 DEF Unsettled, Issued
      <4> QED BY <4>1 DEF _known_roles
    <3>2. _known_roles' = _known_roles
      <4>1. \A q \in Roles : Issued(Of(q))' = Issued(Of(q))
        <5>1. ASSUME NEW d \in Calls PROVE reservations'[d] # Unset <=> reservations[d] # Unset
          <6>1. CASE d = c
            BY <6>1, <1>2, <1>11, <1>12 DEF BInv, BudgetTypeOK, Unsettled, Issued
          <6>2. CASE d # c
            BY <6>2, <1>12 DEF BInv, BudgetTypeOK
          <6> QED BY <6>1, <6>2
        <5> QED BY <5>1, <1>1 DEF Issued
      <4>2. \A q \in Roles : q # r => ledger'[q].calls = ledger[q].calls
        BY <1>8
      <4>3. r \in _known_roles'
        <5>1. Issued(Of(r))' # {}
          BY <4>1, <1>2, <1>4 DEF Unsettled, Issued
        <5> QED BY <5>1 DEF _known_roles
      <4> QED BY <4>1, <4>2, <4>3, <3>1 DEF _known_roles
    <3>3. PICK D : D = _known_roles
      OBVIOUS
    <3>4. PICK h : h = [q \in _known_roles |-> ledger[q].usage]
      OBVIOUS
    <3>5. PICK g : g = [q \in _known_roles' |-> ledger'[q].usage]
      OBVIOUS
    <3>6. _settled_run = SumUsage(h) /\ _settled_run' = SumUsage(g)
      BY <3>4, <3>5 DEF _settled_run
    <3>7. IsFiniteSet(D) /\ h \in [D -> UsageSet] /\ D \subseteq Roles
      BY <3>3, <3>4, <1>1, CallFunctions DEF BInv
    <3>8. h[r] = l.usage /\ g[r] = w
      BY <3>1, <3>2, <3>4, <3>5, <1>5, <1>8
    <3>9. \A q \in D : q # r => g[q] = h[q]
      BY <3>2, <3>3, <3>4, <3>5, <3>7, <1>8
    <3>10. g \in [D -> UsageSet]
      <4>1. \A q \in D : g[q] \in UsageSet
        BY <3>7, <3>8, <3>9
      <4> QED BY <4>1, <3>2, <3>3, <3>5
    <3>11. SumUsage(g).total + _tokens(h[r]) = SumUsage(h).total + _tokens(g[r])
      BY <3>1, <3>3, <3>7, <3>9, <3>10, SumUsageReplace
    <3>12. SumUsage(g).total \in Nat /\ SumUsage(h).total \in Nat
      BY <3>7, <3>10, SumUsageParts
    <3>13. SumUsage(g).total + l.usage.total = SumUsage(h).total + (l.usage.total + u.total)
      BY <3>8, <3>11, <1>16, <1>17
    <3>14. SumUsage(g).total = SumUsage(h).total + u.total
      BY <3>12, <3>13, <1>2, <1>16
    <3> QED BY <3>6, <3>14
  <2>3. ChargedUsage(Calls)'.total = u.total + ChargedUsage(Calls).total
    BY <1>1, <1>14
  <2>4. ChargedUsage(Calls).total \in Nat /\ _settled_run.total = ChargedUsage(Calls).total
    BY <1>1, SumsOfState DEF BInv, LedgerFits
  <2>5. _settled_run'.total = ChargedUsage(Calls)'.total
    BY <2>2, <2>3, <2>4, <1>2
  <2> QED BY <2>1, <2>5 DEF LedgerFits
<1>19. RunRoom'
  <2>1. PICK C \in Nat : C = ChargedUsage(Calls).total
    BY <1>1, SumsOfState DEF BInv
  <2>2. PICK E \in Nat : E = _reserved_usage(Calls).total
    BY <1>1, SumsOfState DEF BInv
  <2>3. PICK t \in Nat : t = _tokens(reservations[c].estimated)
    BY <1>2, MaxTokensIs
  <2>4. PICK F : F = _reserved_usage(Calls)'.total
    OBVIOUS
  <2>5. F \in Nat
    <3>1. PICK g : g = [d \in Unsettled(Calls)' |-> reservations'[d].estimated]
      OBVIOUS
    <3>2. Unsettled(Calls)' \subseteq Unsettled(Calls)
      BY <1>1, <1>14
    <3>3. IsFiniteSet(Unsettled(Calls)) /\ IsFiniteSet(Unsettled(Calls)')
      BY <3>2, <1>1, CallFunctions, FS_Subset DEF BInv
    <3>4. \A d \in Unsettled(Calls)' : reservations'[d].estimated \in UsageSet
      <4>1. \A d \in Unsettled(Calls)' : d \in Calls /\ reservations'[d] # Unset
        BY DEF Unsettled, Issued
      <4> QED BY <4>1, <1>13, UnsetIs DEF BudgetTypeOK
    <3>5. g \in [Unsettled(Calls)' -> UsageSet]
      BY <3>1, <3>4
    <3>6. SumUsage(g).total \in Nat
      BY <3>3, <3>5, SumUsageParts
    <3> QED BY <3>1, <3>6, <2>4 DEF _reserved_usage
  <2>6. ChargedUsage(Calls)'.total = u.total + C /\ E = t + F
    BY <2>1, <2>2, <2>3, <2>4, <1>1, <1>14
  <2>7. PICK n \in Nat : n = Cardinality(Unsettled(Calls)')
    <3>1. IsFiniteSet(Unsettled(Calls)')
      BY <1>1, <1>14, CallFunctions, FS_Subset DEF BInv
    <3> QED BY <3>1, FS_CardinalityType
  <2>8. Cardinality(Unsettled(Calls)) = n + 1
    <3>1. /\ IsFiniteSet(Unsettled(Calls)) /\ Unsettled(Calls)' = Unsettled(Calls) \ {c}
          /\ c \in Unsettled(Calls)
      BY <1>1, <1>2, <1>14, CallFunctions DEF BInv
    <3>2. Cardinality(Unsettled(Calls) \ {c}) = Cardinality(Unsettled(Calls)) - 1
      BY <3>1, FS_RemoveElement
    <3>3. Cardinality(Unsettled(Calls)) \in Nat
      BY OpenCalls
    <3> QED BY <3>1, <3>2, <3>3, <2>7
  <2>9. (n + 1) * MaxTokens = n * MaxTokens + MaxTokens
    BY <1>2
  <2>10. PICK a \in Nat : a = n * MaxTokens
    BY <1>2
  <2>11. PICK b \in Nat : b = Cardinality(Roles) * MaxTokens
    BY <1>2, OpenCalls
  <2>12. ASSUME RunLimits.tokens # Unset
         PROVE  /\ (u.total + C) + a < RunLimits.tokens + b
                /\ honest' => (u.total + C) + F < RunLimits.tokens + MaxTokens
    <3>1. RunLimits.tokens \in Nat
      BY <2>12, RoleLimit
    <3>2. C + (a + MaxTokens) < RunLimits.tokens + b
      BY <2>1, <2>8, <2>9, <2>10, <2>11, <2>12 DEF BInv, RunRoom
    <3>3. honest => C + E < RunLimits.tokens + MaxTokens
      BY <2>1, <2>2, <2>12 DEF BInv, RunRoom
    <3>4. honest' => honest /\ u.total <= t
      BY <1>7, <2>3
    <3>5. (u.total + C) + a < RunLimits.tokens + b
      BY <3>1, <3>2, <1>2
    <3>6. ASSUME honest, u.total <= t PROVE (u.total + C) + F < RunLimits.tokens + MaxTokens
      <4>1. C + E < RunLimits.tokens + MaxTokens
        BY <3>3, <3>6
      <4>2. PICK s \in Nat : s = u.total
        BY <1>2
      <4>3. (s + C) + F < RunLimits.tokens + MaxTokens
        BY <4>1, <4>2, <3>1, <3>6, <2>5, <2>6, <1>2
      <4> QED BY <4>2, <4>3
    <3> QED BY <3>4, <3>5, <3>6
  <2> QED BY <2>4, <2>6, <2>7, <2>10, <2>11, <2>12 DEF RunRoom
<1>20. RoleRoom'
  <2>1. SUFFICES ASSUME NEW q \in Roles, limits_for(q).tokens # Unset
                 PROVE  /\ ChargedUsage(Of(q))'.total < limits_for(q).tokens + MaxTokens
                        /\ Unsettled(Of(q))' # {} =>
                               ChargedUsage(Of(q))'.total < limits_for(q).tokens
    BY DEF RoleRoom
  <2>2. CASE q # r
    <3>1. Unsettled(Of(q))' = Unsettled(Of(q)) /\ ChargedUsage(Of(q))' = ChargedUsage(Of(q))
      BY <2>2, <1>1, <1>4, <1>14
    <3> QED BY <3>1, <2>1 DEF BInv, RoleRoom
  <2>3. CASE q = r
    <3>1. /\ ChargedUsage(Of(r))'.total = u.total + ChargedUsage(Of(r)).total
          /\ Unsettled(Of(r))' = Unsettled(Of(r)) \ {c} /\ c \in Unsettled(Of(r))
      BY <1>1, <1>4, <1>14
    <3>2. ChargedUsage(Of(r)).total < limits_for(r).tokens
      BY <3>1, <2>1, <2>3 DEF BInv, RoleRoom
    <3>3. ChargedUsage(Of(r)).total \in Nat /\ limits_for(r).tokens \in Nat
      BY <2>1, <2>3, <1>1, SumsOfState, RoleLimit DEF BInv
    <3>4. Unsettled(Of(r)) \ {c} = {}
      <4>1. \A d \in Unsettled(Of(r)) : d \in Unsettled(Calls) /\ d[1] = r
        BY DEF Unsettled, Issued, Of
      <4> QED BY <4>1, <1>2, <1>3 DEF BInv, CallsFit
    <3> QED BY <3>1, <3>2, <3>3, <3>4, <2>3, <1>2
  <2> QED BY <2>2, <2>3
<1> QED BY <1>13, <1>15, <1>18, <1>19, <1>20 DEF BInv

LEMMA StateKeeps ==
  ASSUME BInv, now' \in Nat, UNCHANGED <<ledger, reservations, charged, honest>>
  PROVE  BInv'
<1>1. /\ \A S : Charged(S)' = Charged(S) /\ ChargedUsage(S)' = ChargedUsage(S)
      /\ \A S : Unsettled(S)' = Unsettled(S) /\ _reserved_usage(S)' = _reserved_usage(S)
  BY DEF Charged, ChargedUsage, Unsettled, Issued, _reserved_usage
<1>2. _known_roles' = _known_roles
  BY DEF _known_roles, Issued
<1>3. _settled_run' = _settled_run
  BY <1>2 DEF _settled_run
<1>4. BudgetTypeOK' /\ CallsFit'
  BY <1>1 DEF BInv, BudgetTypeOK, CallsFit
<1>5. LedgerFits' /\ RunRoom' /\ RoleRoom'
  BY <1>1, <1>3 DEF BInv, LedgerFits, RunRoom, RoleRoom
<1> QED BY <1>4, <1>5 DEF BInv

LEMMA BudgetStep == BInv /\ [BudgetNext]_budgetVars => BInv'
<1> SUFFICES ASSUME BInv, [BudgetNext]_budgetVars PROVE BInv'
  OBVIOUS
<1>1. CASE \E r \in Roles, k \in Keys, e \in Usages : reserve(r, k, e)
  BY <1>1, ReserveKeeps
<1>2. CASE \E c \in Calls, u \in Usages \cup {Unset} : settle(c, u)
  BY <1>2, SettleKeeps
<1>3. CASE Tick
  <2>1. now' \in Nat
    BY <1>3 DEF Tick, BInv, BudgetTypeOK
  <2> QED BY <2>1, <1>3, StateKeeps DEF Tick
<1>4. CASE UNCHANGED budgetVars
  <2>1. now' \in Nat /\ UNCHANGED <<ledger, reservations, charged, honest>>
    BY <1>4 DEF budgetVars, BInv, BudgetTypeOK
  <2> QED BY <2>1, StateKeeps
<1> QED BY <1>1, <1>2, <1>3, <1>4 DEF BudgetNext

\* Types, one open call per role, a ledger that is the sum of what was charged, and
\* room for the calls in flight: the state of the coordinator after any reserve,
\* settle and replay.
THEOREM BudgetInvariant == BudgetSpec => []BInv
<1>1. BudgetInit => BInv
  BY BudgetStart
<1>2. BInv /\ [BudgetNext]_budgetVars => BInv'
  BY BudgetStep
<1> QED BY <1>1, <1>2, PTL DEF BudgetSpec

LEMMA BoundFollows == BInv => OvershootIsBounded
<1> SUFFICES ASSUME BInv PROVE OvershootIsBounded
  OBVIOUS
<1>0. Calls \in SUBSET Calls /\ \A q \in Roles : Of(q) \in SUBSET Calls
  BY CallsAreFinite
<1>1. RunOvershootIsBounded
  <2>1. PICK C \in Nat : C = ChargedUsage(Calls).total
    BY <1>0, SumsOfState DEF BInv
  <2>2. PICK E \in Nat : E = _reserved_usage(Calls).total
    BY <1>0, SumsOfState DEF BInv
  <2>3. Committed(Calls) = C + E
    BY <2>1, <2>2, <1>0, SumsOfState DEF BInv
  <2>4. PICK a \in Nat : a = Cardinality(Unsettled(Calls)) * MaxTokens
    BY OpenCalls, MaxTokensIs
  <2>5. PICK b \in Nat : b = Cardinality(Roles) * MaxTokens
    BY OpenCalls, MaxTokensIs
  <2>6. E <= a
    BY <2>2, <2>4, ReservedBound DEF BInv
  <2>7. ASSUME RunLimits.tokens # Unset
        PROVE  /\ C + E < RunLimits.tokens + b
               /\ honest => C + E < RunLimits.tokens + MaxTokens
    <3>1. RunLimits.tokens \in Nat
      BY <2>7, RoleLimit, BudgetAssumption
    <3>2. C + a < RunLimits.tokens + b
      BY <2>1, <2>4, <2>5, <2>7 DEF BInv, RunRoom
    <3>3. honest => C + E < RunLimits.tokens + MaxTokens
      BY <2>1, <2>2, <2>7 DEF BInv, RunRoom
    <3> QED BY <3>1, <3>2, <3>3, <2>6
  <2> QED BY <2>3, <2>5, <2>7 DEF RunOvershootIsBounded
<1>2. RoleOvershootIsBounded
  <2>1. SUFFICES ASSUME NEW r \in Roles, limits_for(r).tokens # Unset
                 PROVE  Committed(Of(r)) < limits_for(r).tokens + MaxTokens
    BY DEF RoleOvershootIsBounded
  <2>2. /\ Committed(Of(r)) = ChargedUsage(Of(r)).total + _reserved_usage(Of(r)).total
        /\ ChargedUsage(Of(r)).total \in Nat /\ limits_for(r).tokens \in Nat
        /\ _reserved_usage(Of(r)).total \in Nat
    BY <2>1, <1>0, SumsOfState, RoleLimit DEF BInv
  <2>3. PICK g : g = [c \in Unsettled(Of(r)) |-> reservations[c].estimated]
    OBVIOUS
  <2>4. _reserved_usage(Of(r)) = SumUsage(g)
    BY <2>3 DEF _reserved_usage
  <2>5. CASE Unsettled(Of(r)) = {}
    <3>1. _reserved_usage(Of(r)).total = 0
      BY <2>3, <2>4, <2>5, NothingSpent
    <3> QED BY <3>1, <2>1, <2>2 DEF BInv, RoleRoom
  <2>6. CASE Unsettled(Of(r)) # {}
    <3>1. PICK c \in Unsettled(Of(r)) : TRUE
      BY <2>6
    <3>2. Unsettled(Of(r)) = {c}
      <4>1. \A d \in Unsettled(Of(r)) : d \in Unsettled(Calls) /\ d[1] = r
        BY DEF Unsettled, Issued, Of
      <4> QED BY <4>1, <3>1 DEF BInv, CallsFit
    <3>3. PICK z : z = [x \in {} |-> _zero_usage]
      OBVIOUS
    <3>4. g \in [{c} -> UsageSet] /\ g[c] \in Usages
      BY <3>2, <2>3, <1>0, CallFunctions DEF BInv
    <3>5. SumUsage(g).total = _tokens(g[c]) + SumUsage(z).total
      <4>1. PICK D : D = {}
        OBVIOUS
      <4>2. z \in [D -> UsageSet] /\ IsFiniteSet(D) /\ c \notin D /\ \A x \in D : g[x] = z[x]
        BY <4>1, <3>3, FS_EmptySet
      <4>3. {c} = D \cup {c}
        BY <4>1
      <4>4. g \in [D \cup {c} -> UsageSet]
        BY <4>3, <3>4
      <4> QED BY <4>2, <4>4, SumUsageExtend
    <3>6. SumUsage(z).total = 0
      BY <3>3, NothingSpent
    <3>7. _tokens(g[c]) \in Nat /\ _tokens(g[c]) <= MaxTokens /\ MaxTokens \in Nat
      BY <3>4, MaxTokensIs
    <3>8. ChargedUsage(Of(r)).total < limits_for(r).tokens
      BY <2>1, <2>6 DEF BInv, RoleRoom
    <3> QED BY <3>5, <3>6, <3>7, <3>8, <2>2, <2>4
  <2> QED BY <2>5, <2>6
<1> QED BY <1>1, <1>2 DEF OvershootIsBounded

\* reserve at the limit, for any roles, limits and usages: the run passes its token
\* limit by less than one call per role (by less than one call when the estimates
\* are true), and a role its own by less than one call.
THEOREM BudgetOvershootIsBounded == BudgetSpec => []OvershootIsBounded
BY BudgetInvariant, BoundFollows, PTL

\* settle, late, repeated and with unknown usage: the ledger of a role is the sum of
\* what its calls were charged, each once.
THEOREM BudgetCountedOnce == BudgetSpec => []CountedOnce
<1>1. BInv => CountedOnce
  <2> SUFFICES ASSUME BInv, NEW r \in Roles
               PROVE  /\ ledger[r].calls = Cardinality(Charged(Of(r)))
                      /\ ledger[r].usage.total = _tokens(ChargedUsage(Of(r)))
                      /\ _cost(ledger[r].usage) = _cost(ChargedUsage(Of(r)))
    BY DEF CountedOnce, ChargedUsage
  <2>1. Of(r) \in SUBSET Calls
    BY CallsAreFinite
  <2>2. _tokens(ChargedUsage(Of(r))) = ChargedUsage(Of(r)).total
    BY <2>1, SumsOfState DEF BInv
  <2> QED BY <2>2 DEF BInv, LedgerFits, _cost
<1> QED BY <1>1, BudgetInvariant, PTL

LEMMA StateAgrees == BInv => AggregateAgrees
<1> SUFFICES ASSUME BInv PROVE AggregateAgrees
  OBVIOUS
<1>1. \A r \in Roles : budget_stop_reason(r) <=> _run_scope # {} \/ _role_scope(r) # {}
  BY DEF budget_stop_reason, check
<1>2. _aggregate_state = "awaiting_decision" <=>
          _run_scope # {} \/ \E r \in _known_roles : _role_scope(r) # {}
  BY DEF _aggregate_state
<1>3. _known_roles \subseteq Roles /\ Roles # {}
  BY BudgetAssumption DEF _known_roles
<1>4. ASSUME NEW r \in Roles, r \notin _known_roles, _role_scope(r) # {}
      PROVE  _run_scope # {}
  <2>1. ledger[r].calls = 0 /\ Issued(Of(r)) = {} /\ Allowance[r] = Unset
    BY <1>4 DEF _known_roles, BInv, BudgetTypeOK
  <2>2. limits_for(r) = RunLimits
    BY <2>1, RoleLimit
  <2>3. Calls \in SUBSET Calls /\ Of(r) \in SUBSET Calls
    BY CallsAreFinite
  <2>4. Charged(Of(r)) = {}
    <3>1. Cardinality(Charged(Of(r))) = 0
      BY <2>1 DEF BInv, LedgerFits
    <3>2. IsFiniteSet(Charged(Of(r)))
      BY <2>3, CallFunctions DEF BInv
    <3> QED BY <3>1, <3>2, FS_EmptySet
  <2>5. PICK f : f = [c \in Charged(Of(r)) |-> charged[c]]
    OBVIOUS
  <2>6. PICK g : g = [c \in Unsettled(Of(r)) |-> reservations[c].estimated]
    OBVIOUS
  <2>7. DOMAIN f = {} /\ DOMAIN g = {}
    BY <2>1, <2>4, <2>5, <2>6 DEF Unsettled
  <2>8. /\ ChargedUsage(Of(r)).total = 0 /\ ChargedUsage(Of(r)).cost = Unset
        /\ _reserved_usage(Of(r)).total = 0 /\ _reserved_usage(Of(r)).cost = Unset
    BY <2>5, <2>6, <2>7, NothingSpent DEF ChargedUsage, _reserved_usage
  <2>9. PICK u \in UsageSet : u = _effective_usage(r) /\ _tokens(u) = 0 /\ _cost(u) = 0
    <3>1. /\ ledger[r].usage \in UsageSet /\ ledger[r].usage.cost = Unset
          /\ _tokens(ledger[r].usage) = 0
      BY <2>8, UnsetIs DEF BInv, BudgetTypeOK, LedgerFits, _tokens
    <3>2. _reserved_usage(Of(r)) \in UsageSet /\ _tokens(_reserved_usage(Of(r))) = 0
      BY <2>3, <2>8, SumsOfState DEF BInv
    <3>3. /\ _effective_usage(r) \in UsageSet /\ _tokens(_effective_usage(r)) = 0
          /\ _effective_usage(r).cost = Unset
      BY <3>1, <3>2, <2>8, AddedTokens DEF _effective_usage, _settled_usage, _add_cost
    <3> QED BY <3>3 DEF _cost
  <2>10. PICK l : l = RunLimits
    OBVIOUS
  <2>11. PICK v \in {"token_budget", "cost_budget", "deadline"} :
             \/ v = "token_budget" /\ token_budget_exhausted(l, u)
             \/ v = "cost_budget" /\ cost_budget_exhausted(l, u)
             \/ v = "deadline" /\ l.deadline # Unset /\ now > l.deadline
    BY <1>4, <2>2, <2>9, <2>10 DEF _role_scope, continuation_violations
  <2>12. ~token_budget_exhausted(l, u)
    BY <2>9, <2>10, RoleLimit DEF token_budget_exhausted
  <2>13. CASE cost_budget_exhausted(l, u)
    <3>1. l.cost # Unset /\ l.cost \in Nat /\ 0 >= l.cost
      BY <2>9, <2>10, <2>13, RoleLimit DEF cost_budget_exhausted
    <3>2. _effective_run \in UsageSet
      BY <2>3, SumsOfState, AddedTokens DEF BInv, _effective_run
    <3>3. _cost(_effective_run) \in Nat
      BY <3>2, TokensAreNat
    <3>4. cost_budget_exhausted(RunLimits, _effective_run)
      BY <3>1, <3>3, <2>10 DEF cost_budget_exhausted
    <3> QED BY <3>4 DEF _run_scope, continuation_violations
  <2>14. CASE l.deadline # Unset /\ now > l.deadline
    BY <2>10, <2>14 DEF _run_scope, continuation_violations
  <2> QED BY <2>11, <2>12, <2>13, <2>14
<1>5. (\E r \in Roles : budget_stop_reason(r)) =>
          _run_scope # {} \/ \E r \in _known_roles : _role_scope(r) # {}
  BY <1>1, <1>4
<1>6. (_run_scope # {} \/ \E r \in _known_roles : _role_scope(r) # {}) =>
          \E r \in Roles : budget_stop_reason(r)
  BY <1>1, <1>3
<1> QED BY <1>2, <1>5, <1>6 DEF AggregateAgrees

\* _aggregate_state: the run record awaits a decision exactly when check stops the
\* next attempt of some role, roles the ledger does not know included.
THEOREM BudgetAggregateAgrees == BudgetSpec => []AggregateAgrees
BY BudgetInvariant, StateAgrees, PTL
=============================================================================
