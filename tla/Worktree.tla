------------------------------ MODULE Worktree ------------------------------
(***************************************************************************)
(* The isolated workspace of a stage attempt: a git worktree minted from   *)
(* the local mirror (execution/workspace.py) and the role tools bound to   *)
(* it (stages/tools.py).  The directory is a function of the operation's   *)
(* key, so every attempt of one operation works in the same one; the run   *)
(* lease keeps two attempts apart.  The process may be killed at any       *)
(* moment, inside `git worktree add` too, and a command it started may     *)
(* outlive it.                                                             *)
(***************************************************************************)
EXTENDS Naturals, FiniteSets

CONSTANTS
    Paths,      \* files of the product, and the patch file
    PatchPath,  \* where apply_patch keeps its patch
    Base,       \* tree of the pinned revision: path -> content or None
    Contents,   \* what a tool or a command may write
    None,       \* no such file; nothing
    MayCommit,  \* may the agent run `git commit` in the workspace?
    MayDetach,  \* may a command leave a background child on its pipes?
    MaxCalls, MaxKills, MaxFaults   \* bounds

ASSUME WorktreeAssumption ==
    /\ PatchPath \in Paths /\ None \notin Contents /\ "untouched" \notin Contents
    /\ Base \in [Paths -> Contents \cup {None}] /\ Base[PatchPath] = None
    /\ MayCommit \in BOOLEAN /\ MayDetach \in BOOLEAN
    /\ MaxCalls \in Nat /\ MaxKills \in Nat /\ MaxFaults \in Nat

VARIABLES
    dir,         \* the directory: "absent", "bare" (no .git yet) or "linked"
    registered,  \* the mirror lists the worktree
    head,        \* tree of the worktree's HEAD
    index,       \* git wrote the index of the worktree
    files,       \* working files: path -> content or None
    pc,          \* where the attempt is; "idle" between attempts
    cmd,         \* the running command: [effect, state] or None
    detached,    \* a background child holds the pipes of the command
    orphan,      \* effect of a command whose parent was killed, still to come
    edits,       \* history: last content a tool or command gave a path
    calls, kills, faults

worktree == <<dir, registered, head, index, files>>
command  == <<cmd, detached, orphan>>
counters == <<calls, kills, faults>>
wvars    == <<worktree, pc, command, edits, counters>>

Untouched == "untouched"   \* in edits: the path was never written
Empty == [p \in Paths |-> None]

WorktreeInit ==
    /\ dir = "absent" /\ registered = FALSE /\ head = Base /\ index = FALSE
    /\ files = Empty
    /\ pc = "idle" /\ cmd = None /\ detached = FALSE /\ orphan = None
    /\ edits = [p \in Paths |-> Untouched]
    /\ calls = 0 /\ kills = 0 /\ faults = 0

Fault == faults < MaxFaults /\ faults' = faults + 1 /\ UNCHANGED <<calls, kills>>

\* An exception at any boundary ends the attempt blocked; a retry may follow.
Blocked == pc' = "idle"

(***************************************************************************)
(* prepare_workspace                                                       *)
(***************************************************************************)

\* `git rev-parse --show-toplevel` names the directory itself.
_is_valid_worktree == dir = "linked"

\* Mutant: every attempt mints a fresh workspace.
prepare_workspace_fresh ==
    /\ pc = "prepare"
    /\ dir' = "absent" /\ files' = Empty /\ pc' = "mint"
    /\ UNCHANGED <<registered, head, index, command, edits, counters>>

\* A valid worktree is used as it is; anything else at its path is removed.
prepare_workspace ==
    /\ pc = "prepare"
    /\ IF _is_valid_worktree THEN pc' = "work" /\ UNCHANGED <<dir, files>>
       ELSE pc' = "mint" /\ dir' = "absent" /\ files' = Empty
    /\ UNCHANGED <<registered, head, index, command, edits, counters>>

\* The mirror is there and `git fetch` works, or the attempt is blocked.
Fetch ==
    /\ pc = "mint"
    /\ \/ pc' = "prune" /\ UNCHANGED counters
       \/ Fault /\ Blocked
    /\ UNCHANGED <<worktree, command, edits>>

\* `git worktree prune` drops the registration of a directory that is gone.
Prune ==
    /\ pc = "prune"
    /\ registered' = (registered /\ dir # "absent")
    /\ pc' = "add"
    /\ UNCHANGED <<dir, head, index, files, command, edits, counters>>

\* `git worktree add --detach` refuses a registered path; it makes the
\* directory, links it to the mirror with HEAD at the pinned revision...
Add ==
    /\ pc = "add"
    /\ IF registered THEN Blocked /\ UNCHANGED dir ELSE dir' = "bare" /\ pc' = "link"
    /\ UNCHANGED <<registered, head, index, files, command, edits, counters>>

Link ==
    /\ pc = "link"
    /\ dir' = "linked" /\ registered' = TRUE /\ head' = Base /\ index' = FALSE
    /\ pc' = "checkout"
    /\ UNCHANGED <<files, command, edits, counters>>

\* ...and checks the files out one by one, the index last.
Checkout ==
    /\ pc = "checkout"
    /\ LET missing == {p \in Paths : Base[p] # None /\ files[p] = None} IN
       \/ /\ \E p \in missing : files' = [files EXCEPT ![p] = Base[p]]
          /\ UNCHANGED <<index, pc>>
       \/ missing = {} /\ index' = TRUE /\ pc' = "work" /\ UNCHANGED files
    /\ UNCHANGED <<dir, registered, head, command, edits, counters>>

(***************************************************************************)
(* Role tools and commands                                                 *)
(***************************************************************************)

Effects ==
    [kind : {"none"}] \cup [kind : {"write"}, path : Paths \ {PatchPath}, content : Contents]
    \cup [kind : {"delete"}, path : Paths \ {PatchPath}]
    \cup IF MayCommit THEN [kind : {"commit"}] ELSE {}

\* What a command does to the worktree.
Apply(e) ==
    CASE e.kind = "write" ->
            /\ files' = [files EXCEPT ![e.path] = e.content]
            /\ edits' = [edits EXCEPT ![e.path] = e.content]
            /\ UNCHANGED <<head, index>>
      [] e.kind = "delete" ->
            /\ files' = [files EXCEPT ![e.path] = None]
            /\ edits' = [edits EXCEPT ![e.path] = None]
            /\ UNCHANGED <<head, index>>
      [] e.kind = "commit" ->
            /\ head' = files /\ index' = TRUE /\ UNCHANGED <<files, edits>>
      [] OTHER -> UNCHANGED <<files, edits, head, index>>

Call == pc = "work" /\ calls < MaxCalls /\ calls' = calls + 1
        /\ UNCHANGED <<kills, faults>>

\* A path outside the workspace is an error the model reads; nothing changes.
write_file(p, c) ==
    /\ Call
    /\ Apply([kind |-> "write", path |-> p, content |-> c])
    /\ UNCHANGED <<dir, registered, pc, command>>

Spawn(e) ==
    /\ cmd' = [effect |-> e, state |-> "running"]
    /\ pc' = "command"
    /\ UNCHANGED <<detached, orphan>>

run_command(e) ==
    /\ Call /\ Spawn(e)
    /\ UNCHANGED <<worktree, edits>>

\* The patch is written first, then `git apply` runs on it: it changes a file
\* or refuses.
apply_patch(p, c) ==
    /\ Call
    /\ files' = [files EXCEPT ![PatchPath] = c]
    /\ edits' = [edits EXCEPT ![PatchPath] = c]
    /\ \/ Spawn([kind |-> "write", path |-> p, content |-> c])
       \/ Spawn([kind |-> "none"])
    /\ UNCHANGED <<dir, registered, head, index>>

\* The child does its work, then exits or hangs.
Command_effect ==
    /\ cmd # None /\ cmd.state = "running"
    /\ Apply(cmd.effect)
    /\ \E s \in {"exited", "hung"} : cmd' = [cmd EXCEPT !.state = s]
    /\ detached' \in {FALSE, MayDetach}
    /\ UNCHANGED <<dir, registered, pc, orphan, counters>>

\* Both streams are drained to their end, which a child that holds them delays.
Command_returns ==
    /\ pc = "command" /\ cmd.state = "exited" /\ ~detached
    /\ cmd' = None /\ pc' = "work"
    /\ UNCHANGED <<worktree, detached, orphan, edits, counters>>

\* Mutant: commands have no timeout.
Command_timeout_never == FALSE /\ UNCHANGED wvars

\* command_timeout: the process is killed and the streams are drained again,
\* this time without a timeout.
Command_timeout ==
    /\ pc = "command"
    /\ cmd' = [cmd EXCEPT !.state = "exited"]
    /\ pc' = "drain"
    /\ UNCHANGED <<worktree, detached, orphan, edits, counters>>

Drained ==
    /\ pc = "drain" /\ ~detached
    /\ cmd' = None /\ pc' = "work"
    /\ UNCHANGED <<worktree, detached, orphan, edits, counters>>

\* The background child ends, or closes the pipes, if it ever does.
Child_ends ==
    /\ detached /\ detached' = FALSE
    /\ UNCHANGED <<worktree, pc, cmd, orphan, edits, counters>>

(***************************************************************************)
(* collect_changes                                                         *)
(***************************************************************************)

\* Mutant: only files the index knows.
_porcelain_paths_tracked == {p \in Paths : head[p] # None /\ files[p] \notin {None, head[p]}}

\* `git status` against HEAD without the deletions.  Without an index every
\* file there is untracked.
_porcelain_paths ==
    {p \in Paths : files[p] # None /\ (index => files[p] # head[p])}

collect_changes == [p \in _porcelain_paths |-> files[p]]

(***************************************************************************)
(* Faults                                                                  *)
(***************************************************************************)

\* The process dies; a command it was running dies with it or goes on alone.
Kill ==
    /\ pc # "idle" /\ kills < MaxKills /\ kills' = kills + 1
    /\ pc' = "idle" /\ cmd' = None /\ detached' = FALSE
    /\ orphan' \in {orphan} \cup
           (IF cmd # None /\ cmd.state = "running" THEN {cmd.effect} ELSE {})
    /\ UNCHANGED <<worktree, edits, calls, faults>>

\* Its edits land while the directory is there, whoever works in it by then.
Orphan_effect ==
    /\ orphan # None /\ dir = "linked"
    /\ Apply(orphan) /\ orphan' = None
    /\ UNCHANGED <<dir, registered, pc, cmd, detached, counters>>

\* The workspace root is cleaned between two attempts (a new runner, an operator):
\* the edits are gone with it, the registration in the mirror is not.
Lose_workspace ==
    /\ pc = "idle" /\ dir # "absent" /\ kills < MaxKills /\ kills' = kills + 1
    /\ dir' = "absent" /\ files' = Empty /\ orphan' = None
    /\ edits' = [p \in Paths |-> Untouched]
    /\ UNCHANGED <<registered, head, index, pc, cmd, detached, calls, faults>>

Mint == prepare_workspace \/ Fetch \/ Prune \/ Add \/ Link \/ Checkout

Tools ==
    \/ \E p \in Paths \ {PatchPath}, c \in Contents : write_file(p, c) \/ apply_patch(p, c)
    \/ \E e \in Effects : run_command(e)

Running == Command_returns \/ Command_timeout \/ Drained
=============================================================================
