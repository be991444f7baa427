---------------------------- MODULE Provisioning ----------------------------
(***************************************************************************)
(* The provider clone that prepares the repository of a product            *)
(* (adapters/scm/github/provisioning.py, adapters/provisioning/): one      *)
(* working mirror on disk, shared by every process of the contour, and the *)
(* default branch at the provider.                                         *)
(*                                                                         *)
(* A bootstrap is a sequence of git commands, each a subprocess of its own,*)
(* so another bootstrap, a push by somebody else, a refusal or a kill may  *)
(* come between any two of them.  A tree is the set of packs whose files   *)
(* it has; the rest of the repository is left out.  A revision is the      *)
(* position of its commit in commits; 0 is an unborn branch.               *)
(***************************************************************************)
EXTENDS Naturals, FiniteSets, Sequences

CONSTANTS
    Callers,        \* requests and commands served at a time
    ApiCallers,     \* those of the API process, which share its memory
    Packs,          \* the baseline packs under the packs root
    Baseline,       \* the pack with .factory/product
    MaxForeign,     \* bound: commits pushed by somebody else
    MaxFaults,      \* bound: kills, and changes of what the provider grants
    MaxCalls        \* bound: calls started

ASSUME ProvisioningAssumption ==
    /\ ApiCallers \subseteq Callers
    /\ Baseline \in Packs
    /\ MaxForeign \in Nat /\ MaxFaults \in Nat /\ MaxCalls \in Nat

VARIABLES
    commits,     \* every commit ever made, the mirror's and the provider's
    remote,      \* the default branch at the provider
    granted,     \* what the provider allows: "write", "read", "none"
    mirror,      \* the mirror on disk
    call,        \* what every caller is doing
    cache,       \* the bootstraps the API process remembers, by key
    returned,    \* the results handed out so far
    failed,      \* the failures of calls nothing disturbed
    foreign, faults, calls

provider == <<commits, remote, granted>>
outcomes == <<returned, failed>>
counters == <<foreign, faults, calls>>
provisioningVars == <<provider, mirror, call, cache, outcomes, counters>>

Unborn == 0

tree(r) == IF r = Unborn THEN {} ELSE commits[r].tree
history(r) == IF r = Unborn THEN {} ELSE commits[r].history

\* The revision a commit on top of r gets.
Next_revision == Len(commits) + 1
\* The subject of a bootstrap commit records its packs; a foreign one records none.  alone
\* (history): nobody else used the mirror while the commit was prepared in it.
Commit_on(r, packs, files, alone) ==
    Append(commits, [packs |-> packs, tree |-> files, alone |-> alone,
                     history |-> history(r) \union {Next_revision}])

\* _is_git_repository: exists; origin is refs/remotes/origin/<default>; index and files are the
\* staging area and the working tree.
NoMirror == [exists |-> FALSE, origin |-> Unborn, head |-> Unborn, index |-> {}, files |-> {}]

\* calm: nothing but the call itself touched the mirror and the provider since it started.
Idle == [at |-> "idle", packs |-> {}, revision |-> Unborn, applied |-> {}, calm |-> TRUE]
MayRead == granted # "none"
MayWrite == granted = "write"
Bootstrapping(c) == call[c].at # "idle"

\* Caller c goes on; a call that shares the mirror with it is not calm any more.
Step(c, k) ==
    call' = [d \in Callers |->
        IF d = c THEN k ELSE IF Bootstrapping(d) THEN [call[d] EXCEPT !.calm = FALSE] ELSE call[d]]
Disturb == call' = [d \in Callers |-> [call[d] EXCEPT !.calm = @ /\ ~ Bootstrapping(d)]]

Goto(c, at) == Step(c, [call[c] EXCEPT !.at = at])

\* The call ends in an error; a failure no calm call may have is kept.
Fail(c, why) ==
    /\ Step(c, Idle)
    /\ failed' = IF call[c].calm THEN failed \union {why} ELSE failed
    /\ UNCHANGED returned

Return(c, result) ==
    /\ Step(c, Idle)
    /\ returned' = returned \union {result}
    /\ UNCHANGED failed

(***************************************************************************)
(* One bootstrap                                                           *)
(***************************************************************************)

\* A key the process knows is answered from memory.
Cached(c, packs) == {b \in cache : c \in ApiCallers /\ b.packs = packs}

bootstrap_baseline(c, packs) ==
    /\ call[c].at = "idle" /\ calls < MaxCalls
    /\ packs # {}
    /\ calls' = calls + 1
    /\ IF Cached(c, packs) # {}
         THEN returned' = returned \union Cached(c, packs) /\ UNCHANGED call
         ELSE /\ Step(c, [Idle EXCEPT !.at = "materialise", !.packs = packs,
                            !.calm = MayWrite /\ \A d \in Callers : ~ Bootstrapping(d)])
              /\ UNCHANGED returned
    /\ UNCHANGED <<provider, mirror, cache, failed, foreign, faults>>

\* The mirror alone is asked for by a call without packs.
ensure_mirror(c) ==
    /\ call[c].at = "idle" /\ calls < MaxCalls
    /\ calls' = calls + 1
    /\ Step(c, [Idle EXCEPT !.at = "materialise", !.calm = FALSE])
    /\ UNCHANGED <<provider, mirror, cache, outcomes, foreign, faults>>

\* Mutant of materialise: a mirror that is there is not fetched.
materialise_once(c) ==
    /\ call[c].at = "materialise"
    /\ IF MayRead
         THEN /\ IF call[c].packs = {} THEN Step(c, Idle) ELSE Goto(c, "align")
              /\ mirror' = IF mirror.exists THEN mirror
                           ELSE [exists |-> TRUE, origin |-> remote, head |-> remote,
                                 index |-> tree(remote), files |-> tree(remote)]
              /\ UNCHANGED outcomes
         ELSE Fail(c, "clone") /\ UNCHANGED mirror
    /\ UNCHANGED <<provider, cache, counters>>

\* Clone, or fetch into the mirror that is there.
materialise(c) ==
    /\ call[c].at = "materialise"
    /\ IF MayRead
         THEN /\ IF call[c].packs = {} THEN Step(c, Idle) ELSE Goto(c, "align")
              /\ mirror' = IF mirror.exists THEN [mirror EXCEPT !.origin = remote]
                           ELSE [exists |-> TRUE, origin |-> remote, head |-> remote,
                                 index |-> tree(remote), files |-> tree(remote)]
              /\ UNCHANGED outcomes
         ELSE Fail(c, "clone") /\ UNCHANGED mirror
    /\ UNCHANGED <<provider, cache, counters>>

\* Mutant of align_to_default_branch: the mirror stays where an earlier call left it.
align_to_nothing(c) ==
    /\ call[c].at = "align"
    /\ Goto(c, "write")
    /\ UNCHANGED <<provider, mirror, cache, outcomes, counters>>

\* reset --hard origin/<default>, unless the provider's branch is unborn: files the index does
\* not know survive it.
align_to_default_branch(c) ==
    /\ call[c].at = "align"
    /\ Goto(c, "write")
    /\ mirror' = IF mirror.origin = Unborn THEN mirror
                 ELSE [mirror EXCEPT !.head = mirror.origin, !.index = tree(mirror.origin),
                         !.files = tree(mirror.origin) \union (mirror.files \ mirror.index)]
    /\ UNCHANGED <<provider, cache, outcomes, counters>>

write_payload(c) ==
    /\ call[c].at = "write"
    /\ Goto(c, "add")
    /\ mirror' = [mirror EXCEPT !.files = @ \union call[c].packs]
    /\ UNCHANGED <<provider, cache, outcomes, counters>>

\* git add --all --force.
Add_all(c) ==
    /\ call[c].at = "add"
    /\ Goto(c, "status")
    /\ mirror' = [mirror EXCEPT !.index = mirror.files]
    /\ UNCHANGED <<provider, cache, outcomes, counters>>

tree_changed(c) ==
    /\ call[c].at = "status"
    /\ IF mirror.index # tree(mirror.head) \/ mirror.files # mirror.index
         THEN Goto(c, "commit") ELSE Goto(c, "reuse")
    /\ UNCHANGED <<provider, mirror, cache, outcomes, counters>>

\* git commit takes the index, and refuses one that is HEAD's tree.
Commit_payload(c) ==
    /\ call[c].at = "commit"
    /\ IF mirror.index = tree(mirror.head)
         THEN Fail(c, "commit") /\ UNCHANGED <<commits, mirror>>
         ELSE /\ commits' = Commit_on(mirror.head, call[c].packs, mirror.index, call[c].calm)
              /\ mirror' = [mirror EXCEPT !.head = Next_revision]
              /\ Step(c, [call[c] EXCEPT !.at = "parse", !.applied = call[c].packs])
              /\ UNCHANGED outcomes
    /\ UNCHANGED <<remote, granted, cache, counters>>

\* The revision of the result is HEAD, when it is read.
rev_parse(c) ==
    /\ call[c].at = "parse"
    /\ IF mirror.head = Unborn THEN Fail(c, "commit")
       ELSE Step(c, [call[c] EXCEPT !.at = "check", !.revision = mirror.head]) /\ UNCHANGED outcomes
    /\ UNCHANGED <<provider, mirror, cache, counters>>

\* Nothing to commit: HEAD is the evidence, when it has the baseline.
Reuse_head(c) ==
    /\ call[c].at = "reuse"
    /\ IF Baseline \notin tree(mirror.head) THEN Fail(c, "no_effect")
       ELSE Step(c, [call[c] EXCEPT !.at = "recorded", !.revision = mirror.head]) /\ UNCHANGED outcomes
    /\ UNCHANGED <<provider, mirror, cache, counters>>

recorded_packs(c) ==
    /\ call[c].at = "recorded"
    /\ Step(c, [call[c] EXCEPT !.at = "check",
                  !.applied = IF mirror.head = Unborn THEN {} ELSE commits[mirror.head].packs])
    /\ UNCHANGED <<provider, mirror, cache, outcomes, counters>>

\* ls-remote: what the provider has, or nothing when it refuses to say.
remote_revision == IF MayRead THEN remote ELSE Unborn

\* BaselineBootstrapResult, under the key of the product and the packs.
Result(c) == [packs |-> call[c].packs, revision |-> call[c].revision,
              applied |-> call[c].applied, calm |-> call[c].calm]

Land(c) ==
    /\ Return(c, Result(c))
    /\ cache' = IF c \in ApiCallers THEN cache \union {Result(c)} ELSE cache

Check_remote(c) ==
    /\ call[c].at = "check"
    /\ IF remote_revision = call[c].revision THEN Land(c)
       ELSE Goto(c, "push") /\ UNCHANGED <<cache, outcomes>>
    /\ UNCHANGED <<provider, mirror, counters>>

\* git push origin HEAD:refs/heads/<default>, never forced: only what extends the provider's
\* branch is taken.
Push_head(c) ==
    /\ call[c].at = "push"
    /\ IF MayWrite /\ history(remote) \subseteq history(mirror.head)
         THEN /\ remote' = mirror.head
              /\ mirror' = [mirror EXCEPT !.origin = mirror.head]
              /\ Goto(c, "verify") /\ UNCHANGED outcomes
         ELSE Fail(c, "push") /\ UNCHANGED <<remote, mirror>>
    /\ UNCHANGED <<commits, granted, cache, counters>>

\* Mutant of Verify_remote: the push is taken for the proof.
Verify_nothing(c) ==
    /\ call[c].at = "verify"
    /\ Land(c)
    /\ UNCHANGED <<provider, mirror, counters>>

\* The postcondition is a fact of the provider.
Verify_remote(c) ==
    /\ call[c].at = "verify"
    /\ IF remote_revision = call[c].revision THEN Land(c)
       ELSE Fail(c, "unverified") /\ UNCHANGED cache
    /\ UNCHANGED <<provider, mirror, counters>>

\* validate: a throwaway clone that touches neither the repository nor the mirror.
validate ==
    CASE ~ MayRead -> "unavailable"
      [] MayRead /\ remote = Unborn -> "empty"
      [] OTHER -> IF Baseline \in tree(remote) THEN "baseline_current" ELSE "baseline_absent"

(***************************************************************************)
(* The rest of the world                                                   *)
(***************************************************************************)

\* Somebody else commits to the branch, with or without the baseline.
Push_foreign(files) ==
    /\ foreign < MaxForeign
    /\ foreign' = foreign + 1
    /\ commits' = Commit_on(remote, {}, files, TRUE)
    /\ remote' = Next_revision
    /\ Disturb
    /\ UNCHANGED <<granted, mirror, cache, outcomes, faults, calls>>

\* The installation of the App is changed.
Grant(g) ==
    /\ faults < MaxFaults /\ g # granted
    /\ faults' = faults + 1
    /\ granted' = g
    /\ Disturb
    /\ UNCHANGED <<commits, remote, mirror, cache, outcomes, foreign, calls>>

\* The process is killed: the API loses its memory and every request, a command only itself.
\* A clone that was cut off leaves a repository without a commit.
Kill(c) ==
    /\ call[c].at # "idle" /\ faults < MaxFaults
    /\ faults' = faults + 1
    /\ LET dead == IF c \in ApiCallers THEN ApiCallers ELSE {c}
       IN /\ call' = [d \in Callers |-> IF d \in dead THEN Idle ELSE call[d]]
          /\ cache' = IF c \in ApiCallers THEN {} ELSE cache
          /\ mirror' \in {mirror} \union
                {[NoMirror EXCEPT !.exists = TRUE] :
                    d \in {e \in dead : call[e].at = "materialise" /\ ~ mirror.exists}}
    /\ UNCHANGED <<provider, outcomes, foreign, calls>>

Land_baseline(c) ==
    \/ Add_all(c) \/ tree_changed(c) \/ Commit_payload(c) \/ rev_parse(c) \/ Reuse_head(c)
    \/ recorded_packs(c) \/ Check_remote(c) \/ Push_head(c) \/ Verify_remote(c)

Bootstrap_step(c) ==
    \/ materialise(c) \/ align_to_default_branch(c) \/ write_payload(c) \/ Land_baseline(c)

\* The route and the command.  Either names the packs, or means the baseline; the API
\* process has a memory of its bootstraps, a command starts without one.
bootstrap_product(c) ==
    c \in ApiCallers /\ \E packs \in SUBSET Packs : bootstrap_baseline(c, packs)

run_product_bootstrap_command(c) ==
    c \notin ApiCallers /\ \E packs \in SUBSET Packs : bootstrap_baseline(c, packs)

Provisioning_next ==
    \/ \E c \in Callers :
        \/ bootstrap_product(c)
        \/ run_product_bootstrap_command(c)
        \/ ensure_mirror(c)
        \/ Bootstrap_step(c)
        \/ Kill(c)
    \/ \E files \in SUBSET Packs : Push_foreign(files)
    \/ \E g \in {"write", "read", "none"} : Grant(g)

Provisioning_init ==
    /\ commits \in {<<>>} \union
          {<<[packs |-> {}, tree |-> files, alone |-> TRUE, history |-> {1}]>> : files \in SUBSET Packs}
    /\ remote = Len(commits)
    /\ granted = "write"
    /\ mirror = NoMirror
    /\ call = [c \in Callers |-> Idle]
    /\ cache = {} /\ returned = {} /\ failed = {}
    /\ foreign = 0 /\ faults = 0 /\ calls = 0

ProvisioningSpec == Provisioning_init /\ [][Provisioning_next]_provisioningVars

(***************************************************************************)
(* Properties                                                              *)
(***************************************************************************)

\* "The postcondition is a provider fact": every revision a bootstrap reported is on the
\* provider's default branch, whoever else used the mirror, was refused or was killed.
BaselineIsOnProvider == \A b \in returned : b.revision \in history(remote)

\* The packs a result names are in the tree of its revision, when no other bootstrap ran in
\* the mirror meanwhile or while the commit it names was made: what a killed or refused call
\* left behind is never taken for evidence.  A validation at that revision finds the baseline
\* the result names.  (A commit of two overlapping calls records the packs of one and has the
\* files of the other, and every later call that finds nothing to commit reports those packs.)
EvidenceIsTrue ==
    \A b \in returned : b.calm /\ commits[b.revision].alone =>
        /\ b.applied \subseteq tree(b.revision)
        /\ b.revision = remote /\ Baseline \in b.applied /\ MayRead => validate = "baseline_current"

\* Every result a bootstrap returned is true of the provider's branch and of its tree.
ReportIsTrue == BaselineIsOnProvider /\ EvidenceIsTrue

\* "A retry recovers without touching the mirror": a call nothing disturbs, made while the
\* provider lets the factory write, fails only when there is nothing to land.
RetryRecovers == failed \subseteq {"no_effect"}

\* "A physical no-op that returns the current revision instead of minting a second commit"
\* (bootstrap_baseline): a call nothing disturbs commits only a tree the provider's branch has
\* not, and when it commits nothing it names the provider's own head (or what it is about to
\* push to an unborn branch), whatever earlier calls, killed or refused, left in the mirror and
\* whoever pushed since it was last fetched.
RepeatIsNoOp ==
    \A c \in Callers : Bootstrapping(c) /\ call[c].calm =>
        /\ call[c].at = "commit" => mirror.index # tree(remote)
        /\ call[c].at = "recorded" => remote \in {Unborn, call[c].revision}
=============================================================================
