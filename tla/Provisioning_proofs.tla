------------------------ MODULE Provisioning_proofs ------------------------
(***************************************************************************)
(* Theorems about Provisioning, for any callers, packs and bounds.         *)
(*                                                                         *)
(* The heart of the invariant is CalmFits: a call nothing disturbs is the  *)
(* only one under way, the provider lets it write, and the mirror is, at   *)
(* each of its steps, as the steps before left it.  A call that shares the *)
(* mirror has none of this, and still reports only what it has seen at the *)
(* provider.                                                               *)
(***************************************************************************)
EXTENDS Provisioning, TLAPS

(***************************************************************************)
(* The invariant                                                           *)
(***************************************************************************)

Commit == [packs : SUBSET Packs, tree : SUBSET Packs, alone : BOOLEAN, history : SUBSET Nat]
Revisions == 0 .. Len(commits)
Stages == {"idle", "materialise", "align", "write", "add", "status", "commit", "parse",
           "reuse", "recorded", "check", "push", "verify"}
CallState == [at : Stages, packs : SUBSET Packs, revision : Nat, applied : SUBSET Packs,
              calm : BOOLEAN]
MirrorState == [exists : BOOLEAN, origin : Nat, head : Nat, index : SUBSET Packs,
                files : SUBSET Packs]

TypeOK ==
    /\ commits \in Seq(Commit)
    /\ remote \in Revisions
    /\ mirror \in MirrorState /\ mirror.origin \in Revisions /\ mirror.head \in Revisions
    /\ call \in [Callers -> CallState]

\* Every commit is in its own history, and one made alone has the packs it records.
CommitsFit ==
    \A r \in 1 .. Len(commits) :
        /\ r \in commits[r].history
        /\ commits[r].alone => commits[r].packs \subseteq commits[r].tree

\* A revision carries the packs it is reported with, when nothing disturbed the call or the
\* commit it names.
Carries(k) ==
    k.calm /\ commits[k.revision].alone => k.applied \subseteq commits[k.revision].tree

\* What a call has found out is about a commit.
Fit(k) ==
    /\ k.at \in {"recorded", "check", "push", "verify"} => k.revision \in 1 .. Len(commits)
    /\ k.at \in {"check", "push", "verify"} => Carries(k)

CallsFit == \A c \in Callers : Fit(call[c])

Aligned == mirror.origin = remote /\ (remote = Unborn \/ mirror.head = remote)

\* The mirror as the steps of an undisturbed call left it.
Stage(k) ==
    /\ k.at \in {"materialise", "align", "write", "add", "status", "commit"} => k.packs # {}
    /\ k.at = "align" => mirror.origin = remote
    /\ k.at \in {"write", "add", "status", "commit", "reuse"} => Aligned
    /\ k.at = "add" => k.packs \subseteq mirror.files
    /\ k.at = "status" => k.packs \subseteq mirror.index /\ mirror.files = mirror.index
    /\ k.at = "commit" => k.packs \subseteq mirror.index /\ mirror.index # tree(mirror.head)
    /\ k.at = "recorded" => remote \in {Unborn, k.revision}
    /\ k.at = "parse" => mirror.head # Unborn /\ k.applied \subseteq tree(mirror.head)
    /\ k.at \in {"recorded", "check", "push"} => k.revision = mirror.head
    /\ k.at \in {"parse", "recorded", "check", "push"} => history(remote) \subseteq history(mirror.head)
    /\ k.at = "verify" => remote = k.revision

Alone(c) == \A d \in Callers \ {c} : ~ Bootstrapping(d)
Calm(c) == Bootstrapping(c) /\ call[c].calm
CalmFits == \A c \in Callers : Calm(c) => granted = "write" /\ Alone(c) /\ Stage(call[c])

Reports ==
    /\ cache \subseteq returned
    /\ \A b \in returned :
        b.revision \in 1 .. Len(commits) /\ b.revision \in history(remote) /\ Carries(b)

IInv == TypeOK /\ CommitsFit /\ CallsFit /\ CalmFits /\ Reports /\ RetryRecovers

(***************************************************************************)
(* Calls                                                                   *)
(***************************************************************************)

LEMMA IdleType == Idle \in CallState /\ Idle.at = "idle" /\ Idle.packs = {} /\ Idle.calm = TRUE
BY DEF Idle, CallState, Stages, Unborn

\* What a step of caller c does to the calls: its own becomes k, and no other is calm.
LEMMA StepFacts ==
  ASSUME call \in [Callers -> CallState], NEW c \in Callers, NEW k \in CallState, Step(c, k)
  PROVE  /\ call' \in [Callers -> CallState]
         /\ call'[c] = k
         /\ \A d \in Callers \ {c} :
              /\ call'[d].at = call[d].at /\ call'[d].revision = call[d].revision
              /\ call'[d].applied = call[d].applied
              /\ Bootstrapping(d) => call'[d].calm = FALSE
              /\ ~ Bootstrapping(d) => call'[d] = call[d]
<1> DEFINE new(d) == IF d = c THEN k
                     ELSE IF Bootstrapping(d) THEN [call[d] EXCEPT !.calm = FALSE] ELSE call[d]
<1>1. call' = [d \in Callers |-> new(d)]
  BY DEF Step
<1>2. \A d \in Callers : new(d) \in CallState
  BY DEF CallState
<1>3. \A d \in Callers \ {c} :
              /\ new(d).at = call[d].at /\ new(d).revision = call[d].revision
              /\ new(d).applied = call[d].applied
              /\ Bootstrapping(d) => new(d).calm = FALSE
              /\ ~ Bootstrapping(d) => new(d) = call[d]
  BY DEF CallState
<1>4. new(c) = k
  OBVIOUS
<1> HIDE DEF new
<1> QED BY <1>1, <1>2, <1>3, <1>4

\* Commits are only added.
Grown ==
    /\ commits' \in Seq(Commit) /\ Len(commits) <= Len(commits')
    /\ \A r \in 1 .. Len(commits) : commits'[r] = commits[r]

LEMMA SameIsGrown == ASSUME TypeOK, UNCHANGED commits PROVE Grown
BY DEF TypeOK, Grown

LEMMA AppendGrows ==
  ASSUME TypeOK, NEW x \in Commit, commits' = Append(commits, x)
  PROVE  /\ Grown /\ Len(commits) \in Nat /\ Len(commits') = Len(commits) + 1
         /\ commits'[Len(commits) + 1] = x
BY DEF TypeOK, Grown

LEMMA GrownTrees ==
  ASSUME TypeOK, Grown, NEW r \in Revisions
  PROVE  r \in Revisions' /\ tree(r)' = tree(r) /\ history(r)' = history(r)
<1>1. Len(commits) \in Nat /\ Len(commits') \in Nat
  BY DEF TypeOK, Grown
<1>2. r \in Revisions'
  BY <1>1 DEF Grown, Revisions
<1>3. r # Unborn => r \in 1 .. Len(commits)
  BY <1>1 DEF Revisions, Unborn
<1> QED BY <1>2, <1>3 DEF Grown, tree, history

LEMMA GrownCarries ==
  ASSUME TypeOK, Grown, NEW k, k.revision \in 1 .. Len(commits), Carries(k)
  PROVE  k.revision \in 1 .. Len(commits') /\ Carries(k)'
<1>1. Len(commits) \in Nat /\ Len(commits') \in Nat
  BY DEF TypeOK, Grown
<1> QED BY <1>1 DEF Grown, Carries

\* A step of caller c keeps the ties of all calls when it keeps those of its own.
LEMMA CallStep ==
  ASSUME IInv, Grown, NEW c \in Callers, NEW k \in CallState, Step(c, k),
         Fit(k)',
         k.at # "idle" /\ k.calm => granted' = "write" /\ Alone(c) /\ Stage(k)'
  PROVE  call' \in [Callers -> CallState] /\ CallsFit' /\ CalmFits'
<1>1. call \in [Callers -> CallState]
  BY DEF IInv, TypeOK
<1>2. /\ call' \in [Callers -> CallState]
      /\ call'[c] = k
      /\ \A d \in Callers \ {c} :
              /\ call'[d].at = call[d].at /\ call'[d].revision = call[d].revision
              /\ call'[d].applied = call[d].applied
              /\ Bootstrapping(d) => call'[d].calm = FALSE
              /\ ~ Bootstrapping(d) => call'[d] = call[d]
  BY <1>1, StepFacts
<1>3. ASSUME NEW d \in Callers PROVE Fit(call[d])'
  <2>1. CASE d = c
    BY <1>2, <2>1 DEF Fit, Carries
  <2>2. CASE d # c
    <3>1. Fit(call[d])
      BY DEF IInv, CallsFit
    <3>2. call'[d].at \in {"recorded", "check", "push", "verify"} =>
             call'[d].calm = FALSE /\ call[d].revision \in 1 .. Len(commits)
      BY <1>2, <2>2, <3>1 DEF Fit, Bootstrapping
    <3>3. Len(commits) \in Nat /\ Len(commits') \in Nat
      BY DEF IInv, TypeOK, Grown
    <3>4. call'[d].at \in {"recorded", "check", "push", "verify"} =>
             call'[d].revision \in 1 .. Len(commits')
      BY <1>2, <2>2, <3>2, <3>3 DEF Grown
    <3> QED BY <3>2, <3>4 DEF Fit, Carries
  <2> QED BY <2>1, <2>2
<1>4. ASSUME NEW d \in Callers, Calm(d)'
      PROVE  granted' = "write" /\ Alone(d)' /\ Stage(call[d])'
  <2>1. d = c
    BY <1>2, <1>4 DEF Calm, Bootstrapping
  <2>2. k.at # "idle" /\ k.calm
    BY <1>2, <1>4, <2>1 DEF Calm, Bootstrapping
  <2>3. Alone(c)'
    BY <1>2, <2>2 DEF Alone, Bootstrapping
  <2>4. Stage(call[c])'
    BY <1>2, <2>2 DEF Stage
  <2> QED BY <2>1, <2>2, <2>3, <2>4
<1> QED BY <1>2, <1>3, <1>4 DEF CallsFit, CalmFits

LEMMA IdleFits == Fit(Idle)'
BY IdleType DEF Fit

\* Reports stay true while the branch grows.
LEMMA ReportsKept ==
  ASSUME IInv, Grown, history(remote) \subseteq history(remote)',
         cache' \subseteq cache, returned' = returned
  PROVE  Reports'
<1> SUFFICES ASSUME NEW b \in returned
             PROVE  b.revision \in 1 .. Len(commits') /\ b.revision \in history(remote)' /\ Carries(b)'
  BY DEF Reports, IInv
<1> QED BY GrownCarries DEF IInv, Reports

LEMMA SameHistory ==
  ASSUME UNCHANGED <<commits, remote>> PROVE history(remote) \subseteq history(remote)'
BY DEF history

(***************************************************************************)
(* The steps of a bootstrap                                                *)
(***************************************************************************)

\* A step of caller c that reports nothing and adds no commit.
LEMMA LocalStep ==
  ASSUME IInv, NEW c \in Callers, NEW k \in CallState, Step(c, k),
         UNCHANGED <<commits, remote, cache, returned>>,
         mirror' \in MirrorState, mirror'.origin \in Revisions, mirror'.head \in Revisions,
         failed' \subseteq {"no_effect"}, Fit(k)',
         k.at # "idle" /\ k.calm => granted' = "write" /\ Alone(c) /\ Stage(k)'
  PROVE  IInv'
<1>1. Grown
  BY SameIsGrown DEF IInv
<1>2. call' \in [Callers -> CallState] /\ CallsFit' /\ CalmFits'
  BY <1>1, CallStep
<1>3. Reports'
  BY <1>1, SameHistory, ReportsKept
<1> QED BY <1>2, <1>3 DEF IInv, TypeOK, CommitsFit, RetryRecovers, Revisions

\* A call that fails, disturbed or with nothing to land.
LEMMA FailStep ==
  ASSUME IInv, NEW c \in Callers, NEW why, Fail(c, why), UNCHANGED <<provider, mirror, cache>>,
         call[c].calm => why = "no_effect"
  PROVE  IInv'
<1>1. failed' \subseteq {"no_effect"}
  BY DEF Fail, IInv, RetryRecovers
<1> QED
  BY <1>1, LocalStep, IdleType, IdleFits DEF Fail, provider, IInv, TypeOK

\* What is known of a call under way.
LEMMA Knows ==
  ASSUME IInv, NEW c \in Callers
  PROVE  /\ call[c] \in CallState /\ Fit(call[c])
         /\ call[c].at # "idle" /\ call[c].calm => granted = "write" /\ Alone(c) /\ Stage(call[c])
BY DEF IInv, TypeOK, CallsFit, CalmFits, Calm, Bootstrapping

LEMMA TreeType == ASSUME TypeOK, NEW r \in Revisions PROVE tree(r) \in SUBSET Packs
<1>1. Len(commits) \in Nat /\ (r # Unborn => r \in 1 .. Len(commits))
  BY DEF TypeOK, Revisions, Unborn
<1>2. r # Unborn => commits[r] \in Commit
  BY <1>1 DEF TypeOK
<1> QED BY <1>2 DEF tree, Commit

LEMMA MaterialiseStep == ASSUME IInv, NEW c \in Callers, materialise(c) PROVE IInv'
<1>1. UNCHANGED <<provider, cache, counters>> /\ call[c].at = "materialise"
  BY DEF materialise
<1>2. CASE MayRead
  <2>1. mirror' \in MirrorState /\ mirror'.origin = remote /\ mirror'.head \in Revisions
        /\ remote \in Revisions
    <3>1. mirror' = IF mirror.exists THEN [mirror EXCEPT !.origin = remote]
                    ELSE [exists |-> TRUE, origin |-> remote, head |-> remote,
                          index |-> tree(remote), files |-> tree(remote)]
      BY <1>2 DEF materialise
    <3>2. remote \in Revisions /\ remote \in Nat /\ tree(remote) \in SUBSET Packs
      BY TreeType DEF IInv, TypeOK, Revisions
    <3> QED BY <3>1, <3>2 DEF IInv, TypeOK, MirrorState
  <2>2. UNCHANGED outcomes
    BY <1>2 DEF materialise
  <2>3. CASE Step(c, Idle)
    BY <1>1, <2>1, <2>2, <2>3, LocalStep, IdleType, IdleFits DEF provider, outcomes, IInv, RetryRecovers
  <2>4. CASE Goto(c, "align")
    <3>1. PICK k \in CallState :
             Step(c, k) /\ k.at = "align" /\ k.calm = call[c].calm /\ k.packs = call[c].packs
      BY <2>4, Knows DEF Goto, CallState, Stages
    <3>2. k.at # "idle" /\ k.calm => granted' = "write" /\ Alone(c) /\ Stage(k)'
      BY <1>1, <2>1, <3>1, Knows DEF Stage, provider
    <3>3. Fit(k)'
      BY <3>1 DEF Fit
    <3> QED
      BY <1>1, <2>1, <2>2, <3>1, <3>2, <3>3, LocalStep DEF provider, outcomes, IInv, RetryRecovers
  <2> QED BY <1>2, <2>3, <2>4 DEF materialise
<1>3. CASE ~ MayRead
  <2>1. Fail(c, "clone") /\ UNCHANGED mirror
    BY <1>3 DEF materialise
  <2>2. ~ call[c].calm
    BY <1>1, <1>3, Knows DEF MayRead
  <2> QED BY <1>1, <2>1, <2>2, FailStep
<1> QED BY <1>2, <1>3

\* A step that goes on to another stage with the same packs, in a mirror whose revisions stay.
LEMMA GotoStep ==
  ASSUME IInv, NEW c \in Callers, NEW at \in Stages \ {"idle", "recorded", "check", "push", "verify"},
         call[c].at # "idle", Goto(c, at), UNCHANGED <<provider, cache, outcomes>>,
         mirror' \in MirrorState, mirror'.origin \in Revisions, mirror'.head \in Revisions,
         \A k \in CallState :
             call[c].calm /\ k.at = at /\ k.packs = call[c].packs => Stage(k)'
  PROVE  IInv'
<1>1. PICK k \in CallState :
         Step(c, k) /\ k.at = at /\ k.calm = call[c].calm /\ k.packs = call[c].packs
  BY Knows DEF Goto, CallState
<1>2. k.calm => Stage(k)'
  BY <1>1
<1>3. Fit(k)'
  BY <1>1 DEF Fit
<1>4. k.at # "idle" /\ k.calm => granted' = "write" /\ Alone(c) /\ Stage(k)'
  BY <1>1, <1>2, Knows DEF provider
<1> QED
  BY <1>1, <1>3, <1>4, LocalStep DEF provider, outcomes, IInv, RetryRecovers

LEMMA AlignStep == ASSUME IInv, NEW c \in Callers, align_to_default_branch(c) PROVE IInv'
<1>1. call[c].at = "align" /\ Goto(c, "write") /\ UNCHANGED <<provider, cache, outcomes>>
  BY DEF align_to_default_branch
<1>2. mirror' = IF mirror.origin = Unborn THEN mirror
                ELSE [mirror EXCEPT !.head = mirror.origin, !.index = tree(mirror.origin),
                         !.files = tree(mirror.origin) \union (mirror.files \ mirror.index)]
  BY DEF align_to_default_branch
<1>3. mirror \in MirrorState /\ mirror.origin \in Revisions /\ mirror.head \in Revisions
      /\ tree(mirror.origin) \in SUBSET Packs
  BY TreeType DEF IInv, TypeOK
<1>4. /\ mirror' \in MirrorState /\ mirror'.origin = mirror.origin
      /\ mirror'.head \in Revisions
      /\ mirror.origin # Unborn => mirror'.head = mirror.origin
  BY <1>2, <1>3 DEF MirrorState
<1>5. \A k \in CallState : call[c].calm /\ k.at = "write" /\ k.packs = call[c].packs => Stage(k)'
  BY <1>1, <1>4, Knows DEF Stage, Aligned, provider
<1> QED BY <1>1, <1>3, <1>4, <1>5, GotoStep DEF Stages

LEMMA WriteStep == ASSUME IInv, NEW c \in Callers, write_payload(c) PROVE IInv'
<1>1. call[c].at = "write" /\ Goto(c, "add") /\ UNCHANGED <<provider, cache, outcomes>>
      /\ mirror' = [mirror EXCEPT !.files = @ \union call[c].packs]
  BY DEF write_payload
<1>2. mirror \in MirrorState /\ call[c].packs \in SUBSET Packs
  BY Knows DEF IInv, TypeOK, CallState
<1>3. /\ mirror' \in MirrorState /\ mirror'.origin = mirror.origin /\ mirror'.head = mirror.head
      /\ call[c].packs \subseteq mirror'.files
  BY <1>1, <1>2 DEF MirrorState
<1>4. \A k \in CallState : call[c].calm /\ k.at = "add" /\ k.packs = call[c].packs => Stage(k)'
  BY <1>1, <1>3, Knows DEF Stage, Aligned, provider
<1> QED BY <1>1, <1>3, <1>4, GotoStep DEF Stages, IInv, TypeOK

LEMMA AddStep == ASSUME IInv, NEW c \in Callers, Add_all(c) PROVE IInv'
<1>1. call[c].at = "add" /\ Goto(c, "status") /\ UNCHANGED <<provider, cache, outcomes>>
      /\ mirror' = [mirror EXCEPT !.index = mirror.files]
  BY DEF Add_all
<1>2. mirror \in MirrorState
  BY DEF IInv, TypeOK
<1>3. /\ mirror' \in MirrorState /\ mirror'.origin = mirror.origin /\ mirror'.head = mirror.head
      /\ mirror'.index = mirror.files /\ mirror'.files = mirror.files
  BY <1>1, <1>2 DEF MirrorState
<1>4. \A k \in CallState : call[c].calm /\ k.at = "status" /\ k.packs = call[c].packs => Stage(k)'
  BY <1>1, <1>3, Knows DEF Stage, Aligned, provider
<1> QED BY <1>1, <1>3, <1>4, GotoStep DEF Stages, IInv, TypeOK

LEMMA StatusStep == ASSUME IInv, NEW c \in Callers, tree_changed(c) PROVE IInv'
<1>1. call[c].at = "status" /\ UNCHANGED <<provider, mirror, cache, outcomes>>
  BY DEF tree_changed
<1>2. mirror' \in MirrorState /\ mirror'.origin \in Revisions /\ mirror'.head \in Revisions
  BY <1>1 DEF IInv, TypeOK
<1>3. tree(mirror.head)' = tree(mirror.head)
  BY <1>1 DEF provider, tree
<1>4. CASE Goto(c, "commit") /\ (mirror.index # tree(mirror.head) \/ mirror.files # mirror.index)
  <2>1. \A k \in CallState : call[c].calm /\ k.at = "commit" /\ k.packs = call[c].packs => Stage(k)'
    BY <1>1, <1>3, <1>4, Knows DEF Stage, Aligned, provider
  <2> QED BY <1>1, <1>2, <1>4, <2>1, GotoStep DEF Stages
<1>5. CASE Goto(c, "reuse")
  <2>1. \A k \in CallState : call[c].calm /\ k.at = "reuse" => Stage(k)'
    BY <1>1, Knows DEF Stage, Aligned, provider
  <2> QED BY <1>1, <1>2, <1>5, <2>1, GotoStep DEF Stages
<1> QED BY <1>4, <1>5 DEF tree_changed

LEMMA CommitStep == ASSUME IInv, NEW c \in Callers, Commit_payload(c) PROVE IInv'
<1>1. call[c].at = "commit" /\ UNCHANGED <<remote, granted, cache>>
  BY DEF Commit_payload
<1>2. CASE mirror.index = tree(mirror.head)
  <2>1. Fail(c, "commit") /\ UNCHANGED <<commits, mirror>>
    BY <1>2 DEF Commit_payload
  <2>2. ~ call[c].calm
    BY <1>1, <1>2, Knows DEF Stage
  <2> QED BY <1>1, <2>1, <2>2, FailStep DEF provider
<1>3. CASE mirror.index # tree(mirror.head)
  <2>0. PICK n : n = Len(commits) + 1
    OBVIOUS
  <2>1. PICK x : x = [packs |-> call[c].packs, tree |-> mirror.index, alone |-> call[c].calm,
                      history |-> history(mirror.head) \union {n}]
    OBVIOUS
  <2>2. /\ commits' = Append(commits, x) /\ mirror' = [mirror EXCEPT !.head = n]
        /\ Step(c, [call[c] EXCEPT !.at = "parse", !.applied = call[c].packs])
        /\ UNCHANGED outcomes
    BY <1>3, <2>0, <2>1 DEF Commit_payload, Commit_on, Next_revision
  <2>3. TypeOK /\ call[c] \in CallState /\ Len(commits) \in Nat /\ mirror \in MirrorState
        /\ mirror.head \in Revisions /\ remote \in Revisions /\ mirror.origin \in Revisions
    BY Knows DEF IInv, TypeOK
  <2>4. history(mirror.head) \subseteq Nat
    <3>1. mirror.head # Unborn => mirror.head \in 1 .. Len(commits)
      BY <2>3 DEF Revisions, Unborn
    <3>2. mirror.head # Unborn => commits[mirror.head] \in Commit
      BY <2>3, <3>1 DEF TypeOK
    <3> QED BY <3>2 DEF history, Commit
  <2>5. x \in Commit
    BY <2>0, <2>1, <2>3, <2>4 DEF Commit, CallState, MirrorState
  <2>6. Grown /\ Len(commits') = n /\ commits'[n] = x
    BY <2>0, <2>2, <2>3, <2>5, AppendGrows
  <2>7. /\ mirror' \in MirrorState /\ mirror'.head = n /\ mirror'.origin = mirror.origin
        /\ n \in Revisions' /\ n # Unborn
    BY <2>0, <2>2, <2>3, <2>6 DEF MirrorState, Revisions, Unborn
  <2>8. tree(n)' = mirror.index /\ history(n)' = history(mirror.head) \union {n}
    <3>1. tree(n)' = commits'[n].tree /\ history(n)' = commits'[n].history
      BY <2>7, <2>6 DEF tree, history
    <3> QED BY <2>1, <2>6, <3>1
  <2>9. history(remote)' = history(remote) /\ remote \in Revisions' /\ mirror.origin \in Revisions'
    <3>1. \A r \in Revisions : r \in Revisions' /\ history(r)' = history(r)
      BY <2>3, <2>6, GrownTrees
    <3> QED BY <1>1, <2>3, <3>1 DEF history
  <2>10. PICK k \in CallState : /\ Step(c, k) /\ k.at = "parse" /\ k.calm = call[c].calm
                                /\ k.applied = call[c].packs
    <3>1. PICK k : k = [call[c] EXCEPT !.at = "parse", !.applied = call[c].packs]
      OBVIOUS
    <3>2. "parse" \in Stages /\ call[c].packs \in SUBSET Packs
      BY <2>3 DEF CallState, Stages
    <3>3. k \in CallState /\ k.at = "parse" /\ k.calm = call[c].calm /\ k.applied = call[c].packs
      BY <2>3, <3>1, <3>2 DEF CallState
    <3> QED BY <2>2, <3>1, <3>3
  <2>11. call[c].calm => call[c].packs \subseteq mirror.index
    BY <1>1, Knows DEF Stage
  <2>12. k.calm => Stage(k)'
    <3>1. ASSUME k.calm PROVE history(remote) \subseteq history(mirror.head)
      BY <1>1, <2>10, <3>1, Knows DEF Stage, Aligned, history
    <3>2. (mirror.head)' = n
      BY <2>7
    <3>3. tree(mirror.head)' = mirror.index /\ history(mirror.head)' = history(mirror.head) \union {n}
      BY <2>8, <3>2 DEF tree, history
    <3> QED BY <2>7, <2>9, <2>10, <2>11, <3>1, <3>2, <3>3 DEF Stage
  <2>13. call' \in [Callers -> CallState] /\ CallsFit' /\ CalmFits'
    <3>1. Fit(k)'
      BY <2>10 DEF Fit
    <3>2. k.at # "idle" /\ k.calm => granted' = "write" /\ Alone(c) /\ Stage(k)'
      BY <1>1, <2>10, <2>12, Knows
    <3> QED BY <2>6, <2>10, <3>1, <3>2, CallStep
  <2>14. CommitsFit'
    <3>1. \A r \in 1 .. n : r = n \/ r \in 1 .. Len(commits)
      BY <2>0, <2>3
    <3>2. n \in x.history /\ (x.alone => x.packs \subseteq x.tree)
      BY <2>1, <2>11
    <3> QED BY <2>6, <3>1, <3>2 DEF CommitsFit, IInv, Grown
  <2>15. Reports'
    BY <1>1, <2>2, <2>6, <2>9, ReportsKept DEF outcomes
  <2> QED
    BY <1>1, <2>2, <2>6, <2>7, <2>9, <2>13, <2>14, <2>15
    DEF IInv, TypeOK, Grown, RetryRecovers, outcomes
<1> QED BY <1>2, <1>3

LEMMA ParseStep == ASSUME IInv, NEW c \in Callers, rev_parse(c) PROVE IInv'
<1>1. call[c].at = "parse" /\ UNCHANGED <<provider, mirror, cache>>
  BY DEF rev_parse
<1>2. CASE mirror.head = Unborn
  <2>1. ~ call[c].calm
    BY <1>1, <1>2, Knows DEF Stage
  <2> QED BY <1>1, <1>2, <2>1, FailStep DEF rev_parse
<1>3. CASE mirror.head # Unborn
  <2>1. mirror.head \in 1 .. Len(commits) /\ mirror.head \in Nat
    BY <1>3 DEF IInv, TypeOK, Revisions, Unborn
  <2>2. PICK k \in CallState :
           /\ Step(c, k) /\ k.at = "check" /\ k.calm = call[c].calm
           /\ k.revision = mirror.head /\ k.applied = call[c].applied
    <3>1. PICK k : k = [call[c] EXCEPT !.at = "check", !.revision = mirror.head] /\ Step(c, k)
      BY <1>3 DEF rev_parse
    <3>2. "check" \in Stages /\ call[c] \in CallState
      BY Knows DEF Stages
    <3>3. /\ k \in CallState /\ k.at = "check" /\ k.calm = call[c].calm
          /\ k.revision = mirror.head /\ k.applied = call[c].applied
      BY <2>1, <3>1, <3>2 DEF CallState
    <3> QED BY <3>1, <3>3
  <2>3. UNCHANGED outcomes
    BY <1>3 DEF rev_parse
  <2>4. k.calm => Stage(k)' /\ k.applied \subseteq commits[mirror.head].tree
    BY <1>1, <1>3, <2>2, Knows DEF Stage, tree, history, provider
  <2>5. Fit(k)'
    BY <1>1, <2>1, <2>2, <2>4 DEF Fit, Carries, provider
  <2>6. k.at # "idle" /\ k.calm => granted' = "write" /\ Alone(c) /\ Stage(k)'
    BY <1>1, <2>2, <2>4, Knows DEF provider
  <2> QED
    BY <1>1, <2>2, <2>3, <2>5, <2>6, LocalStep
    DEF provider, outcomes, IInv, TypeOK, RetryRecovers
<1> QED BY <1>2, <1>3

LEMMA ReuseStep == ASSUME IInv, NEW c \in Callers, Reuse_head(c) PROVE IInv'
<1>1. call[c].at = "reuse" /\ UNCHANGED <<provider, mirror, cache>>
  BY DEF Reuse_head
<1>2. CASE Baseline \notin tree(mirror.head)
  BY <1>1, <1>2, FailStep DEF Reuse_head
<1>3. CASE Baseline \in tree(mirror.head)
  <2>1. mirror.head \in 1 .. Len(commits) /\ mirror.head \in Nat
    <3>1. mirror.head # Unborn
      BY <1>3 DEF tree
    <3> QED BY <3>1 DEF IInv, TypeOK, Revisions, Unborn
  <2>2. PICK k \in CallState :
           /\ Step(c, k) /\ k.at = "recorded" /\ k.calm = call[c].calm /\ k.revision = mirror.head
    <3>1. PICK k : k = [call[c] EXCEPT !.at = "recorded", !.revision = mirror.head] /\ Step(c, k)
      BY <1>3 DEF Reuse_head
    <3>2. "recorded" \in Stages /\ call[c] \in CallState
      BY Knows DEF Stages
    <3>3. /\ k \in CallState /\ k.at = "recorded" /\ k.calm = call[c].calm
          /\ k.revision = mirror.head /\ k.applied = call[c].applied
      BY <2>1, <3>1, <3>2 DEF CallState
    <3> QED BY <3>1, <3>3
  <2>3. UNCHANGED outcomes
    BY <1>3 DEF Reuse_head
  <2>4. k.calm => history(remote) \subseteq history(mirror.head)
    BY <1>1, <2>2, Knows DEF Stage, Aligned, history
  <2>5. k.calm => Stage(k)'
    BY <1>1, <2>2, <2>4, Knows DEF Stage, Aligned, history, provider
  <2>6. Fit(k)'
    BY <1>1, <2>1, <2>2 DEF Fit, provider
  <2>7. k.at # "idle" /\ k.calm => granted' = "write" /\ Alone(c) /\ Stage(k)'
    BY <1>1, <2>2, <2>5, Knows DEF provider
  <2> QED
    BY <1>1, <2>2, <2>3, <2>6, <2>7, LocalStep
    DEF provider, outcomes, IInv, TypeOK, RetryRecovers
<1> QED BY <1>2, <1>3

LEMMA RecordedStep == ASSUME IInv, NEW c \in Callers, recorded_packs(c) PROVE IInv'
<1>1. call[c].at = "recorded" /\ UNCHANGED <<provider, mirror, cache, outcomes>>
  BY DEF recorded_packs
<1> DEFINE packs == IF mirror.head = Unborn THEN {} ELSE commits[mirror.head].packs
<1>2. packs \in SUBSET Packs /\ (mirror.head # Unborn => mirror.head \in 1 .. Len(commits))
  <2>1. mirror.head # Unborn => mirror.head \in 1 .. Len(commits)
    BY DEF IInv, TypeOK, Revisions, Unborn
  <2>2. mirror.head # Unborn => commits[mirror.head] \in Commit
    BY <2>1 DEF IInv, TypeOK
  <2> QED BY <2>1, <2>2 DEF Commit
<1>3. PICK k \in CallState :
         /\ Step(c, k) /\ k.at = "check" /\ k.calm = call[c].calm
         /\ k.revision = call[c].revision /\ k.applied = packs
  <2>1. PICK k : k = [call[c] EXCEPT !.at = "check", !.applied = packs] /\ Step(c, k)
    BY DEF recorded_packs
  <2>2. "check" \in Stages /\ call[c] \in CallState
    BY Knows DEF Stages
  <2> HIDE DEF packs
  <2>3. /\ k \in CallState /\ k.at = "check" /\ k.calm = call[c].calm
        /\ k.revision = call[c].revision /\ k.applied = packs
    BY <1>2, <2>1, <2>2 DEF CallState
  <2> QED BY <2>1, <2>3
<1>4. k.calm => Stage(k)' /\ k.revision = mirror.head
  BY <1>1, <1>3, Knows DEF Stage, history, provider
<1>5. k.revision \in 1 .. Len(commits)
  BY <1>1, <1>3, Knows DEF Fit
<1>6. Carries(k)
  <2> SUFFICES ASSUME k.calm, commits[k.revision].alone PROVE k.applied \subseteq commits[k.revision].tree
    BY DEF Carries
  <2>1. k.revision # Unborn
    BY <1>5 DEF Unborn
  <2> QED BY <1>3, <1>4, <1>5, <2>1 DEF IInv, CommitsFit
<1>7. Fit(k)'
  BY <1>1, <1>5, <1>6 DEF Fit, Carries, provider
<1>8. k.at # "idle" /\ k.calm => granted' = "write" /\ Alone(c) /\ Stage(k)'
  BY <1>1, <1>3, <1>4, Knows DEF provider
<1> QED
  BY <1>1, <1>3, <1>7, <1>8, LocalStep DEF provider, outcomes, IInv, TypeOK, RetryRecovers

\* A result is reported only when the provider's branch is at its revision.
LEMMA LandStep ==
  ASSUME IInv, NEW c \in Callers, call[c].at \in {"check", "verify"}, Land(c),
         remote_revision = call[c].revision, UNCHANGED <<provider, mirror>>
  PROVE  IInv'
<1>1. Step(c, Idle) /\ UNCHANGED failed
  BY DEF Land, Return
<1>2. PICK b : b = Result(c)
  OBVIOUS
<1>3. /\ b.revision = call[c].revision /\ b.applied = call[c].applied /\ b.calm = call[c].calm
  BY <1>2 DEF Result
<1>4. returned' = returned \union {b} /\ cache' \subseteq cache \union {b}
  BY <1>2 DEF Land, Return
<1>5. call[c].revision \in 1 .. Len(commits) /\ Carries(call[c])
  BY Knows DEF Fit
<1>6. call[c].revision = remote /\ remote \in history(remote)
  <2>1. call[c].revision = remote
    BY <1>5 DEF remote_revision, Unborn
  <2> QED BY <1>5, <2>1 DEF IInv, CommitsFit, history, Unborn
<1>7. Carries(b)
  BY <1>3, <1>5 DEF Carries
<1>8. Grown
  BY SameIsGrown DEF IInv, provider
<1>9. call' \in [Callers -> CallState] /\ CallsFit' /\ CalmFits'
  BY <1>1, <1>8, CallStep, IdleType, IdleFits
<1>10. Reports'
  <2>1. \A a \in returned' :
          a.revision \in 1 .. Len(commits) /\ a.revision \in history(remote) /\ Carries(a)
    BY <1>3, <1>4, <1>5, <1>6, <1>7 DEF IInv, Reports
  <2>2. cache' \subseteq returned'
    BY <1>4 DEF IInv, Reports
  <2> QED BY <2>1, <2>2 DEF Reports, Carries, history, provider
<1> QED
  BY <1>1, <1>9, <1>10 DEF IInv, TypeOK, CommitsFit, RetryRecovers, provider, Revisions

LEMMA CheckStep == ASSUME IInv, NEW c \in Callers, Check_remote(c) PROVE IInv'
<1>1. call[c].at = "check" /\ UNCHANGED <<provider, mirror>>
  BY DEF Check_remote
<1>2. CASE remote_revision = call[c].revision
  BY <1>1, <1>2, LandStep DEF Check_remote
<1>3. CASE remote_revision # call[c].revision
  <2>1. PICK k : k = [call[c] EXCEPT !.at = "push"] /\ Step(c, k) /\ UNCHANGED <<cache, outcomes>>
    BY <1>3 DEF Check_remote, Goto
  <2>2. /\ k \in CallState /\ k.at = "push" /\ k.calm = call[c].calm
        /\ k.revision = call[c].revision /\ k.applied = call[c].applied
    BY <2>1, Knows DEF CallState, Stages
  <2>3. k.calm => Stage(k)'
    BY <1>1, <2>2, Knows DEF Stage, history, provider
  <2>4. Fit(k)'
    BY <1>1, <2>2, Knows DEF Fit, Carries, provider
  <2>5. k.at # "idle" /\ k.calm => granted' = "write" /\ Alone(c) /\ Stage(k)'
    BY <1>1, <2>2, <2>3, Knows DEF provider
  <2> QED
    BY <1>1, <2>1, <2>2, <2>4, <2>5, LocalStep
    DEF provider, outcomes, IInv, TypeOK, RetryRecovers
<1> QED BY <1>2, <1>3

LEMMA PushStep == ASSUME IInv, NEW c \in Callers, Push_head(c) PROVE IInv'
<1>1. call[c].at = "push" /\ UNCHANGED <<commits, granted, cache>>
  BY DEF Push_head
<1>2. CASE MayWrite /\ history(remote) \subseteq history(mirror.head)
  <2>1. /\ remote' = mirror.head /\ mirror' = [mirror EXCEPT !.origin = mirror.head]
        /\ UNCHANGED outcomes
    BY <1>2 DEF Push_head
  <2>2. mirror \in MirrorState /\ mirror.head \in Revisions /\ mirror.head \in Nat
    BY DEF IInv, TypeOK, MirrorState
  <2>3. mirror' \in MirrorState /\ mirror'.origin = mirror.head /\ mirror'.head = mirror.head
    BY <2>1, <2>2 DEF MirrorState
  <2>4. PICK k : k = [call[c] EXCEPT !.at = "verify"] /\ Step(c, k)
    BY <1>2 DEF Push_head, Goto
  <2>5. /\ k \in CallState /\ k.at = "verify" /\ k.calm = call[c].calm
        /\ k.revision = call[c].revision /\ k.applied = call[c].applied
    BY <2>4, Knows DEF CallState, Stages
  <2>6. Fit(k)'
    BY <1>1, <2>5, Knows DEF Fit, Carries
  <2>7. k.at # "idle" /\ k.calm => granted' = "write" /\ Alone(c) /\ Stage(k)'
    BY <1>1, <2>1, <2>5, Knows DEF Stage
  <2>8. Grown
    BY <1>1, SameIsGrown DEF IInv
  <2>9. call' \in [Callers -> CallState] /\ CallsFit' /\ CalmFits'
    BY <2>4, <2>5, <2>6, <2>7, <2>8, CallStep
  <2>10. history(remote) \subseteq history(remote)'
    BY <1>1, <1>2, <2>1 DEF history
  <2>11. Reports'
    BY <1>1, <2>1, <2>8, <2>10, ReportsKept DEF outcomes
  <2> QED
    BY <1>1, <2>1, <2>2, <2>3, <2>9, <2>11
    DEF IInv, TypeOK, CommitsFit, RetryRecovers, outcomes, Revisions
<1>3. CASE ~ (MayWrite /\ history(remote) \subseteq history(mirror.head))
  <2>1. Fail(c, "push") /\ UNCHANGED <<remote, mirror>>
    BY <1>3 DEF Push_head
  <2>2. ~ call[c].calm
    BY <1>1, <1>3, Knows DEF Stage, MayWrite
  <2> QED BY <1>1, <2>1, <2>2, FailStep DEF provider
<1> QED BY <1>2, <1>3

LEMMA VerifyStep == ASSUME IInv, NEW c \in Callers, Verify_remote(c) PROVE IInv'
<1>1. call[c].at = "verify" /\ UNCHANGED <<provider, mirror>>
  BY DEF Verify_remote
<1>2. CASE remote_revision = call[c].revision
  BY <1>1, <1>2, LandStep DEF Verify_remote
<1>3. CASE remote_revision # call[c].revision
  <2>1. ~ call[c].calm
    BY <1>1, <1>3, Knows DEF Stage, remote_revision, MayRead
  <2> QED BY <1>1, <1>3, <2>1, FailStep DEF Verify_remote
<1> QED BY <1>2, <1>3

LEMMA BootstrapStep == ASSUME IInv, NEW c \in Callers, Bootstrap_step(c) PROVE IInv'
BY MaterialiseStep, AlignStep, WriteStep, AddStep, StatusStep, CommitStep, ParseStep, ReuseStep,
   RecordedStep, CheckStep, PushStep, VerifyStep DEF Bootstrap_step, Land_baseline

(***************************************************************************)
(* Calls that start, and the rest of the world                             *)
(***************************************************************************)

LEMMA StartStep ==
  ASSUME IInv, NEW c \in Callers,
         ensure_mirror(c) \/ \E packs \in SUBSET Packs : bootstrap_baseline(c, packs)
  PROVE  IInv'
<1>1. UNCHANGED <<provider, mirror, cache, failed>>
  BY DEF ensure_mirror, bootstrap_baseline, outcomes
<1>2. CASE \E packs \in SUBSET Packs : Cached(c, packs) # {} /\ bootstrap_baseline(c, packs)
  <2>1. returned' = returned /\ UNCHANGED call
    BY <1>2 DEF bootstrap_baseline, Cached, IInv, Reports
  <2> QED
    BY <1>1, <2>1
    DEF provider, IInv, TypeOK, CommitsFit, CallsFit, CalmFits, Reports, RetryRecovers, Revisions,
        Fit, Carries, Calm, Alone, Stage, Aligned, Bootstrapping, MirrorState, tree, history
<1>3. CASE ensure_mirror(c) \/ \E packs \in SUBSET Packs : Cached(c, packs) = {} /\ bootstrap_baseline(c, packs)
  <2>1. PICK k \in CallState :
          /\ Step(c, k) /\ k.at = "materialise"
          /\ k.calm => granted = "write" /\ Alone(c) /\ k.packs # {}
    <3>1. CASE ensure_mirror(c)
      <4>1. PICK k : k = [Idle EXCEPT !.at = "materialise", !.calm = FALSE] /\ Step(c, k)
        BY <3>1 DEF ensure_mirror
      <4>2. k \in CallState /\ k.at = "materialise" /\ k.calm = FALSE
        BY <4>1 DEF Idle, CallState, Stages, Unborn
      <4> QED BY <4>1, <4>2
    <3>2. CASE \E packs \in SUBSET Packs : Cached(c, packs) = {} /\ bootstrap_baseline(c, packs)
      <4>1. PICK packs \in SUBSET Packs : Cached(c, packs) = {} /\ bootstrap_baseline(c, packs)
        BY <3>2
      <4>2. PICK calm \in BOOLEAN : calm = (MayWrite /\ \A d \in Callers : ~ Bootstrapping(d))
        OBVIOUS
      <4>3. PICK k : /\ k = [Idle EXCEPT !.at = "materialise", !.packs = packs, !.calm = calm]
                     /\ Step(c, k)
        BY <4>1, <4>2 DEF bootstrap_baseline
      <4>4. k \in CallState /\ k.at = "materialise" /\ k.calm = calm /\ k.packs = packs /\ packs # {}
        BY <4>1, <4>3 DEF bootstrap_baseline, Idle, CallState, Stages, Unborn
      <4>5. calm => granted = "write" /\ Alone(c)
        BY <4>2 DEF MayWrite, Alone
      <4> QED BY <4>3, <4>4, <4>5
    <3> QED BY <1>3, <3>1, <3>2
  <2>4. Fit(k)' /\ (k.calm => Stage(k)')
    BY <2>1 DEF Fit, Stage
  <2>5. UNCHANGED returned
    BY <1>3 DEF ensure_mirror, bootstrap_baseline, outcomes
  <2> QED
    BY <1>1, <2>1, <2>4, <2>5, LocalStep DEF provider, IInv, TypeOK, RetryRecovers
<1> QED BY <1>2, <1>3

\* After a disturbance no call under way is calm.
LEMMA DisturbFacts ==
  ASSUME IInv, Grown, Disturb
  PROVE  call' \in [Callers -> CallState] /\ CallsFit' /\ CalmFits'
<1> DEFINE new(d) == [call[d] EXCEPT !.calm = @ /\ ~ Bootstrapping(d)]
<1>1. call' = [d \in Callers |-> new(d)]
  BY DEF Disturb
<1>2. ASSUME NEW d \in Callers
      PROVE  /\ new(d) \in CallState /\ new(d).at = call[d].at
             /\ new(d).revision = call[d].revision /\ new(d).applied = call[d].applied
             /\ Bootstrapping(d) => new(d).calm = FALSE
  <2>1. call[d] \in CallState
    BY DEF IInv, TypeOK
  <2>2. PICK calm \in BOOLEAN : calm = (call[d].calm /\ ~ Bootstrapping(d))
    OBVIOUS
  <2>3. new(d) = [call[d] EXCEPT !.calm = calm]
    BY <2>2
  <2> HIDE DEF new
  <2> QED BY <2>1, <2>2, <2>3 DEF CallState
<1> HIDE DEF new
<1>3. call' \in [Callers -> CallState]
  BY <1>1, <1>2
<1>4. Len(commits) \in Nat /\ Len(commits') \in Nat
  BY DEF IInv, TypeOK, Grown
<1>5. ASSUME NEW d \in Callers PROVE Fit(call[d])'
  <2>1. Fit(call[d])
    BY DEF IInv, CallsFit
  <2>2. /\ call'[d].at = call[d].at /\ call'[d].revision = call[d].revision
        /\ call[d].at # "idle" => call'[d].calm = FALSE
    BY <1>1, <1>2 DEF Bootstrapping
  <2> QED BY <1>4, <2>1, <2>2 DEF Fit, Carries, Grown
<1>6. ASSUME NEW d \in Callers PROVE ~ Calm(d)'
  BY <1>1, <1>2 DEF Calm, Bootstrapping
<1> QED BY <1>3, <1>5, <1>6 DEF CallsFit, CalmFits

LEMMA ForeignStep ==
  ASSUME IInv, NEW files \in SUBSET Packs, Push_foreign(files)
  PROVE  IInv' /\ history(remote) \subseteq history(remote)'
<1>0. PICK n : n = Len(commits) + 1
  OBVIOUS
<1>1. PICK x : x = [packs |-> {}, tree |-> files, alone |-> TRUE,
                    history |-> history(remote) \union {n}]
  OBVIOUS
<1>2. /\ commits' = Append(commits, x) /\ remote' = n /\ Disturb
      /\ UNCHANGED <<granted, mirror, cache, outcomes>>
  BY <1>0, <1>1 DEF Push_foreign, Commit_on, Next_revision
<1>3. TypeOK /\ Len(commits) \in Nat /\ remote \in Revisions
  BY DEF IInv, TypeOK
<1>4. history(remote) \subseteq Nat
  <2>1. remote # Unborn => remote \in 1 .. Len(commits)
    BY <1>3 DEF Revisions, Unborn
  <2>2. remote # Unborn => commits[remote] \in Commit
    BY <1>3, <2>1 DEF TypeOK
  <2> QED BY <2>2 DEF history, Commit
<1>5. x \in Commit
  BY <1>0, <1>1, <1>3, <1>4 DEF Commit
<1>6. Grown /\ Len(commits') = n /\ commits'[n] = x
  BY <1>0, <1>2, <1>3, <1>5, AppendGrows
<1>7. n \in Revisions' /\ n # Unborn
  BY <1>0, <1>3, <1>6 DEF Revisions, Unborn
<1>8. history(remote)' = history(remote) \union {n}
  <2>1. history(remote)' = commits'[n].history
    BY <1>2, <1>7 DEF history
  <2> QED BY <1>1, <1>6, <2>1
<1>9. mirror.origin \in Revisions' /\ mirror.head \in Revisions'
  BY <1>3, <1>6, GrownTrees DEF TypeOK
<1>10. call' \in [Callers -> CallState] /\ CallsFit' /\ CalmFits'
  BY <1>2, <1>6, DisturbFacts
<1>11. CommitsFit'
  <2>1. \A r \in 1 .. n : r = n \/ r \in 1 .. Len(commits)
    BY <1>0, <1>3
  <2>2. n \in x.history /\ (x.alone => x.packs \subseteq x.tree)
    BY <1>1
  <2> QED BY <1>6, <2>1, <2>2 DEF CommitsFit, IInv, Grown
<1>12. Reports'
  BY <1>2, <1>6, <1>8, ReportsKept DEF outcomes
<1> QED
  BY <1>2, <1>6, <1>7, <1>8, <1>9, <1>10, <1>11, <1>12
  DEF IInv, TypeOK, Grown, RetryRecovers, outcomes

LEMMA GrantStep == ASSUME IInv, NEW g, Grant(g) PROVE IInv'
<1>1. Disturb /\ UNCHANGED <<commits, remote, mirror, cache, outcomes>>
  BY DEF Grant
<1>2. Grown
  BY <1>1, SameIsGrown DEF IInv
<1>3. call' \in [Callers -> CallState] /\ CallsFit' /\ CalmFits'
  BY <1>1, <1>2, DisturbFacts
<1>4. Reports'
  BY <1>1, <1>2, SameHistory, ReportsKept DEF outcomes
<1> QED
  BY <1>1, <1>3, <1>4 DEF IInv, TypeOK, CommitsFit, RetryRecovers, outcomes, Revisions

LEMMA KillStep == ASSUME IInv, NEW c \in Callers, Kill(c) PROVE IInv'
<1> DEFINE dead == IF c \in ApiCallers THEN ApiCallers ELSE {c}
<1>1. /\ call[c].at # "idle" /\ UNCHANGED <<provider, outcomes>>
      /\ call' = [d \in Callers |-> IF d \in dead THEN Idle ELSE call[d]]
      /\ cache' \subseteq cache
      /\ mirror' = mirror \/ mirror' = [NoMirror EXCEPT !.exists = TRUE]
  BY DEF Kill
<1>2. c \in dead
  OBVIOUS
<1>3. mirror' \in MirrorState /\ mirror'.origin \in Revisions /\ mirror'.head \in Revisions
  <2>1. CASE mirror' = mirror
    BY <2>1 DEF IInv, TypeOK
  <2>2. CASE mirror' = [NoMirror EXCEPT !.exists = TRUE]
    <3>1. mirror' = [exists |-> TRUE, origin |-> 0, head |-> 0, index |-> {}, files |-> {}]
      BY <2>2 DEF NoMirror, Unborn
    <3>2. 0 \in Revisions
      BY DEF IInv, TypeOK, Revisions
    <3> QED BY <3>1, <3>2 DEF MirrorState
  <2> QED BY <1>1, <2>1, <2>2
<1> HIDE DEF dead
<1>4. \A d \in Callers : call'[d] = Idle \/ (d # c /\ call'[d] = call[d])
  BY <1>1, <1>2
<1>5. call' \in [Callers -> CallState]
  BY <1>1, IdleType DEF IInv, TypeOK
<1>6. ASSUME NEW d \in Callers PROVE Fit(call[d])'
  <2>1. CASE call'[d] = Idle
    BY <2>1, IdleType DEF Fit
  <2>2. CASE call'[d] = call[d]
    BY <1>1, <2>2, Knows DEF Fit, Carries, provider
  <2> QED BY <1>4, <2>1, <2>2
<1>7. ASSUME NEW d \in Callers PROVE ~ Calm(d)'
  <2> SUFFICES ASSUME Calm(d)' PROVE FALSE
    OBVIOUS
  <2>1. d # c /\ call'[d] = call[d]
    BY <1>4, IdleType DEF Calm, Bootstrapping
  <2>2. Alone(d)
    BY <2>1, Knows DEF Calm, Bootstrapping
  <2> QED BY <1>1, <2>1, <2>2 DEF Alone, Bootstrapping
<1>8. Grown
  BY <1>1, SameIsGrown DEF IInv, provider
<1>9. Reports'
  BY <1>1, <1>8, SameHistory, ReportsKept DEF provider, outcomes
<1> QED
  BY <1>1, <1>3, <1>5, <1>6, <1>7, <1>9
  DEF IInv, TypeOK, CommitsFit, CallsFit, CalmFits, RetryRecovers, provider, outcomes, Revisions

(***************************************************************************)
(* Theorems                                                                *)
(***************************************************************************)

LEMMA InitInv == ASSUME Provisioning_init PROVE IInv
<1>1. commits \in Seq(Commit) /\ CommitsFit
  <2>1. CASE commits = <<>>
    BY <2>1 DEF CommitsFit
  <2>2. CASE \E files \in SUBSET Packs :
                commits = <<[packs |-> {}, tree |-> files, alone |-> TRUE, history |-> {1}]>>
    <3>0. PICK files \in SUBSET Packs : \E x :
             x = [packs |-> {}, tree |-> files, alone |-> TRUE, history |-> {1}] /\ commits = <<x>>
      BY <2>2
    <3>a. PICK x : x = [packs |-> {}, tree |-> files, alone |-> TRUE, history |-> {1}] /\ commits = <<x>>
      BY <3>0
    <3>1. x \in Commit /\ commits = <<x>> /\ x.history = {1} /\ x.packs = {}
      BY <3>a DEF Commit
    <3>2. Len(commits) = 1 /\ commits[1] = x /\ commits \in Seq(Commit)
      BY <3>1
    <3> QED BY <3>1, <3>2 DEF CommitsFit
  <2> QED BY <2>1, <2>2 DEF Provisioning_init
<1>2. Len(commits) \in Revisions /\ 0 \in Revisions
  BY <1>1 DEF Revisions
<1>3. NoMirror \in MirrorState /\ NoMirror.origin = 0 /\ NoMirror.head = 0
  BY DEF NoMirror, MirrorState, Unborn
<1>4. TypeOK
  BY <1>1, <1>2, <1>3, IdleType DEF Provisioning_init, TypeOK
<1>5. \A c \in Callers : call[c] = Idle
  BY DEF Provisioning_init
<1> QED
  BY <1>1, <1>4, <1>5, IdleType
  DEF IInv, Provisioning_init, CallsFit, CalmFits, Fit, Calm, Bootstrapping, Reports, RetryRecovers

LEMMA StutterStep == ASSUME IInv, UNCHANGED provisioningVars PROVE IInv'
<1>1. UNCHANGED <<provider, mirror, call, cache, outcomes>>
  BY DEF provisioningVars
<1> QED
  BY <1>1
  DEF provider, outcomes, IInv, TypeOK, CommitsFit, CallsFit, CalmFits, Reports, RetryRecovers,
      Revisions, Fit, Carries, Calm, Alone, Stage, Aligned, Bootstrapping, tree, history

LEMMA StepInv == ASSUME IInv, [Provisioning_next]_provisioningVars PROVE IInv'
BY BootstrapStep, StartStep, ForeignStep, GrantStep, KillStep, StutterStep
DEF Provisioning_next, bootstrap_product, run_product_bootstrap_command

\* Mirror, calls, commits and reports stay in step, for any callers and bounds.
THEOREM Invariance == ProvisioningSpec => []IInv
<1>1. Provisioning_init => IInv
  BY InitInv
<1>2. IInv /\ [Provisioning_next]_provisioningVars => IInv'
  BY StepInv
<1> QED BY <1>1, <1>2, PTL DEF ProvisioningSpec

\* Every reported revision is on the provider's branch, and carries the packs it is reported
\* with unless two bootstraps overlapped when it was made or reported.
THEOREM ReportsAreTrue == ProvisioningSpec => []ReportIsTrue
<1>1. IInv => ReportIsTrue
  <2> SUFFICES ASSUME IInv, NEW b \in returned
               PROVE  /\ b.revision \in history(remote)
                      /\ b.calm /\ commits[b.revision].alone =>
                           /\ b.applied \subseteq tree(b.revision)
                           /\ b.revision = remote /\ Baseline \in b.applied /\ MayRead =>
                                validate = "baseline_current"
    BY DEF ReportIsTrue, BaselineIsOnProvider, EvidenceIsTrue
  <2>1. b.revision \in 1 .. Len(commits) /\ b.revision \in history(remote) /\ Carries(b)
    BY DEF IInv, Reports
  <2>2. tree(b.revision) = commits[b.revision].tree
    BY <2>1 DEF tree, Unborn
  <2>3. ASSUME b.revision = remote, Baseline \in tree(remote), MayRead
        PROVE  validate = "baseline_current"
    <3>1. remote # Unborn
      BY <2>1, <2>3 DEF Unborn
    <3>2. ~ (~ MayRead) /\ ~ (MayRead /\ remote = Unborn)
      BY <2>3, <3>1
    <3> QED BY <2>3, <3>2, Zenon DEF validate
  <2> QED BY <2>1, <2>2, <2>3 DEF Carries
<1> QED BY <1>1, Invariance, PTL

\* A bootstrap nothing disturbs fails only when there is nothing to land, whatever killed and
\* refused calls left in the mirror.
THEOREM RetriesRecover == ProvisioningSpec => []RetryRecovers
<1>1. IInv => RetryRecovers
  BY DEF IInv
<1> QED BY <1>1, Invariance, PTL

\* bootstrap_baseline: an undisturbed call commits only a tree the provider's branch has not,
\* and one that commits nothing names the provider's head, for any number of earlier calls that
\* were killed or refused and any pushes by others.
THEOREM RepeatsAreNoOps == ProvisioningSpec => []RepeatIsNoOp
<1>1. ASSUME IInv, NEW c \in Callers, Bootstrapping(c), call[c].calm
      PROVE  /\ call[c].at = "commit" => mirror.index # tree(remote)
             /\ call[c].at = "recorded" => remote \in {Unborn, call[c].revision}
  <2>1. Stage(call[c])
    BY <1>1 DEF IInv, CalmFits, Calm
  <2>2. CASE call[c].at = "commit" /\ remote # Unborn
    BY <2>1, <2>2 DEF Stage, Aligned
  <2>3. CASE call[c].at = "commit" /\ remote = Unborn
    BY <2>1, <2>3 DEF Stage, tree, Unborn
  <2>4. CASE call[c].at = "recorded"
    BY <2>1, <2>4 DEF Stage
  <2> QED BY <2>2, <2>3, <2>4
<1>2. IInv => RepeatIsNoOp
  BY <1>1 DEF RepeatIsNoOp
<1> QED BY <1>2, Invariance, PTL
============================================================================
