------------------------- MODULE BudgetCoordinator -------------------------
(***************************************************************************)
(* The shared budget of a run: every agent call is reserved with an        *)
(* estimate before it runs and settled with what it really spent.  The     *)
(* roles of the run make their calls side by side; a caller may fail and   *)
(* repeat a step with the same key, settle late, twice, or without knowing *)
(* what was spent.                                                         *)
(***************************************************************************)
EXTENDS Integers, FiniteSets, FiniteSetsExt, Functions

CONSTANTS
    Roles,        \* roles that call agents
    Keys,         \* logical operations of a role
    RunLimits,    \* run_limits: [tokens, cost, deadline], Unset where not set
    Allowance,    \* role -> limits of its allowance, or Unset
    Usages,       \* what a call may be estimated at or report
    Unset,         \* not set, not reported
    MaxNow        \* bound of the clock

LimitSet == [tokens : (Nat \ {0}) \cup {Unset}, cost : Nat \cup {Unset},
             deadline : Nat \cup {Unset}]

\* Usage: `total` is Unset when the provider did not report it, `parts` is
\* prompt_tokens + completion_tokens.
UsageSet == [total : Nat \cup {Unset}, parts : Nat, cost : Nat \cup {Unset}]

ReservationSet == [estimated : UsageSet, settled : BOOLEAN]

ASSUME BudgetAssumption ==
    /\ IsFiniteSet(Roles) /\ Roles # {} /\ IsFiniteSet(Keys) /\ MaxNow \in Nat
    /\ RunLimits \in LimitSet
    /\ Allowance \in [Roles -> LimitSet \cup {Unset}]
    /\ Usages \subseteq UsageSet /\ IsFiniteSet(Usages) /\ Usages # {}
    /\ Unset \notin Nat \cup LimitSet \cup UsageSet \cup ReservationSet

VARIABLES
    ledger,        \* role -> [usage, calls]
    reservations,  \* <<role, key>> -> [estimated, settled] or Unset
    now,
    charged,       \* history: <<role, key>> -> what its call was settled with
    honest         \* history: no call spent more than its estimate

budgetVars == <<ledger, reservations, now, charged, honest>>

Calls == Roles \X Keys

(***************************************************************************)
(* Usage and limits                                                        *)
(***************************************************************************)

_zero_usage == [total |-> 0, parts |-> 0, cost |-> Unset]

_tokens(u) == IF u.total # Unset THEN u.total ELSE u.parts

_cost(u) == IF u.cost # Unset THEN u.cost ELSE 0

_add_cost(a, b) == IF a = Unset THEN b ELSE IF b = Unset THEN a ELSE a + b

_add_usage(u, v) ==
    [total |-> _tokens(u) + _tokens(v), parts |-> u.parts + v.parts,
     cost |-> _add_cost(u.cost, v.cost)]

\* The usages of a function added up; a cost only where one was reported.
SumUsage(u) ==
    LET reported == {x \in DOMAIN u : u[x].cost # Unset} IN
    [total |-> SumFunction([x \in DOMAIN u |-> _tokens(u[x])]),
     parts |-> SumFunction([x \in DOMAIN u |-> u[x].parts]),
     cost  |-> IF reported = {} THEN Unset
               ELSE SumFunction([x \in reported |-> u[x].cost])]

_tighter(a, b) == IF a = Unset THEN b ELSE IF b = Unset THEN a ELSE IF a < b THEN a ELSE b

\* BudgetPolicy.limits_for: an allowance can only tighten.
limits_for(role) ==
    LET a == Allowance[role] IN
    IF a = Unset THEN RunLimits
    ELSE [tokens   |-> _tighter(RunLimits.tokens, a.tokens),
          cost     |-> _tighter(RunLimits.cost, a.cost),
          deadline |-> _tighter(RunLimits.deadline, a.deadline)]

configured(l) == l.tokens # Unset \/ l.cost # Unset \/ l.deadline # Unset

token_budget_exhausted(l, u) == l.tokens # Unset /\ _tokens(u) >= l.tokens

cost_budget_exhausted(l, u) == l.cost # Unset /\ _cost(u) >= l.cost

\* continuation_violations: the rules that stop autonomous work.
continuation_violations(l, u) ==
    {r \in {"token_budget", "cost_budget", "deadline"} :
        \/ r = "token_budget" /\ token_budget_exhausted(l, u)
        \/ r = "cost_budget" /\ cost_budget_exhausted(l, u)
        \/ r = "deadline" /\ l.deadline # Unset /\ now > l.deadline}

(***************************************************************************)
(* The ledger                                                              *)
(***************************************************************************)

Issued(S) == {c \in S : reservations[c] # Unset}
Unsettled(S) == {c \in Issued(S) : ~reservations[c].settled}
Of(role) == {c \in Calls : c[1] = role}

\* Mutant: a role is known by its spend only.
_known_roles_spent == {r \in Roles : ledger[r].calls > 0}

_known_roles ==
    {r \in Roles : ledger[r].calls > 0 \/ Issued(Of(r)) # {} \/ Allowance[r] # Unset}

_settled_usage(role) == ledger[role].usage

_settled_run == SumUsage([r \in _known_roles |-> ledger[r].usage])

_reserved_usage(S) == SumUsage([c \in Unsettled(S) |-> reservations[c].estimated])

\* Mutant: open reservations are not counted.
_effective_run_settled == _settled_run

\* Settled plus reserved, of one role and of the run.
_effective_usage(role) == _add_usage(_settled_usage(role), _reserved_usage(Of(role)))
_effective_run == _add_usage(_settled_run, _reserved_usage(Calls))

_run_scope == continuation_violations(RunLimits, _effective_run)

_role_scope(role) == continuation_violations(limits_for(role), _effective_usage(role))

\* BudgetCoordinator.check: the triggered limits with their scope.
check(role) ==
    {<<"run", v>> : v \in _run_scope} \cup {<<"role", v>> : v \in _role_scope(role)}

\* budget_stop_reason: what an attempt of the role is blocked for.
budget_stop_reason(role) == check(role) # {}

\* _aggregate_state: what the run record and the console show.
_aggregate_state ==
    IF _run_scope # {} \/ \E r \in _known_roles : _role_scope(r) # {}
    THEN "awaiting_decision" ELSE "within_limits"

(***************************************************************************)
(* Operations                                                              *)
(***************************************************************************)

BudgetInit ==
    /\ ledger = [r \in Roles |-> [usage |-> _zero_usage, calls |-> 0]]
    /\ reservations = [c \in Calls |-> Unset]
    /\ now = 0
    /\ charged = [c \in Calls |-> Unset]
    /\ honest = TRUE

\* reserve's three refusals.
Granted(role, e) ==
    /\ ~budget_stop_reason(role)
    /\ Unsettled(Of(role)) = {}
    /\ e.total = Unset => ~configured(limits_for(role))

\* A known key returns the reservation there is; a new one is recorded when it
\* is granted.  Refusals and replays change nothing.
reserve(role, key, e) ==
    /\ reservations[<<role, key>>] = Unset
    /\ Granted(role, e)
    /\ reservations' = [reservations EXCEPT ![<<role, key>>] =
                            [estimated |-> e, settled |-> FALSE]]
    /\ UNCHANGED <<ledger, now, charged, honest>>

\* Mutant: a settled reservation is settled again.
MaySettle_again(c, u) == reservations[c] # Unset /\ u # Unset /\ u.total # Unset

\* An unknown usage keeps the reservation open; a settled one stays as it is.
MaySettle(c, u) ==
    reservations[c] # Unset /\ ~reservations[c].settled /\ u # Unset /\ u.total # Unset

settle(c, u) ==
    /\ MaySettle(c, u)
    /\ ledger' = [ledger EXCEPT ![c[1]] =
                      [usage |-> _add_usage(@.usage, u), calls |-> @.calls + 1]]
    /\ reservations' = [reservations EXCEPT ![c].settled = TRUE]
    /\ charged' = [charged EXCEPT ![c] = IF @ = Unset THEN u ELSE @]
    /\ honest' = (honest /\ u.total <= _tokens(reservations[c].estimated))
    /\ UNCHANGED now

Tick ==
    /\ now < MaxNow
    /\ now' = now + 1
    /\ UNCHANGED <<ledger, reservations, charged, honest>>

BudgetNext ==
    \/ \E r \in Roles, k \in Keys, e \in Usages : reserve(r, k, e)
    \/ \E c \in Calls, u \in Usages \cup {Unset} : settle(c, u)
    \/ Tick

BudgetSpec == BudgetInit /\ [][BudgetNext]_budgetVars

(***************************************************************************)
(* Properties                                                              *)
(***************************************************************************)

MaxTokens == Max({_tokens(u) : u \in Usages})

Charged(S) == {c \in S : charged[c] # Unset}

\* What the calls of S were charged, and what the open ones were estimated at.
Committed(S) ==
    SumFunction([c \in Charged(S) |-> _tokens(charged[c])])
    + SumFunction([c \in Unsettled(S) |-> _tokens(reservations[c].estimated)])

\* The roles of a run at its limit: what the run has spent and committed passes
\* the token limit by less than one call per role, even when every call spends
\* more than its estimate; with true estimates by less than one call in all.
RunOvershootIsBounded ==
    RunLimits.tokens # Unset =>
        /\ Committed(Calls) < RunLimits.tokens + Cardinality(Roles) * MaxTokens
        /\ honest => Committed(Calls) < RunLimits.tokens + MaxTokens

\* The same for one role and its effective limit (run limit or allowance).
RoleOvershootIsBounded ==
    \A r \in Roles : limits_for(r).tokens # Unset =>
        Committed(Of(r)) < limits_for(r).tokens + MaxTokens

\* reserve at the limit: neither the run nor a role passes its limit by more than the
\* calls that may be in flight, one per role.
OvershootIsBounded == RunOvershootIsBounded /\ RoleOvershootIsBounded

\* The ledger of a role is the sum of what its settled calls were charged, each
\* once, after any mix of late, repeated and unknown settlements.
CountedOnce ==
    \A r \in Roles :
        LET sum == SumUsage([c \in Charged(Of(r)) |-> charged[c]]) IN
        /\ ledger[r].calls = Cardinality(Charged(Of(r)))
        /\ ledger[r].usage.total = _tokens(sum)
        /\ _cost(ledger[r].usage) = _cost(sum)

\* The state the run record and the console show is the one that stops calls: it
\* awaits a decision exactly when the next attempt of some role is blocked.
AggregateAgrees ==
    _aggregate_state = "awaiting_decision" <=> \E r \in Roles : budget_stop_reason(r)
=============================================================================
