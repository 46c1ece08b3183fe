------------------------------ MODULE Scheduler ------------------------------
(***************************************************************************)
(* The gateway's account pool: which account Pick hands out, and how the   *)
(* results of upstream calls, the reaper and operators change an account's *)
(* health.  Every method holds Scheduler.mu, so each is one step.          *)
(*                                                                         *)
(* Clock readings matter only against CooldownUntil, so an account carries *)
(* the time LEFT until then: Unset for "", 0 once it has passed.  One tick *)
(* stands for an arbitrary stretch of time; the order of two expiries that *)
(* fall into the same tick is left open.                                   *)
(***************************************************************************)
EXTENDS Integers, Sequences, FiniteSets

CONSTANTS
    Accounts,         \* ids of upstream accounts
    Provider,         \* account -> provider
    Priority,         \* account -> tier; lower is tried first
    Index,            \* account -> place in Scheduler.accounts
    Models,
    RouteTables,      \* routing tables an operator installs
    TimeoutPauseThreshold, ForbiddenPauseThreshold, RateLimitPauseThreshold,
    TimeoutCooldown, ForbiddenCooldown,
    RateLimitCooldowns  \* what CooldownDurationForError may return for a 429

\* A route: [models : SUBSET Models, provider, priority, enabled].
ASSUME SchedulerAssumption ==
    /\ IsFiniteSet(Accounts)
    /\ Priority \in [Accounts -> Int]
    /\ Index \in [Accounts -> Nat]
    /\ \A a, b \in Accounts : a # b => Index[a] # Index[b]
    /\ \A table \in RouteTables : \A route \in table :
          route.models \subseteq Models /\ route.priority \in Int
    /\ TimeoutPauseThreshold \in Nat \ {0}
    /\ ForbiddenPauseThreshold \in Nat \ {0}
    /\ RateLimitPauseThreshold \in Nat \ {0}
    /\ TimeoutCooldown \in Nat \ {0} /\ ForbiddenCooldown \in Nat \ {0}
    /\ RateLimitCooldowns \subseteq Nat \ {0}

VARIABLES pool,    \* Scheduler.accounts: account -> Health
          routes   \* Scheduler.routes

Unset == -1        \* CooldownUntil = ""

Classes == {"timeout", "403", "429", "other"}

Health == [listed : BOOLEAN,        \* the account is in the list
           healthy : BOOLEAN, left : Nat \cup {Unset},
           timeouts : Nat, c403 : Nat, c429 : Nat]

Fresh == [listed |-> TRUE, healthy |-> TRUE, left |-> Unset,
          timeouts |-> 0, c403 |-> 0, c429 |-> 0]
Gone  == [Fresh EXCEPT !.listed = FALSE]

-----------------------------------------------------------------------------
\* Which account may serve a model

\* ProvidersForModel: the providers of the best-priority routes that match.
MatchingRoutes(m) == {route \in routes : route.enabled /\ m \in route.models}

ProvidersForModel(m) ==
    {route.provider : route \in
        {x \in MatchingRoutes(m) : \A y \in MatchingRoutes(m) : x.priority <= y.priority}}

AccountEligibleForModel(a, m) ==
    \/ MatchingRoutes(m) = {}
    \/ Provider[a] \in ProvidersForModel(m) \cup {"mock"}

accountSchedulable(h) == h.healthy /\ h.left \in {Unset, 0}

Eligible(m) == {a \in Accounts : pool[a].listed /\ AccountEligibleForModel(a, m)}
Live(m)     == {a \in Eligible(m) : accountSchedulable(pool[a])}
Cooling(m)  == {a \in Eligible(m) \ Live(m) :
                    pool[a].healthy \/ pool[a].left # Unset}

\* Tier by tier, and inside a tier in list order.
Before(a, b) == \/ Priority[a] < Priority[b]
                \/ Priority[a] = Priority[b] /\ Index[a] < Index[b]

Place(a, m) == Cardinality({b \in Live(m) : Before(b, a)})

\* cooldownExpiry(a).Before(cooldownExpiry(b)); a missing one is far away.
Sooner(a, b) == /\ pool[a].left # Unset
                /\ pool[b].left = Unset \/ pool[a].left < pool[b].left

PickOneTierPerAttempt(attempt, m) ==
    LET tiers == {Priority[a] : a \in Live(m)}
    IN  {a \in Live(m) :
            /\ Cardinality({p \in tiers : p < Priority[a]}) = attempt
            /\ \A b \in Live(m) : Priority[b] = Priority[a] => Index[a] <= Index[b]}

\* What Pick may return for an attempt; {} stands for (_, false).  Accounts
\* that cool until the same tick may come in either order.
Pick(attempt, m) ==
    IF Live(m) # {} THEN {a \in Live(m) : Place(a, m) = attempt}
    ELSE {a \in Cooling(m) :
             /\ Cardinality({b \in Cooling(m) : Sooner(b, a)}) <= attempt
             /\ attempt < Cardinality({b \in Cooling(m) : ~ Sooner(a, b)})}

-----------------------------------------------------------------------------
\* Health of one account

\* NoteUpstreamResult(a, nil): Healthy stays as it is.
Succeeded(h) ==
    IF h.listed THEN [h EXCEPT !.left = Unset, !.timeouts = 0, !.c403 = 0, !.c429 = 0]
                ELSE h

Counted(h, class) ==
    CASE class = "timeout" -> [h EXCEPT !.timeouts = @ + 1]
      [] class = "403"     -> [h EXCEPT !.c403 = @ + 1]
      [] class = "429"     -> [h EXCEPT !.c429 = @ + 1]
      [] OTHER             -> h

Pauses(h, class) ==
    \/ class = "timeout" /\ h.timeouts >= TimeoutPauseThreshold
    \/ class = "403" /\ h.c403 >= ForbiddenPauseThreshold
    \/ class = "429" /\ h.c429 >= RateLimitPauseThreshold

\* NoteUpstreamResult(a, err).  A 429 always sets CooldownUntil (cd); a pause
\* sets it only when it is empty.
Failed(h, class, cd) ==
    LET n     == Counted(h, class)
        left  == IF class = "429" THEN cd ELSE h.left
        pause == IF class = "timeout" THEN TimeoutCooldown ELSE ForbiddenCooldown
    IN  IF ~ h.listed THEN h
        ELSE IF ~ Pauses(n, class) THEN [n EXCEPT !.left = left]
        ELSE [n EXCEPT !.healthy = FALSE,
                       !.left = IF left = Unset THEN pause ELSE left]

ReapableIfHealthy(h) == h.listed /\ h.healthy /\ h.left = 0
Reapable(h) == h.listed /\ ~ h.healthy /\ h.left = 0

ReapedKeepingCounters(h) ==
    IF Reapable(h) THEN [h EXCEPT !.healthy = TRUE, !.left = Unset] ELSE h

Reaped(h) == IF Reapable(h) THEN Fresh ELSE h

-----------------------------------------------------------------------------
\* Steps of the pool

ReapCooldowns ==
    /\ \E a \in Accounts : Reapable(pool[a])
    /\ pool' = [a \in Accounts |-> Reaped(pool[a])]
    /\ UNCHANGED routes

Tick ==
    /\ \E a \in Accounts : pool[a].left > 0
    /\ pool' = [a \in Accounts |->
                  [pool[a] EXCEPT !.left = IF @ > 0 THEN @ - 1 ELSE @]]
    /\ UNCHANGED routes

\* Called with TRUE only, once an operator has authorised the account again.
SetAccountHealth(a) ==
    /\ pool[a].listed
    /\ pool' = [pool EXCEPT ![a] = [@ EXCEPT !.healthy = TRUE, !.left = Unset]]
    /\ UNCHANGED routes

SetModelRoutes(table) ==
    /\ table # routes
    /\ routes' = table
    /\ UNCHANGED pool

PoolTypeOK ==
    /\ pool \in [Accounts -> Health]
    /\ routes \in RouteTables
=============================================================================
