-------------------------------- MODULE Relay --------------------------------
(***************************************************************************)
(* The failover walk of Relay and RelayStream, for several requests at the *)
(* same time, over one account pool that their results, the reaper, time   *)
(* and operators change.                                                   *)
(*                                                                         *)
(* Between Pick and NoteUpstreamResult the walk holds no lock: the upstream *)
(* call takes any time, and every other step may come between.  The two    *)
(* functions differ in what they write to the client; the walk is the same.*)
(***************************************************************************)
EXTENDS Scheduler

CONSTANTS
    Requests,
    NoAccount,     \* acct of a walk that has not picked yet
    Chains,        \* what ModelAttemptChain may return: sequences of models
    MaxAttempts,
    Failures,      \* errors of an upstream call: [class, retryable]
    Operable,      \* bound: accounts that operators act on
    Reloads        \* health of an account after a reload from the store

ASSUME RelayAssumption ==
    /\ NoAccount \notin Accounts
    /\ Chains \subseteq Seq(Models) \ {<<>>}
    /\ MaxAttempts \in Nat \ {0}
    /\ Failures \subseteq [class : Classes, retryable : BOOLEAN]
    /\ Operable \subseteq Accounts
    /\ Reloads \subseteq Health

VARIABLES
    walk,      \* each request's local variables in Relay
    called,    \* history: {<<mi, account>>} called for the request so far
    calls,     \* totalAttempts
    sent,      \* history: output of a call has reached the client
    steady,    \* history: the live pool of the model the request is at has not
               \* changed since the walk came to this model
    operated   \* history: accounts an operator or a reload has touched

vars == <<pool, routes, walk, called, calls, sent, steady, operated>>

Ended == {"served", "broken", "failed"}

Walks == [pc : {"idle", "picking", "calling"} \cup Ended,
          chain : Chains, mi : Nat \ {0}, attempt : 0 .. MaxAttempts - 1,
          acct : Accounts \cup {NoAccount},
          lastErr : {"none", "retryable", "final"}]

ModelOf(w) == w.chain[w.mi]
Active(w)  == w.pc \in {"picking", "calling"}

Init ==
    /\ pool = [a \in Accounts |-> Fresh]
    /\ routes \in RouteTables
    /\ walk \in [Requests ->
          {[pc |-> "idle", chain |-> c, mi |-> 1, attempt |-> 0,
            acct |-> NoAccount, lastErr |-> "none"] : c \in Chains}]
    /\ called = [r \in Requests |-> {}]
    /\ calls = [r \in Requests |-> 0]
    /\ sent = [r \in Requests |-> FALSE]
    /\ steady = [r \in Requests |-> TRUE]
    /\ operated = {}

-----------------------------------------------------------------------------
ContinueOneMore(w) ==
    IF w.attempt < MaxAttempts
    THEN [w EXCEPT !.pc = "picking", !.attempt = @ + 1]
    ELSE [w EXCEPT !.pc = "failed"]

ContinueKeepingAttempt(w) ==
    IF w.attempt + 1 < MaxAttempts
    THEN [w EXCEPT !.pc = "picking", !.attempt = @ + 1]
    ELSE IF w.mi < Len(w.chain) /\ w.lastErr = "retryable"
    THEN [w EXCEPT !.pc = "picking", !.mi = @ + 1]
    ELSE [w EXCEPT !.pc = "failed"]

\* The end of a loop body that did not return: the next attempt, the next
\* model when the last error was retryable, or the end.
Continue(w) ==
    IF w.attempt + 1 < MaxAttempts
    THEN [w EXCEPT !.pc = "picking", !.attempt = @ + 1]
    ELSE IF w.mi < Len(w.chain) /\ w.lastErr = "retryable"
    THEN [w EXCEPT !.pc = "picking", !.attempt = 0, !.mi = @ + 1]
    ELSE [w EXCEPT !.pc = "failed"]

\* History: every step sees whether it moved a live pool.
Watch ==
    steady' = [r \in Requests |->
        IF walk'[r].mi # walk[r].mi \/ ~ Active(walk[r]) THEN TRUE
        ELSE steady[r] /\ Live(ModelOf(walk[r]))' = Live(ModelOf(walk[r]))]

\* A request was admitted and enters the walk.
Start(r) ==
    /\ walk[r].pc = "idle"
    /\ walk' = [walk EXCEPT ![r].pc = "picking"]
    /\ UNCHANGED <<pool, routes, called, calls, sent, operated>>
    /\ Watch

PickedNone(r) ==
    /\ Pick(walk[r].attempt, ModelOf(walk[r])) = {}
    /\ walk' = [walk EXCEPT ![r] = Continue(@)]
    /\ UNCHANGED <<called, calls>>

Picked(r, a) ==
    /\ walk' = [walk EXCEPT ![r] = [@ EXCEPT !.pc = "calling", !.acct = a]]
    /\ called' = [called EXCEPT ![r] = @ \cup {<<walk[r].mi, a>>}]
    /\ calls' = [calls EXCEPT ![r] = @ + 1]

PickAccountOrSpin(r) ==
    /\ walk[r].pc = "picking"
    /\ \E a \in Pick(walk[r].attempt, ModelOf(walk[r])) : Picked(r, a)
    /\ UNCHANGED <<pool, routes, sent, operated>>
    /\ Watch

PickAccount(r) ==
    /\ walk[r].pc = "picking"
    /\ \/ PickedNone(r)
       \/ \E a \in Pick(walk[r].attempt, ModelOf(walk[r])) : Picked(r, a)
    /\ UNCHANGED <<pool, routes, sent, operated>>
    /\ Watch

\* NoteUpstreamResult for the account of the call, with the error f.
NoteFailure(r, f) ==
    \E cd \in RateLimitCooldowns :
        /\ f.class # "429" => \A other \in RateLimitCooldowns : cd <= other
        /\ pool' = [pool EXCEPT ![walk[r].acct] = Failed(@, f.class, cd)]

CallSucceeds(r) ==
    /\ walk[r].pc = "calling"
    /\ pool' = [pool EXCEPT ![walk[r].acct] = Succeeded(@)]
    /\ walk' = [walk EXCEPT ![r].pc = "served"]
    /\ sent' = [sent EXCEPT ![r] = TRUE]
    /\ UNCHANGED <<routes, called, calls, operated>>
    /\ Watch

AfterError(w, f) ==
    Continue([w EXCEPT !.lastErr = IF f.retryable THEN "retryable" ELSE "final"])

\* The call fails and nothing was sent to the client.
CallFails(r) ==
    /\ walk[r].pc = "calling"
    /\ \E f \in Failures :
          /\ NoteFailure(r, f)
          /\ walk' = [walk EXCEPT ![r] = AfterError(@, f)]
    /\ UNCHANGED <<routes, called, calls, sent, operated>>
    /\ Watch

ReplayBroken(r) ==
    /\ walk[r].pc = "calling"
    /\ \E f \in Failures :
          /\ NoteFailure(r, f)
          /\ walk' = [walk EXCEPT ![r] =
                IF AfterError(@, f).pc = "failed" THEN [@ EXCEPT !.pc = "broken"]
                                                  ELSE AfterError(@, f)]
    /\ sent' = [sent EXCEPT ![r] = TRUE]
    /\ UNCHANGED <<routes, called, calls, operated>>
    /\ Watch

\* FirstByteSent: the walk ends with the error.
CallBreaks(r) ==
    /\ walk[r].pc = "calling"
    /\ \E f \in Failures : NoteFailure(r, f)
    /\ walk' = [walk EXCEPT ![r].pc = "broken"]
    /\ sent' = [sent EXCEPT ![r] = TRUE]
    /\ UNCHANGED <<routes, called, calls, operated>>
    /\ Watch

-----------------------------------------------------------------------------
\* The rest of the process

Untouched == UNCHANGED <<walk, called, calls, sent>> /\ Watch

Reap == ReapCooldowns /\ UNCHANGED operated /\ Untouched

Clock == Tick /\ UNCHANGED operated /\ Untouched

Authorise(a) ==
    /\ pool[a].healthy = FALSE \/ pool[a].left # Unset
    /\ SetAccountHealth(a)
    /\ operated' = operated \cup {a}
    /\ Untouched

\* ReplaceAccounts with the store's rows.  A reload that changes several
\* accounts is several of these steps.
ReplaceAccounts(a) ==
    /\ \E h \in Reloads : h # pool[a] /\ pool' = [pool EXCEPT ![a] = h]
    /\ operated' = operated \cup {a}
    /\ UNCHANGED routes
    /\ Untouched

Reroute == (\E table \in RouteTables : SetModelRoutes(table))
           /\ UNCHANGED operated /\ Untouched

Next ==
    \/ \E r \in Requests :
          \/ Start(r) \/ PickAccount(r)
          \/ CallSucceeds(r) \/ CallFails(r) \/ CallBreaks(r)
    \/ Reap \/ Clock \/ Reroute
    \/ \E a \in Operable : Authorise(a) \/ ReplaceAccounts(a)

Spec == Init /\ [][Next]_vars

\* A goroutine goes on to its next statement, an upstream client has a
\* timeout, the reaper's ticker fires and time passes.  Nobody has to send
\* requests or to operate the pool.
Fairness ==
    /\ \A r \in Requests :
          /\ WF_vars(PickAccount(r))
          /\ WF_vars(CallSucceeds(r) \/ CallFails(r) \/ CallBreaks(r))
    /\ WF_vars(Reap) /\ WF_vars(Clock)

FairSpec == Spec /\ Fairness

-----------------------------------------------------------------------------
\* Safety

\* Attempts stay below MaxAttempts and models inside the chain; a call has an
\* account.
TypeOK ==
    /\ PoolTypeOK
    /\ walk \in [Requests -> Walks]
    /\ \A r \in Requests : /\ walk[r].mi <= Len(walk[r].chain)
                           /\ walk[r].pc = "calling" => walk[r].acct # NoAccount
    /\ called \in [Requests -> SUBSET (Nat \X Accounts)]
    /\ calls \in [Requests -> Nat]
    /\ sent \in [Requests -> BOOLEAN]
    /\ steady \in [Requests -> BOOLEAN]
    /\ operated \in SUBSET Accounts

CalledFor(r) == {a \in Accounts : <<walk[r].mi, a>> \in called[r]}

\* How many loop bodies of the current model have picked.
Picks(w) == IF w.pc = "picking" THEN w.attempt ELSE w.attempt + 1

\* Sideways first, then down: as long as the live pool of a model does not
\* change under a walk, whatever other requests and the clock do, the walk
\* calls the live accounts in tier order, none twice and none left out.
SidewaysThenDown ==
    \A r \in Requests : LET w == walk[r] IN
        (steady[r] /\ w.pc \in {"picking", "calling"} /\ Live(ModelOf(w)) # {}) =>
            CalledFor(r) = {a \in Live(ModelOf(w)) : Place(a, ModelOf(w)) < Picks(w)}

\* After the first byte nothing is replayed: the client is sent the output of
\* one call, and once it has seen any of it nobody is called again.
NeverReplayed ==
    [][\A r \in Requests : sent[r] => calls'[r] = calls[r] /\ sent'[r]]_vars

\* The counters that justify a pause stay below their thresholds while an
\* account is in service: what raised one to its threshold also took the
\* account out, and what brought it back cleared all three.
ThresholdsPause ==
    \A a \in Accounts \ operated : pool[a].healthy =>
        /\ pool[a].timeouts < TimeoutPauseThreshold
        /\ pool[a].c403 < ForbiddenPauseThreshold
        /\ pool[a].c429 < RateLimitPauseThreshold

-----------------------------------------------------------------------------
\* Liveness

\* "a fully unhealthy pool cannot spin": every walk ends.
WalksEnd == \A r \in Requests : (walk[r].pc = "picking") ~> (walk[r].pc \in Ended)

\* An account that is out of service with a CooldownUntil returns to service,
\* unless a call that was already under way (or the cooling fallback) takes
\* the CooldownUntil away or the account leaves the list.
CooledReturn ==
    \A a \in Accounts :
        (~ pool[a].healthy /\ pool[a].left # Unset)
            ~> (pool[a].healthy \/ pool[a].left = Unset \/ ~ pool[a].listed)

-----------------------------------------------------------------------------
\* What the documentation promises and the code does not keep

\* Sideways until the whole tier is down, only then a lower tier: when a walk
\* picks an account, every live account of a better tier was called before.
TierExhaustedFirst ==
    [][\A r \in Requests : calls'[r] # calls[r] =>
          LET w == walk[r]
          IN  \A b \in Live(ModelOf(w)) :
                Priority[b] < Priority[walk'[r].acct] => b \in CalledFor(r)]_vars

\* A pause is temporary: an account nobody but the gateway took out of service
\* has a CooldownUntil to return at.
PausesEnd ==
    \A a \in Accounts \ operated : ~ pool[a].healthy => pool[a].left # Unset

\* "marks the account unhealthy and sets CooldownUntil": the pause lasts.
PausesLast ==
    [][\A a \in Accounts :
          (pool[a].healthy /\ pool'[a].listed /\ ~ pool'[a].healthy /\ a \notin operated')
              => pool'[a].left > 0]_vars
=============================================================================
