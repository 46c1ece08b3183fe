------------------------------ MODULE OAuthFlow ------------------------------
(***************************************************************************)
(* Signing an Antigravity account in with Google.  An operator starts a    *)
(* session for an account; the browser comes back to a listener on port    *)
(* 8085, or the operator pastes the URL it came back to; both exchange the *)
(* code in it for tokens, look up two facts about the user, store it all,  *)
(* and leave a result that the console polls for.                          *)
(*                                                                         *)
(* Sessions, results and the index by state are three maps under one mutex,*)
(* which is not held while Google is asked or the store is written.  A code*)
(* is accepted once.  A session's state is known by the session itself.    *)
(***************************************************************************)
EXTENDS Integers, FiniteSets

CONSTANTS
    Accounts,        \* accounts of the provider antigravity
    Sessions,        \* the random ids of sessions, each used once
    Workers,         \* requests: callbacks and exchanges from the console
    None,
    MaxCodes,        \* bound: codes issued
    OnboardTries,    \* the five attempts of antigravityTryOnboard
    MaxExchanges,    \* bound
    MaxFaults        \* bound: failures, restarts and deleted accounts together

ASSUME OAuthFlowAssumption ==
    /\ None \notin Accounts \cup [ok : BOOLEAN, applied : BOOLEAN]
    /\ {MaxCodes, OnboardTries, MaxExchanges, MaxFaults} \subseteq Nat

VARIABLES
    exists,      \* account -> it has a row in accounts
    session,     \* antigravityOAuthSessions and its index: the live sessions
    owner,       \* session -> its account, once started
    old,         \* live sessions older than the time to live
    done,        \* antigravityOAuthDone: session -> a result, or None
    codes,       \* Google: codes issued, a session and a number each
    redeemed,    \* Google: codes used up
    row,         \* account_credentials: account -> Credential, or None
    cache,       \* the gateway's copy
    worker,      \* local variables of each exchange
    exchanges, failures, restarts,
    stored,      \* history: session -> codes whose tokens were stored
    raced,       \* history: sessions two exchanges worked on at the same time
    crossed      \* history: accounts two exchanges stored tokens for at the
                 \* same time, or that were deleted meanwhile

maps    == <<session, owner, old, done>>
google  == <<codes, redeemed>>
tables  == <<exists, row, cache>>
counts  == <<exchanges, failures, restarts>>
history == <<stored, raced, crossed>>
vars    == <<maps, google, tables, worker, counts, history>>

Codes      == Sessions \X (1..MaxCodes)
Credential == [code : Codes, project : BOOLEAN]
Idle       == [pc |-> "idle", code |-> None, base |-> "none", tries |-> 0, project |-> FALSE]

Faults == failures + restarts + Cardinality({a \in Accounts : ~ exists[a]})

SessionOf(w) == worker[w].code[1]
AccountOf(w) == owner[SessionOf(w)]
Storing == {"persist", "upsert", "cache", "finish"}

-----------------------------------------------------------------------------
\* Sessions

\* StartAntigravityOAuth, called for an existing account; its id is random,
\* so any unused one will do.
StartAntigravityOAuth(s, a) ==
    /\ exists[a]
    /\ \E t \in Sessions : owner[t] = None
    /\ s = CHOOSE t \in Sessions : owner[t] = None
    /\ owner' = [owner EXCEPT ![s] = a]
    /\ session' = session \cup {s}
    /\ done' = [done EXCEPT ![s] = None]
    /\ UNCHANGED <<old, google, tables, worker, counts, history>>

\* Google sends the browser back with a code, each time a new one.
Authorise(s) ==
    /\ owner[s] # None /\ Cardinality(codes) < MaxCodes
    /\ codes' = codes \cup {<<s, Cardinality(codes) + 1>>}
    /\ UNCHANGED <<maps, redeemed, tables, worker, counts, history>>

GrowOld(s) ==
    /\ s \in session \ old
    /\ old' = old \cup {s}
    /\ UNCHANGED <<session, owner, done, google, tables, worker, counts, history>>

\* PollAntigravityOAuth
Poll(s) == IF done[s] = None THEN [done |-> FALSE, ok |-> FALSE, applied |-> FALSE]
           ELSE [done |-> TRUE, ok |-> done[s].ok, applied |-> done[s].applied]

\* The session leaves antigravityOAuthSessions and antigravityOAuthByState.
Forget(s) == session' = session \ {s} /\ old' = old \ {s}

\* antigravityOAuthDone[sessionID] = comp
Complete(s, result) == done' = [done EXCEPT ![s] = result]
Failed == [ok |-> FALSE, applied |-> FALSE]
Succeeded == [ok |-> TRUE, applied |-> TRUE]

-----------------------------------------------------------------------------
\* ExchangeAntigravityOAuth

\* Called by the callback, which finds the session by its state, or by the
\* console, for a session of the account in the path.  A live session that
\* is too old is dropped; otherwise the mutex is released with the session
\* still in place.  Every request has a goroutine of its own, so which idle
\* worker stands for it makes no difference.
Exchange(w, c) ==
    /\ \E v \in Workers : worker[v].pc = "idle"
    /\ w = CHOOSE v \in Workers : worker[v].pc = "idle"
    /\ exchanges < MaxExchanges
    /\ c \in codes /\ c[1] \in session
    /\ exchanges' = exchanges + 1
    /\ IF c[1] \in old
       THEN Forget(c[1]) /\ UNCHANGED <<worker, raced>>
       ELSE /\ worker' = [worker EXCEPT ![w] = [Idle EXCEPT !.pc = "redeem", !.code = c]]
            /\ raced' = IF \E v \in Workers : worker[v].pc # "idle" /\ SessionOf(v) = c[1]
                        THEN raced \cup {c[1]} ELSE raced
            /\ UNCHANGED <<session, old>>
    /\ UNCHANGED <<owner, done, google, tables, failures, restarts, stored, crossed>>

Continue(w, next) == worker' = [worker EXCEPT ![w] = next]

\* An error is left as the session's result; the session stays, so that the
\* operator can paste the URL again.
Stop(w) ==
    /\ Complete(SessionOf(w), Failed)
    /\ worker' = [worker EXCEPT ![w] = Idle]
    /\ UNCHANGED <<session, owner, old>>

RedeemAnyway(w) ==
    LET c == worker[w].code
    IN  /\ worker[w].pc = "redeem"
        /\ redeemed' \in {redeemed, redeemed \cup {c}}
        /\ Continue(w, [worker[w] EXCEPT !.pc = "lookup", !.base = "prod"])
        /\ UNCHANGED <<maps, codes, tables, counts, history>>

\* The token endpoint.  Its answer may be lost after the code was used up.
Redeem(w) ==
    LET c == worker[w].code
    IN  /\ worker[w].pc = "redeem"
        /\ \/ /\ c \notin redeemed
              /\ redeemed' = redeemed \cup {c}
              /\ Continue(w, [worker[w] EXCEPT !.pc = "lookup", !.base = "prod"])
              /\ UNCHANGED <<maps, failures>>
           \/ /\ c \in redeemed
              /\ Stop(w)
              /\ UNCHANGED <<redeemed, failures>>
           \/ /\ Faults < MaxFaults /\ failures' = failures + 1
              /\ redeemed' \in {redeemed, redeemed \cup {c}}
              /\ Stop(w)
        /\ UNCHANGED <<codes, tables, exchanges, restarts, history>>

-----------------------------------------------------------------------------
\* antigravityLoadProjectID.  Without a project the exchange goes on.

Looked(w, found) ==
    Continue(w, [worker[w] EXCEPT !.pc = "persist", !.base = "none", !.tries = 0,
                                  !.project = found])

NextBase(w) ==
    IF worker[w].base = "prod"
    THEN Continue(w, [worker[w] EXCEPT !.pc = "lookup", !.base = "daily", !.tries = 0])
    ELSE Looked(w, FALSE)

\* loadCodeAssist names the project, names a tier to onboard to, is refused,
\* or fails in a way that another base may not.
LoadCodeAssist(w, answer) ==
    /\ worker[w].pc = "lookup"
    /\ CASE answer = "project" -> Looked(w, TRUE)
         [] answer = "refused" -> Looked(w, FALSE)
         [] answer = "tier"    -> Continue(w, [worker[w] EXCEPT !.pc = "onboard"])
         [] answer = "failed"  -> NextBase(w)
    /\ UNCHANGED <<maps, google, tables, counts, history>>

OnboardForever(w, answer) ==
    /\ worker[w].pc = "onboard"
    /\ CASE answer = "project" -> Looked(w, TRUE)
         [] answer = "failed"  -> NextBase(w)
         [] answer = "pending" -> Continue(w, [worker[w] EXCEPT !.tries = 1 - @])
    /\ UNCHANGED <<maps, google, tables, counts, history>>

\* antigravityTryOnboard asks again every two seconds, five times.
TryOnboard(w, answer) ==
    /\ worker[w].pc = "onboard"
    /\ CASE answer = "project" -> Looked(w, TRUE)
         [] answer = "failed"  -> NextBase(w)
         [] answer = "pending" -> IF worker[w].tries + 1 < OnboardTries
                                  THEN Continue(w, [worker[w] EXCEPT !.tries = @ + 1])
                                  ELSE NextBase(w)
    /\ UNCHANGED <<maps, google, tables, counts, history>>

-----------------------------------------------------------------------------
\* AntigravityOAuthPersist

\* The account must still exist; a project stored before is kept when this
\* lookup found none.
ReadCredential(w) ==
    LET a == AccountOf(w)
    IN  /\ worker[w].pc = "persist"
        /\ IF exists[a]
           THEN /\ Continue(w, [worker[w] EXCEPT !.pc = "upsert",
                                   !.project = @ \/ (row[a] # None /\ row[a].project)])
                /\ crossed' = IF \E v \in Workers \ {w} :
                                    worker[v].pc \in Storing /\ AccountOf(v) = a
                              THEN crossed \cup {a} ELSE crossed
                /\ UNCHANGED maps
           ELSE Stop(w) /\ UNCHANGED crossed
        /\ UNCHANGED <<google, tables, counts, stored, raced>>

UpsertCredential(w) ==
    LET a == AccountOf(w)
        c == worker[w].code
    IN  /\ worker[w].pc = "upsert"
        /\ \/ /\ row' = [row EXCEPT ![a] = [code |-> c, project |-> worker[w].project]]
              /\ stored' = [stored EXCEPT ![c[1]] = @ \cup {c}]
              /\ Continue(w, [worker[w] EXCEPT !.pc = "cache"])
              /\ UNCHANGED <<maps, failures>>
           \/ /\ Faults < MaxFaults /\ failures' = failures + 1
              /\ Stop(w)
              /\ UNCHANGED <<row, stored>>
        /\ UNCHANGED <<exists, cache, google, exchanges, restarts, raced, crossed>>

\* The stored row goes into the cache.  (It also goes into the provider's
\* runtime, see Credentials, and the account is put in service, see
\* Authorize in HealthStore.)
SetAccountCredential(w) ==
    LET a == AccountOf(w)
    IN  /\ worker[w].pc = "cache"
        /\ cache' = [cache EXCEPT ![a] = [code    |-> worker[w].code,
                                          project |-> worker[w].project]]
        /\ Continue(w, [worker[w] EXCEPT !.pc = "finish"])
        /\ UNCHANGED <<exists, row, maps, google, counts, history>>

FinishKeeping(w) ==
    /\ worker[w].pc = "finish"
    /\ Complete(SessionOf(w), Succeeded)
    /\ worker' = [worker EXCEPT ![w] = Idle]
    /\ UNCHANGED <<session, owner, old, google, tables, counts, history>>

\* The result, and the end of the session.
Finish(w) ==
    LET s == SessionOf(w)
    IN  /\ worker[w].pc = "finish"
        /\ Complete(s, Succeeded)
        /\ Forget(s)
        /\ worker' = [worker EXCEPT ![w] = Idle]
        /\ UNCHANGED <<owner, google, tables, counts, history>>

-----------------------------------------------------------------------------
\* DELETE accounts/{id}: the account's row and its credentials.
DeleteAccount(a) ==
    /\ exists[a] /\ Faults < MaxFaults
    /\ exists' = [exists EXCEPT ![a] = FALSE]
    /\ row' = [row EXCEPT ![a] = None]
    /\ crossed' = IF \E w \in Workers : worker[w].pc \in Storing /\ AccountOf(w) = a
                  THEN crossed \cup {a} ELSE crossed
    /\ UNCHANGED <<cache, maps, google, worker, counts, stored, raced>>

\* The three maps are in memory only; the cache is read from the rows.
Restart ==
    /\ Faults < MaxFaults /\ restarts' = restarts + 1
    /\ session' = {} /\ old' = {} /\ done' = [s \in Sessions |-> None]
    /\ worker' = [w \in Workers |-> Idle]
    /\ cache' = row
    /\ crossed' = crossed \cup {AccountOf(w) : w \in {v \in Workers : worker[v].pc \in Storing}}
    /\ UNCHANGED <<exists, row, owner, google, exchanges, failures, stored, raced>>

-----------------------------------------------------------------------------
Init ==
    /\ exists = [a \in Accounts |-> TRUE]
    /\ session = {} /\ old = {}
    /\ owner = [s \in Sessions |-> None]
    /\ done = [s \in Sessions |-> None]
    /\ codes = {} /\ redeemed = {}
    /\ row = [a \in Accounts |-> None] /\ cache = row
    /\ worker = [w \in Workers |-> Idle]
    /\ exchanges = 0 /\ failures = 0 /\ restarts = 0
    /\ stored = [s \in Sessions |-> {}] /\ raced = {} /\ crossed = {}

Step(w) ==
    \/ Redeem(w)
    \/ \E answer \in {"project", "refused", "tier", "failed"} : LoadCodeAssist(w, answer)
    \/ \E answer \in {"project", "failed", "pending"} : TryOnboard(w, answer)
    \/ ReadCredential(w) \/ UpsertCredential(w) \/ SetAccountCredential(w) \/ Finish(w)

Next ==
    \/ \E s \in Sessions, a \in Accounts : StartAntigravityOAuth(s, a)
    \/ \E s \in Sessions : GrowOld(s) \/ Authorise(s)
    \/ \E w \in Workers : Step(w) \/ \E c \in Codes : Exchange(w, c)
    \/ \E a \in Accounts : DeleteAccount(a)
    \/ Restart

\* Every request to Google ends within the client's 120 seconds, and the
\* goroutine of a request is scheduled.
Spec == Init /\ [][Next]_vars /\ \A w \in Workers : WF_vars(Step(w))

-----------------------------------------------------------------------------
\* Every map and every exchange is well formed; an exchange has a session
\* that was started, and a result is a success exactly when it was applied.
TypeOK ==
    /\ exists \in [Accounts -> BOOLEAN]
    /\ session \subseteq Sessions /\ old \subseteq session
    /\ owner \in [Sessions -> Accounts \cup {None}]
    /\ done \in [Sessions -> {None, Failed, Succeeded}]
    /\ codes \subseteq Codes /\ redeemed \subseteq codes
    /\ row \in [Accounts -> Credential \cup {None}]
    /\ cache \in [Accounts -> Credential \cup {None}]
    /\ \A w \in Workers :
          /\ worker[w].pc \in {"idle", "redeem", "lookup", "onboard"} \cup Storing
          /\ worker[w].pc # "idle" => worker[w].code \in codes /\ AccountOf(w) \in Accounts
          /\ worker[w].tries \in 0..OnboardTries
    /\ \A s \in Sessions : stored[s] \subseteq redeemed \cap ({s} \X (1..MaxCodes))

Working(s) == \E w \in Workers : worker[w].pc # "idle" /\ SessionOf(w) = s

Settled(a) == /\ a \notin crossed
              /\ \A w \in Workers : worker[w].pc \in Storing => AccountOf(w) # a

\* What the console is told is what happened: a session shown as applied has
\* stored tokens; one shown as failed has not, unless an exchange is at work
\* on it again or two worked on it at the same time.
ToldTrue == \A s \in Sessions :
    /\ Poll(s).ok => stored[s] # {}
    /\ Poll(s).done /\ ~ Poll(s).ok /\ s \notin raced /\ ~ Working(s) => stored[s] = {}

\* Tokens are stored for the account that their session was started for; the
\* account's cache entry is its row.
StoredRight == \A a \in Accounts :
    /\ row[a] # None => owner[row[a].code[1]] = a
    /\ exists[a] /\ Settled(a) => cache[a] = row[a]

StatusTrue == ToldTrue /\ StoredRight

\* An exchange that was begun ends, whatever Google answers, and its session
\* then has a result for the console, or the process has restarted.
ExchangesEnd == \A s \in Sessions :
    Working(s) ~> (~ Working(s) /\ (done[s] # None \/ restarts > 0))
=============================================================================
