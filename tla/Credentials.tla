----------------------------- MODULE Credentials -----------------------------
(***************************************************************************)
(* The tokens and cookies of upstream accounts, which live in three places:*)
(* a row of account_credentials, an entry of the process's cache, and, for *)
(* a whole provider at once, its runtime.  They are changed by the refresh *)
(* loop, by a refresh on demand, by a call that was answered 401, and by   *)
(* the console.  Each place has a mutex; no operation holds one across its *)
(* steps, and a call to a provider takes any time.                         *)
(*                                                                         *)
(* A token is known by the account it was issued to and a serial number.   *)
(* The provider accepts the newest refresh token of an account only.       *)
(* SetAccountCredential and the HydrateRuntimeFromAccount that follows it  *)
(* are one step, and so are two reads of a runtime in a row.  ExpiresAt is *)
(* left out: a token may be near its end at any time, so needsRefresh may  *)
(* answer either way.  Tokens from the environment or from files are left  *)
(* out: tokens come from the console and from refreshes only.              *)
(***************************************************************************)
EXTENDS Integers, FiniteSets

CONSTANTS
    Accounts, None,
    Provider,        \* account -> provider
    Cookies,
    Boot,            \* provider -> the account main prepares at start
    Jobs,            \* goroutines: requests, console requests, the refresh loop
    Kinds,           \* bound: what jobs do
    Rotations,       \* may a refresh answer with a new refresh token, or without
    MaxJobs,         \* bound: the jobs of a behaviour, one less in one with faults
    MaxFailures, MaxRestarts      \* bounds

Providers == {"claude", "codex", "antigravity"}

Token == [owner : Accounts, n : Nat]
Pair  == [at : Token \cup {None}, rt : Token \cup {None},
          cookie : Cookies \cup {None}, ident : Cookies \cup {None}]

ASSUME CredentialsAssumption ==
    /\ Provider \in [Accounts -> Providers]
    /\ None \notin Accounts \cup Cookies \cup Token \cup Pair
    /\ Boot \in [Providers -> Accounts \cup {None}]
    /\ \A p \in Providers : Boot[p] # None => Provider[Boot[p]] = p
    /\ IsFiniteSet(Jobs)
    /\ Rotations \subseteq BOOLEAN
    /\ {MaxJobs, MaxFailures, MaxRestarts} \subseteq Nat

VARIABLES
    exists,      \* account -> it has a row in accounts
    row,         \* table account_credentials: account -> Pair, or None
    cache,       \* accountCreds: account -> Pair
    runtime,     \* claudeRuntime, codexRuntime, antigravityRuntime
    issued,      \* the provider: account -> serial number of its newest token
    job,         \* local variables of each goroutine
    started, failures, restarts,
    saved,       \* history: account -> the cookie its operator saved last
    leaked,      \* history: accounts that took another account's tokens
                 \* from the runtime
    spent,       \* history: accounts whose refresh token was used up and its
                 \* successor not stored
    unchecked,   \* history: accounts whose cookie changed without a look at its
                 \* identity: by an import, or by a save cut off by a restart
    contended    \* history: accounts that two jobs worked on at the same time

counts  == <<started, failures, restarts>>
history == <<saved, leaked, spent, unchecked, contended>>
vars    == <<exists, row, cache, runtime, issued, job, counts, history>>

Empty   == [at |-> None, rt |-> None, cookie |-> None, ident |-> None]
Idle    == [kind |-> "none", pc |-> "idle", acct |-> None, tok |-> None,
            pair |-> Empty, todo |-> {}, snaps |-> [a \in Accounts |-> Empty]]

RowOf(a) == IF row[a] = None THEN Empty ELSE row[a]
Extra(pair) == [pair EXCEPT !.at = None, !.rt = None]
HasToken(pair) == pair.at # None \/ pair.rt # None

-----------------------------------------------------------------------------
\* The three places

\* UpsertCredential: the patch's fields over the row as it is now.
Patched(a, at, rt) ==
    [RowOf(a) EXCEPT !.at = at, !.rt = IF rt = None THEN @ ELSE rt]
PatchedExtra(a, cookie, ident) ==
    [RowOf(a) EXCEPT !.cookie = cookie, !.ident = ident]
PatchedWithSnapshot(a, pair) ==
    [RowOf(a) EXCEPT !.at = pair.at, !.rt = pair.rt, !.cookie = pair.cookie]

\* An empty refresh token keeps the runtime's, and outside Claude so does an
\* empty access token.
claudeSetRuntime(r, at, rt) == [at |-> at, rt |-> IF rt = None THEN r.rt ELSE rt]

codexSetRuntime(r, at, rt) == [at |-> IF at = None THEN r.at ELSE at,
                               rt |-> IF rt = None THEN r.rt ELSE rt]

antigravitySetRuntime(r, at, rt) == [at |-> IF at = None THEN r.at ELSE at,
                                     rt |-> IF rt = None THEN r.rt ELSE rt]

RuntimeSet(r, p, at, rt) ==
    [r EXCEPT ![p] = CASE p = "claude" -> claudeSetRuntime(@, at, rt)
                       [] p = "codex"  -> codexSetRuntime(@, at, rt)
                       [] OTHER        -> antigravitySetRuntime(@, at, rt)]

\* HydrateRuntimeFromAccount
Hydrated(r, a, pair) ==
    IF HasToken(pair) THEN RuntimeSet(r, Provider[a], pair.at, pair.rt) ELSE r

-----------------------------------------------------------------------------
\* Jobs

WorkedOn(a, jobs) == {k \in Jobs : jobs[k].acct = a /\ jobs[k].pc # "idle"}

\* History: which accounts two jobs work on now.
Watch == contended' = contended \cup
             {a \in Accounts : Cardinality(WorkedOn(a, job')) > 1}

Faulty == IF failures + restarts > 0 THEN 1 ELSE 0

Begin(k, kind) ==
    /\ job[k].pc = "idle" /\ kind \in Kinds
    /\ started + Faulty < MaxJobs /\ started' = started + 1

Fails == started < MaxJobs /\ failures < MaxFailures /\ failures' = failures + 1

Do(k, kind, pc, a, tok, pair) ==
    job' = [job EXCEPT ![k] = [@ EXCEPT !.kind = kind, !.pc = pc, !.acct = a,
                                        !.tok = tok, !.pair = pair]]

\* The end of a job's work on an account; the loop goes on to the next one.
Ended(j) == IF j.kind = "loop"
            THEN [Idle EXCEPT !.kind = "loop", !.pc = "next", !.todo = j.todo,
                              !.snaps = j.snaps]
            ELSE Idle
End(k) == job' = [job EXCEPT ![k] = Ended(@)]

-----------------------------------------------------------------------------
\* Refresh in the background and on demand

\* RefreshAccountTokens: the accounts with a refresh token, and their extra
\* JSON, as the cache has them when the round begins.
StartRound(k) ==
    /\ Begin(k, "loop")
    /\ job' = [job EXCEPT ![k] =
          [@ EXCEPT !.kind = "loop", !.pc = "next",
                    !.todo = {a \in Accounts : cache[a].rt # None},
                    !.snaps = [a \in Accounts |-> IF cache[a].rt # None
                                                 THEN Extra(cache[a]) ELSE Empty]]]
    /\ UNCHANGED <<exists, row, cache, runtime, issued, failures, restarts, history>>

\* An account of the round, and its snapshot, are taken up once.
TakenUp(j, a) == [j EXCEPT !.todo = @ \ {a}, !.snaps[a] = Empty]

NextUnlessIdle(k, a) ==
    /\ job[k].pc = "next" /\ a \in job[k].todo
    /\ \/ job' = [job EXCEPT ![k] = TakenUp(@, a)]
       \/ /\ cache[a].rt # None
          /\ job' = [job EXCEPT ![k] =
                [TakenUp(@, a) EXCEPT !.pc = "net", !.acct = a, !.tok = cache[a].rt,
                                      !.pair = job[k].snaps[a]]]
    /\ UNCHANGED <<exists, row, cache, runtime, issued, counts, saved, leaked, spent, unchecked>>
    /\ Watch

\* The next account of the round.  It is skipped when its row is gone, when
\* it has time left, or when the cache has lost its refresh token.
NextAccount(k, a) ==
    /\ job[k].pc = "next" /\ a \in job[k].todo
    /\ \/ job' = [job EXCEPT ![k] = TakenUp(@, a)]
       \/ /\ exists[a] /\ cache[a].rt # None
          /\ job' = [job EXCEPT ![k] =
                [TakenUp(@, a) EXCEPT !.pc = "net", !.acct = a, !.tok = cache[a].rt,
                                      !.pair = job[k].snaps[a]]]
    /\ UNCHANGED <<exists, row, cache, runtime, issued, counts, saved, leaked, spent, unchecked>>
    /\ Watch

EndRound(k) ==
    /\ job[k].pc = "next" /\ job[k].todo = {}
    /\ job' = [job EXCEPT ![k] = Idle]
    /\ UNCHANGED <<exists, row, cache, runtime, issued, counts, history>>

\* ForceRefreshAccount
ForceRefreshAccount(k, a) ==
    /\ Begin(k, "force")
    /\ exists[a] /\ cache[a].rt # None
    /\ Do(k, "force", "net", a, cache[a].rt, Empty)
    /\ UNCHANGED <<exists, row, cache, runtime, issued, failures, restarts, saved, leaked, spent, unchecked>>
    /\ Watch

\* The provider's token endpoint: a new access token for its newest refresh
\* token, and perhaps a new refresh token.
Granted(tok, rotates) ==
    LET new == [owner |-> tok.owner, n |-> issued[tok.owner] + 1]
    IN  [at |-> new, rt |-> IF rotates THEN new ELSE None]

Accepts(tok) == tok.n = issued[tok.owner]

Rotated(tok, rotates) ==
    issued' = IF rotates THEN [issued EXCEPT ![tok.owner] = @ + 1] ELSE issued

\* claudeRefreshWithToken, codexRefreshWithToken: without a new refresh token
\* the old one is kept.
RefreshWithToken(tok, rotates) ==
    LET new == Granted(tok, rotates)
    IN  IF new.rt = None THEN [new EXCEPT !.rt = tok] ELSE new

\* refreshProviderToken answers.  Claude and Codex write their runtime here as
\* well.
RefreshAnswers(k) == \E rotates \in Rotations :
    LET j   == job[k]
        new == RefreshWithToken(j.tok, rotates)
        p   == Provider[j.acct]
    IN  /\ j.pc = "net" /\ j.kind \in {"loop", "force"}
        /\ Accepts(j.tok)
        /\ Rotated(j.tok, rotates)
        /\ job' = [job EXCEPT ![k] = [@ EXCEPT !.pc = "store", !.tok = None,
                                               !.pair.at = new.at, !.pair.rt = new.rt]]
        /\ runtime' = IF p = "antigravity" THEN runtime
                      ELSE RuntimeSet(runtime, p, new.at, new.rt)
        /\ spent' = IF rotates THEN spent \cup ({j.tok.owner} \ {j.acct}) ELSE spent
        /\ UNCHANGED <<exists, row, cache, counts, saved, leaked, unchecked, contended>>

\* The provider refuses the token, cannot be reached, or has used the token
\* up and its answer is lost.
RefreshFails(k) ==
    /\ job[k].pc = "net"
    /\ \/ /\ ~ Accepts(job[k].tok)
          /\ UNCHANGED <<issued, failures, spent>>
       \/ /\ Fails
          /\ \E lost \in Rotations :
                /\ Rotated(job[k].tok, lost /\ Accepts(job[k].tok))
                /\ spent' = IF lost THEN spent \cup {job[k].tok.owner, job[k].acct}
                            ELSE spent
    /\ End(k)
    /\ UNCHANGED <<exists, row, cache, runtime, started, restarts, saved, leaked, unchecked>>
    /\ Watch

StoreFromRuntime(k) ==
    LET j == job[k]
    IN  /\ j.pc = "store"
        /\ cache' = [cache EXCEPT ![j.acct] =
              [j.pair EXCEPT !.at = runtime[Provider[j.acct]].at,
                             !.rt = runtime[Provider[j.acct]].rt]]
        /\ job' = [job EXCEPT ![k] = [@ EXCEPT !.pc = "persist", !.pair = cache'[j.acct]]]
        /\ UNCHANGED <<exists, row, runtime, issued, counts, history>>

\* The loop writes back the extra JSON of the round's beginning; a refresh on
\* demand the one the cache has now.
StoreRefreshed(k) ==
    LET j     == job[k]
        extra == IF j.kind = "loop" THEN j.pair ELSE cache[j.acct]
        new   == [extra EXCEPT !.at = j.pair.at, !.rt = j.pair.rt]
    IN  /\ j.pc = "store"
        /\ cache' = [cache EXCEPT ![j.acct] = new]
        /\ runtime' = Hydrated(runtime, j.acct, new)
        /\ job' = [job EXCEPT ![k].pc = "persist"]
        /\ UNCHANGED <<exists, row, issued, counts, history>>

PersistWithSnapshot(k) ==
    /\ job[k].pc = "persist"
    /\ row' = [row EXCEPT ![job[k].acct] = PatchedWithSnapshot(job[k].acct, job[k].pair)]
    /\ End(k)
    /\ UNCHANGED <<exists, cache, runtime, issued, counts, saved, leaked, spent, unchecked>>
    /\ Watch

PersistAccessOnly(k) ==
    /\ job[k].pc = "persist"
    /\ row' = [row EXCEPT ![job[k].acct] = Patched(job[k].acct, job[k].pair.at, None)]
    /\ End(k)
    /\ UNCHANGED <<exists, cache, runtime, issued, counts, saved, leaked, spent, unchecked>>
    /\ Watch

\* PersistRefreshedTokens: a row is inserted when there is none.
PersistRefreshedTokens(k) ==
    LET a == job[k].acct
    IN  /\ job[k].pc = "persist"
        /\ \/ /\ row' = [row EXCEPT ![a] = Patched(a, job[k].pair.at, job[k].pair.rt)]
              /\ UNCHANGED <<failures, spent>>
           \/ /\ Fails
              /\ spent' = spent \cup {a}
              /\ UNCHANGED row
        /\ End(k)
        /\ UNCHANGED <<exists, cache, runtime, issued, started, restarts, saved, leaked, unchecked>>
        /\ Watch

-----------------------------------------------------------------------------
\* A call that the provider answered 401

\* The runtime is loaded from the account's cache entry ...
Call401(k, a) ==
    /\ Begin(k, "call")
    /\ runtime' = Hydrated(runtime, a, cache[a])
    /\ Do(k, "call", "hydrated", a, None, Empty)
    /\ UNCHANGED <<exists, row, cache, issued, failures, restarts, saved, leaked, spent, unchecked>>
    /\ Watch

TryRefreshAnyway(k) ==
    LET a == job[k].acct
    IN  /\ job[k].pc = "hydrated"
        /\ Do(k, "call", "net", a, runtime[Provider[a]].rt, Empty)
        /\ UNCHANGED <<exists, row, cache, runtime, issued, counts, saved, leaked, spent, unchecked>>
        /\ Watch

\* ... the refresh token is read from the runtime ...
TryRefresh(k) ==
    LET a  == job[k].acct
        rt == runtime[Provider[a]].rt
    IN  /\ job[k].pc = "hydrated"
        /\ IF rt = None THEN End(k) ELSE Do(k, "call", "net", a, rt, Empty)
        /\ UNCHANGED <<exists, row, cache, runtime, issued, counts, saved, leaked, spent, unchecked>>
        /\ Watch

\* What a refresh of the call's own leaves in the runtime.  Without a new
\* refresh token Claude and Codex keep the one that is in the runtime now.
claudeTryRefresh(r, tok, rotates) ==
    claudeSetRuntime(r, Granted(tok, rotates).at, Granted(tok, rotates).rt)

codexTryRefresh(r, tok, rotates) ==
    codexSetRuntime(r, Granted(tok, rotates).at, Granted(tok, rotates).rt)

antigravityTryRefresh(r, tok, rotates) ==
    LET new == RefreshWithToken(tok, rotates)
    IN  antigravitySetRuntime(r, new.at, new.rt)

\* ... the answer is written to the runtime ...
TryRefreshAnswers(k) == \E rotates \in Rotations :
    LET j == job[k]
        p == Provider[j.acct]
    IN  /\ j.pc = "net" /\ j.kind = "call"
        /\ Accepts(j.tok)
        /\ Rotated(j.tok, rotates)
        /\ runtime' = [runtime EXCEPT ![p] =
              CASE p = "claude" -> claudeTryRefresh(@, j.tok, rotates)
                [] p = "codex"  -> codexTryRefresh(@, j.tok, rotates)
                [] OTHER        -> antigravityTryRefresh(@, j.tok, rotates)]
        /\ job' = [job EXCEPT ![k] = [@ EXCEPT !.pc = "take", !.tok = None]]
        /\ spent' = IF rotates THEN spent \cup {j.tok.owner, j.acct} ELSE spent
        /\ UNCHANGED <<exists, row, cache, counts, saved, leaked, unchecked, contended>>

\* ... and the account's cache entry from the runtime.  No row is written.
TakeRuntime(k) ==
    LET a == job[k].acct
        r == runtime[Provider[a]]
    IN  /\ job[k].pc = "take"
        /\ cache' = [cache EXCEPT ![a] = [@ EXCEPT !.at = r.at, !.rt = r.rt]]
        /\ leaked' = IF \E t \in {r.at, r.rt} \ {None} : t.owner # a
                     THEN leaked \cup {a} ELSE leaked
        /\ End(k)
        /\ UNCHANGED <<exists, row, runtime, issued, counts, saved, spent, unchecked>>
        /\ Watch

-----------------------------------------------------------------------------
\* The console

\* An operator brings tokens of a new sign-in: PUT credentials, a Claude
\* session exchange, an Antigravity authorisation, a line of an import.
PutCredentials(k, a, withRefresh) ==
    LET new == [owner |-> a, n |-> issued[a] + 1]
    IN  /\ Begin(k, "put")
        /\ exists[a]
        /\ issued' = IF withRefresh THEN [issued EXCEPT ![a] = @ + 1] ELSE issued
        /\ row' = [row EXCEPT ![a] = Patched(a, new, IF withRefresh THEN new ELSE None)]
        /\ Do(k, "put", "cache", a, None, row'[a])
        /\ UNCHANGED <<exists, cache, runtime, failures, restarts, saved, leaked, spent, unchecked>>
        /\ Watch

\* PUT credentials with clear_refresh_token, with or without
\* clear_access_token.
ClearTokens(k, a, both) ==
    /\ Begin(k, "wipe")
    /\ exists[a]
    /\ row' = [row EXCEPT ![a] = [RowOf(a) EXCEPT !.at = IF both THEN None ELSE @,
                                                 !.rt = None]]
    /\ Do(k, "put", "cache", a, None, row'[a])
    /\ UNCHANGED <<exists, cache, runtime, issued, failures, restarts, saved, leaked, spent, unchecked>>
    /\ Watch

\* The row as a job read it goes into the cache and the runtime.
SetAccountCredential(k) ==
    LET j == job[k]
    IN  /\ j.pc = "cache"
        /\ cache' = [cache EXCEPT ![j.acct] = j.pair]
        /\ runtime' = IF exists[j.acct] /\ j.kind \in {"put", "test"}
                      THEN Hydrated(runtime, j.acct, j.pair) ELSE runtime
        /\ End(k)
        /\ UNCHANGED <<exists, row, issued, counts, saved, leaked, spent, unchecked>>
        /\ Watch

\* Handlers that read the row first: they test the account, save or clear its
\* cookie, check the cookie's identity, or merge another key into extra_json.
Readers == {"test", "cookie", "import", "clear", "identity", "extra"}

ReadRow(k, a, kind) ==
    /\ Begin(k, kind)
    /\ exists[a]
    /\ kind = "test" => row[a] # None
    /\ kind = "identity" => RowOf(a).cookie # None
    /\ Do(k, kind, CASE kind = "test"     -> "cache"
                     [] kind = "identity" -> "verify"
                     [] OTHER             -> "write",
          a, None, IF kind = "test" THEN RowOf(a) ELSE Extra(RowOf(a)))
    /\ UNCHANGED <<exists, row, cache, runtime, issued, failures, restarts, saved, leaked, spent, unchecked>>
    /\ Watch

\* SetAccountCookie, ClearAccountCookie, or the merge of PUT credentials: all
\* of extra_json is written back as it was read, but for the one key.  Saving
\* and clearing go on to the identity; the cookie of an import is not checked.
WriteExtra(k) == \E c \in Cookies :
    LET j      == job[k]
        cookie == CASE j.kind \in {"cookie", "import"} -> c
                    [] j.kind = "clear"                -> None
                    [] OTHER                           -> j.pair.cookie
    IN  /\ j.pc = "write"
        /\ row' = [row EXCEPT ![j.acct] = PatchedExtra(j.acct, cookie, j.pair.ident)]
        /\ saved' = IF j.kind = "extra" THEN saved ELSE [saved EXCEPT ![j.acct] = cookie]
        /\ unchecked' = IF j.kind = "import" THEN unchecked \cup {j.acct} ELSE unchecked
        /\ IF j.kind \in {"cookie", "clear"}
           THEN Do(k, j.kind, "verify", j.acct, None, Extra(row'[j.acct]))
           ELSE Do(k, j.kind, "cache", j.acct, None, row'[j.acct])
        /\ UNCHANGED <<exists, cache, runtime, issued, counts, leaked, spent, contended>>

\* resolveAndStoreClaudeCookieIdentity: the identity is asked for with the
\* cookie the handler has, and written together with that cookie.
ResolveIdentity(k) ==
    LET j == job[k]
    IN  /\ j.pc = "verify"
        /\ unchecked' = unchecked \ {j.acct}
        /\ \E ident \in {None} \cup (IF j.kind = "clear" THEN {} ELSE {j.pair.cookie}) :
              row' = [row EXCEPT ![j.acct] = PatchedExtra(j.acct, j.pair.cookie, ident)]
        /\ Do(k, j.kind, "cache", j.acct, None, row'[j.acct])
        /\ UNCHANGED <<exists, cache, runtime, issued, counts, saved, leaked, spent, contended>>

\* DELETE accounts/{id}: both rows go, the cache entry stays.
DeleteAccount(k, a) ==
    /\ Begin(k, "delete")
    /\ exists[a]
    /\ exists' = [exists EXCEPT ![a] = FALSE]
    /\ row' = [row EXCEPT ![a] = None]
    /\ saved' = [saved EXCEPT ![a] = None]
    /\ contended' = IF WorkedOn(a, job) # {} THEN contended \cup {a} ELSE contended
    /\ UNCHANGED <<cache, runtime, issued, job, failures, restarts, leaked, spent, unchecked>>

-----------------------------------------------------------------------------
\* Start of the process

NoRuntime == [p \in Providers |-> [at |-> None, rt |-> None]]

\* The rows are loaded into the runtime one after the other, in no fixed
\* order: the last with tokens leaves its access token, the last with a
\* refresh token that one.
Loadable(p) == {a \in Accounts : Provider[a] = p /\ exists[a] /\ HasToken(RowOf(a))}

RuntimesAfterLoad(p) ==
    IF Loadable(p) = {} THEN {[at |-> None, rt |-> None]}
    ELSE {[at |-> row[last].at,
           rt |-> IF row[last].rt # None THEN row[last].rt ELSE row[other].rt] :
             last \in Loadable(p), other \in Loadable(p)}

\* main: with an access token in the runtime the provider's first account is
\* upserted, and syncBootstrapCredentials stores the runtime in its row.
Prepared(r, p) == r[p].at # None /\ Boot[p] # None

\* Where the runtime knows a ChatGPT account or a project, the sync replaces
\* the whole of extra_json by it.
Synced(a, r, identified) ==
    LET tokens == Patched(a, r[Provider[a]].at, r[Provider[a]].rt)
    IN  IF a \in identified
        THEN [tokens EXCEPT !.cookie = None, !.ident = None] ELSE tokens

PreparedAccounts(r) == {Boot[p] : p \in {q \in Providers : Prepared(r, q)}}

RestartWith(r) ==
    \E identified \in SUBSET {a \in PreparedAccounts(r) : Provider[a] # "claude"} :
        /\ runtime' = r
        /\ exists' = [a \in Accounts |-> exists[a] \/ a \in PreparedAccounts(r)]
        /\ row' = [a \in Accounts |-> IF a \in PreparedAccounts(r)
                                      THEN Synced(a, r, identified) ELSE row[a]]
        /\ cache' = [a \in Accounts |-> IF row'[a] = None THEN Empty ELSE row'[a]]
        /\ leaked' = leaked \cup {a \in PreparedAccounts(r) :
              \E t \in {r[Provider[a]].at, r[Provider[a]].rt} \ {None} : t.owner # a}
        /\ spent' = spent \cup {job[k].acct : k \in {i \in Jobs : job[i].pc \in {"store", "persist"}}}
        /\ unchecked' = unchecked \cup {job[k].acct : k \in {i \in Jobs : job[i].pc = "verify"}}
        /\ contended' = contended \cup PreparedAccounts(r)

Restart ==
    /\ started < MaxJobs /\ restarts < MaxRestarts /\ restarts' = restarts + 1
    /\ \E c \in RuntimesAfterLoad("claude"), x \in RuntimesAfterLoad("codex"),
          g \in RuntimesAfterLoad("antigravity") :
          RestartWith([NoRuntime EXCEPT !["claude"] = c, !["codex"] = x,
                                        !["antigravity"] = g])
    /\ job' = [k \in Jobs |-> Idle]
    /\ UNCHANGED <<issued, started, failures, saved>>

-----------------------------------------------------------------------------
\* Some accounts have been signed in; the runtime holds one of them, or none.
Signed(a) == [Empty EXCEPT !.at = [owner |-> a, n |-> 1], !.rt = [owner |-> a, n |-> 1]]

Init ==
    /\ exists = [a \in Accounts |-> TRUE]
    /\ \E signed \in SUBSET Accounts :
          /\ row = [a \in Accounts |-> IF a \in signed THEN Signed(a) ELSE None]
          /\ cache = [a \in Accounts |-> RowOf(a)]
          /\ \/ runtime = NoRuntime /\ signed = {}
             \/ \E a \in signed :
                   runtime = [NoRuntime EXCEPT ![Provider[a]] =
                                 [at |-> row[a].at, rt |-> row[a].rt]]
    /\ issued = [a \in Accounts |-> 1]
    /\ job = [k \in Jobs |-> Idle]
    /\ started = 0 /\ failures = 0 /\ restarts = 0
    /\ saved = [a \in Accounts |-> None]
    /\ leaked = {} /\ spent = {} /\ unchecked = {} /\ contended = {}

RefreshNext(k) ==
    \/ StartRound(k) \/ EndRound(k)
    \/ \E a \in Accounts : NextAccount(k, a) \/ ForceRefreshAccount(k, a)
    \/ RefreshAnswers(k) \/ RefreshFails(k)
    \/ StoreRefreshed(k) \/ PersistRefreshedTokens(k)

CallNext(k) ==
    \/ \E a \in Accounts : Call401(k, a)
    \/ TryRefresh(k) \/ TryRefreshAnswers(k) \/ TakeRuntime(k)

ConsoleNext(k) ==
    \/ \E a \in Accounts : \/ \E with \in BOOLEAN : PutCredentials(k, a, with) \/ ClearTokens(k, a, with)
                           \/ \E kind \in Readers : ReadRow(k, a, kind)
                           \/ DeleteAccount(k, a)
    \/ SetAccountCredential(k) \/ WriteExtra(k) \/ ResolveIdentity(k)

Next == Restart \/ \E k \in Jobs : RefreshNext(k) \/ CallNext(k) \/ ConsoleNext(k)

Spec == Init /\ [][Next]_vars

-----------------------------------------------------------------------------
\* Every place holds tokens and cookies of its shape, and no request to a
\* token endpoint is made without a token.
Pcs == {"idle", "next", "net", "store", "persist", "hydrated", "take", "cache",
        "write", "verify"}

TypeOK ==
    /\ exists \in [Accounts -> BOOLEAN]
    /\ row \in [Accounts -> Pair \cup {None}] /\ cache \in [Accounts -> Pair]
    /\ runtime \in [Providers -> [at : Token \cup {None}, rt : Token \cup {None}]]
    /\ issued \in [Accounts -> Nat]
    /\ \A k \in Jobs :
          /\ job[k].pc \in Pcs /\ job[k].acct \in Accounts \cup {None}
          /\ job[k].pair \in Pair /\ job[k].todo \subseteq Accounts
          /\ job[k].snaps \in [Accounts -> Pair]
          /\ job[k].pc = "net" => job[k].tok \in Token
    /\ saved \in [Accounts -> Cookies \cup {None}]
    /\ \A s \in {leaked, spent, unchecked, contended} : s \subseteq Accounts

Quiet(a) == WorkedOn(a, job) = {}

TokensAt(a) == {cache[a].at, cache[a].rt, RowOf(a).at, RowOf(a).rt} \ {None}

\* Per-account isolation: an account's cache entry and row hold tokens issued
\* to that account.  Only TakeRuntime and the synchronisation at start can
\* break this; whatever else runs at the same time, in whatever order, does
\* not, and an account they have not touched keeps its own tokens.
OwnTokens == \A a \in Accounts \ leaked : \A t \in TokensAt(a) : t.owner = a

\* What the operator saved is what the row holds - a refresh round that began
\* before the cookie was saved does not bring the old one back - and the
\* stored identity is the one of the stored cookie.
CookieKept == \A a \in Accounts \ contended : exists[a] /\ Quiet(a) =>
    /\ RowOf(a).cookie = saved[a]
    /\ a \notin unchecked => RowOf(a).ident \in {None, RowOf(a).cookie}

\* Row and cache hold the refresh token that the provider accepts, so that the
\* next round and the next process can refresh: unless it was used up by a
\* call's own refresh, in an answer or a write that was lost, or by two jobs
\* at once, and as long as no account of the provider holds another's tokens.
RefreshTokenUsable == \A a \in Accounts \ (spent \cup contended) :
    /\ exists[a] /\ Quiet(a)
    /\ \A b \in leaked : Provider[b] # Provider[a]
    =>
        \A rt \in {RowOf(a).rt, cache[a].rt} \ {None} : Accepts(rt)

\* The cache keeps the tokens of a deleted account, and still no round of the
\* refresh loop gives that account a row again.
DeletedHasNoRow == \A a \in Accounts \ contended :
    ~ exists[a] /\ Quiet(a) => row[a] = None

\* As OwnTokens, with no exception: "Per-account isolation", provider_claude.go
\* says, and "One refresh attempt using this account's tokens only."  Stated
\* for the reader; two calls answered 401 at the same time violate it.
IsolatedTokens == \A a \in Accounts : \A t \in TokensAt(a) : t.owner = a
=============================================================================
