# Verification of Subport

Subport is a gateway that sells API access to a pool of upstream accounts
(Claude, Codex, Antigravity, plain OpenAI-compatible). It authenticates a
request by API key, holds quota for it, walks over the account pool until a
call succeeds, bills the call and refunds streams that break too often.

This directory holds TLA+ models of that program, TLC configurations that check
them on small instances, and TLAPS proofs of the properties that matter most
for every size. Paths below are relative to `src/internal/`.

## 1. Inventory

| Component | State | Operations | Hard part | Correct when |
|---|---|---|---|---|
| Quota and settlement (`httpapi/server.go`, `quota.go`, `protocols.go`, `store/sqlite_quota.go`, `store.go`) | `users.quota_total/used/reserved`, `usage_logs` | admit, settle (success, failed, stream_broken), release on panic, allowance changes, reset at start | concurrent admissions, failing transactions, restarts | holds and charges match the calls exactly; overspend is bounded |
| Stream compensation (`store.go`, `sqlite_keys.go`) | `usage_logs.compensated`, `quota_used` | run after a broken stream, run by an admin | statements without a transaction, a window that shifts | no refund twice; a due one is missed only when another settlement overtakes it |
| Scheduler pool (`gateway/gateway.go`, `health.go`, `routing.go`) | `Scheduler.accounts`, `routes` | Pick, NoteUpstreamResult, ReapCooldowns, SetAccountHealth, ReplaceAccounts, SetModelRoutes | results of concurrent calls, time, operators | paused accounts come back, good accounts are found |
| Failover walk (`gateway/gateway.go`, `stream.go`, `model_alias.go`) | local variables of each Relay / RelayStream | attempts, model fallback, first-byte rule | the pool changes under the walk | sideways, then down; never replayed; ends |
| Health persistence (`health.go`, `store/sqlite_accounts.go`, admin handlers) | rows of `accounts`, write goroutines | persist, PATCH / POST / DELETE account, reload, restart | unordered writes, read-modify-write | memory and rows agree when quiet |
| Recharge (`store/recharge.go`, `sqlite_recharge.go`, `httpapi/recharge.go`) | `payment_orders`, `quota_topups`, `quota_total` | create order, notify, mock pay, manual top-up | repeated and late notifications, failing statements | each paid order is credited once |
| Credentials and refresh (`gateway/token_refresh.go`, `account_creds.go`, `provider_*.go`) | per-account cache, process-wide runtime, stored rows | refresh loop, refresh on 401, admin updates | shared runtime, network calls between read and write | an account is only ever used with its own tokens |
| Client streaming (`gateway/sse_protocol.go`, `stream.go`, `provider*.go`) | writer state | frames, deltas, errors, end | what counts as the first byte | broken and clean ends look different |
| OAuth flow (`gateway/antigravity_oauth_flow.go`) | sessions, results | start, callback, manual exchange, poll | two exchanges of one code | a success is not lost |
| Access (`store/store.go`, `sqlite_auth.go`, `httpapi/auth.go`) | users, sessions, keys | login, roles, keys | check then act | the last admin is never lost; a start leaves one |
| Aliases, pricing | configuration | pure functions | order, caps, rounding | as documented |

How they interact: an HTTP handler calls `admit` (Store), then `Relay`
(Scheduler, which calls a provider and notes the result), then `SettleUsage` and
perhaps `CompensateBrokenStreams` (Store). The reaper and the token refresh loop
run on tickers. Admin handlers write rows and then reload the scheduler.
Everything in the store runs under `Store.mu`, everything in the scheduler under
`Scheduler.mu`; the two are never held together.

## 2. Plan

1. `Quota`, `Billing`, `QuotaBilling`, `QuotaProofs`: what users pay. Done.
2. `Scheduler`, `Relay`, `RelayProofs`: which account answers. Done.
3. `Recharge`, `RechargeProofs`: what users buy. Done.
4. `HealthStore`, which EXTENDS `Scheduler`: memory against rows. Done.
5. `Stream`, `Credentials`, `OAuthFlow`, `Access`. Done.
6. Proofs of every safety invariant that a run checks, and of the refinement of
   `Billing`: `...Proofs` of each component. Done.
7. Safety facts behind the liveness properties (what decreases on the way to the end
   of a walk, a hold or an exchange), as theorems. Open.
8. `ModelAlias`, `Pricing`: pure functions against a reference definition. Open;
   both are a lookup, so they come last.

## 3. Modules

| Module | Models |
|---|---|
| `SetSum` | the sum of a function over a finite set, as a cardinality, so that it can be proved about |
| `Quota` | admission, settlement, compensation, allowances, restart |
| `Billing` | what billing promises: each call is held once, charged once, refunded at most once |
| `QuotaBilling` | the refinement mapping from `Quota` to `Billing` |
| `Scheduler` | the account pool and its locked methods |
| `Relay` | concurrent failover walks over the pool |
| `Recharge` | orders, payments, notifications, manual top-ups |
| `HealthStore` | the pool against table `accounts`: write goroutines, the console's handlers, restart |
| `Stream` | a streamed call from the upstream's lines to the client's events and the bill |
| `Credentials` | tokens and cookies in rows, cache and runtimes; refreshes, 401s, console, restart |
| `OAuthFlow` | the Antigravity sign-in: sessions, codes, exchange, onboarding, storing |
| `Access` | users, roles, sessions, keys, legacy import, bootstrap |
| `MC...` | values for TLC |
| `QuotaProofs`, `RelayProofs`, `RechargeProofs`, `HealthStoreProofs`, `StreamProofs`, `CredentialsProofs`, `OAuthFlowProofs`, `AccessProofs` | inductive invariants and theorems of the components |

### Quota

State: the three balance columns, `usage_logs` (one row per call, named by the
request, with its insertion order), where each handler is (`pc`), the hold it
passes on (`held`), and the compensation run that has `Store.mu` (`comp`). One
action is one statement or transaction. `CompensateBrokenStreams` is several
statements under the mutex: `StartCompensation` (the reads), `MarkCompensated`
for each log, `CreditQuota`. No other writer comes between; a failing statement
(`FailCompensation`) and a restart can. `LoseSettlement` is the transaction that
rolls back while the handler drops its error. The history variables appear only in
properties: `refunded` and `ceiling`, `everUnlimited`, and for the refunds `owed`, the
logs that were due when some call settled, and `dropped`, those of them that a later
settlement of the user made undue again, because it pushed them out of the window or
brought the rate below the threshold.

Simplifications: a price is any member of `Costs`; logs are ordered by insertion
(the code sorts a text column of times; see the hazard list); two calls that
reach the store at the same moment are ordered by the mutex; a user is not
deleted (the code has no such operation).

### Scheduler and Relay

An account carries `healthy`, the three counters and `left`, the time until
`CooldownUntil`: `Unset` for the empty string, 0 once it has passed. Only
comparisons with the clock matter, so this loses nothing but the order of two
expiries inside one tick, which `Pick` leaves open. `Failed` and `Succeeded` are
`NoteUpstreamResult`; errors are their failure class and whether
`IsRetryableUpstreamStatus` holds for them.

`walk[r]` holds the local variables of one `Relay` or `RelayStream`. A walk picks
(read lock), calls (no lock, any time) and notes the result (lock) together with
the control flow that follows; between any two of these the other walks, the
clock, the reaper and operators act. `ReplaceAccounts` changes one account to any
of `Reloads`; a handler that changes several is several steps. History variables:
`called`, `steady`, `operated`, `sent`; `calls` is `totalAttempts`.

### Recharge

State: the columns of `payment_orders` that decide anything (`status`, `buyer`,
`provider`, `credit`, `price`, `key`), the orders that a `quota_topups` row names,
`users.quota_total`, each console request, and the payment mode. What the payment
provider knows is external: the pay pages that were made (`links`) and what was
paid for an order (`paid`). `MarkOrderPaidAndCredit` is one transaction;
`AdminManualTopup` is three statements under `Store.mu` without one (`ManualOrder`,
`ManualCredit`, `ManualAudit`), and any of them may fail (`ManualFails`). A
notification that finds its order paid, reports another status, or meets a failing
store changes nothing and so is a stutter. `credited` is a history variable.

Simplifications: signatures are not modelled, a notification is one the provider
sent; credits and prices are small numbers of the same order as the catalogue's;
the user-visible lists and the settings are reads.

### HealthStore

State: the scheduler's list (`pool`, of `Scheduler`), the rows of `accounts`
(`rows`), the write goroutines that `persistHealthLocked` started and that have not
reached the database (`writes`, any of which may land next), and the local variables
of each console request (`handler`). `NoteUpstreamResult` and `Reap` change the list
and start writes; `PostAccount`, `PatchRead` + `PatchUpsert`, `ImportLookup` +
`ImportUpsert` and `DeleteAccount` change rows and then go through `ReadAccounts` and
`ReplaceAccounts`; `Authorize`, `SetAccountHealthy`, `MirrorHealth` are the end of a
sign-in. `Restart` forgets list and writes and runs main's bootstrap, statement
for statement in its effect. `Clock` moves every copy of a `CooldownUntil` together.

History: `raced` records the accounts whose copies lost each other in one of the four
ways the code allows (two writes under way at once, a write that failed, a list read
before the row changed, an authorisation); `CopiesAgree` says that there is no fifth.
`stopped` are the accounts an operator took out of service and that nobody has put
back, `parked` those of them that had no `CooldownUntil` at that moment and that no
call has used since: the reaper cannot tell the others from its own pauses
(`OperatorPauseKept` fails, section 5). `deleted` are the deleted accounts. A pause or a
deletion is recorded only when no other console request is under way, because a PATCH
that has read the row writes all of it back.

Simplifications: name, base URL, weight and error text are not modelled; routes stay
as they are; an account's provider and tier do not change.

### Stream

State: the local variables of `RelayStream` and of the adapter at work, the writer
(`started`, `closed`, and whether an unfinished line lies in it), and what the client
has got (`sent`, events with the attempt they come from). A line is `text`, `other`,
`done` or `error`; `Events` and `WriterAfter` say what each writer makes of one. An
`error` line is the upstream's own: the OpenAI adapter does not look for one, a
translating writer shows it and closes, a chat client gets it as it is. The history
variable `faulted` says that there was one.
`Line`, `LineFails` and `EndOfAnswer` are the read loop of the OpenAI adapter, where a
line is passed on before it is looked at; `Collect`, `Collected`, `Answer`,
`WriteFrame`, `WriteFrameFails` and `WriteDone` are the adapters that have the whole
answer before they write. `Returns` is the decision by the first byte; `ReportCut` and
`Succeed` are what the handler does with the result.

Simplifications: an account is its adapter, the models of a chain are more attempts,
a client that leaves is noticed by the next write that makes an event, tokens are
counted by frames. `Piece`, a line that the connection breaks off in, stands for any
cut line, whatever it was to become; the history variable `torn` marks it.

### Credentials

State: `row`, `cache` and `runtime`, the serial number of the newest token of each
account at its provider (`issued`), and one record of local variables per goroutine
(`job`). A token names the account it was issued to, which is how taking another
account's is seen. A refresh is: read the cache, ask the provider (any time passes),
write cache and runtime, write the row. A call answered 401 is: load the runtime, read
the refresh token from it, ask, write the runtime, write the cache from the runtime.
A console request reads the row, writes it (asks for the cookie's identity and writes
again), and sets the cache. A restart loads every row into cache and runtime in any
order and then gives main's accounts what the runtime holds.

Simplifications: tokens from environment variables and token files are left out, so
every token comes from the console or a refresh; `ExpiresAt` is left out, a token may
be near its end at any time; a store that fails is modelled where a refresh persists.
The runtimes of Codex and Antigravity are in the module, while TLC runs two Claude
accounts: a provider's accounts share a runtime with each other and with nobody else.

### OAuthFlow

State: the three maps under `antigravityOAuthMu` (`session` with its index, `owner`,
`done`), Google's side (`codes`, `redeemed`), the account's row and cache entry, and
the local variables of each exchange (`worker`). `Exchange` stands for the callback of
the listener and for the console's exchange, which run the same function. A code is
accepted once; the answer that accepts it may be lost. A failed exchange leaves its
session in place, a successful one removes it.

Simplifications: state, PKCE and redirect URI always match; a request that fails
these checks is answered at once and changes nothing. The email lookup, whose failure
is ignored, is left out.

### Access

State: the tables `users` (role only), `sessions` and `api_keys`, the phase of the
process while it starts, and the local variables of each request. Who is asking is
read first and used later. The legacy import is one statement per row, and a start may
end between any two. `AskRole`, `ReadRole`, `SetRole` are the three looks of
PATCH users/{id}: admission, check and write; `AskUser`, `InsertUser` are POST users, by
which an administrator creates a user of either role. A failing statement of `OpenStore`
ends the process (`StopProcess`), a failing insert of the bootstrap administrator does
not (`BootstrapFails`). Which roles the legacy file holds is a constant.

Simplifications: passwords and the invite code are not modelled, a login is one that
knows its password; usage logs and accounts of the legacy file are left out; names
and allowances do not change.

## 4. Runs

| Run | Shows | Bounds |
|---|---|---|
| `quota` | accounting, refund order, bounded spend, and that `Quota` implements `Billing`, with failures, one restart and allowance changes | 3 calls of one user, window 2, a prompt above the reservation cap |
| `quota_reliable` | a due refund is made unless another settlement overtakes it, every hold ends | 4 calls, window 3, two broken to trigger; the window shifts |
| `relay` | tier order, first-byte rule, thresholds | 2 walks, 2 tiers with 2 + 1 accounts, thresholds 2, 1, 2 |
| `relay_live` | walks end, accounts return, and tier order with a fallback model, changing routes, reloads and re-authorisation | 1 walk, 2 accounts, 2 models |
| `relay_stuck` | a documented promise that does not hold: a paused account comes back | 2 walks |
| `recharge` | exactly-once credit, all-or-nothing orders, one order per key, payments are credited in the end; live and mock payment | 2 requests that may share a key, 2 orders, failing statements, one restart |
| `health` | list and rows agree when nothing is under way, an operator's pause without a `CooldownUntil` is kept, a deleted account stays gone | 2 accounts, 2 console requests at a time and in all, 2 results, 2 writes under way, one failing statement, one restart |
| `credentials` | own tokens, kept cookies, stored refresh tokens, no row for a deleted account | 2 accounts of one provider, 2 goroutines, 3 jobs (2 with a fault), 2 cookies, one failure, one restart |
| `stream` | one source, whole successes, visible cuts, billed output | all 5 adapters, all 3 formats, 3 attempts, 2 frames each of text, other and error |
| `stream_cut` | a documented promise that does not hold: a cut stream ends with a well-formed error | as `stream` |
| `oauth` | the console is told the truth, tokens reach the right account, exchanges end | 2 accounts, 2 sessions, 2 exchanges at a time and in all, 2 codes, onboarding asks twice, one fault |
| `access` | the last administrator is never lost, the import happens once and revives nothing | 3 users of whom 2 are in the file, one an administrator there; 2 sessions, 2 keys, 2 requests at a time, 2 creations or role changes by administrators, 2 stops or failing statements |

Why the bounds are enough: users share nothing but the mutex, and one user's
calls contend for it too; three calls make a window of two shift, and let two
holds compete while a third settles. Two walks suffice for a walk to see every
change another can make. Two orders let a manual top-up run beside a console order,
and two requests let a key be repeated with another package. Thresholds are scaled
down so that they are reached; no definition depends on their values. `MaxTotal`,
`MaxRestarts` and `Operable` are the only bounds in their guards.

The hazards of `HealthStore`, `Credentials` and `OAuthFlow` are all races of two: a
write with a write, a handler with a result, a refresh with a save, an exchange with
an exchange. Two actors and one more job than actors let each race happen and
something follow it. A `Stream` has one actor besides the upstream; two text frames
distinguish "some" from "all". Two role changes are needed to demote both
administrators, the one of the file and the one of the bootstrap. Every name that
begins with `Max` is a bound, as are `OnboardTries` (two instead of five), `Used`
and `Kinds`; each is named in its module.

Deadlock checking is off except in the quota runs: a finite set of requests, orders
or jobs ends and nothing has to happen afterwards.

### Fairness

`Quota`: a call that holds quota finishes (upstream clients have timeouts), a
handler goes on to its next statement, the holder of the mutex finishes.
`Relay`: a walk goes on to its next statement, its upstream call answers, the
reaper's ticker fires and time passes. `Recharge`: the provider repeats the
notification of a payment until one is acknowledged, which is strong fairness
because failures and the mutex interrupt it, and whoever holds the mutex goes on.
`OAuthFlow`: an exchange goes on to its next statement, and Google answers or the
client's timeout does. The other four modules state safety only.
Requests, payments, operators and restarts are never forced.

## 5. Findings

Two are violation runs with a counterexample; `PROJECT.json` quotes the text each
contradicts.

- A late success strands a paused account (`relay_stuck`): it clears `CooldownUntil`,
  by which alone the reaper finds the account.
- An upstream that breaks off inside a line leaves its client without a readable
  error (`stream_cut`): the error frame is glued to the unfinished line.

The modules also state properties that the documentation suggests and the code does
not meet. Naming one as the INVARIANT (or PROPERTY) of its component's configuration
shows the counterexample (`DueIsRefunded` belongs in `MCQuotaReliable.cfg`, where no
statement fails); no run of this project lists them.

| Property | What happens | Where |
|---|---|---|
| `Quota!NoPinnedHold` | a settling transaction that fails leaves its hold, and the call is never billed: the handlers drop the error and disarm the release | `httpapi/server.go:195`, against `store/store.go:384-386` |
| `Quota!MarkedIsRefunded` | a stop between mark and credit loses the refund | `store/store.go:512`, against `model/model.go:90-93` |
| `Quota!DueIsRefunded` | between a broken stream's settlement and its compensation another call of the user settles and pushes the broken one out of the window, or the rate below the threshold: the refund is never made | `httpapi/server.go:208`, against `httpapi/server.go:202-205` |
| `Relay!TierExhaustedFirst` | a 429 takes the account out of the live pool, so the next attempt skips a peer and goes down a tier | `gateway/gateway.go:136`, against `model/model.go:73-74` |
| `Relay!PausesLast` | an expired `CooldownUntil` of an old 429 cuts a later pause short | `gateway/health.go:144`, against `gateway/health.go:13-14` |
| `Recharge!PaidIsCredited` | a manual top-up of an unknown user answers 404 and leaves a paid order | `store/recharge.go:115` |
| `Recharge!PaidInFull` | a key that returns with another package gets a pay page at the new price for the old credit | `httpapi/recharge.go:307` |
| `HealthStore!StoreIsAuthoritative` | two writes of one account land in the wrong order, a write fails, a handler's list is older than the rows, or a Claude sign-in clears the row's counters but not the list's | `gateway/health.go:158`, `httpapi/server.go:425` |
| `HealthStore!OperatorPauseKept` | with a `CooldownUntil` left over from a 429, or set by a late one, an operator's pause looks to the reaper like its own, and it puts the account back | `gateway/health.go:174`, against `httpapi/server.go:377-378` |
| `Stream!UnfinishedIsBroken` | an upstream sends an error frame and then `[DONE]`: the call is settled as a success while a client of a translated format was shown an error and no mark of completion | `gateway/stream.go:189`, against `gateway/stream.go:68-71` |
| `Access!AdminFromStart` | the insert of the first administrator fails: the error is dropped and the service comes up without one; once somebody has registered the name `admin` no restart creates one | `cmd/subport/main.go:89`, against `README.md:150` of the repository |
| `Credentials!IsolatedTokens` | two calls answered 401 at once: one takes the other account's tokens from the runtime; so does the synchronisation at start | `gateway/provider_claude.go:188-190`, `gateway/account_creds.go:148` |

Also noticed while modelling, without a property:

- A stream without reported usage is billed 0 by every adapter but the OpenAI one;
  the README says that 0 means unknown, not free (`gateway/provider.go:32-35`,
  `httpapi/server.go:229-231`).
- Codex and Antigravity answers that are cut cleanly, without their final event, count
  as whole (`gateway/provider_codex.go:265`); `SuccessIsWhole` therefore speaks of what
  was read.
- The protocol writers report swallowed lines as written, so a break before the first
  delta is settled as broken after the first byte (`gateway/sse_protocol.go:13`).
- PATCH with `healthy=true` clears `CooldownUntil` on its copy, but the upsert does not
  write that column, so the reload brings the old cooldown back
  (`httpapi/server.go:407`).
- A `[DONE]` that ends without a newline counts as the end of a whole answer, while a
  translating writer, which waits for the newline, shows no mark of completion
  (`UnfinishedIsBroken` leaves such lines out).
- A cookie saved or cleared while another job works on the account can be written over,
  a refresh in flight when its account is deleted inserts the row again, and of two
  exchanges of one sign-in the later failure hides the earlier success. `CookieKept`,
  `DeletedHasNoRow` and `StatusTrue` leave these overlaps out (`contended`, `raced`).
- Two administrators who demote each other at the same time leave none
  (`httpapi/recharge.go:169`); a restart brings none back while the name is taken. PATCH
  looks the session up a second time, so an administrator who signs out in between may
  demote himself if there is another one.
- A start that ends half-way through the legacy import loses the rest of the file.
- The synchronisation at start replaces all of `extra_json` of a Codex or Antigravity
  account, a saved cookie included, when it knows the upstream's account or project id.
- Results of finished sign-ins stay in `antigravityOAuthDone` for ever, and a session
  that is too old to exchange leaves its poll pending.
- The floor of `RateLimitCooldown` for a hard pause (`gateway/health.go:133-135`) has no
  effect, because the 429 branch has already set `CooldownUntil`.
- A manual top-up whose third statement fails has given credit without an audit row
  (which is why `PaidCreditedAudited` speaks of console orders). A credit makes a user
  without a limit (`quota_total` of 0 or less) a limited one.

## 6. Proofs

Every safety invariant that a passing run checks is also a theorem about the
specification of its component, for every value of the constants that satisfies the
component's assumption: any set of accounts, requests, sessions or goroutines (finite
where the assumption says so), any thresholds, any number of failures and restarts. The
bounds in the guards are arbitrary numbers in the proofs, so they limit nothing there. TLC checked each inductive invariant on the run's instance before it was
proved. All theorems have one shape: `Init` gives the invariant, one lemma (or one
step) per action preserves it, and it implies the property.

| Module | Theorems | Inductive invariant and what it adds |
|---|---|---|
| `QuotaProofs` | `TypeCorrect`, `HoldsAlwaysAccounted`, `UsedIsAlwaysLedger`, `RefundsAreMarkedAlways`, `SpendAlwaysBounded` | what a running compensation will credit is still charged, a mark outside it is final, and a call holds exactly when its `pc` says so |
| | `NoRefundIsMissed` | `RefundInv`: what is due to a user none of whose calls is between settlement and compensation is what a running compensation has still to mark. `OwedInv`: what was owed is marked, dropped or still due, and what is marked is credited or about to be |
| | `QuotaImplementsBilling` | `BillInv`; see below |
| `RelayProofs` | `TypeCorrect`, `CountersBelowThresholds`, `NothingReplayed`, `WalksGoSideways` | `SentInv`: a walk that has sent bytes has ended. `SideInv`: while a walk's tier is stable, what it called lies before what it may call next, which rests on accounts having different ranks |
| `RechargeProofs` | `TypeCorrect`, `OrdersAllOrNothing`, `CreditedExactlyOnce`, `KeysMakeOneOrder` | `CreditInv`: only paid orders are credited, only credited ones audited, and where the running manual top-up stands |
| `HealthStoreProofs` | `TypeCorrect`, `CopiesAlwaysAgree`, `PausedStaysPaused`, `DeletedStaysDeleted` | `AgreeInv`: list and row agree, or the one write under way carries the list's entry, or a handler is about to replace the list. `ParkInv`: the list, the row and every copy still under way of an account in `parked` are out of service and have no `CooldownUntil` for the reaper to find. `GoneInv`: what handlers still hold of a deleted account cannot bring it back |
| `StreamProofs` | `TypeCorrect`, `OutputHasOneSource`, `SuccessesAreWhole`, `CutsAreShown`, `DeliveredIsAlwaysBilled` | `SourceInv`: where another account may still be asked nothing was sent, because the OpenAI adapter has its first byte and the others write last. `CleanInv`: a client that stays has exactly what was read, or as much of it as came before an upstream's error frame closed the writer, and the writer is where the client believes it is |
| `CredentialsProofs` | `TypeCorrect`, `TokensStayOwn`, `CookiesAreKept`, `RefreshTokensStayUsable`, `DeletedKeepsNoRow` | `AloneInv`: an account outside `contended` has one job. `OwnInv`: what a job carries towards row or cache is the account's own. `CookieInv`: what it read of `extra_json` is still in the row. `GoneInv`: only a call goes on with a deleted account. `FreshInv`: row, cache and runtime have the newest refresh token, or a job is about to store it there |
| `OAuthFlowProofs` | `TypeCorrect`, `StatusAlwaysTrue` | `CodeInv`: an exchange works on an issued code of a session with an owner. `ToldInv`: a session that was never raced has one exchange, which stores its tokens once. `CacheInv`: a stored row is of the account's own session |
| `AccessProofs` | `TypeCorrect`, `AdminAlwaysRemains`, `ImportedExactlyOnce` | `AdminInv`: unless two role changes overlapped, at most one request is about to write a role, and one that demotes leaves another administrator if there is one; the action property follows from it step by step. `ImportInv`: what of the legacy file is in at each phase of a start |

None of these properties is inductive as it stands, except `CountersBelowThresholds`,
which is once the pool is typed: a property speaks of the quiet state, or of the result,
and says nothing of what the goroutines still carry.

`QuotaImplementsBilling` is the refinement: under the mapping of `QuotaBilling`, `Init`
implies the initial condition of `Billing`, and each step of `Quota` is a step of it or
leaves its variables unchanged. An admission holds, a settlement charges, a release
lets go, a restart voids every held call at once, and `CreditQuota` refunds what was
marked before it. `Billing` adds and subtracts exactly; that the floored updates of the
SQL statements do the same rests on `HoldsAccounted` and `UsedIsLedger`.

`QuotaProofs` and `RechargeProofs` begin with the laws of `SumOver` they use (nothing,
one element more, one less, disjoint union); `StreamProofs` with what one line adds to
the client's events (`Written`); `CredentialsProofs` with the frame of a step that works
on one account (`LocalInv`); the refresh of one account, say, is then a statement about
that account and the others' tokens.

Assumptions beyond ranges and finiteness, each justified by the code:
`CredentialsAssumption` says that the account main prepares for a provider is of that
provider (`cmd/subport/main.go:110-154` creates it so); `AccessAssumption` that the keys
and sessions of the legacy file belong to users in it, as the version that wrote the
file kept them (the tables declare foreign keys, but SQLite does not enforce them here);
`HealthStoreAssumption`, `OAuthFlowAssumption` and others that the values standing for "no
row" or "nothing" are no row and no result.

Only model-checked: liveness, which is outside the prover's reach (`HoldsResolved`,
`WalksEnd`, `CooledReturn`, `PaymentsCredited`, `ExchangesEnd`), and, being false, the
properties of the violation runs and those of the table in section 5.

## 7. Not modelled

- `payment/alipay.go`: request signing and signature checks, no state.
- `gateway/model_alias.go`, `model/pricing.go`: table lookups; `Relay` and `Quota` take
  their results as constants.
- Channels, model routes, available models, settings: single-statement create, read,
  update and delete. Routes reach the scheduler through `SetModelRoutes`, which `Relay`
  models.
- The exchange of a Claude session or a Codex sign-in for tokens: one HTTP call each,
  whose result is `PutCredentials`; reading tokens from files and the environment. The
  Claude exchange also writes the provider's runtime itself
  (`gateway/claude_oauth.go:502`), which `PutCredentials` does not.
- SQL dialects, the schema, the web console, scripts and tools.
