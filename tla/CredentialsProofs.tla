-------------------------- MODULE CredentialsProofs --------------------------
(* Theorems about the tokens and cookies of accounts, for any accounts,      *)
(* providers and cookies, any number of goroutines, failing refreshes, lost  *)
(* answers and restarts.                                                     *)
EXTENDS Credentials, FiniteSetTheorems, TLAPS

-----------------------------------------------------------------------------
\* The inductive invariant

\* The extra JSON of an account, without tokens.
Untokened == {pair \in Pair : pair.at = None /\ pair.rt = None}

Locals == [kind  : {"none", "loop", "force", "call", "put"} \cup Readers,
           pc    : Pcs,
           acct  : Accounts \cup {None},
           tok   : Token \cup {None},
           pair  : Pair,
           todo  : SUBSET Accounts,
           snaps : [Accounts -> Untokened]]

On(a, k) == job[k].acct = a

Typed ==
    /\ TypeOK /\ job \in [Jobs -> Locals]
    /\ started \in Nat /\ failures \in Nat /\ restarts \in Nat
    /\ \A k \in Jobs : job[k].pc \in {"idle", "next"} <=> job[k].acct = None

\* An account not in contended has one job at a time.
AloneFor(a) == \A k, l \in Jobs : On(a, k) /\ On(a, l) => k = l

AloneInv == \A a \in Accounts \ contended : AloneFor(a)

OwnedBy(a, pair) == \A t \in {pair.at, pair.rt} \ {None} : t.owner = a

\* Whatever a job carries towards the row or the cache entry of an account is
\* the account's own, as is the token its refresh presents.
OwnFor(a) ==
    /\ OwnedBy(a, cache[a]) /\ OwnedBy(a, RowOf(a))
    /\ \A k \in Jobs : On(a, k) =>
          /\ OwnedBy(a, job[k].pair)
          /\ job[k].pc = "net" /\ job[k].kind \in {"loop", "force"}
                => job[k].tok.owner = a

OwnInv == \A a \in Accounts \ leaked : OwnFor(a)

\* Only a call goes on with a deleted account, and a call writes no row.
GoneFor(a) ==
    ~ exists[a] =>
        /\ row[a] = None
        /\ \A k \in Jobs : On(a, k) =>
              job[k].kind = "call" /\ job[k].pc \in {"hydrated", "net", "take"}

GoneInv == \A a \in Accounts \ contended : GoneFor(a)

\* What a job read of extra_json is still what the row holds when it writes it
\* back; the identity is the cookie's, or a job is about to ask for it.
CookieFor(a) ==
    /\ RowOf(a).cookie = saved[a]
    /\ \A k \in Jobs : On(a, k) =>
          /\ job[k].pc \in {"write", "verify"} => job[k].pair.cookie = RowOf(a).cookie
          /\ job[k].pc = "write" => job[k].pair.ident = RowOf(a).ident
    /\ \/ RowOf(a).ident \in {None, RowOf(a).cookie}
       \/ a \in unchecked
       \/ \E k \in Jobs : On(a, k) /\ job[k].pc = "verify"

CookieInv == \A a \in Accounts \ contended : CookieFor(a)

\* The accounts of which RefreshTokenUsable speaks.
Sound(a) ==
    /\ a \notin spent \cup contended /\ exists[a]
    /\ \A b \in leaked : Provider[b] # Provider[a]

Fresh(t) == t # None => Accepts(t)

Storing(a, pcs) == \E k \in Jobs : On(a, k) /\ job[k].pc \in pcs

\* A console job whose new tokens have still to reach the runtime.
Hydrating(a) ==
    \E k \in Jobs : /\ On(a, k) /\ job[k].pc = "cache" /\ job[k].kind = "put"
                    /\ job[k].pair.rt # None

RuntimeFresh(a) ==
    LET rt == runtime[Provider[a]].rt
    IN  rt # None /\ rt.owner = a => Accepts(rt)

\* Row, cache entry and runtime hold the newest refresh token of the account,
\* or a job does that is about to store it there.
FreshFor(a) ==
    /\ Fresh(RowOf(a).rt) \/ Storing(a, {"store", "persist"})
    /\ Fresh(cache[a].rt) \/ Storing(a, {"store", "cache"})
    /\ RuntimeFresh(a) \/ Storing(a, {"store"}) \/ Hydrating(a)
    /\ \A k \in Jobs : On(a, k) =>
          /\ job[k].pc \in {"store", "persist"} =>
                job[k].pair.rt # None /\ Accepts(job[k].pair.rt)
          /\ job[k].pc = "cache" => job[k].pair.rt = RowOf(a).rt

FreshInv == \A a \in Accounts : Sound(a) => FreshFor(a)

Inv == Typed /\ AloneInv /\ OwnInv /\ GoneInv /\ CookieInv /\ FreshInv

-----------------------------------------------------------------------------
\* Pairs, rows and runtimes

MaybeToken == Token \cup {None}
Runtimes   == [Providers -> [at : MaybeToken, rt : MaybeToken]]

LEMMA NoneIsNone ==
  None \notin Accounts /\ None \notin Cookies /\ None \notin Token /\ None \notin Pair
  BY CredentialsAssumption

LEMMA Pairs ==
  /\ Empty \in Pair /\ Empty.at = None /\ Empty.rt = None
  /\ Empty.cookie = None /\ Empty.ident = None /\ Empty \in Untokened
  /\ \A pair \in Pair : /\ Extra(pair) \in Pair
                        /\ Extra(pair).at = None /\ Extra(pair).rt = None
                        /\ Extra(pair) \in Untokened
                        /\ Extra(pair).cookie = pair.cookie
                        /\ Extra(pair).ident = pair.ident
  BY DEF Pair, Empty, Extra, Untokened

LEMMA Rows ==
  ASSUME Typed, NEW a \in Accounts
  PROVE  /\ RowOf(a) \in Pair
         /\ row[a] # None => RowOf(a) = row[a]
         /\ row[a] = None => RowOf(a) = Empty
  BY Pairs DEF Typed, TypeOK, RowOf

\* The upserts keep what they do not write.
LEMMA Patches ==
  ASSUME Typed, NEW a \in Accounts, NEW at \in MaybeToken, NEW rt \in MaybeToken,
         NEW cookie \in Cookies \cup {None}, NEW ident \in Cookies \cup {None}
  PROVE  /\ Patched(a, at, rt) \in Pair /\ Patched(a, at, rt).at = at
         /\ Patched(a, at, rt).rt = (IF rt = None THEN RowOf(a).rt ELSE rt)
         /\ Patched(a, at, rt).cookie = RowOf(a).cookie
         /\ Patched(a, at, rt).ident = RowOf(a).ident
         /\ PatchedExtra(a, cookie, ident) \in Pair
         /\ PatchedExtra(a, cookie, ident).at = RowOf(a).at
         /\ PatchedExtra(a, cookie, ident).rt = RowOf(a).rt
         /\ PatchedExtra(a, cookie, ident).cookie = cookie
         /\ PatchedExtra(a, cookie, ident).ident = ident
<1>1. RowOf(a) \in Pair
  BY Rows
<1> QED  BY <1>1 DEF Patched, PatchedExtra, Pair, MaybeToken

\* Setting a runtime changes one provider; an absent refresh token keeps the
\* one that is there.
LEMMA RuntimeSets ==
  ASSUME NEW r \in Runtimes, NEW p \in Providers,
         NEW at \in MaybeToken, NEW rt \in MaybeToken
  PROVE  /\ RuntimeSet(r, p, at, rt) \in Runtimes
         /\ RuntimeSet(r, p, at, rt)[p].rt = (IF rt = None THEN r[p].rt ELSE rt)
         /\ \A q \in Providers : q # p => RuntimeSet(r, p, at, rt)[q] = r[q]
<1> DEFINE new == CASE p = "claude" -> claudeSetRuntime(r[p], at, rt)
                    [] p = "codex"  -> codexSetRuntime(r[p], at, rt)
                    [] OTHER        -> antigravitySetRuntime(r[p], at, rt)
<1>1. /\ new \in [at : MaybeToken, rt : MaybeToken]
      /\ new.rt = IF rt = None THEN r[p].rt ELSE rt
  BY DEF claudeSetRuntime, codexSetRuntime, antigravitySetRuntime, Providers, Runtimes
<1>2. RuntimeSet(r, p, at, rt) = [r EXCEPT ![p] = new]
  BY DEF RuntimeSet
<1> HIDE DEF new
<1> QED  BY <1>1, <1>2 DEF Runtimes

LEMMA Hydrates ==
  ASSUME NEW r \in Runtimes, NEW a \in Accounts, NEW pair \in Pair
  PROVE  /\ Hydrated(r, a, pair) \in Runtimes
         /\ Hydrated(r, a, pair)[Provider[a]].rt
              = (IF pair.rt = None THEN r[Provider[a]].rt ELSE pair.rt)
         /\ \A q \in Providers : q # Provider[a] => Hydrated(r, a, pair)[q] = r[q]
<1>1. Provider[a] \in Providers /\ pair.at \in MaybeToken /\ pair.rt \in MaybeToken
  BY CredentialsAssumption DEF Pair, MaybeToken
<1>2. ~ HasToken(pair) => pair.rt = None
  BY DEF HasToken
<1> QED  BY <1>1, <1>2, RuntimeSets DEF Hydrated

\* What a provider answers to a refresh is the presented token's account's; a
\* new refresh token is its newest, and otherwise the presented one is kept.
LEMMA Grants ==
  ASSUME Typed, NEW tok \in Token, NEW rotates \in BOOLEAN
  PROVE  /\ Granted(tok, rotates).at \in Token
         /\ Granted(tok, rotates).rt \in MaybeToken
         /\ RefreshWithToken(tok, rotates).at \in Token
         /\ RefreshWithToken(tok, rotates).rt \in Token
         /\ RefreshWithToken(tok, rotates).at.owner = tok.owner
         /\ RefreshWithToken(tok, rotates).rt.owner = tok.owner
         /\ rotates => /\ RefreshWithToken(tok, rotates).rt.n = issued[tok.owner] + 1
                       /\ Granted(tok, rotates).rt = RefreshWithToken(tok, rotates).rt
         /\ ~ rotates => /\ RefreshWithToken(tok, rotates).rt = tok
                         /\ Granted(tok, rotates).rt = None
<1> DEFINE new == [owner |-> tok.owner, n |-> issued[tok.owner] + 1]
<1>1. /\ new \in Token /\ new # None
      /\ new.owner = tok.owner /\ new.n = issued[tok.owner] + 1
  BY NoneIsNone DEF Token, Typed, TypeOK
<1>2. Granted(tok, rotates) = [at |-> new, rt |-> IF rotates THEN new ELSE None]
  BY DEF Granted
<1> HIDE DEF new
<1>3. CASE rotates
  <2>1. RefreshWithToken(tok, rotates) = [at |-> new, rt |-> new]
    BY <1>1, <1>2, <1>3 DEF RefreshWithToken
  <2>2. Granted(tok, rotates).at = new /\ Granted(tok, rotates).rt = new
    BY <1>2, <1>3
  <2>3. RefreshWithToken(tok, rotates).at = new /\ RefreshWithToken(tok, rotates).rt = new
    BY <2>1
  <2> QED  BY <1>1, <1>3, <2>2, <2>3 DEF MaybeToken
<1>4. CASE ~ rotates
  <2>1. RefreshWithToken(tok, rotates) = [at |-> new, rt |-> tok]
    BY <1>1, <1>2, <1>4 DEF RefreshWithToken
  <2> QED  BY <1>1, <1>2, <1>4, <2>1 DEF MaybeToken
<1> QED  BY <1>3, <1>4

\* What a call's own refresh leaves in its provider's runtime.
TryRefreshed(p, r, tok, rotates) ==
    CASE p = "claude" -> claudeTryRefresh(r, tok, rotates)
      [] p = "codex"  -> codexTryRefresh(r, tok, rotates)
      [] OTHER        -> antigravityTryRefresh(r, tok, rotates)

LEMMA TryRefreshes ==
  ASSUME Typed, NEW tok \in Token, NEW rotates \in BOOLEAN, NEW p \in Providers,
         NEW r \in [at : MaybeToken, rt : MaybeToken]
  PROVE  /\ TryRefreshed(p, r, tok, rotates) \in [at : MaybeToken, rt : MaybeToken]
         /\ ~ rotates => TryRefreshed(p, r, tok, rotates).rt \in {r.rt, tok}
         /\ rotates => TryRefreshed(p, r, tok, rotates).rt.owner = tok.owner
<1> DEFINE new == RefreshWithToken(tok, rotates)
           got == Granted(tok, rotates)
<1>1. /\ got.at \in Token /\ got.rt \in MaybeToken /\ new.at \in Token /\ new.rt \in Token
      /\ ~ rotates => new.rt = tok /\ got.rt = None
      /\ rotates => new.rt.owner = tok.owner /\ got.rt = new.rt
  BY Grants
<1>2. new.rt # None /\ tok # None
  BY <1>1, NoneIsNone
<1>3. /\ claudeTryRefresh(r, tok, rotates) = claudeSetRuntime(r, got.at, got.rt)
      /\ codexTryRefresh(r, tok, rotates) = codexSetRuntime(r, got.at, got.rt)
      /\ antigravityTryRefresh(r, tok, rotates) = antigravitySetRuntime(r, new.at, new.rt)
  BY DEF claudeTryRefresh, codexTryRefresh, antigravityTryRefresh
<1> HIDE DEF new, got
<1>4. CASE p = "claude"
  BY <1>1, <1>2, <1>3, <1>4 DEF TryRefreshed, claudeSetRuntime, MaybeToken
<1>5. CASE p = "codex"
  BY <1>1, <1>2, <1>3, <1>5 DEF TryRefreshed, codexSetRuntime, MaybeToken
<1>6. CASE p = "antigravity"
  BY <1>1, <1>2, <1>3, <1>6 DEF TryRefreshed, antigravitySetRuntime, MaybeToken
<1> QED  BY <1>4, <1>5, <1>6 DEF Providers

-----------------------------------------------------------------------------
\* Jobs

JobTyped(j) ==
    /\ j \in Locals
    /\ j.pc \in {"idle", "next"} <=> j.acct = None
    /\ j.pc = "net" => j.tok \in Token

LEMMA IdleTyped ==
  /\ JobTyped(Idle) /\ Idle.acct = None /\ Idle.pc = "idle" /\ Idle.pair = Empty
  /\ \A a \in Accounts : Idle.snaps[a] = Empty
  BY Pairs DEF JobTyped, Idle, Locals, Pcs

LEMMA EndedTyped ==
  ASSUME NEW j, JobTyped(j)
  PROVE  /\ JobTyped(Ended(j)) /\ Ended(j).acct = None
         /\ \A a \in Accounts : Ended(j).snaps[a] \in {Empty, j.snaps[a]}
<1>1. CASE j.kind = "loop"
  BY <1>1, Pairs DEF Ended, JobTyped, Idle, Locals, Pcs
<1>2. CASE j.kind # "loop"
  BY <1>2, IdleTyped DEF Ended
<1> QED  BY <1>1, <1>2

\* All jobs are typed; a step that changes one job to a typed one, and the
\* places to typed ones, keeps the type.
LEMMA TypedJobs == Typed => \A k \in Jobs : JobTyped(job[k])
  BY DEF Typed, TypeOK, JobTyped

LEMMA TypedNext ==
  ASSUME Typed, NEW k \in Jobs, NEW j, JobTyped(j), job' = [job EXCEPT ![k] = j],
         exists' \in [Accounts -> BOOLEAN],
         row' \in [Accounts -> Pair \cup {None}], cache' \in [Accounts -> Pair],
         runtime' \in Runtimes, issued' \in [Accounts -> Nat],
         saved' \in [Accounts -> Cookies \cup {None}],
         leaked' \subseteq Accounts, spent' \subseteq Accounts,
         unchecked' \subseteq Accounts, contended' \subseteq Accounts,
         started' \in Nat, failures' \in Nat, restarts' \in Nat
  PROVE  Typed'
<1>1. job' \in [Jobs -> Locals] /\ \A l \in Jobs : JobTyped(job'[l])
  BY TypedJobs DEF Typed, JobTyped
<1>2. \A l \in Jobs : /\ job'[l].pc \in Pcs /\ job'[l].acct \in Accounts \cup {None}
                      /\ job'[l].pair \in Pair /\ job'[l].todo \subseteq Accounts
                      /\ job'[l].snaps \in [Accounts -> Pair]
                      /\ job'[l].pc = "net" => job'[l].tok \in Token
  BY <1>1 DEF JobTyped, Locals, Untokened
<1>3. TypeOK'
  BY <1>2 DEF TypeOK, Runtimes, MaybeToken
<1> QED  BY <1>1, <1>3 DEF Typed, JobTyped

\* Do changes the named variables of one job.
LEMMA DoTyped ==
  ASSUME Typed, NEW k \in Jobs, NEW kind \in {"none", "loop", "force", "call", "put"} \cup Readers,
         NEW pc \in Pcs \ {"idle", "next"}, NEW a \in Accounts, NEW tok \in MaybeToken,
         NEW pair \in Pair, pc = "net" => tok \in Token, Do(k, kind, pc, a, tok, pair)
  PROVE  \E j : /\ JobTyped(j) /\ job' = [job EXCEPT ![k] = j]
                /\ j.kind = kind /\ j.pc = pc /\ j.acct = a /\ j.tok = tok /\ j.pair = pair
                /\ j.snaps = job[k].snaps
<1> DEFINE j == [job[k] EXCEPT !.kind = kind, !.pc = pc, !.acct = a, !.tok = tok, !.pair = pair]
<1>1. job[k] \in Locals /\ a # None
  BY NoneIsNone DEF Typed
<1>2. /\ j \in Locals /\ j.kind = kind /\ j.pc = pc /\ j.acct = a /\ j.tok = tok
      /\ j.pair = pair /\ j.snaps = job[k].snaps
  BY <1>1 DEF Locals, MaybeToken
<1>3. job' = [job EXCEPT ![k] = j]
  BY DEF Do
<1> HIDE DEF j
<1> QED  BY <1>1, <1>2, <1>3 DEF JobTyped

-----------------------------------------------------------------------------
\* Steps of one job on one account

\* A step of job k on account a, or (a = None) on none: the other accounts and
\* the other jobs stay as they are, and the histories grow.
LocalStep(k, a) ==
    /\ \A l \in Jobs : l # k => job'[l] = job[l]
    /\ job[k].acct \in {a, None} /\ job'[k].acct \in {a, None}
    /\ \A b \in Accounts : b # a => /\ row'[b] = row[b] /\ cache'[b] = cache[b]
                                    /\ exists'[b] = exists[b] /\ saved'[b] = saved[b]
                                    /\ b \in unchecked => b \in unchecked'
    /\ \A b \in Accounts : exists'[b] => exists[b]
    /\ leaked \subseteq leaked' /\ spent \subseteq spent' /\ contended \subseteq contended'

\* What such a step may do to another account's newest token and to the
\* runtime that account shares.
NoHarm(b) ==
    /\ issued'[b] = issued[b]
    /\ LET rt == runtime'[Provider[b]].rt
       IN  \/ rt = runtime[Provider[b]].rt
           \/ rt = None \/ rt.owner # b \/ rt.n = issued'[b]

LEMMA SoundBefore ==
  ASSUME NEW k \in Jobs, NEW a \in Accounts \cup {None}, LocalStep(k, a),
         NEW b \in Accounts, Sound(b)'
  PROVE  Sound(b) /\ b \notin leaked /\ b \notin contended
  BY DEF LocalStep, Sound

LEMMA OthersFrame ==
  ASSUME NEW k \in Jobs, NEW a \in Accounts \cup {None}, LocalStep(k, a),
         NEW b \in Accounts, b # a
  PROVE  /\ RowOf(b)' = RowOf(b) /\ cache'[b] = cache[b] /\ row'[b] = row[b]
         /\ exists'[b] = exists[b] /\ saved'[b] = saved[b]
         /\ b \in unchecked => b \in unchecked'
         /\ ~ On(b, k) /\ ~ On(b, k)'
         /\ \A l \in Jobs : On(b, l)' <=> On(b, l)
         /\ \A l \in Jobs : On(b, l) => job'[l] = job[l]
<1>1. b # None
  BY NoneIsNone
<1> QED  BY <1>1 DEF LocalStep, On, RowOf

LEMMA OthersKept ==
  ASSUME Inv, NEW k \in Jobs, NEW a \in Accounts \cup {None}, LocalStep(k, a),
         NEW b \in Accounts, b # a
  PROVE  /\ b \notin leaked' => OwnFor(b)'
         /\ b \notin contended' => GoneFor(b)' /\ CookieFor(b)'
         /\ Sound(b)' /\ NoHarm(b) => FreshFor(b)'
<1>0. /\ RowOf(b)' = RowOf(b) /\ cache'[b] = cache[b] /\ row'[b] = row[b]
      /\ exists'[b] = exists[b] /\ saved'[b] = saved[b]
      /\ b \in unchecked => b \in unchecked'
      /\ \A l \in Jobs : On(b, l)' <=> On(b, l)
      /\ \A l \in Jobs : On(b, l) => job'[l] = job[l]
  BY OthersFrame
<1>1. b \notin leaked' => b \notin leaked
  BY DEF LocalStep
<1>2. b \notin contended' => b \notin contended
  BY DEF LocalStep
<1>3. ASSUME b \notin leaked' PROVE OwnFor(b)'
  <2>1. OwnFor(b)
    BY <1>1, <1>3 DEF Inv, OwnInv
  <2> QED  BY <1>0, <2>1 DEF OwnFor, OwnedBy
<1>4. ASSUME b \notin contended' PROVE GoneFor(b)'
  <2>1. GoneFor(b)
    BY <1>2, <1>4 DEF Inv, GoneInv
  <2> QED  BY <1>0, <2>1 DEF GoneFor
<1>5. ASSUME b \notin contended' PROVE CookieFor(b)'
  <2>1. CookieFor(b)
    BY <1>2, <1>5 DEF Inv, CookieInv
  <2> QED  BY <1>0, <2>1 DEF CookieFor
<1>6. ASSUME Sound(b)', NoHarm(b) PROVE FreshFor(b)'
  <2>1. FreshFor(b) /\ OwnFor(b)
    BY <1>6, SoundBefore DEF Inv, FreshInv, OwnInv
  <2>2. issued'[b] = issued[b]
    BY <1>6 DEF NoHarm
  <2>3. Fresh(RowOf(b).rt) => Fresh(RowOf(b).rt)'
    BY <1>0, <2>1, <2>2 DEF Fresh, Accepts, OwnFor, OwnedBy
  <2>4. Fresh(cache[b].rt) => Fresh(cache[b].rt)'
    BY <1>0, <2>1, <2>2 DEF Fresh, Accepts, OwnFor, OwnedBy
  <2>5. RuntimeFresh(b) => RuntimeFresh(b)'
    BY <1>6, <2>2 DEF RuntimeFresh, Accepts, NoHarm
  <2>6. \A pcs : Storing(b, pcs) => Storing(b, pcs)'
    BY <1>0 DEF Storing
  <2>7. Hydrating(b) => Hydrating(b)'
    BY <1>0 DEF Hydrating
  <2>8. ASSUME NEW l \in Jobs, On(b, l)'
        PROVE  /\ job'[l].pc \in {"store", "persist"} =>
                     job'[l].pair.rt # None /\ Accepts(job[l].pair.rt)'
               /\ job'[l].pc = "cache" => job'[l].pair.rt = RowOf(b).rt'
    <3>1. On(b, l) /\ job'[l] = job[l] /\ OwnedBy(b, job[l].pair)
      BY <1>0, <2>1, <2>8 DEF OwnFor
    <3>2. job[l].pc \in {"store", "persist"} =>
             job[l].pair.rt # None /\ Accepts(job[l].pair.rt)
      BY <2>1, <3>1 DEF FreshFor
    <3>3. job[l].pc = "cache" => job[l].pair.rt = RowOf(b).rt
      BY <2>1, <3>1 DEF FreshFor
    <3> QED  BY <1>0, <2>2, <3>1, <3>2, <3>3 DEF Accepts, OwnedBy
  <2> QED  BY <2>1, <2>3, <2>4, <2>5, <2>6, <2>7, <2>8 DEF FreshFor
<1> QED  BY <1>3, <1>4, <1>5, <1>6

\* The invariant after a step on one account, from what it is for that account.
LEMMA LocalInv ==
  ASSUME Inv, NEW k \in Jobs, NEW a \in Accounts, LocalStep(k, a), Typed', AloneInv',
         a \notin leaked' => OwnFor(a)',
         a \notin contended' => GoneFor(a)' /\ CookieFor(a)',
         Sound(a)' => FreshFor(a)',
         \A b \in Accounts : b # a /\ Sound(b)' => NoHarm(b)
  PROVE  Inv'
<1>1. \A b \in Accounts : b \notin leaked' => OwnFor(b)'
  BY OthersKept
<1>2. \A b \in Accounts : b \notin contended' => GoneFor(b)' /\ CookieFor(b)'
  BY OthersKept
<1>3. \A b \in Accounts : Sound(b)' => FreshFor(b)'
  BY OthersKept
<1> QED  BY <1>1, <1>2, <1>3 DEF Inv, OwnInv, GoneInv, CookieInv, FreshInv

\* The same for a step on no account.
LEMMA NoAccountInv ==
  ASSUME Inv, NEW k \in Jobs, LocalStep(k, None), Typed', AloneInv',
         \A b \in Accounts : NoHarm(b)
  PROVE  Inv'
<1>0. \A b \in Accounts : b # None
  BY NoneIsNone
<1>1. \A b \in Accounts : b \notin leaked' => OwnFor(b)'
  BY <1>0, OthersKept
<1>2. \A b \in Accounts : b \notin contended' => GoneFor(b)' /\ CookieFor(b)'
  BY <1>0, OthersKept
<1>3. \A b \in Accounts : Sound(b)' => FreshFor(b)'
  BY <1>0, OthersKept
<1> QED  BY <1>1, <1>2, <1>3 DEF Inv, OwnInv, GoneInv, CookieInv, FreshInv

-----------------------------------------------------------------------------
\* Jobs that work alone

\* Watch puts every account with two jobs into contended.
LEMMA Watched ==
  ASSUME Typed', Watch
  PROVE  AloneInv'
<1> SUFFICES ASSUME NEW a \in Accounts, a \notin contended',
                    NEW l \in Jobs, NEW m \in Jobs,
                    job'[l].acct = a, job'[m].acct = a, l # m
             PROVE  FALSE
  BY DEF AloneInv, AloneFor, On
<1> DEFINE S == WorkedOn(a, job')
<1>1. a # None
  BY NoneIsNone
<1>2. l \in S /\ m \in S /\ S \subseteq Jobs
  BY <1>1 DEF WorkedOn, Typed
<1>3. IsFiniteSet(S) /\ Cardinality(S) \in Nat
  BY <1>2, FS_Subset, FS_CardinalityType, CredentialsAssumption
<1>4. IsFiniteSet({l}) /\ Cardinality({l}) = 1
  BY FS_Singleton
<1>5. Cardinality({l} \cup {m}) = 2
  <2>1. m \notin {l}
    OBVIOUS
  <2>2. Cardinality({l} \cup {m}) = IF m \in {l} THEN Cardinality({l})
                                               ELSE Cardinality({l}) + 1
    BY <1>4, FS_AddElement
  <2> QED  BY <1>4, <2>1, <2>2
<1>6. Cardinality({l} \cup {m}) <= Cardinality(S)
  <2>1. {l} \cup {m} \subseteq S
    BY <1>2
  <2> QED  BY <1>3, <2>1, FS_Subset
<1>7. Cardinality(S) > 1
  BY <1>3, <1>5, <1>6
<1> HIDE DEF S
<1> QED  BY <1>7 DEF Watch, S

\* A job that keeps or leaves its account does not come into another's way.
LEMMA AloneKept ==
  ASSUME Inv, NEW k \in Jobs, NEW a \in Accounts \cup {None}, LocalStep(k, a),
         job'[k].acct \in {job[k].acct, None}
  PROVE  AloneInv'
<1>1. \A b \in Accounts, l \in Jobs : On(b, l)' => On(b, l)
  BY NoneIsNone DEF LocalStep, On
<1>2. \A b \in Accounts : b \notin contended' => b \notin contended
  BY DEF LocalStep
<1>3. \A b \in Accounts : b \notin contended => AloneFor(b)
  BY DEF Inv, AloneInv
<1> QED  BY <1>1, <1>2, <1>3 DEF AloneInv, AloneFor

\* A job that begins with an account that stays out of contended finds no
\* other job on it ...
LEMMA Begins ==
  ASSUME NEW k \in Jobs, NEW a \in Accounts, LocalStep(k, a), AloneInv',
         a \notin contended', job[k].acct = None, job'[k].acct = a
  PROVE  \A l \in Jobs : ~ On(a, l) /\ (On(a, l)' <=> l = k)
<1>1. a # None
  BY NoneIsNone
<1>2. On(a, k)' /\ AloneFor(a)'
  BY DEF On, AloneInv
<1>3. \A l \in Jobs : On(a, l)' => l = k
  BY <1>2 DEF AloneFor
<1>4. \A l \in Jobs : l # k => (On(a, l) <=> On(a, l)')
  BY DEF LocalStep, On
<1> QED  BY <1>1, <1>2, <1>3, <1>4 DEF On

\* ... and one that goes on with it is alone.
LEMMA GoesOn ==
  ASSUME Inv, NEW k \in Jobs, NEW a \in Accounts, LocalStep(k, a),
         a \notin contended', job[k].acct = a
  PROVE  \A l \in Jobs : /\ On(a, l) <=> l = k
                         /\ On(a, l)' <=> l = k /\ job'[k].acct = a
<1>1. AloneFor(a)
  BY DEF Inv, AloneInv, LocalStep
<1>2. \A l \in Jobs : On(a, l) <=> l = k
  BY <1>1 DEF AloneFor, On
<1>3. \A l \in Jobs : l # k => (On(a, l) <=> On(a, l)')
  BY DEF LocalStep, On
<1> QED  BY <1>2, <1>3 DEF On

-----------------------------------------------------------------------------
\* Accounts whose tokens, or whose cookie, no job is changing

LEMMA Places ==
  Typed => /\ exists \in [Accounts -> BOOLEAN]
           /\ row \in [Accounts -> Pair \cup {None}] /\ cache \in [Accounts -> Pair]
           /\ runtime \in Runtimes /\ issued \in [Accounts -> Nat]
           /\ saved \in [Accounts -> Cookies \cup {None}] /\ job \in [Jobs -> Locals]
           /\ leaked \subseteq Accounts /\ spent \subseteq Accounts
           /\ unchecked \subseteq Accounts /\ contended \subseteq Accounts
           /\ started \in Nat /\ failures \in Nat /\ restarts \in Nat
  BY DEF Typed, TypeOK, Runtimes, MaybeToken

LEMMA IdleHasNone ==
  ASSUME Typed, NEW k \in Jobs
  PROVE  /\ job[k].pc \in {"idle", "next"} <=> job[k].acct = None
         /\ job[k] \in Locals /\ JobTyped(job[k])
         /\ job[k].acct \in Accounts \cup {None}
  BY TypedJobs DEF Typed, Locals

Calm(a) ==
    \A l \in Jobs : On(a, l) => job[l].pc \in {"net", "hydrated", "take", "write", "verify"}

LEMMA CalmFacts ==
  ASSUME Inv, NEW a \in Accounts, Sound(a), Calm(a)
  PROVE  /\ Fresh(RowOf(a).rt) /\ Fresh(cache[a].rt) /\ RuntimeFresh(a)
         /\ a \notin leaked /\ a \notin contended /\ a \notin spent
         /\ OwnFor(a)
<1>1. FreshFor(a) /\ a \notin leaked /\ a \notin contended /\ a \notin spent
  BY DEF Inv, FreshInv, Sound
<1>2. OwnFor(a)
  BY <1>1 DEF Inv, OwnInv
<1>3. \A pcs \in {{"store"}, {"store", "persist"}, {"store", "cache"}} : ~ Storing(a, pcs)
  BY DEF Calm, Storing
<1>4. ~ Hydrating(a)
  BY DEF Calm, Hydrating
<1> QED  BY <1>1, <1>2, <1>3, <1>4 DEF FreshFor

\* A step that leaves the refresh tokens of a calm account alone.
LEMMA FreshAfter ==
  ASSUME Inv, NEW k \in Jobs, NEW a \in Accounts, LocalStep(k, a), Sound(a)', Calm(a),
         RowOf(a).rt' = RowOf(a).rt, cache'[a].rt = cache[a].rt,
         runtime' = runtime \/ RuntimeFresh(a)', issued'[a] = issued[a],
         \A l \in Jobs : On(a, l)' =>
            /\ job'[l].pc \notin {"store", "persist"}
            /\ job'[l].pc = "cache" => job'[l].pair.rt = RowOf(a).rt
  PROVE  FreshFor(a)'
<1>1. Sound(a)
  BY SoundBefore
<1>2. /\ Fresh(RowOf(a).rt) /\ Fresh(cache[a].rt) /\ RuntimeFresh(a) /\ OwnFor(a)
  BY <1>1, CalmFacts
<1>3. Fresh(RowOf(a).rt)' /\ Fresh(cache[a].rt)'
  BY <1>2 DEF Fresh, Accepts, OwnFor, OwnedBy
<1>4. RuntimeFresh(a)'
  BY <1>2 DEF RuntimeFresh, Accepts
<1> QED  BY <1>3, <1>4 DEF FreshFor

LEMMA CookieAfter ==
  ASSUME Inv, NEW k \in Jobs, NEW a \in Accounts, LocalStep(k, a), a \notin contended',
         \A l \in Jobs : On(a, l) => job[l].pc # "verify",
         RowOf(a).cookie' = RowOf(a).cookie, RowOf(a).ident' = RowOf(a).ident,
         saved'[a] = saved[a], a \in unchecked => a \in unchecked',
         \A l \in Jobs : On(a, l)' =>
            /\ job'[l].pc \in {"write", "verify"} => job'[l].pair.cookie = RowOf(a).cookie
            /\ job'[l].pc = "write" => job'[l].pair.ident = RowOf(a).ident
  PROVE  CookieFor(a)'
<1>1. CookieFor(a)
  BY DEF Inv, CookieInv, LocalStep
<1> QED  BY <1>1 DEF CookieFor

LEMMA NoHarmKept ==
  ASSUME UNCHANGED <<runtime, issued>>, NEW b \in Accounts PROVE NoHarm(b)
  BY DEF NoHarm

-----------------------------------------------------------------------------
\* The refresh loop and refreshes on demand

LEMMA StartRoundInv ==
  ASSUME Inv, NEW k \in Jobs, StartRound(k) PROVE Inv'
<1> DEFINE snaps == [a \in Accounts |-> IF cache[a].rt # None THEN Extra(cache[a]) ELSE Empty]
           j == [job[k] EXCEPT !.kind = "loop", !.pc = "next",
                               !.todo = {a \in Accounts : cache[a].rt # None},
                               !.snaps = snaps]
<1>1. /\ job[k].pc = "idle" /\ started' = started + 1 /\ job' = [job EXCEPT ![k] = j]
      /\ UNCHANGED <<exists, row, cache, runtime, issued, failures, restarts,
                     saved, leaked, spent, unchecked, contended>>
  BY DEF StartRound, Begin, history
<1>2. Typed /\ job[k].acct = None /\ job[k] \in Locals
  BY <1>1, IdleHasNone DEF Inv
<1>3. snaps \in [Accounts -> Untokened]
  BY <1>2, Places, Pairs
<1> HIDE DEF snaps
<1>4. JobTyped(j) /\ j.acct = None
  BY <1>2, <1>3 DEF JobTyped, Locals, Pcs
<1> HIDE DEF j
<1>5. Typed'
  <2>1. /\ exists' \in [Accounts -> BOOLEAN]
        /\ row' \in [Accounts -> Pair \cup {None}] /\ cache' \in [Accounts -> Pair]
        /\ runtime' \in Runtimes /\ issued' \in [Accounts -> Nat]
        /\ saved' \in [Accounts -> Cookies \cup {None}]
        /\ leaked' \subseteq Accounts /\ spent' \subseteq Accounts
        /\ unchecked' \subseteq Accounts /\ contended' \subseteq Accounts
        /\ started' \in Nat /\ failures' \in Nat /\ restarts' \in Nat
    BY <1>1, <1>2, Places
  <2> QED  BY <1>1, <1>2, <1>4, <2>1, TypedNext
<1>6. job'[k] = j /\ \A l \in Jobs : l # k => job'[l] = job[l]
  BY <1>1, <1>2, Places
<1>7. LocalStep(k, None)
  BY <1>1, <1>2, <1>4, <1>6 DEF LocalStep
<1>8. AloneInv'
  BY <1>2, <1>4, <1>6, <1>7, AloneKept
<1> QED  BY <1>1, <1>5, <1>7, <1>8, NoHarmKept, NoAccountInv

LEMMA EndRoundInv ==
  ASSUME Inv, NEW k \in Jobs, EndRound(k) PROVE Inv'
<1>1. /\ job[k].pc = "next" /\ job' = [job EXCEPT ![k] = Idle]
      /\ UNCHANGED <<exists, row, cache, runtime, issued, started, failures, restarts,
                     saved, leaked, spent, unchecked, contended>>
  BY DEF EndRound, history, counts
<1>2. Typed /\ job[k].acct = None
  BY <1>1, IdleHasNone DEF Inv
<1>3. Typed'
  BY <1>1, <1>2, IdleTyped, Places, TypedNext
<1>4. job'[k] = Idle /\ \A l \in Jobs : l # k => job'[l] = job[l]
  BY <1>1, <1>2, Places
<1>5. LocalStep(k, None)
  BY <1>1, <1>2, <1>4, IdleTyped DEF LocalStep
<1>6. AloneInv'
  BY <1>2, <1>4, <1>5, IdleTyped, AloneKept
<1> QED  BY <1>1, <1>3, <1>5, <1>6, NoHarmKept, NoAccountInv

\* A job that begins to refresh an account with the cache entry's token.
LEMMA RefreshBegins ==
  ASSUME Inv, NEW k \in Jobs, NEW a \in Accounts, job[k].acct = None,
         NEW j, JobTyped(j), job' = [job EXCEPT ![k] = j],
         j.acct = a, j.pc = "net", j.tok = cache[a].rt, j.tok # None,
         j.pair \in Untokened,
         exists[a], Watch, started' \in Nat,
         UNCHANGED <<exists, row, cache, runtime, issued, failures, restarts,
                     saved, leaked, spent, unchecked>>
  PROVE  Inv'
<1>1. Typed
  BY DEF Inv
<1>2. contended \subseteq contended' /\ contended' \subseteq Accounts
  BY <1>1, Places DEF Watch
<1>3. Typed'
  BY <1>1, <1>2, Places, TypedNext
<1>4. job'[k] = j /\ \A l \in Jobs : l # k => job'[l] = job[l]
  BY <1>1, Places
<1>5. LocalStep(k, a)
  BY <1>2, <1>4 DEF LocalStep
<1>6. AloneInv'
  BY <1>3, Watched
<1>7. RowOf(a)' = RowOf(a)
  BY DEF RowOf
<1>8. ASSUME a \notin leaked' PROVE OwnFor(a)'
  <2>1. OwnFor(a)
    BY <1>8 DEF Inv, OwnInv
  <2>2. OwnedBy(a, j.pair) /\ j.tok.owner = a
    BY <2>1 DEF OwnFor, OwnedBy, Untokened
  <2> QED  BY <1>4, <1>7, <2>1, <2>2 DEF OwnFor, OwnedBy, On
<1>9. ASSUME a \notin contended' PROVE GoneFor(a)' /\ CookieFor(a)'
  <2>1. \A l \in Jobs : ~ On(a, l) /\ (On(a, l)' <=> l = k)
    BY <1>4, <1>5, <1>6, <1>9, Begins
  <2> QED  BY <1>4, <1>5, <1>7, <1>9, <2>1, CookieAfter DEF GoneFor
<1>10. ASSUME Sound(a)' PROVE FreshFor(a)'
  <2>0. a \notin contended'
    BY <1>10 DEF Sound
  <2>1. \A l \in Jobs : ~ On(a, l) /\ (On(a, l)' <=> l = k)
    BY <1>4, <1>5, <1>6, <2>0, Begins
  <2>2. Calm(a)
    BY <2>1 DEF Calm
  <2> QED  BY <1>4, <1>5, <1>7, <1>10, <2>1, <2>2, FreshAfter
<1> QED  BY <1>3, <1>5, <1>6, <1>8, <1>9, <1>10, NoHarmKept, LocalInv

LEMMA TakesUp ==
  ASSUME NEW j, JobTyped(j), j.pc = "next", NEW a \in Accounts
  PROVE  JobTyped(TakenUp(j, a)) /\ TakenUp(j, a).acct = None
<1> DEFINE snaps == [j.snaps EXCEPT ![a] = Empty]
           i == [j EXCEPT !.todo = j.todo \ {a}, !.snaps = snaps]
<1>1. j \in Locals /\ j.acct = None /\ Empty \in Untokened
  BY Pairs DEF JobTyped
<1>2. snaps \in [Accounts -> Untokened] /\ j.todo \ {a} \in SUBSET Accounts
  BY <1>1 DEF Locals
<1>3. TakenUp(j, a) = i
  BY <1>1 DEF TakenUp, Locals
<1> HIDE DEF snaps
<1>4. i \in Locals /\ i.acct = None /\ i.pc = "next"
  BY <1>1, <1>2 DEF Locals
<1> HIDE DEF i
<1> QED  BY <1>3, <1>4 DEF JobTyped

LEMMA NextAccountInv ==
  ASSUME Inv, NEW k \in Jobs, NEW a \in Accounts, NextAccount(k, a) PROVE Inv'
<1>1. /\ job[k].pc = "next" /\ Watch
      /\ UNCHANGED <<exists, row, cache, runtime, issued, started, failures, restarts,
                     saved, leaked, spent, unchecked>>
  BY DEF NextAccount, counts
<1>2. /\ Typed /\ job[k].acct = None /\ job[k] \in Locals /\ JobTyped(job[k])
      /\ Empty \in Untokened
  BY <1>1, IdleHasNone, Pairs DEF Inv
<1>3. ASSUME job' = [job EXCEPT ![k] = TakenUp(job[k], a)] PROVE Inv'
  <2> DEFINE j == TakenUp(job[k], a)
  <2>1. JobTyped(j) /\ j.acct = None /\ job' = [job EXCEPT ![k] = j]
    BY <1>1, <1>2, <1>3, TakesUp
  <2> HIDE DEF j
  <2>2. contended \subseteq contended' /\ contended' \subseteq Accounts
    BY <1>1, <1>2, Places DEF Watch
  <2>3. Typed'
    BY <1>1, <1>2, <2>1, <2>2, Places, TypedNext
  <2>4. job'[k] = j /\ \A l \in Jobs : l # k => job'[l] = job[l]
    BY <1>2, <2>1, Places
  <2>5. LocalStep(k, None)
    BY <1>1, <1>2, <2>1, <2>2, <2>4 DEF LocalStep
  <2>6. AloneInv'
    BY <1>1, <2>3, Watched
  <2> QED  BY <1>1, <2>3, <2>5, <2>6, NoHarmKept, NoAccountInv
<1>4. ASSUME exists[a], cache[a].rt # None,
             job' = [job EXCEPT ![k] =
                [TakenUp(job[k], a) EXCEPT !.pc = "net", !.acct = a, !.tok = cache[a].rt,
                                           !.pair = job[k].snaps[a]]]
      PROVE  Inv'
  <2> DEFINE i == TakenUp(job[k], a)
             j == [i EXCEPT !.pc = "net", !.acct = a, !.tok = cache[a].rt,
                            !.pair = job[k].snaps[a]]
  <2>1. cache[a].rt \in Token /\ job[k].snaps[a] \in Untokened /\ a # None
    BY <1>2, <1>4, Places, NoneIsNone DEF Pair, Locals
  <2>2. i \in Locals /\ job' = [job EXCEPT ![k] = j]
    BY <1>1, <1>2, <1>4, TakesUp DEF JobTyped
  <2> HIDE DEF i
  <2>3. /\ j \in Locals /\ j.acct = a /\ j.pc = "net" /\ j.tok = cache[a].rt
        /\ j.pair = job[k].snaps[a]
    BY <2>1, <2>2 DEF Locals, Pcs, Untokened
  <2> HIDE DEF j
  <2>4. JobTyped(j)
    BY <2>1, <2>3 DEF JobTyped
  <2>5. started' \in Nat
    BY <1>1, <1>2, Places
  <2> QED  BY <1>1, <1>2, <1>4, <2>1, <2>2, <2>3, <2>4, <2>5, RefreshBegins
<1>5. \/ job' = [job EXCEPT ![k] = TakenUp(job[k], a)]
      \/ /\ exists[a] /\ cache[a].rt # None
         /\ job' = [job EXCEPT ![k] =
                [TakenUp(job[k], a) EXCEPT !.pc = "net", !.acct = a, !.tok = cache[a].rt,
                                           !.pair = job[k].snaps[a]]]
  BY <1>2, Places DEF NextAccount
<1> QED  BY <1>3, <1>4, <1>5

LEMMA ForceRefreshInv ==
  ASSUME Inv, NEW k \in Jobs, NEW a \in Accounts, ForceRefreshAccount(k, a) PROVE Inv'
<1>1. /\ job[k].pc = "idle" /\ started' = started + 1 /\ exists[a] /\ cache[a].rt # None
      /\ Do(k, "force", "net", a, cache[a].rt, Empty) /\ Watch
      /\ UNCHANGED <<exists, row, cache, runtime, issued, failures, restarts,
                     saved, leaked, spent, unchecked>>
  BY DEF ForceRefreshAccount, Begin
<1>2. Typed /\ job[k].acct = None /\ started' \in Nat /\ cache[a].rt \in Token
  BY <1>1, IdleHasNone, Places DEF Inv, Pair
<1>3. PICK j : /\ JobTyped(j) /\ job' = [job EXCEPT ![k] = j] /\ j.kind = "force"
               /\ j.pc = "net" /\ j.acct = a /\ j.tok = cache[a].rt /\ j.pair = Empty
  BY <1>1, <1>2, Pairs, DoTyped DEF Pcs, MaybeToken
<1> QED  BY <1>1, <1>2, <1>3, Pairs, RefreshBegins

-----------------------------------------------------------------------------
\* What every step of one job has to show

PlacesTyped ==
    /\ exists \in [Accounts -> BOOLEAN]
    /\ row \in [Accounts -> Pair \cup {None}] /\ cache \in [Accounts -> Pair]
    /\ runtime \in Runtimes /\ issued \in [Accounts -> Nat]
    /\ saved \in [Accounts -> Cookies \cup {None}]
    /\ leaked \subseteq Accounts /\ spent \subseteq Accounts /\ unchecked \subseteq Accounts
    /\ started \in Nat /\ failures \in Nat /\ restarts \in Nat

Elsewhere(a) ==
    /\ \A b \in Accounts : b # a => /\ row'[b] = row[b] /\ cache'[b] = cache[b]
                                    /\ exists'[b] = exists[b] /\ saved'[b] = saved[b]
                                    /\ b \in unchecked => b \in unchecked'
    /\ \A b \in Accounts : exists'[b] => exists[b]
    /\ leaked \subseteq leaked' /\ spent \subseteq spent'

\* The part of the invariant that is the same for every step: the job of the
\* step is replaced, and it is watched or keeps or leaves its account.
LEMMA StepFrame ==
  ASSUME Inv, NEW k \in Jobs, NEW a \in Accounts,
         NEW j, JobTyped(j), job' = [job EXCEPT ![k] = j],
         job[k].acct \in {a, None}, j.acct \in {a, None}, PlacesTyped', Elsewhere(a),
         Watch \/ (contended' = contended /\ j.acct \in {job[k].acct, None})
  PROVE  /\ Typed' /\ LocalStep(k, a) /\ AloneInv'
         /\ job'[k] = j /\ \A l \in Jobs : l # k => job'[l] = job[l]
<1>1. Typed
  BY DEF Inv
<1>2. contended \subseteq contended' /\ contended' \subseteq Accounts
  BY <1>1, Places DEF Watch
<1>3. Typed'
  BY <1>1, <1>2, TypedNext DEF PlacesTyped
<1>4. job'[k] = j /\ \A l \in Jobs : l # k => job'[l] = job[l]
  BY <1>1, Places
<1>5. LocalStep(k, a)
  BY <1>2, <1>4 DEF LocalStep, Elsewhere
<1>6. AloneInv'
  BY <1>3, <1>4, <1>5, Watched, AloneKept
<1> QED  BY <1>3, <1>4, <1>5, <1>6

\* A job at work is on an account; a job that begins is on none.
LEMMA AtWork ==
  ASSUME Inv, NEW k \in Jobs
  PROVE  /\ job[k].pc \notin {"idle", "next"} => job[k].acct \in Accounts
         /\ job[k].pc = "idle" => job[k].acct = None
         /\ job[k] \in Locals /\ JobTyped(job[k]) /\ PlacesTyped /\ Typed
<1>1. Typed
  BY DEF Inv
<1> QED  BY <1>1, Places, IdleHasNone DEF PlacesTyped

-----------------------------------------------------------------------------
\* A refresh is answered, fails, is stored, and is written to the row

LEMMA RefreshAnswersInv ==
  ASSUME Inv, NEW k \in Jobs, RefreshAnswers(k) PROVE Inv'
<1>0. PICK a, tok, p : a = job[k].acct /\ tok = job[k].tok /\ p = Provider[a]
  OBVIOUS
<1>1. PICK rotates, new :
        /\ rotates \in Rotations
        /\ new = RefreshWithToken(tok, rotates)
        /\ job[k].pc = "net" /\ job[k].kind \in {"loop", "force"} /\ Accepts(tok)
        /\ Rotated(tok, rotates)
        /\ job' = [job EXCEPT ![k] =
              [job[k] EXCEPT !.pc = "store", !.tok = None,
                             !.pair.at = new.at, !.pair.rt = new.rt]]
        /\ runtime' = IF p = "antigravity" THEN runtime
                      ELSE RuntimeSet(runtime, p, new.at, new.rt)
        /\ spent' = IF rotates THEN spent \cup ({tok.owner} \ {a}) ELSE spent
        /\ UNCHANGED <<exists, row, cache, started, failures, restarts,
                       saved, leaked, unchecked, contended>>
  BY <1>0, AtWork, Places DEF RefreshAnswers, counts
<1>j. PICK pair, j : /\ pair = [job[k].pair EXCEPT !.at = new.at, !.rt = new.rt]
                     /\ j = [job[k] EXCEPT !.pc = "store", !.tok = None, !.pair = pair]
  OBVIOUS
<1>2. /\ a \in Accounts /\ job[k] \in Locals /\ JobTyped(job[k]) /\ PlacesTyped /\ Typed
      /\ tok \in Token /\ rotates \in BOOLEAN /\ p \in Providers
  BY <1>0, <1>1, AtWork, CredentialsAssumption DEF JobTyped
<1>3. /\ new.at \in Token /\ new.rt \in Token
      /\ new.at.owner = tok.owner /\ new.rt.owner = tok.owner
      /\ new.at # None /\ new.rt # None
      /\ rotates => new.rt.n = issued[tok.owner] + 1
      /\ ~ rotates => new.rt = tok
  BY <1>1, <1>2, Grants, NoneIsNone
<1>4. /\ tok.owner \in Accounts /\ tok.n = issued[tok.owner]
      /\ issued' = IF rotates THEN [issued EXCEPT ![tok.owner] = @ + 1] ELSE issued
  BY <1>1, <1>2 DEF Token, Accepts, Rotated
<1>5. job' = [job EXCEPT ![k] = j]
  BY <1>1, <1>2, <1>j DEF Locals, Pair
<1>6. pair \in Pair /\ pair.at = new.at /\ pair.rt = new.rt
  BY <1>2, <1>3, <1>j DEF Locals, Pair
<1>7. /\ j \in Locals /\ j.pc = "store" /\ j.pair = pair /\ j.acct = a /\ j.kind = job[k].kind
      /\ a # None
  BY <1>0, <1>2, <1>6, <1>j, NoneIsNone DEF Locals, Pcs
<1>8. JobTyped(j)
  BY <1>7 DEF JobTyped
<1>9. /\ runtime' \in Runtimes /\ issued' \in [Accounts -> Nat]
      /\ \A q \in Providers : q # p \/ p = "antigravity" => runtime'[q] = runtime[q]
      /\ p # "antigravity" => runtime'[p].rt = new.rt
  <2>1. new.at \in MaybeToken /\ new.rt \in MaybeToken
    BY <1>3 DEF MaybeToken
  <2>2. issued' \in [Accounts -> Nat]
    BY <1>2, <1>4 DEF PlacesTyped
  <2>3. CASE p = "antigravity"
    BY <1>1, <1>2, <2>2, <2>3 DEF PlacesTyped
  <2>4. CASE p # "antigravity"
    BY <1>1, <1>2, <1>3, <2>1, <2>2, <2>4, RuntimeSets DEF PlacesTyped
  <2> QED  BY <2>3, <2>4
<1>10. PlacesTyped' /\ Elsewhere(a)
  BY <1>1, <1>2, <1>4, <1>9 DEF PlacesTyped, Elsewhere
<1>11. /\ Typed' /\ LocalStep(k, a) /\ AloneInv'
       /\ job'[k] = j /\ \A l \in Jobs : l # k => job'[l] = job[l]
  <2>1. contended' = contended /\ j.acct = job[k].acct
    BY <1>0, <1>1, <1>7
  <2> QED  BY <1>0, <1>2, <1>5, <1>7, <1>8, <1>10, <2>1, StepFrame
<1>12. RowOf(a)' = RowOf(a) /\ cache' = cache
  BY <1>1 DEF RowOf
<1>13. ASSUME a \notin leaked' PROVE OwnFor(a)' /\ tok.owner = a
  <2>1. OwnFor(a)
    BY <1>1, <1>2, <1>13 DEF Inv, OwnInv
  <2>2. tok.owner = a
    BY <1>0, <1>1, <2>1 DEF OwnFor, On
  <2>3. OwnedBy(a, j.pair)
    BY <1>3, <1>6, <1>7, <2>2 DEF OwnedBy
  <2> QED  BY <1>0, <1>7, <1>11, <1>12, <2>1, <2>2, <2>3 DEF OwnFor, OwnedBy, On
<1>14. ASSUME a \notin contended' PROVE GoneFor(a)' /\ CookieFor(a)'
  <2>1. GoneFor(a) /\ exists[a]
    BY <1>0, <1>1, <1>2, <1>14 DEF Inv, GoneInv, GoneFor, On
  <2>2. \A l \in Jobs : /\ On(a, l) <=> l = k
                        /\ On(a, l)' <=> l = k /\ job'[k].acct = a
    BY <1>0, <1>2, <1>11, <1>14, GoesOn
  <2>3. CookieFor(a)'
    BY <1>1, <1>2, <1>7, <1>11, <1>12, <1>14, <2>2, CookieAfter
  <2> QED  BY <1>1, <2>1, <2>3 DEF GoneFor
<1>15. ASSUME Sound(a)' PROVE FreshFor(a)'
  <2>1. Sound(a) /\ a \notin leaked /\ a \notin contended /\ a \notin contended'
    BY <1>1, <1>2, <1>11, <1>15, SoundBefore
  <2>2. tok.owner = a
    BY <1>1, <1>13, <2>1
  <2>3. \A l \in Jobs : On(a, l)' <=> l = k
    BY <1>0, <1>2, <1>7, <1>11, <2>1, GoesOn
  <2>4. j.pair.rt # None /\ Accepts(j.pair.rt)'
    <3>1. j.pair.rt = new.rt /\ j.pair.rt.owner = a
      BY <1>3, <1>6, <1>7, <2>2
    <3>2. new.rt.n = issued'[a]
      BY <1>2, <1>3, <1>4, <2>2 DEF PlacesTyped
    <3>3. Accepts(j.pair.rt)' <=> j.pair.rt.n = issued'[j.pair.rt.owner]
      BY <1>11 DEF Accepts
    <3> QED  BY <1>3, <3>1, <3>2, <3>3
  <2>5. /\ Storing(a, {"store", "persist"})' /\ Storing(a, {"store", "cache"})'
        /\ Storing(a, {"store"})'
    <3>1. On(a, k)' /\ job'[k].pc = "store"
      BY <1>7, <1>11, <2>3
    <3> QED  BY <3>1 DEF Storing
  <2>6. \A l \in Jobs : On(a, l)' =>
           /\ job'[l].pair.rt # None /\ Accepts(job[l].pair.rt)'
           /\ job'[l].pc # "cache"
    BY <1>7, <1>11, <2>3, <2>4 DEF Accepts
  <2> QED  BY <2>5, <2>6 DEF FreshFor
<1>16. ASSUME NEW b \in Accounts, b # a, Sound(b)' PROVE NoHarm(b)
  <2>1. rotates => tok.owner # b
    BY <1>1, <1>16 DEF Sound
  <2>2. issued'[b] = issued[b]
    BY <1>2, <1>4, <2>1 DEF PlacesTyped
  <2>3. Provider[b] \in Providers
    BY CredentialsAssumption
  <2>4. CASE Provider[b] # p \/ p = "antigravity"
    BY <1>9, <2>2, <2>3, <2>4 DEF NoHarm
  <2>5. CASE Provider[b] = p /\ p # "antigravity"
    <3>1. runtime'[Provider[b]].rt = new.rt
      BY <1>9, <2>5
    <3>2. new.rt.owner # b \/ new.rt.n = issued'[b]
      BY <1>3, <1>4, <2>1, <2>2
    <3> QED  BY <2>2, <3>1, <3>2 DEF NoHarm
  <2> QED  BY <2>4, <2>5
<1> QED  BY <1>2, <1>11, <1>13, <1>14, <1>15, <1>16, LocalInv

LEMMA RefreshFailsInv ==
  ASSUME Inv, NEW k \in Jobs, RefreshFails(k) PROVE Inv'
<1>1. PICK a, tok, j : a = job[k].acct /\ tok = job[k].tok /\ j = Ended(job[k])
  OBVIOUS
<1>2. /\ job[k].pc = "net" /\ job' = [job EXCEPT ![k] = j] /\ Watch
      /\ UNCHANGED <<exists, row, cache, runtime, started, restarts, saved, leaked, unchecked>>
  BY <1>1, AtWork, Places DEF RefreshFails, End
<1>3. /\ a \in Accounts /\ JobTyped(job[k]) /\ PlacesTyped
      /\ tok \in Token /\ tok.owner \in Accounts
  BY <1>1, <1>2, AtWork DEF JobTyped, Token
<1>4. /\ failures' \in Nat /\ issued' \in [Accounts -> Nat]
      /\ spent \subseteq spent' /\ spent' \subseteq Accounts
      /\ \/ issued' = issued
         \/ /\ tok.owner \in spent' /\ a \in spent'
            /\ \A b \in Accounts : b # tok.owner => issued'[b] = issued[b]
  <2>1. CASE UNCHANGED <<issued, failures, spent>>
    BY <1>3, <2>1 DEF PlacesTyped
  <2>2. CASE /\ Fails
             /\ \E lost \in Rotations :
                   /\ Rotated(tok, lost /\ Accepts(tok))
                   /\ spent' = IF lost THEN spent \cup {tok.owner, a} ELSE spent
    <3>1. PICK lost \in Rotations :
             /\ Rotated(tok, lost /\ Accepts(tok))
             /\ spent' = IF lost THEN spent \cup {tok.owner, a} ELSE spent
      BY <2>2
    <3>2. failures' \in Nat
      BY <1>3, <2>2 DEF Fails, PlacesTyped
    <3>3. CASE lost
      BY <1>3, <3>1, <3>2, <3>3 DEF Rotated, PlacesTyped
    <3>4. CASE ~ lost
      BY <1>3, <3>1, <3>2, <3>4 DEF Rotated, PlacesTyped
    <3> QED  BY <3>3, <3>4
  <2> QED  BY <1>1, <2>1, <2>2 DEF RefreshFails
<1>5. JobTyped(j) /\ j.acct = None
  BY <1>1, <1>3, EndedTyped
<1>6. PlacesTyped' /\ Elsewhere(a)
  BY <1>2, <1>3, <1>4 DEF PlacesTyped, Elsewhere
<1>7. /\ Typed' /\ LocalStep(k, a) /\ AloneInv'
      /\ job'[k] = j /\ \A l \in Jobs : l # k => job'[l] = job[l]
  BY <1>1, <1>2, <1>3, <1>5, <1>6, StepFrame
<1>8. RowOf(a)' = RowOf(a) /\ cache' = cache /\ a # None
  BY <1>2, <1>3, NoneIsNone DEF RowOf
<1>9. \A l \in Jobs : On(a, l)' => On(a, l) /\ job'[l] = job[l]
  BY <1>5, <1>7, <1>8 DEF On
<1>10. ASSUME a \notin leaked' PROVE OwnFor(a)'
  <2>1. OwnFor(a)
    BY <1>2, <1>3, <1>10 DEF Inv, OwnInv
  <2> QED  BY <1>8, <1>9, <2>1 DEF OwnFor, OwnedBy
<1>11. ASSUME a \notin contended' PROVE GoneFor(a)' /\ CookieFor(a)'
  <2>1. GoneFor(a)
    BY <1>3, <1>7, <1>11 DEF Inv, GoneInv, LocalStep
  <2>2. \A l \in Jobs : /\ On(a, l) <=> l = k
                        /\ On(a, l)' <=> l = k /\ job'[k].acct = a
    BY <1>1, <1>3, <1>7, <1>11, GoesOn
  <2>3. CookieFor(a)'
    BY <1>2, <1>3, <1>5, <1>7, <1>8, <1>11, <2>2, CookieAfter
  <2> QED  BY <1>2, <1>9, <2>1, <2>3 DEF GoneFor
<1>12. ASSUME Sound(a)' PROVE FreshFor(a)'
  <2>1. a \notin contended' /\ issued' = issued
    BY <1>4, <1>12 DEF Sound
  <2>2. \A l \in Jobs : /\ On(a, l) <=> l = k
                        /\ On(a, l)' <=> l = k /\ job'[k].acct = a
    BY <1>1, <1>3, <1>7, <2>1, GoesOn
  <2>3. Calm(a) /\ \A l \in Jobs : ~ On(a, l)'
    BY <1>2, <1>5, <1>7, <1>8, <2>2 DEF Calm
  <2> QED  BY <1>2, <1>3, <1>7, <1>8, <1>12, <2>1, <2>3, FreshAfter
<1>13. ASSUME NEW b \in Accounts, b # a, Sound(b)' PROVE NoHarm(b)
  <2>1. b \notin spent'
    BY <1>13 DEF Sound
  <2> QED  BY <1>2, <1>4, <2>1 DEF NoHarm
<1> QED  BY <1>3, <1>7, <1>10, <1>11, <1>12, <1>13, LocalInv

LEMMA StoreRefreshedInv ==
  ASSUME Inv, NEW k \in Jobs, StoreRefreshed(k) PROVE Inv'
<1>1. PICK a, pair, extra, new, j :
        /\ a = job[k].acct /\ pair = job[k].pair
        /\ extra = IF job[k].kind = "loop" THEN pair ELSE cache[a]
        /\ new = [extra EXCEPT !.at = pair.at, !.rt = pair.rt]
        /\ j = [job[k] EXCEPT !.pc = "persist"]
  OBVIOUS
<1>2. /\ job[k].pc = "store" /\ cache' = [cache EXCEPT ![a] = new]
      /\ runtime' = Hydrated(runtime, a, new)
      /\ job' = [job EXCEPT ![k] = j]
      /\ UNCHANGED <<exists, row, issued, started, failures, restarts,
                     saved, leaked, spent, unchecked, contended>>
  BY <1>1 DEF StoreRefreshed, counts, history
<1>3. a \in Accounts /\ job[k] \in Locals /\ JobTyped(job[k]) /\ PlacesTyped /\ a # None
  BY <1>1, <1>2, AtWork, NoneIsNone
<1>4. pair \in Pair /\ new \in Pair /\ new.at = pair.at /\ new.rt = pair.rt
  <2>1. pair \in Pair /\ extra \in Pair
    BY <1>1, <1>3 DEF Locals, PlacesTyped
  <2> QED  BY <1>1, <2>1 DEF Pair
<1>5. /\ JobTyped(j) /\ j.acct = a /\ j.pc = "persist" /\ j.pair = pair
  <2>1. j \in Locals /\ j.acct = a /\ j.pc = "persist" /\ j.pair = pair
    BY <1>1, <1>3 DEF Locals, Pcs
  <2> QED  BY <1>3, <2>1 DEF JobTyped
<1>6. /\ runtime' \in Runtimes
      /\ runtime'[Provider[a]].rt = IF pair.rt = None THEN runtime[Provider[a]].rt ELSE pair.rt
      /\ \A q \in Providers : q # Provider[a] => runtime'[q] = runtime[q]
  BY <1>2, <1>3, <1>4, Hydrates DEF PlacesTyped
<1>7. PlacesTyped' /\ Elsewhere(a) /\ cache'[a] = new
  BY <1>2, <1>3, <1>4, <1>6 DEF PlacesTyped, Elsewhere
<1>8. /\ Typed' /\ LocalStep(k, a) /\ AloneInv'
      /\ job'[k] = j /\ \A l \in Jobs : l # k => job'[l] = job[l]
  <2>1. contended' = contended /\ j.acct = job[k].acct
    BY <1>1, <1>2, <1>5
  <2> QED  BY <1>1, <1>2, <1>3, <1>5, <1>7, <2>1, StepFrame
<1>9. RowOf(a)' = RowOf(a)
  BY <1>2 DEF RowOf
<1>10. \A b \in Accounts : b \notin leaked => OwnFor(b)
  BY DEF Inv, OwnInv
<1>11. a \notin leaked => OwnedBy(a, pair)
  BY <1>1, <1>3, <1>10 DEF OwnFor, On
<1>12. ASSUME a \notin leaked' PROVE OwnFor(a)'
  <2>1. OwnFor(a) /\ OwnedBy(a, pair) /\ OwnedBy(a, new)
    BY <1>2, <1>3, <1>4, <1>10, <1>11, <1>12 DEF OwnedBy
  <2> QED  BY <1>5, <1>7, <1>8, <1>9, <2>1 DEF OwnFor, OwnedBy, On
<1>13. ASSUME a \notin contended' PROVE GoneFor(a)' /\ CookieFor(a)'
  <2>1. GoneFor(a) /\ exists[a]
    BY <1>1, <1>2, <1>3, <1>13 DEF Inv, GoneInv, GoneFor, On
  <2>2. \A l \in Jobs : /\ On(a, l) <=> l = k
                        /\ On(a, l)' <=> l = k /\ job'[k].acct = a
    BY <1>1, <1>3, <1>8, <1>13, GoesOn
  <2>3. CookieFor(a)'
    BY <1>2, <1>3, <1>5, <1>8, <1>9, <1>13, <2>2, CookieAfter
  <2> QED  BY <1>2, <2>1, <2>3 DEF GoneFor
<1>14. ASSUME Sound(a)' PROVE FreshFor(a)'
  <2>1. Sound(a) /\ a \notin contended' /\ FreshFor(a)
    BY <1>2, <1>3, <1>8, <1>14, SoundBefore DEF Inv, FreshInv
  <2>2. \A l \in Jobs : On(a, l)' <=> l = k
    BY <1>1, <1>3, <1>5, <1>8, <2>1, GoesOn
  <2>3. pair.rt # None /\ Accepts(pair.rt) /\ issued' = issued
    BY <1>1, <1>2, <2>1 DEF FreshFor, On
  <2>4. Storing(a, {"store", "persist"})'
    <3>1. On(a, k)' /\ job'[k].pc = "persist"
      BY <1>5, <1>8, <2>2
    <3> QED  BY <3>1 DEF Storing
  <2>5. Fresh(cache[a].rt)' /\ RuntimeFresh(a)'
    BY <1>4, <1>6, <1>7, <2>3 DEF Fresh, RuntimeFresh, Accepts
  <2>6. \A l \in Jobs : On(a, l)' =>
           /\ job'[l].pair.rt # None /\ Accepts(job[l].pair.rt)'
           /\ job'[l].pc # "cache"
    BY <1>5, <1>8, <2>2, <2>3 DEF Accepts
  <2> QED  BY <2>4, <2>5, <2>6 DEF FreshFor
<1>15. ASSUME NEW b \in Accounts, b # a, Sound(b)' PROVE NoHarm(b)
  <2>1. Provider[b] = Provider[a] => a \notin leaked
    BY <1>2, <1>3, <1>15 DEF Sound
  <2>2. Provider[b] \in Providers /\ issued' = issued
    BY <1>2, CredentialsAssumption
  <2>3. CASE Provider[b] # Provider[a]
    BY <1>6, <2>2, <2>3 DEF NoHarm
  <2>4. CASE Provider[b] = Provider[a]
    BY <1>6, <1>11, <1>15, <2>1, <2>2, <2>4 DEF NoHarm, OwnedBy
  <2> QED  BY <2>3, <2>4
<1> QED  BY <1>3, <1>8, <1>12, <1>13, <1>14, <1>15, LocalInv

LEMMA PersistRefreshedInv ==
  ASSUME Inv, NEW k \in Jobs, PersistRefreshedTokens(k) PROVE Inv'
<1>1. PICK a, pair, j : a = job[k].acct /\ pair = job[k].pair /\ j = Ended(job[k])
  OBVIOUS
<1>2. /\ job[k].pc = "persist" /\ job' = [job EXCEPT ![k] = j] /\ Watch
      /\ UNCHANGED <<exists, cache, runtime, issued, started, restarts,
                     saved, leaked, unchecked>>
  BY <1>1, AtWork, Places DEF PersistRefreshedTokens, End
<1>3. /\ a \in Accounts /\ job[k] \in Locals /\ JobTyped(job[k]) /\ PlacesTyped /\ a # None
      /\ Typed
  BY <1>1, <1>2, AtWork, NoneIsNone
<1>4. /\ Patched(a, pair.at, pair.rt) \in Pair /\ Patched(a, pair.at, pair.rt) # None
      /\ Patched(a, pair.at, pair.rt).at = pair.at
      /\ Patched(a, pair.at, pair.rt).rt = IF pair.rt = None THEN RowOf(a).rt ELSE pair.rt
      /\ Patched(a, pair.at, pair.rt).cookie = RowOf(a).cookie
      /\ Patched(a, pair.at, pair.rt).ident = RowOf(a).ident
  <2>1. pair \in Pair /\ pair.at \in MaybeToken /\ pair.rt \in MaybeToken
    BY <1>1, <1>3 DEF Locals, Pair, MaybeToken
  <2> QED  BY <1>3, <2>1, Patches, NoneIsNone
<1>5. /\ \/ /\ row' = [row EXCEPT ![a] = Patched(a, pair.at, pair.rt)]
            /\ RowOf(a)' = Patched(a, pair.at, pair.rt)
            /\ UNCHANGED <<failures, spent>>
         \/ /\ row' = row /\ RowOf(a)' = RowOf(a)
            /\ failures' \in Nat /\ spent' = spent \cup {a}
  BY <1>1, <1>3, <1>4 DEF PersistRefreshedTokens, Fails, PlacesTyped, RowOf
<1>6. JobTyped(j) /\ j.acct = None
  BY <1>1, <1>3, EndedTyped
<1>7. PlacesTyped' /\ Elsewhere(a)
  BY <1>2, <1>3, <1>4, <1>5 DEF PlacesTyped, Elsewhere
<1>8. /\ Typed' /\ LocalStep(k, a) /\ AloneInv'
      /\ job'[k] = j /\ \A l \in Jobs : l # k => job'[l] = job[l]
  BY <1>1, <1>2, <1>3, <1>6, <1>7, StepFrame
<1>9. \A l \in Jobs : On(a, l)' => On(a, l) /\ job'[l] = job[l]
  BY <1>3, <1>6, <1>8 DEF On
<1>10. ASSUME a \notin leaked' PROVE OwnFor(a)'
  <2>1. OwnFor(a) /\ OwnedBy(a, pair)
    BY <1>1, <1>2, <1>3, <1>10 DEF Inv, OwnInv, OwnFor, On
  <2>2. OwnedBy(a, RowOf(a))'
    BY <1>4, <1>5, <2>1 DEF OwnFor, OwnedBy
  <2> QED  BY <1>2, <1>9, <2>1, <2>2 DEF OwnFor, OwnedBy
<1>11. ASSUME a \notin contended' PROVE GoneFor(a)' /\ CookieFor(a)'
  <2>1. GoneFor(a) /\ exists[a]
    BY <1>1, <1>2, <1>3, <1>8, <1>11 DEF Inv, GoneInv, GoneFor, On, LocalStep
  <2>2. \A l \in Jobs : /\ On(a, l) <=> l = k
                        /\ On(a, l)' <=> l = k /\ job'[k].acct = a
    BY <1>1, <1>3, <1>8, <1>11, GoesOn
  <2>3. CookieFor(a)'
    BY <1>2, <1>3, <1>4, <1>5, <1>6, <1>8, <1>11, <2>2, CookieAfter
  <2> QED  BY <1>2, <2>1, <2>3 DEF GoneFor
<1>12. ASSUME Sound(a)' PROVE FreshFor(a)'
  <2>1. Sound(a) /\ a \notin contended' /\ FreshFor(a) /\ a \notin spent'
    BY <1>2, <1>3, <1>8, <1>12, SoundBefore DEF Inv, FreshInv, Sound
  <2>2. \A l \in Jobs : /\ On(a, l) <=> l = k
                        /\ ~ On(a, l)'
    BY <1>1, <1>3, <1>6, <1>8, <2>1, GoesOn
  <2>3. /\ ~ Storing(a, {"store", "cache"}) /\ ~ Storing(a, {"store"})
        /\ ~ Hydrating(a)
    BY <1>2, <2>2 DEF Storing, Hydrating
  <2>4. Fresh(cache[a].rt) /\ RuntimeFresh(a) /\ pair.rt # None /\ Accepts(pair.rt)
    BY <1>1, <1>2, <2>1, <2>2, <2>3 DEF FreshFor, On
  <2>5. RowOf(a)'.rt = pair.rt
    BY <1>4, <1>5, <2>1, <2>4
  <2>6. Fresh(RowOf(a).rt)' /\ Fresh(cache[a].rt)' /\ RuntimeFresh(a)'
    BY <1>2, <2>4, <2>5 DEF Fresh, RuntimeFresh, Accepts
  <2> QED  BY <2>2, <2>6 DEF FreshFor
<1> QED  BY <1>2, <1>3, <1>8, <1>10, <1>11, <1>12, NoHarmKept, LocalInv

-----------------------------------------------------------------------------
\* A call that was answered 401

LEMMA Call401Inv ==
  ASSUME Inv, NEW k \in Jobs, NEW a \in Accounts, Call401(k, a) PROVE Inv'
<1>1. /\ job[k].pc = "idle" /\ started' = started + 1 /\ Watch
      /\ runtime' = Hydrated(runtime, a, cache[a])
      /\ Do(k, "call", "hydrated", a, None, Empty)
      /\ UNCHANGED <<exists, row, cache, issued, failures, restarts,
                     saved, leaked, spent, unchecked>>
  BY DEF Call401, Begin
<1>2. /\ job[k].acct = None /\ PlacesTyped /\ Typed /\ started' \in Nat /\ a # None
      /\ cache[a] \in Pair
  BY <1>1, AtWork, NoneIsNone DEF PlacesTyped
<1>3. PICK j : /\ JobTyped(j) /\ job' = [job EXCEPT ![k] = j] /\ j.kind = "call"
               /\ j.pc = "hydrated" /\ j.acct = a /\ j.pair = Empty
  BY <1>1, <1>2, Pairs, DoTyped DEF Pcs, MaybeToken
<1>4. /\ runtime' \in Runtimes
      /\ runtime'[Provider[a]].rt
            = IF cache[a].rt = None THEN runtime[Provider[a]].rt ELSE cache[a].rt
      /\ \A q \in Providers : q # Provider[a] => runtime'[q] = runtime[q]
  BY <1>1, <1>2, Hydrates DEF PlacesTyped
<1>5. PlacesTyped' /\ Elsewhere(a)
  BY <1>1, <1>2, <1>4 DEF PlacesTyped, Elsewhere
<1>6. /\ Typed' /\ LocalStep(k, a) /\ AloneInv'
      /\ job'[k] = j /\ \A l \in Jobs : l # k => job'[l] = job[l]
  BY <1>1, <1>2, <1>3, <1>5, StepFrame
<1>7. RowOf(a)' = RowOf(a)
  BY <1>1 DEF RowOf
<1>8. \A b \in Accounts : b \notin leaked => OwnFor(b)
  BY DEF Inv, OwnInv
<1>9. ASSUME a \notin leaked' PROVE OwnFor(a)'
  <2>1. OwnFor(a) /\ OwnedBy(a, j.pair)
    BY <1>1, <1>3, <1>8, <1>9, Pairs DEF OwnedBy
  <2> QED  BY <1>1, <1>3, <1>6, <1>7, <2>1 DEF OwnFor, OwnedBy, On
<1>10. ASSUME a \notin contended' PROVE GoneFor(a)' /\ CookieFor(a)'
  <2>1. GoneFor(a)
    BY <1>6, <1>10 DEF Inv, GoneInv, LocalStep
  <2>2. \A l \in Jobs : ~ On(a, l) /\ (On(a, l)' <=> l = k)
    BY <1>2, <1>3, <1>6, <1>10, Begins
  <2>3. CookieFor(a)'
    BY <1>1, <1>3, <1>6, <1>7, <1>10, <2>2, CookieAfter
  <2> QED  BY <1>1, <1>3, <1>6, <2>1, <2>2, <2>3 DEF GoneFor
<1>11. ASSUME Sound(a)' PROVE FreshFor(a)'
  <2>1. a \notin contended' /\ Sound(a)
    BY <1>6, <1>11, SoundBefore DEF Sound
  <2>2. \A l \in Jobs : ~ On(a, l) /\ (On(a, l)' <=> l = k)
    BY <1>2, <1>3, <1>6, <2>1, Begins
  <2>3. Calm(a)
    BY <2>2 DEF Calm
  <2>4. Fresh(cache[a].rt) /\ RuntimeFresh(a)
    BY <2>1, <2>3, CalmFacts
  <2>5. RuntimeFresh(a)'
    BY <1>1, <1>4, <2>4 DEF Fresh, RuntimeFresh, Accepts
  <2> QED  BY <1>1, <1>3, <1>6, <1>7, <1>11, <2>2, <2>3, <2>5, FreshAfter
<1>12. ASSUME NEW b \in Accounts, b # a, Sound(b)' PROVE NoHarm(b)
  <2>1. Provider[b] = Provider[a] => a \notin leaked
    BY <1>1, <1>12 DEF Sound
  <2>2. Provider[b] \in Providers /\ issued' = issued
    BY <1>1, CredentialsAssumption
  <2>3. CASE Provider[b] # Provider[a]
    BY <1>4, <2>2, <2>3 DEF NoHarm
  <2>4. CASE Provider[b] = Provider[a]
    BY <1>4, <1>8, <1>12, <2>1, <2>2, <2>4 DEF NoHarm, OwnFor, OwnedBy
  <2> QED  BY <2>3, <2>4
<1> QED  BY <1>6, <1>9, <1>10, <1>11, <1>12, LocalInv

\* A step of a job on its account that changes no place, and leaves the job of
\* the same kind, with no new tokens, at a point where none is stored.
LEMMA QuietStep ==
  ASSUME Inv, NEW k \in Jobs, NEW a \in Accounts, a = job[k].acct,
         job[k].pc \in {"net", "hydrated", "take"},
         NEW j, JobTyped(j), job' = [job EXCEPT ![k] = j],
         \/ j.acct = None
         \/ /\ j.acct = a /\ j.kind = "call" /\ j.pc \in {"net", "take"}
            /\ OwnedBy(a, j.pair) \/ j.pair = job[k].pair,
         PlacesTyped', spent \subseteq spent', Watch \/ contended' = contended,
         UNCHANGED <<exists, row, cache, saved, leaked, unchecked>>,
         Sound(a)' => issued'[a] = issued[a] /\ (runtime' = runtime \/ RuntimeFresh(a)'),
         \A b \in Accounts : b # a /\ Sound(b)' => NoHarm(b)
  PROVE  Inv'
<1>1. Elsewhere(a) /\ a # None /\ RowOf(a)' = RowOf(a)
  BY NoneIsNone DEF Elsewhere, RowOf
<1>2. /\ Typed' /\ LocalStep(k, a) /\ AloneInv'
      /\ job'[k] = j /\ \A l \in Jobs : l # k => job'[l] = job[l]
  <2>1. job[k].acct \in {a, None} /\ j.acct \in {job[k].acct, None}
    OBVIOUS
  <2> QED  BY <1>1, <2>1, StepFrame
<1>3. ASSUME a \notin leaked' PROVE OwnFor(a)'
  <2>1. OwnFor(a)
    BY <1>3 DEF Inv, OwnInv
  <2>2. j.acct = a => OwnedBy(a, j.pair) /\ j.kind = "call"
    BY <1>1, <2>1 DEF OwnFor, On
  <2> QED  BY <1>1, <1>2, <2>1, <2>2 DEF OwnFor, OwnedBy, On
<1>4. ASSUME a \notin contended' PROVE GoneFor(a)' /\ CookieFor(a)'
  <2>1. GoneFor(a)
    BY <1>2, <1>4 DEF Inv, GoneInv, LocalStep
  <2>2. \A l \in Jobs : /\ On(a, l) <=> l = k
                        /\ On(a, l)' <=> l = k /\ job'[k].acct = a
    BY <1>2, <1>4, GoesOn
  <2>3. CookieFor(a)'
    BY <1>1, <1>2, <1>4, <2>2, CookieAfter
  <2> QED  BY <1>1, <1>2, <2>1, <2>2, <2>3 DEF GoneFor
<1>5. ASSUME Sound(a)' PROVE FreshFor(a)'
  <2>1. a \notin contended'
    BY <1>5 DEF Sound
  <2>2. \A l \in Jobs : /\ On(a, l) <=> l = k
                        /\ On(a, l)' <=> l = k /\ job'[k].acct = a
    BY <1>2, <2>1, GoesOn
  <2>3. Calm(a)
    BY <2>2 DEF Calm
  <2> QED  BY <1>1, <1>2, <1>5, <2>2, <2>3, FreshAfter
<1> QED  BY <1>2, <1>3, <1>4, <1>5, LocalInv

LEMMA TryRefreshInv ==
  ASSUME Inv, NEW k \in Jobs, TryRefresh(k) PROVE Inv'
<1>1. PICK a, rt : a = job[k].acct /\ rt = runtime[Provider[a]].rt
  OBVIOUS
<1>2. /\ job[k].pc = "hydrated" /\ Watch
      /\ IF rt = None THEN End(k) ELSE Do(k, "call", "net", a, rt, Empty)
      /\ UNCHANGED <<exists, row, cache, runtime, issued, started, failures, restarts,
                     saved, leaked, spent, unchecked>>
  BY <1>1 DEF TryRefresh, counts
<1>3. /\ a \in Accounts /\ JobTyped(job[k]) /\ PlacesTyped /\ Typed /\ a # None
      /\ rt \in MaybeToken
  <2>1. a \in Accounts /\ JobTyped(job[k]) /\ PlacesTyped /\ Typed /\ a # None
    BY <1>1, <1>2, AtWork, NoneIsNone
  <2> QED  BY <1>1, <2>1, CredentialsAssumption DEF PlacesTyped, Runtimes
<1>4. PlacesTyped'
  BY <1>2, <1>3 DEF PlacesTyped
<1>5. \A b \in Accounts : NoHarm(b)
  BY <1>2, NoHarmKept
<1>6. CASE rt = None
  <2>1. PICK j : j = Ended(job[k])
    OBVIOUS
  <2>2. JobTyped(j) /\ j.acct = None
    BY <1>3, <2>1, EndedTyped
  <2>3. job' = [job EXCEPT ![k] = j]
    BY <1>2, <1>6, <2>1, AtWork, Places DEF End
  <2> QED  BY <1>1, <1>2, <1>3, <1>4, <1>5, <2>2, <2>3, QuietStep
<1>7. CASE rt # None
  <2>1. PICK j : /\ JobTyped(j) /\ job' = [job EXCEPT ![k] = j] /\ j.kind = "call"
                 /\ j.pc = "net" /\ j.acct = a /\ j.pair = Empty
    BY <1>2, <1>3, <1>7, Pairs, DoTyped DEF Pcs, MaybeToken
  <2>2. OwnedBy(a, j.pair)
    BY <2>1, Pairs DEF OwnedBy
  <2> QED  BY <1>1, <1>2, <1>3, <1>4, <1>5, <2>1, <2>2, QuietStep
<1> QED  BY <1>6, <1>7

LEMMA TryRefreshAnswersInv ==
  ASSUME Inv, NEW k \in Jobs, TryRefreshAnswers(k) PROVE Inv'
<1>1. PICK a, tok, p : a = job[k].acct /\ tok = job[k].tok /\ p = Provider[a]
  OBVIOUS
<1>2. PICK rotates, new, j :
        /\ rotates \in Rotations
        /\ new = TryRefreshed(p, runtime[p], tok, rotates)
        /\ j = [job[k] EXCEPT !.pc = "take", !.tok = None]
        /\ job[k].pc = "net" /\ job[k].kind = "call" /\ Accepts(tok)
        /\ Rotated(tok, rotates)
        /\ runtime' = [runtime EXCEPT ![p] = new]
        /\ job' = [job EXCEPT ![k] = j]
        /\ spent' = IF rotates THEN spent \cup {tok.owner, a} ELSE spent
        /\ UNCHANGED <<exists, row, cache, started, failures, restarts,
                       saved, leaked, unchecked, contended>>
  BY <1>1 DEF TryRefreshAnswers, counts, TryRefreshed
<1>3. /\ a \in Accounts /\ job[k] \in Locals /\ JobTyped(job[k]) /\ PlacesTyped /\ Typed
      /\ tok \in Token /\ rotates \in BOOLEAN /\ p \in Providers /\ a # None
  BY <1>1, <1>2, AtWork, CredentialsAssumption, NoneIsNone DEF JobTyped
<1>4. /\ tok.owner \in Accounts /\ tok.n = issued[tok.owner]
      /\ issued' = IF rotates THEN [issued EXCEPT ![tok.owner] = @ + 1] ELSE issued
  BY <1>2, <1>3 DEF Token, Accepts, Rotated
<1>5. /\ new \in [at : MaybeToken, rt : MaybeToken]
      /\ ~ rotates => new.rt \in {runtime[p].rt, tok}
      /\ rotates => new.rt.owner = tok.owner
  <2>1. runtime[p] \in [at : MaybeToken, rt : MaybeToken]
    BY <1>3 DEF PlacesTyped, Runtimes
  <2> QED  BY <1>2, <1>3, <2>1, TryRefreshes
<1>6. /\ runtime' \in Runtimes /\ issued' \in [Accounts -> Nat]
      /\ runtime'[p] = new /\ \A q \in Providers : q # p => runtime'[q] = runtime[q]
  BY <1>2, <1>3, <1>4, <1>5 DEF PlacesTyped, Runtimes
<1>7. JobTyped(j) /\ j.acct = a /\ j.kind = "call" /\ j.pc = "take" /\ j.pair = job[k].pair
  <2>1. j \in Locals /\ j.acct = a /\ j.kind = "call" /\ j.pc = "take" /\ j.pair = job[k].pair
    BY <1>1, <1>2, <1>3 DEF Locals, Pcs
  <2> QED  BY <1>3, <2>1 DEF JobTyped
<1>8. PlacesTyped'
  BY <1>2, <1>3, <1>4, <1>6 DEF PlacesTyped
<1>9. ASSUME Sound(a)' PROVE issued'[a] = issued[a] /\ RuntimeFresh(a)'
  <2>1. Sound(a) /\ ~ rotates /\ issued' = issued
    BY <1>2, <1>3, <1>4, <1>9 DEF Sound
  <2>2. a \notin contended /\ AloneFor(a)
    BY <1>3, <2>1 DEF Sound, Inv, AloneInv
  <2>3. Calm(a)
    BY <1>1, <1>2, <2>2 DEF AloneFor, Calm, On
  <2>4. RuntimeFresh(a)
    BY <1>3, <2>1, <2>3, CalmFacts
  <2>5. new.rt \in {runtime[p].rt, tok}
    BY <1>5, <2>1
  <2>6. CASE new.rt = tok
    BY <1>1, <1>4, <1>6, <2>1, <2>6 DEF RuntimeFresh, Accepts
  <2>7. CASE new.rt = runtime[p].rt
    BY <1>1, <1>6, <2>1, <2>4, <2>7 DEF RuntimeFresh, Accepts
  <2> QED  BY <2>1, <2>5, <2>6, <2>7
<1>10. ASSUME NEW b \in Accounts, b # a, Sound(b)' PROVE NoHarm(b)
  <2>1. rotates => tok.owner # b
    BY <1>2, <1>10 DEF Sound
  <2>2. issued'[b] = issued[b]
    BY <1>3, <1>4, <2>1 DEF PlacesTyped
  <2>3. Provider[b] \in Providers
    BY CredentialsAssumption
  <2>4. CASE Provider[b] # p
    BY <1>6, <2>2, <2>3, <2>4 DEF NoHarm
  <2>5. CASE Provider[b] = p
    <3>1. runtime'[Provider[b]].rt = new.rt
      BY <1>6, <2>5
    <3>2. new.rt = runtime[p].rt \/ new.rt.owner # b \/ new.rt.n = issued'[b]
      BY <1>4, <1>5, <2>1, <2>2
    <3> QED  BY <2>2, <2>5, <3>1, <3>2 DEF NoHarm
  <2> QED  BY <2>4, <2>5
<1>11. spent \subseteq spent'
  BY <1>2
<1> QED  BY <1>1, <1>2, <1>3, <1>7, <1>8, <1>9, <1>10, <1>11, QuietStep

LEMMA TakeRuntimeInv ==
  ASSUME Inv, NEW k \in Jobs, TakeRuntime(k) PROVE Inv'
<1>1. PICK a, r, new, j : /\ a = job[k].acct /\ r = runtime[Provider[a]]
                          /\ new = [cache[a] EXCEPT !.at = r.at, !.rt = r.rt]
                          /\ j = Ended(job[k])
  OBVIOUS
<1>2. /\ a \in Accounts /\ JobTyped(job[k]) /\ PlacesTyped /\ Typed /\ a # None
      /\ job[k].pc = "take"
  BY <1>1, AtWork, NoneIsNone DEF TakeRuntime
<1>3. /\ cache' = [cache EXCEPT ![a] = new] /\ job' = [job EXCEPT ![k] = j] /\ Watch
      /\ leaked' = IF \E t \in {r.at, r.rt} \ {None} : t.owner # a
                   THEN leaked \cup {a} ELSE leaked
      /\ UNCHANGED <<exists, row, runtime, issued, started, failures, restarts,
                     saved, spent, unchecked>>
  BY <1>1, <1>2, AtWork, Places DEF TakeRuntime, End, counts
<1>4. new \in Pair /\ new.at = r.at /\ new.rt = r.rt
  <2>1. r \in [at : MaybeToken, rt : MaybeToken] /\ cache[a] \in Pair
    BY <1>1, <1>2, CredentialsAssumption DEF PlacesTyped, Runtimes
  <2> QED  BY <1>1, <2>1 DEF Pair, MaybeToken
<1>5. JobTyped(j) /\ j.acct = None
  BY <1>1, <1>2, EndedTyped
<1>6. PlacesTyped' /\ Elsewhere(a) /\ cache'[a] = new
  BY <1>2, <1>3, <1>4 DEF PlacesTyped, Elsewhere
<1>7. /\ Typed' /\ LocalStep(k, a) /\ AloneInv'
      /\ job'[k] = j /\ \A l \in Jobs : l # k => job'[l] = job[l]
  <2>1. job[k].acct = a
    BY <1>1
  <2>2. Watch /\ job' = [job EXCEPT ![k] = j]
    BY <1>3
  <2> QED  BY <1>2, <1>5, <1>6, <2>1, <2>2, StepFrame
<1>8. RowOf(a)' = RowOf(a)
  BY <1>3 DEF RowOf
<1>9. \A l \in Jobs : On(a, l)' => On(a, l) /\ job'[l] = job[l]
  BY <1>2, <1>5, <1>7 DEF On
<1>10. ASSUME a \notin leaked' PROVE OwnFor(a)' /\ OwnedBy(a, new)
  <2>1. OwnedBy(a, new) /\ a \notin leaked
    BY <1>3, <1>4, <1>10 DEF OwnedBy
  <2>2. OwnFor(a)
    BY <1>2, <2>1 DEF Inv, OwnInv
  <2> QED  BY <1>6, <1>8, <1>9, <2>1, <2>2 DEF OwnFor, OwnedBy
<1>11. ASSUME a \notin contended' PROVE GoneFor(a)' /\ CookieFor(a)'
  <2>1. GoneFor(a)
    BY <1>2, <1>7, <1>11 DEF Inv, GoneInv, LocalStep
  <2>2. \A l \in Jobs : /\ On(a, l) <=> l = k
                        /\ On(a, l)' <=> l = k /\ job'[k].acct = a
    BY <1>1, <1>2, <1>7, <1>11, GoesOn
  <2>3. CookieFor(a)'
    BY <1>2, <1>3, <1>5, <1>7, <1>8, <1>11, <2>2, CookieAfter
  <2> QED  BY <1>3, <1>9, <2>1, <2>3 DEF GoneFor
<1>12. ASSUME Sound(a)' PROVE FreshFor(a)'
  <2>1. Sound(a) /\ a \notin contended' /\ a \notin leaked'
    BY <1>2, <1>7, <1>12, SoundBefore DEF Sound
  <2>2. \A l \in Jobs : /\ On(a, l) <=> l = k
                        /\ ~ On(a, l)'
    BY <1>1, <1>2, <1>5, <1>7, <2>1, GoesOn
  <2>3. Calm(a)
    BY <1>2, <2>2 DEF Calm
  <2>4. Fresh(RowOf(a).rt) /\ RuntimeFresh(a)
    BY <1>2, <2>1, <2>3, CalmFacts
  <2>5. new.rt # None => new.rt.owner = a /\ Accepts(new.rt)
    BY <1>1, <1>4, <1>10, <2>1, <2>4 DEF RuntimeFresh, OwnedBy
  <2>6. Fresh(RowOf(a).rt)' /\ Fresh(cache[a].rt)' /\ RuntimeFresh(a)'
    BY <1>3, <1>6, <1>8, <2>4, <2>5 DEF Fresh, RuntimeFresh, Accepts
  <2> QED  BY <2>2, <2>6 DEF FreshFor
<1> QED  BY <1>2, <1>3, <1>7, <1>10, <1>11, <1>12, NoHarmKept, LocalInv

-----------------------------------------------------------------------------
\* The console

\* A console job that begins by writing tokens to the row, or taking them away.
LEMMA PutBegins ==
  ASSUME Inv, NEW k \in Jobs, NEW a \in Accounts, job[k].acct = None, exists[a],
         NEW new \in Pair, row' = [row EXCEPT ![a] = new],
         new.cookie = RowOf(a).cookie, new.ident = RowOf(a).ident,
         OwnedBy(a, RowOf(a)) => OwnedBy(a, new),
         Do(k, "put", "cache", a, None, new), Watch,
         issued' \in [Accounts -> Nat], \A b \in Accounts : b # a => issued'[b] = issued[b],
         \/ issued' = issued /\ new.rt \in {None, RowOf(a).rt}
         \/ new.rt # None /\ new.rt.owner = a /\ new.rt.n = issued'[a],
         started' \in Nat,
         UNCHANGED <<exists, cache, runtime, failures, restarts, saved, leaked, spent, unchecked>>
  PROVE  Inv'
<1>1. PlacesTyped /\ Typed /\ a # None /\ new # None
  BY AtWork, NoneIsNone
<1>2. PICK j : /\ JobTyped(j) /\ job' = [job EXCEPT ![k] = j] /\ j.kind = "put"
               /\ j.pc = "cache" /\ j.acct = a /\ j.pair = new
  BY <1>1, DoTyped DEF Pcs, MaybeToken
<1>3. PlacesTyped' /\ Elsewhere(a)
  BY <1>1 DEF PlacesTyped, Elsewhere
<1>4. /\ Typed' /\ LocalStep(k, a) /\ AloneInv'
      /\ job'[k] = j /\ \A l \in Jobs : l # k => job'[l] = job[l]
  <2>1. job[k].acct \in {a, None} /\ j.acct \in {a, None}
    BY <1>2
  <2> QED  BY <1>2, <1>3, <2>1, StepFrame, ZenonT(60)
<1>5. row'[a] = new /\ RowOf(a)' = new
  BY <1>1 DEF PlacesTyped, RowOf
<1>6. ASSUME a \notin leaked' PROVE OwnFor(a)'
  <2>1. OwnFor(a) /\ OwnedBy(a, new)
    BY <1>6 DEF Inv, OwnInv, OwnFor
  <2> QED  BY <1>2, <1>4, <1>5, <2>1 DEF OwnFor, OwnedBy, On
<1>7. ASSUME a \notin contended' PROVE GoneFor(a)' /\ CookieFor(a)'
  <2>1. \A l \in Jobs : ~ On(a, l) /\ (On(a, l)' <=> l = k)
    BY <1>2, <1>4, <1>7, Begins
  <2>2. CookieFor(a)'
    BY <1>2, <1>4, <1>5, <1>7, <2>1, CookieAfter
  <2> QED  BY <2>2 DEF GoneFor
<1>8. ASSUME Sound(a)' PROVE FreshFor(a)'
  <2>1. a \notin contended' /\ Sound(a)
    BY <1>4, <1>8, SoundBefore DEF Sound
  <2>2. \A l \in Jobs : ~ On(a, l) /\ (On(a, l)' <=> l = k)
    BY <1>2, <1>4, <2>1, Begins
  <2>3. Calm(a)
    BY <2>2 DEF Calm
  <2>4. Fresh(RowOf(a).rt) /\ RuntimeFresh(a)
    BY <2>1, <2>3, CalmFacts
  <2>5. On(a, k)' /\ job'[k].pc = "cache" /\ job'[k].kind = "put" /\ job'[k].pair = new
    BY <1>2, <1>4, <2>2
  <2>6. Storing(a, {"store", "cache"})'
    BY <2>5 DEF Storing
  <2>7. Fresh(RowOf(a).rt)'
    BY <1>5, <2>4 DEF Fresh, Accepts
  <2>8. RuntimeFresh(a)' \/ Hydrating(a)'
    <3>1. CASE new.rt # None
      BY <2>5, <3>1 DEF Hydrating
    <3>2. CASE new.rt = None
      BY <2>4, <3>2 DEF RuntimeFresh, Accepts
    <3> QED  BY <3>1, <3>2
  <2>9. \A l \in Jobs : On(a, l)' => job'[l].pc = "cache" /\ job'[l].pair.rt = RowOf(a).rt'
    BY <1>5, <2>2, <2>5
  <2> QED  BY <2>6, <2>7, <2>8, <2>9 DEF FreshFor
<1>9. \A b \in Accounts : b # a => NoHarm(b)
  BY DEF NoHarm
<1> QED  BY <1>4, <1>6, <1>7, <1>8, <1>9, LocalInv

LEMMA PutCredentialsInv ==
  ASSUME Inv, NEW k \in Jobs, NEW a \in Accounts, NEW with \in BOOLEAN,
         PutCredentials(k, a, with)
  PROVE  Inv'
<1>1. PICK tok, rt, new : /\ tok = [owner |-> a, n |-> issued[a] + 1]
                          /\ rt = IF with THEN tok ELSE None
                          /\ new = Patched(a, tok, rt)
  OBVIOUS
<1>2. PlacesTyped /\ Typed /\ issued[a] \in Nat
  BY AtWork DEF PlacesTyped
<1>3. tok \in Token /\ tok \in MaybeToken /\ tok # None /\ tok.owner = a /\ tok.n = issued[a] + 1
  BY <1>1, <1>2, NoneIsNone DEF Token, MaybeToken
<1>4. /\ new \in Pair /\ new.at = tok
      /\ new.rt = IF with THEN tok ELSE RowOf(a).rt
      /\ new.cookie = RowOf(a).cookie /\ new.ident = RowOf(a).ident
  <2>1. rt \in MaybeToken /\ (with => rt = tok) /\ (~ with => rt = None)
    BY <1>1, <1>3 DEF MaybeToken
  <2>2. /\ new \in Pair /\ new.at = tok
        /\ new.rt = IF rt = None THEN RowOf(a).rt ELSE rt
        /\ new.cookie = RowOf(a).cookie /\ new.ident = RowOf(a).ident
    BY <1>1, <1>2, <1>3, <2>1, Patches
  <2> QED  BY <1>3, <2>1, <2>2
<1>5. /\ job[k].pc = "idle" /\ started' = started + 1 /\ exists[a] /\ Watch
      /\ issued' = IF with THEN [issued EXCEPT ![a] = @ + 1] ELSE issued
      /\ row' = [row EXCEPT ![a] = new]
      /\ Do(k, "put", "cache", a, None, row'[a])
      /\ UNCHANGED <<exists, cache, runtime, failures, restarts, saved, leaked, spent, unchecked>>
  BY <1>1 DEF PutCredentials, Begin
<1>6. Do(k, "put", "cache", a, None, new) /\ job[k].acct = None /\ started' \in Nat
  <2>1. row'[a] = new
    BY <1>2, <1>5 DEF PlacesTyped
  <2> QED  BY <1>2, <1>5, <2>1, AtWork DEF PlacesTyped
<1>7. OwnedBy(a, RowOf(a)) => OwnedBy(a, new)
  BY <1>3, <1>4 DEF OwnedBy
<1>8. /\ issued' \in [Accounts -> Nat] /\ \A b \in Accounts : b # a => issued'[b] = issued[b]
      /\ \/ issued' = issued /\ new.rt \in {None, RowOf(a).rt}
         \/ new.rt # None /\ new.rt.owner = a /\ new.rt.n = issued'[a]
  BY <1>2, <1>3, <1>4, <1>5 DEF PlacesTyped
<1> QED  BY <1>4, <1>5, <1>6, <1>7, <1>8, PutBegins

LEMMA ClearTokensInv ==
  ASSUME Inv, NEW k \in Jobs, NEW a \in Accounts, NEW both \in BOOLEAN,
         ClearTokens(k, a, both)
  PROVE  Inv'
<1>1. PICK new : new = [RowOf(a) EXCEPT !.at = IF both THEN None ELSE @, !.rt = None]
  OBVIOUS
<1>2. PlacesTyped /\ Typed
  BY AtWork
<1>3. /\ new \in Pair /\ new.at \in {None, RowOf(a).at} /\ new.rt = None
      /\ new.cookie = RowOf(a).cookie /\ new.ident = RowOf(a).ident
  <2>1. RowOf(a) \in Pair
    BY <1>2, Rows
  <2> QED  BY <1>1, <2>1 DEF Pair
<1>4. /\ job[k].pc = "idle" /\ started' = started + 1 /\ exists[a] /\ Watch
      /\ row' = [row EXCEPT ![a] = new]
      /\ Do(k, "put", "cache", a, None, row'[a])
      /\ UNCHANGED <<exists, cache, runtime, issued, failures, restarts,
                     saved, leaked, spent, unchecked>>
  BY <1>1 DEF ClearTokens, Begin
<1>5. Do(k, "put", "cache", a, None, new) /\ job[k].acct = None /\ started' \in Nat
  <2>1. row'[a] = new
    BY <1>2, <1>4 DEF PlacesTyped
  <2> QED  BY <1>2, <1>4, <2>1, AtWork DEF PlacesTyped
<1>6. OwnedBy(a, RowOf(a)) => OwnedBy(a, new)
  BY <1>3 DEF OwnedBy
<1>7. issued' \in [Accounts -> Nat]
  BY <1>2, <1>4 DEF PlacesTyped
<1> QED  BY <1>3, <1>4, <1>5, <1>6, <1>7, PutBegins

LEMMA SetCredentialInv ==
  ASSUME Inv, NEW k \in Jobs, SetAccountCredential(k) PROVE Inv'
<1>1. PICK a, pair, j : /\ a = job[k].acct /\ pair = job[k].pair /\ j = Ended(job[k])
  OBVIOUS
<1>2. /\ a \in Accounts /\ JobTyped(job[k]) /\ PlacesTyped /\ Typed /\ a # None
      /\ job[k].pc = "cache" /\ pair \in Pair
  BY <1>1, AtWork, NoneIsNone DEF SetAccountCredential, Locals
<1>3. /\ cache' = [cache EXCEPT ![a] = pair] /\ job' = [job EXCEPT ![k] = j] /\ Watch
      /\ runtime' = IF exists[a] /\ job[k].kind \in {"put", "test"}
                    THEN Hydrated(runtime, a, pair) ELSE runtime
      /\ UNCHANGED <<exists, row, issued, started, failures, restarts,
                     saved, leaked, spent, unchecked>>
  BY <1>1, <1>2, AtWork, Places DEF SetAccountCredential, End, counts
<1>4. JobTyped(j) /\ j.acct = None
  BY <1>1, <1>2, EndedTyped
<1>5. /\ runtime' \in Runtimes
      /\ \A q \in Providers : q # Provider[a] => runtime'[q] = runtime[q]
      /\ runtime'[Provider[a]].rt \in {runtime[Provider[a]].rt, pair.rt}
      /\ exists[a] /\ job[k].kind = "put" /\ pair.rt # None
            => runtime'[Provider[a]].rt = pair.rt
  <2>1. CASE exists[a] /\ job[k].kind \in {"put", "test"}
    <3>1. runtime' = Hydrated(runtime, a, pair)
      BY <1>3, <2>1
    <3> QED  BY <1>2, <3>1, Hydrates DEF PlacesTyped
  <2>2. CASE ~ (exists[a] /\ job[k].kind \in {"put", "test"})
    <3>1. runtime' = runtime
      BY <1>3, <2>2
    <3> QED  BY <1>2, <2>2, <3>1 DEF PlacesTyped
  <2> QED  BY <2>1, <2>2
<1>6. PlacesTyped' /\ Elsewhere(a) /\ cache'[a] = pair
  BY <1>2, <1>3, <1>5 DEF PlacesTyped, Elsewhere
<1>7. /\ Typed' /\ LocalStep(k, a) /\ AloneInv'
      /\ job'[k] = j /\ \A l \in Jobs : l # k => job'[l] = job[l]
  <2>1. job[k].acct = a
    BY <1>1
  <2>2. Watch /\ job' = [job EXCEPT ![k] = j]
    BY <1>3
  <2> QED  BY <1>2, <1>4, <1>6, <2>1, <2>2, StepFrame
<1>8. RowOf(a)' = RowOf(a)
  BY <1>3 DEF RowOf
<1>9. \A l \in Jobs : On(a, l)' => On(a, l) /\ job'[l] = job[l]
  BY <1>2, <1>4, <1>7 DEF On
<1>10. a \notin leaked => OwnFor(a) /\ OwnedBy(a, pair)
  BY <1>1, <1>2 DEF Inv, OwnInv, OwnFor, On
<1>11. ASSUME a \notin leaked' PROVE OwnFor(a)'
  <2>1. OwnFor(a) /\ OwnedBy(a, pair)
    BY <1>3, <1>10, <1>11
  <2> QED  BY <1>6, <1>8, <1>9, <2>1 DEF OwnFor, OwnedBy
<1>12. ASSUME a \notin contended' PROVE GoneFor(a)' /\ CookieFor(a)'
  <2>1. GoneFor(a)
    BY <1>2, <1>7, <1>12 DEF Inv, GoneInv, LocalStep
  <2>2. \A l \in Jobs : /\ On(a, l) <=> l = k
                        /\ On(a, l)' <=> l = k /\ job'[k].acct = a
    BY <1>1, <1>2, <1>7, <1>12, GoesOn
  <2>3. CookieFor(a)'
    BY <1>2, <1>3, <1>4, <1>7, <1>8, <1>12, <2>2, CookieAfter
  <2> QED  BY <1>3, <1>9, <2>1, <2>3 DEF GoneFor
<1>13. ASSUME Sound(a)' PROVE FreshFor(a)'
  <2>1. Sound(a) /\ a \notin contended' /\ FreshFor(a) /\ exists[a]
    BY <1>2, <1>7, <1>13, SoundBefore DEF Sound, Inv, FreshInv
  <2>2. \A l \in Jobs : /\ On(a, l) <=> l = k
                        /\ ~ On(a, l)'
    BY <1>1, <1>2, <1>4, <1>7, <2>1, GoesOn
  <2>3. ~ Storing(a, {"store", "persist"}) /\ ~ Storing(a, {"store"})
    BY <1>2, <2>2 DEF Storing
  <2>4. Fresh(RowOf(a).rt) /\ pair.rt = RowOf(a).rt
    BY <1>1, <1>2, <2>1, <2>2, <2>3 DEF FreshFor
  <2>5. Fresh(RowOf(a).rt)' /\ Fresh(cache[a].rt)'
    BY <1>3, <1>6, <1>8, <2>4 DEF Fresh, Accepts
  <2>6. RuntimeFresh(a)'
    <3>1. CASE runtime'[Provider[a]].rt = pair.rt
      BY <1>3, <2>4, <3>1 DEF RuntimeFresh, Fresh, Accepts
    <3>2. CASE runtime'[Provider[a]].rt # pair.rt
      <4>1. ~ Hydrating(a)
        BY <1>1, <1>5, <2>1, <2>2, <3>2 DEF Hydrating
      <4>2. RuntimeFresh(a)
        BY <2>1, <2>3, <4>1 DEF FreshFor
      <4> QED  BY <1>3, <1>5, <3>2, <4>2 DEF RuntimeFresh, Accepts
    <3> QED  BY <3>1, <3>2
  <2> QED  BY <2>2, <2>5, <2>6 DEF FreshFor
<1>14. ASSUME NEW b \in Accounts, b # a, Sound(b)' PROVE NoHarm(b)
  <2>1. Provider[b] = Provider[a] => a \notin leaked
    BY <1>2, <1>3, <1>14 DEF Sound
  <2>2. Provider[b] \in Providers /\ issued' = issued
    BY <1>3, CredentialsAssumption
  <2>3. CASE Provider[b] # Provider[a]
    BY <1>5, <2>2, <2>3 DEF NoHarm
  <2>4. CASE Provider[b] = Provider[a]
    BY <1>5, <1>10, <1>14, <2>1, <2>2, <2>4 DEF NoHarm, OwnedBy
  <2> QED  BY <2>3, <2>4
<1> QED  BY <1>2, <1>7, <1>11, <1>12, <1>13, <1>14, LocalInv

LEMMA ReadRowInv ==
  ASSUME Inv, NEW k \in Jobs, NEW a \in Accounts, NEW kind \in Readers, ReadRow(k, a, kind)
  PROVE  Inv'
<1>1. PICK pc, pair : /\ pc = CASE kind = "test"     -> "cache"
                                [] kind = "identity" -> "verify"
                                [] OTHER             -> "write"
                      /\ pair = IF kind = "test" THEN RowOf(a) ELSE Extra(RowOf(a))
  OBVIOUS
<1>2. /\ job[k].pc = "idle" /\ started' = started + 1 /\ exists[a] /\ Watch
      /\ Do(k, kind, pc, a, None, pair)
      /\ UNCHANGED <<exists, row, cache, runtime, issued, failures, restarts,
                     saved, leaked, spent, unchecked>>
  BY <1>1 DEF ReadRow, Begin
<1>3. job[k].acct = None /\ PlacesTyped /\ Typed /\ started' \in Nat /\ a # None
  BY <1>2, AtWork, NoneIsNone DEF PlacesTyped
<1>4. /\ pc \in {"cache", "verify", "write"} /\ pair \in Pair
      /\ pair.cookie = RowOf(a).cookie /\ pair.ident = RowOf(a).ident
      /\ pc = "cache" => pair.rt = RowOf(a).rt
      /\ pair.at \in {None, RowOf(a).at} /\ pair.rt \in {None, RowOf(a).rt}
  <2>1. RowOf(a) \in Pair
    BY <1>3, Rows
  <2>2. CASE kind = "test"
    BY <1>1, <2>1, <2>2
  <2>3. CASE kind # "test"
    BY <1>1, <2>1, <2>3, Pairs
  <2> QED  BY <2>2, <2>3
<1>5. PICK j : /\ JobTyped(j) /\ job' = [job EXCEPT ![k] = j]
               /\ j.pc = pc /\ j.acct = a /\ j.pair = pair
  <2>1. pc \in Pcs \ {"idle", "next"} /\ pc # "net" /\ None \in MaybeToken
    BY <1>4 DEF Pcs, MaybeToken
  <2>2. kind \in {"none", "loop", "force", "call", "put"} \cup Readers
    OBVIOUS
  <2>3. \E j : /\ JobTyped(j) /\ job' = [job EXCEPT ![k] = j]
               /\ j.kind = kind /\ j.pc = pc /\ j.acct = a /\ j.tok = None /\ j.pair = pair
               /\ j.snaps = job[k].snaps
    BY <1>2, <1>3, <1>4, <2>1, <2>2, DoTyped
  <2> QED  BY <2>3
<1>6. PlacesTyped' /\ Elsewhere(a)
  BY <1>2, <1>3 DEF PlacesTyped, Elsewhere
<1>7. /\ Typed' /\ LocalStep(k, a) /\ AloneInv'
      /\ job'[k] = j /\ \A l \in Jobs : l # k => job'[l] = job[l]
  BY <1>2, <1>3, <1>5, <1>6, StepFrame
<1>8. RowOf(a)' = RowOf(a)
  BY <1>2 DEF RowOf
<1>9. ASSUME a \notin leaked' PROVE OwnFor(a)'
  <2>1. OwnFor(a)
    BY <1>2, <1>9 DEF Inv, OwnInv
  <2>2. OwnedBy(a, j.pair) /\ j.pc # "net"
    BY <1>4, <1>5, <2>1 DEF OwnFor, OwnedBy
  <2> QED  BY <1>2, <1>7, <1>8, <2>1, <2>2 DEF OwnFor, OwnedBy, On
<1>10. ASSUME a \notin contended' PROVE GoneFor(a)' /\ CookieFor(a)'
  <2>1. \A l \in Jobs : ~ On(a, l) /\ (On(a, l)' <=> l = k)
    BY <1>3, <1>5, <1>7, <1>10, Begins
  <2>2. CookieFor(a)'
    BY <1>2, <1>4, <1>5, <1>7, <1>8, <1>10, <2>1, CookieAfter
  <2> QED  BY <1>2, <2>2 DEF GoneFor
<1>11. ASSUME Sound(a)' PROVE FreshFor(a)'
  <2>1. a \notin contended'
    BY <1>11 DEF Sound
  <2>2. \A l \in Jobs : ~ On(a, l) /\ (On(a, l)' <=> l = k)
    BY <1>3, <1>5, <1>7, <2>1, Begins
  <2>3. Calm(a)
    BY <2>2 DEF Calm
  <2> QED  BY <1>2, <1>4, <1>5, <1>7, <1>8, <1>11, <2>2, <2>3, FreshAfter
<1> QED  BY <1>2, <1>7, <1>9, <1>10, <1>11, NoHarmKept, LocalInv

\* A handler's write of extra_json: the row keeps its tokens, and the job goes
\* on with the cookie that it wrote.
LEMMA ExtraWritten ==
  ASSUME Inv, NEW k \in Jobs, NEW a \in Accounts, a = job[k].acct,
         job[k].pc \in {"write", "verify"},
         NEW new \in Pair, row' = [row EXCEPT ![a] = new],
         new.at = RowOf(a).at, new.rt = RowOf(a).rt,
         NEW j, JobTyped(j), job' = [job EXCEPT ![k] = j],
         j.acct = a, j.pc \in {"verify", "cache"},
         j.pc = "verify" => j.pair = Extra(new), j.pc = "cache" => j.pair = new,
         saved' \in [Accounts -> Cookies \cup {None}],
         \A b \in Accounts : b # a => saved'[b] = saved[b],
         unchecked' \subseteq Accounts, \A b \in Accounts : b # a /\ b \in unchecked => b \in unchecked',
         CookieFor(a) => /\ new.cookie = saved'[a]
                         /\ new.ident \in {None, new.cookie} \/ a \in unchecked' \/ j.pc = "verify"
                            \/ (new.ident = RowOf(a).ident /\ new.cookie = RowOf(a).cookie
                                /\ job[k].pc = "write" /\ unchecked \subseteq unchecked'),
         UNCHANGED <<exists, cache, runtime, issued, started, failures, restarts,
                     leaked, spent, contended>>
  PROVE  Inv'
<1>1. PlacesTyped /\ Typed /\ a # None /\ new # None
  BY AtWork, NoneIsNone
<1>2. PlacesTyped' /\ Elsewhere(a)
  BY <1>1 DEF PlacesTyped, Elsewhere
<1>3. /\ Typed' /\ LocalStep(k, a) /\ AloneInv'
      /\ job'[k] = j /\ \A l \in Jobs : l # k => job'[l] = job[l]
  <2>1. job[k].acct \in {a, None} /\ j.acct \in {a, None} /\ j.acct \in {job[k].acct, None}
    OBVIOUS
  <2> QED  BY <1>2, <2>1, StepFrame, ZenonT(60)
<1>4. row'[a] = new /\ RowOf(a)' = new
  BY <1>1 DEF PlacesTyped, RowOf
<1>5. j.pair.rt \in {None, new.rt} /\ j.pair.at \in {None, new.at} /\ j.pair.cookie = new.cookie
  <2>1. CASE j.pc = "verify"
    BY <2>1, Pairs
  <2>2. CASE j.pc = "cache"
    BY <2>2
  <2> QED  BY <2>1, <2>2
<1>6. ASSUME a \notin leaked' PROVE OwnFor(a)'
  <2>1. OwnFor(a)
    BY <1>6 DEF Inv, OwnInv
  <2>2. OwnedBy(a, j.pair) /\ OwnedBy(a, new) /\ j.pc # "net"
    BY <1>5, <2>1 DEF OwnFor, OwnedBy
  <2> QED  BY <1>3, <1>4, <2>1, <2>2 DEF OwnFor, OwnedBy, On
<1>7. \A l \in Jobs : a \notin contended' => (On(a, l) <=> l = k) /\ (On(a, l)' <=> l = k)
  BY <1>3, GoesOn
<1>8. ASSUME a \notin contended' PROVE GoneFor(a)' /\ CookieFor(a)'
  <2>1. GoneFor(a) /\ CookieFor(a) /\ exists[a]
    BY <1>8 DEF Inv, GoneInv, CookieInv, GoneFor, On
  <2>2. new.cookie = saved'[a]
    BY <2>1
  <2>3. new.ident \in {None, new.cookie} \/ a \in unchecked' \/ j.pc = "verify"
    <3>1. CASE /\ new.ident = RowOf(a).ident /\ new.cookie = RowOf(a).cookie
               /\ job[k].pc = "write" /\ unchecked \subseteq unchecked'
      <4>1. ~ \E l \in Jobs : On(a, l) /\ job[l].pc = "verify"
        BY <1>7, <1>8, <3>1
      <4> QED  BY <2>1, <3>1, <4>1 DEF CookieFor
    <3> QED  BY <2>1, <3>1
  <2>4. \A l \in Jobs : On(a, l)' => job'[l].pc # "write" /\ job'[l].pair.cookie = new.cookie
    BY <1>3, <1>5, <1>7, <1>8
  <2>5. j.pc = "verify" => \E l \in Jobs : On(a, l)' /\ job'[l].pc = "verify"
    BY <1>3, <1>7, <1>8
  <2>6. CookieFor(a)'
    BY <1>4, <2>2, <2>3, <2>4, <2>5 DEF CookieFor
  <2> QED  BY <2>1, <2>6 DEF GoneFor
<1>9. ASSUME Sound(a)' PROVE FreshFor(a)'
  <2>1. a \notin contended'
    BY <1>9 DEF Sound
  <2>2. Calm(a)
    BY <1>7, <2>1 DEF Calm
  <2>3. \A l \in Jobs : On(a, l)' =>
           /\ job'[l].pc \notin {"store", "persist"}
           /\ job'[l].pc = "cache" => job'[l].pair.rt = RowOf(a).rt
    BY <1>3, <1>7, <2>1
  <2>4. RowOf(a).rt' = RowOf(a).rt
    BY <1>4
  <2> QED  BY <1>3, <1>9, <2>2, <2>3, <2>4, FreshAfter
<1> QED  BY <1>3, <1>6, <1>8, <1>9, NoHarmKept, LocalInv

LEMMA WriteExtraInv ==
  ASSUME Inv, NEW k \in Jobs, WriteExtra(k) PROVE Inv'
<1>1. PICK a, pair, kind : a = job[k].acct /\ pair = job[k].pair /\ kind = job[k].kind
  OBVIOUS
<1>2. PICK c, cookie, new :
        /\ c \in Cookies
        /\ cookie = CASE kind \in {"cookie", "import"} -> c
                      [] kind = "clear"                -> None
                      [] OTHER                         -> pair.cookie
        /\ new = PatchedExtra(a, cookie, pair.ident)
        /\ job[k].pc = "write" /\ row' = [row EXCEPT ![a] = new]
        /\ saved' = IF kind = "extra" THEN saved ELSE [saved EXCEPT ![a] = cookie]
        /\ unchecked' = IF kind = "import" THEN unchecked \cup {a} ELSE unchecked
        /\ IF kind \in {"cookie", "clear"}
           THEN Do(k, kind, "verify", a, None, Extra(row'[a]))
           ELSE Do(k, kind, "cache", a, None, row'[a])
        /\ UNCHANGED <<exists, cache, runtime, issued, started, failures, restarts,
                       leaked, spent, contended>>
  <2>1. PICK c \in Cookies :
          LET value == CASE kind \in {"cookie", "import"} -> c
                         [] kind = "clear"                -> None
                         [] OTHER                         -> pair.cookie
          IN  /\ job[k].pc = "write"
              /\ row' = [row EXCEPT ![a] = PatchedExtra(a, value, pair.ident)]
              /\ saved' = IF kind = "extra" THEN saved ELSE [saved EXCEPT ![a] = value]
              /\ unchecked' = IF kind = "import" THEN unchecked \cup {a} ELSE unchecked
              /\ IF kind \in {"cookie", "clear"}
                 THEN Do(k, kind, "verify", a, None, Extra(row'[a]))
                 ELSE Do(k, kind, "cache", a, None, row'[a])
              /\ UNCHANGED <<exists, cache, runtime, issued, counts, leaked, spent, contended>>
    BY <1>1 DEF WriteExtra
  <2>2. PICK cookie, new :
          /\ cookie = CASE kind \in {"cookie", "import"} -> c
                        [] kind = "clear"                -> None
                        [] OTHER                         -> pair.cookie
          /\ new = PatchedExtra(a, cookie, pair.ident)
    OBVIOUS
  <2> QED  BY <2>1, <2>2 DEF counts
<1>3. /\ a \in Accounts /\ PlacesTyped /\ Typed /\ pair \in Pair
      /\ kind \in {"none", "loop", "force", "call", "put"} \cup Readers
      /\ cookie \in Cookies \cup {None} /\ pair.ident \in Cookies \cup {None}
  <2>1. /\ a \in Accounts /\ PlacesTyped /\ Typed /\ pair \in Pair
        /\ kind \in {"none", "loop", "force", "call", "put"} \cup Readers
    BY <1>1, <1>2, AtWork DEF Locals
  <2> QED  BY <1>2, <2>1 DEF Pair
<1>4. /\ new \in Pair /\ new.at = RowOf(a).at /\ new.rt = RowOf(a).rt
      /\ new.cookie = cookie /\ new.ident = pair.ident
  <2>1. None \in MaybeToken
    BY DEF MaybeToken
  <2> QED  BY <1>2, <1>3, <2>1, Patches
<1>5. row'[a] = new /\ Extra(new) \in Pair
  BY <1>2, <1>3, <1>4, Pairs DEF PlacesTyped
<1>6. PICK j : /\ JobTyped(j) /\ job' = [job EXCEPT ![k] = j] /\ j.acct = a
               /\ j.pc = IF kind \in {"cookie", "clear"} THEN "verify" ELSE "cache"
               /\ j.pair = IF kind \in {"cookie", "clear"} THEN Extra(new) ELSE new
  <2>1. "verify" \in Pcs \ {"idle", "next"} /\ "cache" \in Pcs \ {"idle", "next"}
        /\ None \in MaybeToken
    BY DEF Pcs, MaybeToken
  <2>2. CASE kind \in {"cookie", "clear"}
    <3>1. Do(k, kind, "verify", a, None, Extra(new))
      BY <1>2, <1>5, <2>2
    <3>2. \E j : /\ JobTyped(j) /\ job' = [job EXCEPT ![k] = j]
                 /\ j.kind = kind /\ j.pc = "verify" /\ j.acct = a /\ j.tok = None
                 /\ j.pair = Extra(new) /\ j.snaps = job[k].snaps
      BY <1>3, <1>5, <2>1, <3>1, DoTyped
    <3> QED  BY <2>2, <3>2
  <2>3. CASE kind \notin {"cookie", "clear"}
    <3>1. Do(k, kind, "cache", a, None, new)
      BY <1>2, <1>5, <2>3
    <3>2. \E j : /\ JobTyped(j) /\ job' = [job EXCEPT ![k] = j]
                 /\ j.kind = kind /\ j.pc = "cache" /\ j.acct = a /\ j.tok = None
                 /\ j.pair = new /\ j.snaps = job[k].snaps
      BY <1>3, <1>4, <2>1, <3>1, DoTyped
    <3> QED  BY <2>3, <3>2
  <2> QED  BY <2>2, <2>3
<1>7. /\ j.pc \in {"verify", "cache"}
      /\ j.pc = "verify" => j.pair = Extra(new)
      /\ j.pc = "cache" => j.pair = new
  BY <1>6
<1>8. /\ saved' \in [Accounts -> Cookies \cup {None}]
      /\ \A b \in Accounts : b # a => saved'[b] = saved[b]
      /\ saved'[a] = IF kind = "extra" THEN saved[a] ELSE cookie
      /\ unchecked' \subseteq Accounts /\ unchecked \subseteq unchecked'
      /\ kind = "import" => a \in unchecked'
  BY <1>2, <1>3 DEF PlacesTyped
<1>9. ASSUME CookieFor(a)
      PROVE  /\ new.cookie = saved'[a]
             /\ new.ident \in {None, new.cookie} \/ a \in unchecked' \/ j.pc = "verify"
                \/ (new.ident = RowOf(a).ident /\ new.cookie = RowOf(a).cookie
                    /\ job[k].pc = "write" /\ unchecked \subseteq unchecked')
  <2>1. /\ RowOf(a).cookie = saved[a]
        /\ pair.cookie = RowOf(a).cookie /\ pair.ident = RowOf(a).ident
    BY <1>1, <1>2, <1>9 DEF CookieFor, On
  <2>2. CASE kind \in {"cookie", "clear"}
    BY <1>4, <1>6, <1>8, <2>2
  <2>3. CASE kind = "import"
    BY <1>4, <1>8, <2>3
  <2>4. CASE kind \notin {"cookie", "clear", "import"}
    BY <1>2, <1>4, <1>8, <2>1, <2>4
  <2> QED  BY <2>2, <2>3, <2>4
<1>10. job[k].pc \in {"write", "verify"} /\ row' = [row EXCEPT ![a] = new]
       /\ UNCHANGED <<exists, cache, runtime, issued, started, failures, restarts,
                      leaked, spent, contended>>
  BY <1>2
<1>11. \A b \in Accounts : b # a /\ b \in unchecked => b \in unchecked'
  BY <1>8
<1> QED  BY <1>1, <1>3, <1>4, <1>6, <1>7, <1>8, <1>9, <1>10, <1>11, ExtraWritten

LEMMA ResolveIdentityInv ==
  ASSUME Inv, NEW k \in Jobs, ResolveIdentity(k) PROVE Inv'
<1>1. PICK a, pair, kind : a = job[k].acct /\ pair = job[k].pair /\ kind = job[k].kind
  OBVIOUS
<1>i. PICK ident \in {None} \cup (IF kind = "clear" THEN {} ELSE {pair.cookie}) :
        row' = [row EXCEPT ![a] = PatchedExtra(a, pair.cookie, ident)]
  BY <1>1 DEF ResolveIdentity
<1>n. PICK new : new = PatchedExtra(a, pair.cookie, ident)
  OBVIOUS
<1>2. /\ ident \in {None, pair.cookie} /\ new = PatchedExtra(a, pair.cookie, ident)
      /\ job[k].pc = "verify" /\ row' = [row EXCEPT ![a] = new]
      /\ unchecked' = unchecked \ {a}
      /\ Do(k, kind, "cache", a, None, row'[a])
      /\ UNCHANGED <<exists, cache, runtime, issued, started, failures, restarts,
                     saved, leaked, spent, contended>>
  <2>1. ident \in {None, pair.cookie}
    OBVIOUS
  <2>2. new = PatchedExtra(a, pair.cookie, ident) /\ row' = [row EXCEPT ![a] = new]
    BY <1>i, <1>n
  <2>3. /\ job[k].pc = "verify" /\ unchecked' = unchecked \ {a}
        /\ Do(k, kind, "cache", a, None, row'[a])
        /\ UNCHANGED <<exists, cache, runtime, issued, started, failures, restarts,
                       saved, leaked, spent, contended>>
    BY <1>1 DEF ResolveIdentity, counts
  <2> QED  BY <2>1, <2>2, <2>3
<1>3. /\ a \in Accounts /\ PlacesTyped /\ Typed /\ pair \in Pair
      /\ kind \in {"none", "loop", "force", "call", "put"} \cup Readers
      /\ pair.cookie \in Cookies \cup {None} /\ ident \in Cookies \cup {None}
  <2>1. /\ a \in Accounts /\ PlacesTyped /\ Typed /\ pair \in Pair
        /\ kind \in {"none", "loop", "force", "call", "put"} \cup Readers
    BY <1>1, <1>2, AtWork DEF Locals
  <2> QED  BY <1>2, <2>1 DEF Pair
<1>4. /\ new \in Pair /\ new.at = RowOf(a).at /\ new.rt = RowOf(a).rt
      /\ new.cookie = pair.cookie /\ new.ident = ident
  <2>1. None \in MaybeToken
    BY DEF MaybeToken
  <2> QED  BY <1>2, <1>3, <2>1, Patches
<1>5. row'[a] = new
  BY <1>2, <1>3 DEF PlacesTyped
<1>6. PICK j : /\ JobTyped(j) /\ job' = [job EXCEPT ![k] = j]
               /\ j.pc = "cache" /\ j.acct = a /\ j.pair = new
  <2>1. "cache" \in Pcs \ {"idle", "next"} /\ None \in MaybeToken
    BY DEF Pcs, MaybeToken
  <2>2. Do(k, kind, "cache", a, None, new)
    BY <1>2, <1>5
  <2>3. \E j : /\ JobTyped(j) /\ job' = [job EXCEPT ![k] = j]
               /\ j.kind = kind /\ j.pc = "cache" /\ j.acct = a /\ j.tok = None
               /\ j.pair = new /\ j.snaps = job[k].snaps
    BY <1>3, <1>4, <2>1, <2>2, DoTyped
  <2> QED  BY <2>3
<1>7. /\ saved' \in [Accounts -> Cookies \cup {None}]
      /\ \A b \in Accounts : b # a => saved'[b] = saved[b]
      /\ unchecked' \subseteq Accounts
      /\ \A b \in Accounts : b # a /\ b \in unchecked => b \in unchecked'
  BY <1>2, <1>3 DEF PlacesTyped
<1>8. CookieFor(a) => new.cookie = saved'[a] /\ new.ident \in {None, new.cookie}
  BY <1>1, <1>2, <1>4 DEF CookieFor, On
<1>9. CookieFor(a) => /\ new.cookie = saved'[a]
                      /\ new.ident \in {None, new.cookie} \/ a \in unchecked' \/ j.pc = "verify"
                         \/ (new.ident = RowOf(a).ident /\ new.cookie = RowOf(a).cookie
                             /\ job[k].pc = "write" /\ unchecked \subseteq unchecked')
  BY <1>8
<1>10. job[k].pc \in {"write", "verify"} /\ row' = [row EXCEPT ![a] = new]
       /\ UNCHANGED <<exists, cache, runtime, issued, started, failures, restarts,
                      leaked, spent, contended>>
  BY <1>2
<1> QED  BY <1>1, <1>3, <1>4, <1>6, <1>7, <1>9, <1>10, ExtraWritten

LEMMA DeleteAccountInv ==
  ASSUME Inv, NEW k \in Jobs, NEW a \in Accounts, DeleteAccount(k, a) PROVE Inv'
<1>1. /\ job[k].pc = "idle" /\ started' = started + 1 /\ exists[a]
      /\ exists' = [exists EXCEPT ![a] = FALSE] /\ row' = [row EXCEPT ![a] = None]
      /\ saved' = [saved EXCEPT ![a] = None]
      /\ contended' = IF WorkedOn(a, job) # {} THEN contended \cup {a} ELSE contended
      /\ UNCHANGED <<cache, runtime, issued, job, failures, restarts, leaked, spent, unchecked>>
  BY DEF DeleteAccount, Begin
<1>2. PlacesTyped /\ Typed /\ job[k].acct = None /\ JobTyped(job[k]) /\ a # None
  BY <1>1, AtWork, NoneIsNone
<1>3. /\ exists' \in [Accounts -> BOOLEAN] /\ row' \in [Accounts -> Pair \cup {None}]
      /\ saved' \in [Accounts -> Cookies \cup {None}]
      /\ contended \subseteq contended' /\ contended' \subseteq Accounts
      /\ started' \in Nat /\ row'[a] = None /\ ~ exists'[a] /\ saved'[a] = None
      /\ \A b \in Accounts : b # a => /\ row'[b] = row[b] /\ exists'[b] = exists[b]
                                      /\ saved'[b] = saved[b]
  BY <1>1, <1>2, Places DEF PlacesTyped
<1>4. job' = [job EXCEPT ![k] = job[k]]
  BY <1>1, <1>2, Places
<1>5. Typed'
  <2>1. PICK j : j = job[k]
    OBVIOUS
  <2>2. JobTyped(j) /\ job' = [job EXCEPT ![k] = j]
    BY <1>2, <1>4, <2>1
  <2> QED  BY <1>1, <1>2, <1>3, <2>2, TypedNext DEF PlacesTyped
<1>6. LocalStep(k, a)
  BY <1>1, <1>2, <1>3 DEF LocalStep
<1>7. AloneInv'
  BY <1>1, <1>2, <1>6, AloneKept
<1>8. RowOf(a)' = Empty
  BY <1>3 DEF RowOf
<1>9. \A l \in Jobs : On(a, l)' <=> On(a, l)
  BY <1>1 DEF On
<1>10. ASSUME a \notin leaked' PROVE OwnFor(a)'
  <2>1. OwnFor(a)
    BY <1>1, <1>10 DEF Inv, OwnInv
  <2> QED  BY <1>1, <1>8, <1>9, <2>1, Pairs DEF OwnFor, OwnedBy
<1>11. ASSUME a \notin contended' PROVE GoneFor(a)' /\ CookieFor(a)'
  <2>1. \A l \in Jobs : ~ On(a, l)
    <3> SUFFICES ASSUME NEW l \in Jobs, On(a, l) PROVE FALSE
      OBVIOUS
    <3>1. job[l].pc # "idle"
      BY <1>2, IdleHasNone DEF On
    <3>2. l \in WorkedOn(a, job)
      BY <3>1 DEF WorkedOn, On
    <3> QED  BY <1>1, <1>11, <3>2
  <2> QED  BY <1>3, <1>8, <1>9, <2>1, Pairs DEF GoneFor, CookieFor
<1>12. ~ Sound(a)'
  BY <1>3 DEF Sound
<1> QED  BY <1>1, <1>5, <1>6, <1>7, <1>10, <1>11, <1>12, NoHarmKept, LocalInv

-----------------------------------------------------------------------------
\* A restart

\* What the rows leave in a provider's runtime is one of its accounts' tokens.
LEMMA Loaded ==
  ASSUME Typed, NEW p \in Providers, NEW r \in RuntimesAfterLoad(p)
  PROVE  /\ r \in [at : MaybeToken, rt : MaybeToken]
         /\ r.rt # None => \E a \in Accounts : Provider[a] = p /\ r.rt = RowOf(a).rt
<1>1. CASE Loadable(p) = {}
  BY <1>1 DEF RuntimesAfterLoad, MaybeToken
<1>2. CASE Loadable(p) # {}
  <2>1. PICK last \in Loadable(p), other \in Loadable(p) :
          r = [at |-> row[last].at,
               rt |-> IF row[last].rt # None THEN row[last].rt ELSE row[other].rt]
    BY <1>2 DEF RuntimesAfterLoad
  <2>2. \A a \in Loadable(p) : /\ a \in Accounts /\ Provider[a] = p
                               /\ RowOf(a) = row[a] /\ row[a] \in Pair
    <3> SUFFICES ASSUME NEW a \in Loadable(p)
                 PROVE  /\ a \in Accounts /\ Provider[a] = p
                        /\ RowOf(a) = row[a] /\ row[a] \in Pair
      OBVIOUS
    <3>1. a \in Accounts /\ Provider[a] = p /\ HasToken(RowOf(a))
      BY DEF Loadable
    <3>2. row[a] # None
      BY <3>1, Rows, Pairs DEF HasToken
    <3> QED  BY <3>1, <3>2, Rows
  <2>3. \A a \in Loadable(p) : row[a].at \in MaybeToken /\ row[a].rt \in MaybeToken
    BY <2>2 DEF Pair, MaybeToken
  <2>4. \A a \in Loadable(p) : a \in Accounts /\ Provider[a] = p /\ row[a].rt = RowOf(a).rt
    BY <2>2
  <2>5. /\ r.at = row[last].at
        /\ r.rt = IF row[last].rt # None THEN row[last].rt ELSE row[other].rt
    BY <2>1
  <2>6. r \in [at : MaybeToken, rt : MaybeToken]
    <3>1. r.at \in MaybeToken /\ r.rt \in MaybeToken
      BY <2>3, <2>5
    <3> QED  BY <2>1, <2>5, <3>1
  <2>7. r.rt \in {row[last].rt, row[other].rt}
    BY <2>5
  <2> QED  BY <2>4, <2>6, <2>7
<1> QED  BY <1>1, <1>2

\* The synchronisation at start puts the runtime's tokens in the row.
LEMMA SyncedRow ==
  ASSUME Typed, NEW a \in Accounts, NEW r \in Runtimes, NEW identified
  PROVE  /\ Synced(a, r, identified) \in Pair
         /\ Synced(a, r, identified).at = r[Provider[a]].at
         /\ Synced(a, r, identified).rt \in {r[Provider[a]].rt, RowOf(a).rt}
<1>1. PICK at, rt, patched : /\ at = r[Provider[a]].at /\ rt = r[Provider[a]].rt
                             /\ patched = Patched(a, at, rt)
  OBVIOUS
<1>2. at \in MaybeToken /\ rt \in MaybeToken
  BY <1>1, CredentialsAssumption DEF Runtimes
<1>3. None \in Cookies \cup {None}
  OBVIOUS
<1>4. patched \in Pair /\ patched.at = at /\ patched.rt \in {rt, RowOf(a).rt}
  BY <1>1, <1>2, <1>3, Patches
<1>5. Synced(a, r, identified) = IF a \in identified
                                 THEN [patched EXCEPT !.cookie = None, !.ident = None]
                                 ELSE patched
  BY <1>1 DEF Synced
<1> QED  BY <1>1, <1>4, <1>5 DEF Pair

\* What a restart does to an account, in terms of the accounts main prepares.
LEMMA RestartFacts ==
  ASSUME Inv, Restart
  PROVE  \E r \in Runtimes, prepared \in SUBSET Accounts :
           /\ runtime' = r
           /\ \A p \in Providers : r[p] \in RuntimesAfterLoad(p)
           /\ \A a \in Accounts : a \in prepared => r[Provider[a]].at # None
           /\ exists' = [a \in Accounts |-> exists[a] \/ a \in prepared]
           /\ \A a \in Accounts : a \notin prepared => row'[a] = row[a]
           /\ \A a \in Accounts : a \in prepared =>
                 /\ row'[a] \in Pair /\ row'[a].at = r[Provider[a]].at
                 /\ row'[a].rt \in {r[Provider[a]].rt, RowOf(a).rt}
           /\ row' \in [Accounts -> Pair \cup {None}]
           /\ cache' = [a \in Accounts |-> IF row'[a] = None THEN Empty ELSE row'[a]]
           /\ leaked' = leaked \cup {a \in prepared :
                 \E t \in {r[Provider[a]].at, r[Provider[a]].rt} \ {None} : t.owner # a}
           /\ spent' = spent \cup {job[k].acct : k \in {i \in Jobs : job[i].pc \in {"store", "persist"}}}
           /\ unchecked' = unchecked \cup {job[k].acct : k \in {i \in Jobs : job[i].pc = "verify"}}
           /\ contended' = contended \cup prepared
           /\ job' = [k \in Jobs |-> Idle] /\ restarts' = restarts + 1
           /\ UNCHANGED <<issued, started, failures, saved>>
<1>1. Typed
  BY DEF Inv
<1>2. PICK c \in RuntimesAfterLoad("claude"), x \in RuntimesAfterLoad("codex"),
           g \in RuntimesAfterLoad("antigravity") :
        RestartWith([NoRuntime EXCEPT !["claude"] = c, !["codex"] = x, !["antigravity"] = g])
  BY DEF Restart
<1>3. PICK r : r = [NoRuntime EXCEPT !["claude"] = c, !["codex"] = x, !["antigravity"] = g]
  OBVIOUS
<1>4. r["claude"] = c /\ r["codex"] = x /\ r["antigravity"] = g /\ DOMAIN r = Providers
      /\ r = [p \in Providers |-> r[p]]
  BY <1>3 DEF NoRuntime, Providers
<1>5. \A p \in Providers : r[p] \in RuntimesAfterLoad(p)
  BY <1>4 DEF Providers
<1>6. \A p \in Providers : r[p] \in [at : MaybeToken, rt : MaybeToken]
  BY <1>1, <1>5, Loaded
<1>7. r \in Runtimes
  BY <1>4, <1>6 DEF Runtimes
<1>8. PICK prepared : prepared = PreparedAccounts(r)
  OBVIOUS
<1>9. PICK identified :
        /\ runtime' = r
        /\ exists' = [a \in Accounts |-> exists[a] \/ a \in prepared]
        /\ row' = [a \in Accounts |-> IF a \in prepared THEN Synced(a, r, identified) ELSE row[a]]
        /\ cache' = [a \in Accounts |-> IF row'[a] = None THEN Empty ELSE row'[a]]
        /\ leaked' = leaked \cup {a \in prepared :
              \E t \in {r[Provider[a]].at, r[Provider[a]].rt} \ {None} : t.owner # a}
        /\ spent' = spent \cup {job[k].acct : k \in {i \in Jobs : job[i].pc \in {"store", "persist"}}}
        /\ unchecked' = unchecked \cup {job[k].acct : k \in {i \in Jobs : job[i].pc = "verify"}}
        /\ contended' = contended \cup prepared
  <2>1. RestartWith(r)
    BY <1>2, <1>3
  <2> QED  BY <1>8, <2>1 DEF RestartWith
<1>10. /\ prepared \in SUBSET Accounts
       /\ \A a \in Accounts : a \in prepared => r[Provider[a]].at # None
  <2> SUFFICES ASSUME NEW a \in prepared PROVE a \in Accounts /\ r[Provider[a]].at # None
    OBVIOUS
  <2>1. PICK p \in Providers : a = Boot[p] /\ r[p].at # None /\ Boot[p] # None
    BY <1>8 DEF PreparedAccounts, Prepared
  <2> QED  BY <2>1, CredentialsAssumption
<1>11. \A a \in Accounts : a \in prepared =>
          /\ Synced(a, r, identified) \in Pair
          /\ Synced(a, r, identified).at = r[Provider[a]].at
          /\ Synced(a, r, identified).rt \in {r[Provider[a]].rt, RowOf(a).rt}
  BY <1>1, <1>7, SyncedRow
<1>12. /\ row' = [a \in Accounts |-> IF a \in prepared THEN Synced(a, r, identified) ELSE row[a]]
       /\ cache' = [a \in Accounts |-> IF row'[a] = None THEN Empty ELSE row'[a]]
  BY <1>9
<1>13. /\ \A a \in Accounts : a \notin prepared => row'[a] = row[a]
       /\ \A a \in Accounts : a \in prepared => row'[a] = Synced(a, r, identified)
  BY <1>12
<1>14. row' \in [Accounts -> Pair \cup {None}]
  BY <1>1, <1>11, <1>12, Places
<1>15. /\ \A a \in Accounts : a \in prepared =>
             /\ row'[a] \in Pair /\ row'[a].at = r[Provider[a]].at
             /\ row'[a].rt \in {r[Provider[a]].rt, RowOf(a).rt}
  BY <1>11, <1>13
<1>16. /\ job' = [k \in Jobs |-> Idle] /\ restarts' = restarts + 1
       /\ UNCHANGED <<issued, started, failures, saved>>
  BY DEF Restart
<1>17. /\ runtime' = r
       /\ exists' = [a \in Accounts |-> exists[a] \/ a \in prepared]
       /\ leaked' = leaked \cup {a \in prepared :
             \E t \in {r[Provider[a]].at, r[Provider[a]].rt} \ {None} : t.owner # a}
       /\ spent' = spent \cup {job[k].acct : k \in {i \in Jobs : job[i].pc \in {"store", "persist"}}}
       /\ unchecked' = unchecked \cup {job[k].acct : k \in {i \in Jobs : job[i].pc = "verify"}}
       /\ contended' = contended \cup prepared
  BY <1>9
<1> r \in Runtimes /\ prepared \in SUBSET Accounts
  BY <1>7, <1>10
<1> WITNESS r \in Runtimes, prepared \in SUBSET Accounts
<1> QED  BY <1>5, <1>10, <1>12, <1>13, <1>14, <1>15, <1>16, <1>17

\* After a restart no job is on an account, and the cache is the rows.
LEMMA RestartInv ==
  ASSUME Inv, Restart PROVE Inv'
<1>1. PICK r \in Runtimes, prepared \in SUBSET Accounts :
        /\ runtime' = r
        /\ \A p \in Providers : r[p] \in RuntimesAfterLoad(p)
        /\ \A a \in Accounts : a \in prepared => r[Provider[a]].at # None
        /\ exists' = [a \in Accounts |-> exists[a] \/ a \in prepared]
        /\ \A a \in Accounts : a \notin prepared => row'[a] = row[a]
        /\ \A a \in Accounts : a \in prepared =>
              /\ row'[a] \in Pair /\ row'[a].at = r[Provider[a]].at
              /\ row'[a].rt \in {r[Provider[a]].rt, RowOf(a).rt}
        /\ row' \in [Accounts -> Pair \cup {None}]
        /\ cache' = [a \in Accounts |-> IF row'[a] = None THEN Empty ELSE row'[a]]
        /\ leaked' = leaked \cup {a \in prepared :
              \E t \in {r[Provider[a]].at, r[Provider[a]].rt} \ {None} : t.owner # a}
        /\ spent' = spent \cup {job[k].acct : k \in {i \in Jobs : job[i].pc \in {"store", "persist"}}}
        /\ unchecked' = unchecked \cup {job[k].acct : k \in {i \in Jobs : job[i].pc = "verify"}}
        /\ contended' = contended \cup prepared
        /\ job' = [k \in Jobs |-> Idle] /\ restarts' = restarts + 1
        /\ UNCHANGED <<issued, started, failures, saved>>
  BY RestartFacts
<1>2. Typed /\ (\A k \in Jobs : JobTyped(job[k])) /\ \A a \in Accounts : a # None
  BY TypedJobs, NoneIsNone DEF Inv
<1>3. \A k \in Jobs : job'[k] = Idle
  BY <1>1
<1>4. \A a \in Accounts, k \in Jobs : ~ On(a, k)'
  BY <1>2, <1>3, IdleTyped DEF On
<1>5. /\ leaked \subseteq leaked' /\ spent \subseteq spent' /\ unchecked \subseteq unchecked'
      /\ contended' = contended \cup prepared
  BY <1>1
<1>6. \A a \in Accounts, k \in Jobs : On(a, k) =>
         /\ job[k].pc \in {"store", "persist"} => a \in spent'
         /\ job[k].pc = "verify" => a \in unchecked'
  BY <1>1 DEF On
<1>7. ASSUME NEW a \in Accounts
      PROVE  /\ cache'[a] = RowOf(a)' /\ cache'[a] \in Pair
             /\ a \notin prepared => /\ row'[a] = row[a] /\ RowOf(a)' = RowOf(a)
                                     /\ exists'[a] <=> exists[a]
             /\ a \in prepared => /\ RowOf(a)'.at = r[Provider[a]].at
                                  /\ RowOf(a)'.rt \in {r[Provider[a]].rt, RowOf(a).rt}
  <2>1. exists[a] \in BOOLEAN /\ row'[a] \in Pair \cup {None}
    BY <1>1, <1>2, Places
  <2>2. a \in prepared => row'[a] # None
    BY <1>1, NoneIsNone
  <2>3. cache'[a] = RowOf(a)' /\ cache'[a] \in Pair
    BY <1>1, <2>1, Pairs DEF RowOf
  <2>4. ASSUME a \notin prepared
        PROVE  row'[a] = row[a] /\ RowOf(a)' = RowOf(a) /\ (exists'[a] <=> exists[a])
    BY <1>1, <2>1, <2>4 DEF RowOf
  <2>5. ASSUME a \in prepared
        PROVE  /\ RowOf(a)'.at = r[Provider[a]].at
               /\ RowOf(a)'.rt \in {r[Provider[a]].rt, RowOf(a).rt}
    <3>1. RowOf(a)' = row'[a]
      BY <2>2, <2>5 DEF RowOf
    <3> QED  BY <1>1, <2>5, <3>1
  <2> QED  BY <2>3, <2>4, <2>5
<1>8. Typed'
  <2>1. /\ exists' \in [Accounts -> BOOLEAN] /\ row' \in [Accounts -> Pair \cup {None}]
        /\ cache' \in [Accounts -> Pair] /\ runtime' \in Runtimes
        /\ issued' \in [Accounts -> Nat] /\ saved' \in [Accounts -> Cookies \cup {None}]
        /\ leaked' \subseteq Accounts /\ contended' \subseteq Accounts
        /\ started' \in Nat /\ failures' \in Nat /\ restarts' \in Nat
    <3>1. exists' \in [Accounts -> BOOLEAN]
      BY <1>1, <1>2, Places
    <3>2. cache' \in [Accounts -> Pair]
      BY <1>1, <1>7
    <3>3. leaked' \subseteq Accounts /\ contended' \subseteq Accounts
      BY <1>1, <1>2, Places
    <3> QED  BY <1>1, <1>2, <3>1, <3>2, <3>3, Places
  <2>2. spent' \subseteq Accounts /\ unchecked' \subseteq Accounts
    <3>1. \A k \in Jobs : job[k].pc \notin {"idle", "next"} => job[k].acct \in Accounts
      BY <1>2 DEF JobTyped, Locals
    <3> QED  BY <1>1, <1>2, <3>1, Places
  <2>3. job' \in [Jobs -> Locals] /\ \A k \in Jobs : JobTyped(job'[k])
    BY <1>1, <1>3, IdleTyped DEF JobTyped
  <2>4. \A k \in Jobs : /\ job'[k].pc \in Pcs /\ job'[k].acct \in Accounts \cup {None}
                        /\ job'[k].pair \in Pair /\ job'[k].todo \subseteq Accounts
                        /\ job'[k].snaps \in [Accounts -> Pair]
                        /\ job'[k].pc = "net" => job'[k].tok \in Token
    BY <2>3 DEF JobTyped, Locals, Untokened
  <2>5. TypeOK'
    BY <2>1, <2>2, <2>4 DEF TypeOK, Runtimes, MaybeToken
  <2> QED  BY <2>1, <2>3, <2>5 DEF Typed, JobTyped
<1>9. AloneInv'
  BY <1>4 DEF AloneInv, AloneFor
<1>10. OwnInv'
  <2> SUFFICES ASSUME NEW a \in Accounts, a \notin leaked' PROVE OwnFor(a)'
    BY DEF OwnInv
  <2>1. OwnFor(a)
    BY <1>5 DEF Inv, OwnInv
  <2>2. OwnedBy(a, RowOf(a))'
    <3>1. CASE a \notin prepared
      BY <1>7, <2>1, <3>1 DEF OwnFor, OwnedBy
    <3>2. CASE a \in prepared
      <4>1. \A t \in {r[Provider[a]].at, r[Provider[a]].rt} \ {None} : t.owner = a
        BY <1>1, <3>2
      <4> QED  BY <1>7, <2>1, <3>2, <4>1 DEF OwnFor, OwnedBy
    <3> QED  BY <3>1, <3>2
  <2> QED  BY <1>4, <1>7, <2>2 DEF OwnFor, OwnedBy
<1>11. GoneInv' /\ CookieInv'
  <2> SUFFICES ASSUME NEW a \in Accounts, a \notin contended'
               PROVE  GoneFor(a)' /\ CookieFor(a)'
    BY DEF GoneInv, CookieInv
  <2>1. a \notin prepared /\ GoneFor(a) /\ CookieFor(a)
    BY <1>5 DEF Inv, GoneInv, CookieInv
  <2>2. GoneFor(a)'
    BY <1>4, <1>7, <2>1 DEF GoneFor
  <2>3. RowOf(a)'.cookie = saved'[a]
    BY <1>1, <1>7, <2>1 DEF CookieFor
  <2>4. RowOf(a)'.ident \in {None, RowOf(a)'.cookie} \/ a \in unchecked'
    BY <1>5, <1>6, <1>7, <2>1 DEF CookieFor
  <2> QED  BY <1>4, <2>2, <2>3, <2>4 DEF CookieFor
<1>12. FreshInv'
  <2> SUFFICES ASSUME NEW a \in Accounts, Sound(a)' PROVE FreshFor(a)'
    BY DEF FreshInv
  <2>1. /\ a \notin prepared /\ a \notin spent' /\ exists'[a]
        /\ \A b \in leaked' : Provider[b] # Provider[a]
    BY <1>5 DEF Sound
  <2>2. Sound(a)
    BY <1>5, <1>7, <2>1 DEF Sound
  <2>3. FreshFor(a)
    BY <2>2 DEF Inv, FreshInv
  <2>4. ~ Storing(a, {"store", "persist"})
    BY <1>6, <2>1 DEF Storing
  <2>5. Fresh(RowOf(a).rt) /\ RowOf(a)' = RowOf(a) /\ issued' = issued
    BY <1>1, <1>7, <2>1, <2>3, <2>4 DEF FreshFor
  <2>6. Fresh(RowOf(a).rt)' /\ Fresh(cache[a].rt)'
    BY <1>7, <2>5 DEF Fresh, Accepts
  <2>7. RuntimeFresh(a)'
    <3> SUFFICES ASSUME r[Provider[a]].rt # None, r[Provider[a]].rt.owner = a
                 PROVE  r[Provider[a]].rt.n = issued[a]
      BY <1>1, <2>5 DEF RuntimeFresh, Accepts
    <3>1. Provider[a] \in Providers
      BY CredentialsAssumption
    <3>2. PICK b \in Accounts : Provider[b] = Provider[a] /\ r[Provider[a]].rt = RowOf(b).rt
      BY <1>1, <1>2, <3>1, Loaded
    <3>3. b \notin leaked
      BY <1>5, <2>1, <3>2
    <3>4. OwnFor(b)
      BY <3>3 DEF Inv, OwnInv
    <3>5. b = a
      BY <3>2, <3>4 DEF OwnFor, OwnedBy
    <3> QED  BY <2>5, <3>2, <3>5 DEF Fresh, Accepts
  <2> QED  BY <1>4, <2>6, <2>7 DEF FreshFor
<1> QED  BY <1>8, <1>9, <1>10, <1>11, <1>12 DEF Inv

-----------------------------------------------------------------------------
\* The invariant holds

LEMMA InitInv == Init => Inv
<1> SUFFICES ASSUME Init PROVE Inv
  OBVIOUS
<1>1. PICK signed \in SUBSET Accounts :
        /\ row = [a \in Accounts |-> IF a \in signed THEN Signed(a) ELSE None]
        /\ cache = [a \in Accounts |-> RowOf(a)]
        /\ \/ runtime = NoRuntime
           \/ \E a \in signed : runtime = [NoRuntime EXCEPT ![Provider[a]] =
                                             [at |-> row[a].at, rt |-> row[a].rt]]
  BY DEF Init
<1>2. /\ exists = [a \in Accounts |-> TRUE] /\ issued = [a \in Accounts |-> 1]
      /\ job = [k \in Jobs |-> Idle] /\ started = 0 /\ failures = 0 /\ restarts = 0
      /\ saved = [a \in Accounts |-> None]
      /\ leaked = {} /\ spent = {} /\ unchecked = {} /\ contended = {}
  BY DEF Init
<1>3. ASSUME NEW a \in Accounts
      PROVE  /\ Signed(a) \in Pair /\ Signed(a).at \in Token /\ Signed(a).rt \in Token
             /\ Signed(a).at.owner = a /\ Signed(a).rt.owner = a /\ Signed(a).rt.n = 1
             /\ Signed(a).cookie = None /\ Signed(a).ident = None
  <2>1. PICK tok : tok = [owner |-> a, n |-> 1]
    OBVIOUS
  <2>2. tok \in Token /\ tok.owner = a /\ tok.n = 1
    BY <2>1 DEF Token
  <2>3. Signed(a) = [Empty EXCEPT !.at = tok, !.rt = tok]
    BY <2>1 DEF Signed
  <2>4. Signed(a) = [at |-> tok, rt |-> tok, cookie |-> None, ident |-> None]
    BY <2>3 DEF Empty
  <2> QED  BY <2>2, <2>4 DEF Pair
<1>4. ASSUME NEW a \in Accounts
      PROVE  /\ cache[a] = RowOf(a) /\ RowOf(a) \in Pair /\ row[a] \in Pair \cup {None}
             /\ a \in signed => RowOf(a) = Signed(a) /\ row[a] = Signed(a)
             /\ a \notin signed => RowOf(a) = Empty
  <2>1. cache[a] = RowOf(a)
    BY <1>1
  <2>2. a \in signed => row[a] = Signed(a) /\ row[a] # None
    BY <1>1, <1>3, NoneIsNone
  <2>3. a \notin signed => row[a] = None
    BY <1>1
  <2> QED  BY <1>3, <2>1, <2>2, <2>3, Pairs DEF RowOf
<1>5. /\ runtime \in Runtimes
      /\ \A p \in Providers : runtime[p].rt # None =>
            runtime[p].rt.owner \in Accounts /\ runtime[p].rt.n = 1
  <2>1. /\ NoRuntime \in Runtimes /\ \A p \in Providers : NoRuntime[p].rt = None
    BY DEF NoRuntime, Runtimes, MaybeToken
  <2>2. CASE runtime = NoRuntime
    BY <2>1, <2>2
  <2>3. CASE runtime # NoRuntime
    <3>1. PICK a \in signed : runtime = [NoRuntime EXCEPT ![Provider[a]] =
                                           [at |-> row[a].at, rt |-> row[a].rt]]
      BY <1>1, <2>3
    <3>2. PICK at, rt : at = row[a].at /\ rt = row[a].rt
      OBVIOUS
    <3>3. at \in Token /\ rt \in Token /\ rt.owner = a /\ rt.n = 1
      BY <1>3, <1>4, <3>2
    <3>4. runtime = [NoRuntime EXCEPT ![Provider[a]] = [at |-> at, rt |-> rt]]
      BY <3>1, <3>2
    <3>5. [at |-> at, rt |-> rt] \in [at : MaybeToken, rt : MaybeToken]
      BY <3>3 DEF MaybeToken
    <3>6. runtime \in Runtimes
      BY <2>1, <3>4, <3>5 DEF Runtimes
    <3>7. \A p \in Providers : runtime[p] = NoRuntime[p] \/ runtime[p] = [at |-> at, rt |-> rt]
      BY <2>1, <3>4 DEF Runtimes
    <3>8. \A p \in Providers : runtime[p].rt \in {None, rt}
      BY <2>1, <3>7
    <3> QED  BY <3>3, <3>6, <3>8
  <2> QED  BY <2>2, <2>3
<1>6. \A k \in Jobs : job[k] = Idle
  BY <1>2
<1>7. \A a \in Accounts, k \in Jobs : ~ On(a, k)
  BY <1>6, NoneIsNone, IdleTyped DEF On
<1>8. Typed
  <2>1. job \in [Jobs -> Locals] /\ \A k \in Jobs : JobTyped(job[k])
    BY <1>2, <1>6, IdleTyped DEF JobTyped
  <2>2. \A k \in Jobs : /\ job[k].pc \in Pcs /\ job[k].acct \in Accounts \cup {None}
                        /\ job[k].pair \in Pair /\ job[k].todo \subseteq Accounts
                        /\ job[k].snaps \in [Accounts -> Pair]
                        /\ job[k].pc = "net" => job[k].tok \in Token
    BY <2>1 DEF JobTyped, Locals, Untokened
  <2>3. row \in [Accounts -> Pair \cup {None}] /\ cache \in [Accounts -> Pair]
    BY <1>1, <1>4
  <2>4. TypeOK
    BY <1>2, <1>5, <2>2, <2>3 DEF TypeOK, Runtimes, MaybeToken
  <2> QED  BY <1>2, <2>1, <2>4 DEF Typed, JobTyped
<1>9. AloneInv
  BY <1>7 DEF AloneInv, AloneFor
<1>10. OwnInv
  <2> SUFFICES ASSUME NEW a \in Accounts PROVE OwnFor(a)
    BY DEF OwnInv
  <2>1. OwnedBy(a, RowOf(a))
    BY <1>3, <1>4, Pairs DEF OwnedBy
  <2> QED  BY <1>4, <1>7, <2>1 DEF OwnFor
<1>11. GoneInv
  BY <1>2 DEF GoneInv, GoneFor
<1>12. CookieInv
  <2> SUFFICES ASSUME NEW a \in Accounts PROVE CookieFor(a)
    BY DEF CookieInv
  <2>1. RowOf(a).cookie = None /\ RowOf(a).ident = None /\ saved[a] = None
    BY <1>2, <1>3, <1>4, Pairs
  <2> QED  BY <1>7, <2>1 DEF CookieFor
<1>13. FreshInv
  <2> SUFFICES ASSUME NEW a \in Accounts PROVE FreshFor(a)
    BY DEF FreshInv
  <2>1. \A b \in Accounts : issued[b] = 1
    BY <1>2
  <2>2. RowOf(a).rt # None => RowOf(a).rt.owner = a /\ RowOf(a).rt.n = 1
    BY <1>3, <1>4, Pairs
  <2>3. Fresh(RowOf(a).rt) /\ Fresh(cache[a].rt)
    BY <1>4, <2>1, <2>2 DEF Fresh, Accepts
  <2>4. RuntimeFresh(a)
    BY <1>5, <2>1, CredentialsAssumption DEF RuntimeFresh, Accepts
  <2> QED  BY <1>7, <2>3, <2>4 DEF FreshFor
<1> QED  BY <1>8, <1>9, <1>10, <1>11, <1>12, <1>13 DEF Inv

LEMMA StutterInv ==
  ASSUME Inv, UNCHANGED vars PROVE Inv'
  BY DEF Inv, Typed, TypeOK, AloneInv, AloneFor, OwnInv, OwnFor, OwnedBy, GoneInv, GoneFor,
         CookieInv, CookieFor, FreshInv, FreshFor, Fresh, RuntimeFresh, Accepts, Sound,
         Storing, Hydrating, On, RowOf, vars, counts, history

LEMMA NextInv == Inv /\ [Next]_vars => Inv'
<1> SUFFICES ASSUME Inv, [Next]_vars PROVE Inv'
  OBVIOUS
<1>1. CASE UNCHANGED vars
  BY <1>1, StutterInv
<1>2. CASE Restart
  BY <1>2, RestartInv
<1>3. ASSUME NEW k \in Jobs, RefreshNext(k) PROVE Inv'
  BY <1>3, StartRoundInv, EndRoundInv, NextAccountInv, ForceRefreshInv, RefreshAnswersInv,
     RefreshFailsInv, StoreRefreshedInv, PersistRefreshedInv DEF RefreshNext
<1>4. ASSUME NEW k \in Jobs, CallNext(k) PROVE Inv'
  BY <1>4, Call401Inv, TryRefreshInv, TryRefreshAnswersInv, TakeRuntimeInv DEF CallNext
<1>5. ASSUME NEW k \in Jobs, ConsoleNext(k) PROVE Inv'
  BY <1>5, PutCredentialsInv, ClearTokensInv, ReadRowInv, DeleteAccountInv,
     SetCredentialInv, WriteExtraInv, ResolveIdentityInv DEF ConsoleNext
<1> QED  BY <1>1, <1>2, <1>3, <1>4, <1>5 DEF Next

LEMMA Invariance == Spec => []Inv
  BY InitInv, NextInv, PTL DEF Spec

-----------------------------------------------------------------------------
\* What follows from it

\* A quiet account has no job.
LEMMA QuietHasNoJob ==
  ASSUME Inv, NEW a \in Accounts, Quiet(a) PROVE \A k \in Jobs : ~ On(a, k)
<1> SUFFICES ASSUME NEW k \in Jobs, On(a, k) PROVE FALSE
  OBVIOUS
<1>1. a # None /\ Typed
  BY NoneIsNone DEF Inv
<1>2. job[k].pc # "idle"
  BY <1>1, IdleHasNone DEF On
<1> QED  BY <1>2 DEF Quiet, WorkedOn, On

\* Row, cache, runtime and the jobs' own variables hold tokens, cookies and
\* accounts, and every request to a token endpoint carries a refresh token.
THEOREM TypeCorrect == Spec => []TypeOK
<1>1. Inv => TypeOK
  BY DEF Inv, Typed
<1> QED  BY <1>1, Invariance, PTL

\* Per-account isolation: however the refresh loop, calls and the console
\* interleave, and whatever fails, an account that has not taken tokens out of
\* the provider's shared runtime has only its own in its row and cache entry.
THEOREM TokensStayOwn == Spec => []OwnTokens
<1>1. Inv => OwnTokens
  BY DEF Inv, OwnInv, OwnFor, OwnedBy, OwnTokens, TokensAt
<1> QED  BY <1>1, Invariance, PTL

\* The row of an account that no two jobs have worked on at once holds the
\* cookie its operator saved last, and an identity only of that cookie: no
\* refresh and no merge of extra_json brings an older one back.
THEOREM CookiesAreKept == Spec => []CookieKept
<1>1. Inv => CookieKept
  <2> SUFFICES ASSUME Inv, NEW a \in Accounts \ contended, exists[a], Quiet(a)
               PROVE  /\ RowOf(a).cookie = saved[a]
                      /\ a \notin unchecked => RowOf(a).ident \in {None, RowOf(a).cookie}
    BY DEF CookieKept
  <2>1. CookieFor(a) /\ \A k \in Jobs : ~ On(a, k)
    BY QuietHasNoJob DEF Inv, CookieInv
  <2> QED  BY <2>1 DEF CookieFor
<1> QED  BY <1>1, Invariance, PTL

\* Between jobs the row and the cache entry hold the refresh token that the
\* provider accepts, through rotations, failures and restarts: unless it was
\* used up and its successor lost, or accounts of the provider were mixed up.
THEOREM RefreshTokensStayUsable == Spec => []RefreshTokenUsable
<1>1. Inv => RefreshTokenUsable
  <2> SUFFICES ASSUME Inv, NEW a \in Accounts \ (spent \cup contended), exists[a], Quiet(a),
                      \A b \in leaked : Provider[b] # Provider[a]
               PROVE  \A rt \in {RowOf(a).rt, cache[a].rt} \ {None} : Accepts(rt)
    BY DEF RefreshTokenUsable
  <2>1. Sound(a) /\ Calm(a)
    BY QuietHasNoJob DEF Sound, Calm
  <2>2. Fresh(RowOf(a).rt) /\ Fresh(cache[a].rt)
    BY <2>1, CalmFacts
  <2> QED  BY <2>2 DEF Fresh
<1> QED  BY <1>1, Invariance, PTL

\* No refresh inserts a row for an account that was deleted, although the
\* cache still has its tokens.
THEOREM DeletedKeepsNoRow == Spec => []DeletedHasNoRow
<1>1. Inv => DeletedHasNoRow
  BY DEF Inv, GoneInv, GoneFor, DeletedHasNoRow
<1> QED  BY <1>1, Invariance, PTL
=============================================================================
