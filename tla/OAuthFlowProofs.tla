--------------------------- MODULE OAuthFlowProofs ---------------------------
(* Theorems about the Antigravity sign-in, for any accounts, sessions,      *)
(* codes and concurrent exchanges, with failures, deleted accounts and      *)
(* restarts.                                                                *)
EXTENDS OAuthFlow, FiniteSetTheorems, TLAPS

-----------------------------------------------------------------------------
\* The inductive invariant

Locals == [pc      : {"idle", "redeem", "lookup", "onboard"} \cup Storing,
           code    : Codes \cup {None},
           base    : {"none", "prod", "daily"},
           tries   : 0..OnboardTries,
           project : BOOLEAN]

Busy(w)     == worker[w].pc # "idle"
Unstored(w) == worker[w].pc \in {"redeem", "lookup", "onboard", "persist", "upsert"}
Stored(w)   == worker[w].pc \in {"cache", "finish"}

Typed ==
    /\ exists \in [Accounts -> BOOLEAN]
    /\ session \subseteq Sessions /\ old \subseteq session
    /\ owner \in [Sessions -> Accounts \cup {None}]
    /\ done \in [Sessions -> {None, Failed, Succeeded}]
    /\ codes \subseteq Codes /\ IsFiniteSet(codes) /\ redeemed \subseteq codes
    /\ row \in [Accounts -> Credential \cup {None}]
    /\ cache \in [Accounts -> Credential \cup {None}]
    /\ worker \in [Workers -> Locals]
    /\ stored \in [Sessions -> SUBSET Codes]
    /\ raced \subseteq Sessions /\ crossed \subseteq Accounts

\* Codes belong to sessions that were started; an exchange works on a code
\* that was issued, and past the token endpoint on one that was used up.
CodeInv ==
    /\ \A c \in codes : owner[c[1]] \in Accounts
    /\ \A w \in Workers : Busy(w) =>
          /\ worker[w].code \in codes
          /\ worker[w].pc # "redeem" => worker[w].code \in redeemed
    /\ \A s \in Sessions : \A c \in stored[s] : c \in redeemed /\ c[1] = s

\* A session that was never worked on twice at a time is worked on by one
\* exchange; its tokens are stored once, and from then on the exchange that
\* stored them can only succeed.
ToldInv ==
    /\ \A v, w \in Workers :
          Busy(v) /\ Busy(w) /\ SessionOf(v) = SessionOf(w) /\ SessionOf(w) \notin raced => v = w
    /\ \A s \in session \ raced :
          stored[s] # {} => \E w \in Workers : Stored(w) /\ SessionOf(w) = s
    /\ \A w \in Workers : Unstored(w) /\ SessionOf(w) \notin raced => stored[SessionOf(w)] = {}
    /\ \A w \in Workers : Stored(w) => worker[w].code \in stored[SessionOf(w)]
    /\ \A s \in Sessions : done[s] = Succeeded => stored[s] # {}
    /\ \A s \in Sessions \ raced : done[s] = Failed /\ ~ Working(s) => stored[s] = {}

\* An account that two exchanges never stored tokens for at a time has one
\* exchange past the check of its row, and a cache that differs from the row
\* only while that exchange is about to write it.
CacheInv ==
    /\ \A a \in Accounts : row[a] # None =>
          row[a].code \in codes /\ owner[row[a].code[1]] = a
    /\ \A v, w \in Workers :
          /\ worker[v].pc \in {"upsert", "cache", "finish"}
          /\ worker[w].pc \in {"upsert", "cache", "finish"}
          /\ AccountOf(v) = AccountOf(w) /\ AccountOf(w) \notin crossed
          => v = w
    /\ \A a \in Accounts \ crossed : exists[a] =>
          \/ cache[a] = row[a]
          \/ \E w \in Workers : worker[w].pc = "cache" /\ AccountOf(w) = a
    /\ \A w \in Workers :
          worker[w].pc = "cache" /\ AccountOf(w) \notin crossed /\ exists[AccountOf(w)] =>
             row[AccountOf(w)] = [code |-> worker[w].code, project |-> worker[w].project]

Inv == Typed /\ CodeInv /\ ToldInv /\ CacheInv

-----------------------------------------------------------------------------
\* Types

LEMMA IdleType == Idle \in Locals
  BY OAuthFlowAssumption DEF Idle, Locals

LEMMA InitTyped == Init => Typed
<1> SUFFICES ASSUME Init PROVE Typed
  OBVIOUS
<1>1. IsFiniteSet(codes)
  BY FS_EmptySet DEF Init
<1> QED  BY <1>1, IdleType DEF Init, Typed, Codes

\* The project lookup moves one exchange on and changes nothing else.
LookedUp(w, n) ==
    /\ n \in Locals /\ n.code = worker[w].code
    /\ n.pc \in {"lookup", "onboard", "persist"}
    /\ worker[w].pc \in {"lookup", "onboard"}
    /\ worker' = [worker EXCEPT ![w] = n]
    /\ UNCHANGED <<maps, google, tables, counts, history>>

LEMMA BasesAndTiers ==
  ASSUME Typed, NEW w \in Workers, worker[w].pc \in {"lookup", "onboard"}
  PROVE  /\ \A found \in BOOLEAN : \E n \in Locals : /\ n.code = worker[w].code
                                                     /\ n.pc = "persist"
                                                     /\ Looked(w, found) => worker' = [worker EXCEPT ![w] = n]
         /\ \E n \in Locals : /\ n.code = worker[w].code
                              /\ n.pc \in {"lookup", "persist"}
                              /\ NextBase(w) => worker' = [worker EXCEPT ![w] = n]
<1>0. worker[w] \in Locals /\ 0 \in 0..OnboardTries
  BY OAuthFlowAssumption DEF Typed
<1>1. ASSUME NEW found \in BOOLEAN
      PROVE  \E n \in Locals : /\ n.code = worker[w].code /\ n.pc = "persist"
                               /\ Looked(w, found) => worker' = [worker EXCEPT ![w] = n]
  <2> DEFINE n == [worker[w] EXCEPT !.pc = "persist", !.base = "none", !.tries = 0,
                                    !.project = found]
  <2>1. n \in Locals /\ n.code = worker[w].code /\ n.pc = "persist"
    BY <1>0 DEF Locals, Storing
  <2> QED  BY <2>1 DEF Looked, Continue
<1>2. \E n \in Locals : /\ n.code = worker[w].code /\ n.pc \in {"lookup", "persist"}
                        /\ NextBase(w) => worker' = [worker EXCEPT ![w] = n]
  <2>1. CASE worker[w].base = "prod"
    <3> DEFINE n == [worker[w] EXCEPT !.pc = "lookup", !.base = "daily", !.tries = 0]
    <3>1. n \in Locals /\ n.code = worker[w].code /\ n.pc = "lookup"
      BY <1>0 DEF Locals
    <3> QED  BY <2>1, <3>1 DEF NextBase, Continue
  <2>2. CASE worker[w].base # "prod"
    BY <1>1, <2>2 DEF NextBase
  <2> QED  BY <2>1, <2>2
<1> QED  BY <1>1, <1>2

LEMMA LookupMoves ==
  ASSUME Typed, NEW w \in Workers,
         \/ \E answer \in {"project", "refused", "tier", "failed"} : LoadCodeAssist(w, answer)
         \/ \E answer \in {"project", "failed", "pending"} : TryOnboard(w, answer)
  PROVE  \E n : LookedUp(w, n)
<1>0. /\ worker[w] \in Locals /\ OnboardTries \in Nat
      /\ worker[w].pc \in {"lookup", "onboard"}
      /\ UNCHANGED <<maps, google, tables, counts, history>>
  BY OAuthFlowAssumption DEF Typed, LoadCodeAssist, TryOnboard
<1>1. ASSUME NEW found \in BOOLEAN, Looked(w, found) PROVE \E n : LookedUp(w, n)
  BY <1>0, <1>1, BasesAndTiers DEF LookedUp
<1>2. ASSUME NextBase(w) PROVE \E n : LookedUp(w, n)
  BY <1>0, <1>2, BasesAndTiers DEF LookedUp
<1>3. ASSUME Continue(w, [worker[w] EXCEPT !.pc = "onboard"]), worker[w].pc = "lookup"
      PROVE  \E n : LookedUp(w, n)
  <2> DEFINE n == [worker[w] EXCEPT !.pc = "onboard"]
  <2>1. n \in Locals /\ n.code = worker[w].code /\ n.pc = "onboard"
    BY <1>0 DEF Locals
  <2> QED  BY <1>0, <1>3, <2>1 DEF LookedUp, Continue
<1>4. ASSUME Continue(w, [worker[w] EXCEPT !.tries = @ + 1]), worker[w].pc = "onboard",
             worker[w].tries + 1 < OnboardTries
      PROVE  \E n : LookedUp(w, n)
  <2> DEFINE n == [worker[w] EXCEPT !.tries = @ + 1]
  <2>1. n \in Locals /\ n.code = worker[w].code /\ n.pc = "onboard"
    BY <1>0, <1>4 DEF Locals
  <2> QED  BY <1>0, <1>4, <2>1 DEF LookedUp, Continue
<1>5. ASSUME NEW answer \in {"project", "refused", "tier", "failed"}, LoadCodeAssist(w, answer)
      PROVE  \E n : LookedUp(w, n)
  BY <1>1, <1>2, <1>3, <1>5 DEF LoadCodeAssist
<1>6. ASSUME NEW answer \in {"project", "failed", "pending"}, TryOnboard(w, answer)
      PROVE  \E n : LookedUp(w, n)
  BY <1>1, <1>2, <1>4, <1>6 DEF TryOnboard
<1> QED  BY <1>5, <1>6

\* An exchange that is under way, and where its next steps lead.
LEMMA BusyFacts ==
  ASSUME Typed, CodeInv, NEW w \in Workers, Busy(w)
  PROVE  /\ worker[w].code \in Codes /\ SessionOf(w) \in Sessions
         /\ worker[w].code \in {SessionOf(w)} \X (1..MaxCodes)
         /\ AccountOf(w) \in Accounts
         /\ worker[w].project \in BOOLEAN
  BY DEF Typed, CodeInv, Busy, Codes, SessionOf, AccountOf, Locals

LEMMA TypedWorkerStep ==
  ASSUME Typed, CodeInv, NEW w \in Workers, Step(w)
  PROVE  Typed'
<1> USE DEF maps, google, tables, counts, history, Typed
<1>0. Busy(w) => SessionOf(w) \in Sessions
  BY BusyFacts
<1>a. worker[w] \in Locals
  OBVIOUS
<1>b. ASSUME NEW n \in Locals, Continue(w, n) PROVE worker' \in [Workers -> Locals]
  BY <1>b DEF Continue
<1>c. ASSUME Stop(w) PROVE worker' \in [Workers -> Locals]
  BY <1>c, IdleType DEF Stop
<1>1. CASE Redeem(w)
  <2>1. worker[w].code \in codes
    BY <1>1 DEF Redeem, CodeInv, Busy
  <2>2. [worker[w] EXCEPT !.pc = "lookup", !.base = "prod"] \in Locals
    BY <1>a DEF Locals
  <2>3. worker' \in [Workers -> Locals]
    BY <1>1, <1>b, <1>c, <2>2 DEF Redeem
  <2> QED  BY <1>0, <1>1, <2>1, <2>3 DEF Redeem, Stop, Complete, Busy
<1>2. ASSUME NEW n, LookedUp(w, n) PROVE Typed'
  BY <1>2 DEF LookedUp
<1>3. CASE ReadCredential(w)
  <2>0. AccountOf(w) \in Accounts /\ worker[w].project \in BOOLEAN
    BY <1>3, BusyFacts DEF ReadCredential, Busy
  <2>1. worker[w].project \/ (row[AccountOf(w)] # None /\ row[AccountOf(w)].project) \in BOOLEAN
    BY <2>0 DEF Credential
  <2>2. [worker[w] EXCEPT !.pc = "upsert",
                          !.project = @ \/ (row[AccountOf(w)] # None /\ row[AccountOf(w)].project)]
          \in Locals
    BY <1>a, <2>1 DEF Locals, Storing
  <2>3. worker' \in [Workers -> Locals]
    BY <1>3, <1>b, <1>c, <2>2 DEF ReadCredential
  <2> QED  BY <1>0, <1>3, <2>0, <2>3 DEF ReadCredential, Stop, Complete, Busy
<1>4. CASE UpsertCredential(w)
  <2>0. /\ AccountOf(w) \in Accounts /\ worker[w].project \in BOOLEAN
        /\ worker[w].code \in Codes /\ worker[w].code[1] \in Sessions
    BY <1>4, BusyFacts DEF UpsertCredential, Busy, SessionOf
  <2>1. [code |-> worker[w].code, project |-> worker[w].project] \in Credential
    BY <2>0 DEF Credential
  <2>2. [worker[w] EXCEPT !.pc = "cache"] \in Locals
    BY <1>a DEF Locals, Storing
  <2>3. worker' \in [Workers -> Locals]
    BY <1>4, <1>b, <1>c, <2>2 DEF UpsertCredential
  <2>4. stored' \in [Sessions -> SUBSET Codes] /\ row' \in [Accounts -> Credential \cup {None}]
    BY <1>4, <2>0, <2>1 DEF UpsertCredential
  <2> QED  BY <1>0, <1>4, <2>3, <2>4 DEF UpsertCredential, Stop, Complete, Busy
<1>5. CASE SetAccountCredential(w)
  <2>0. /\ AccountOf(w) \in Accounts /\ worker[w].project \in BOOLEAN
        /\ worker[w].code \in Codes
    BY <1>5, BusyFacts DEF SetAccountCredential, Busy
  <2>1. [code |-> worker[w].code, project |-> worker[w].project] \in Credential
    BY <2>0 DEF Credential
  <2>2. [worker[w] EXCEPT !.pc = "finish"] \in Locals
    BY <1>a DEF Locals, Storing
  <2>3. worker' \in [Workers -> Locals]
    BY <1>5, <1>b, <2>2 DEF SetAccountCredential
  <2> QED  BY <1>5, <2>1, <2>3 DEF SetAccountCredential
<1>6. CASE Finish(w)
  BY <1>0, <1>6, IdleType DEF Finish, Complete, Forget, Busy
<1> QED  BY <1>1, <1>2, <1>3, <1>4, <1>5, <1>6, LookupMoves DEF Step

LEMMA TypedStep == Typed /\ CodeInv /\ [Next]_vars => Typed'
<1> SUFFICES ASSUME Typed, CodeInv, [Next]_vars PROVE Typed'
  OBVIOUS
<1> USE DEF maps, google, tables, counts, history, Typed
<1>1. ASSUME NEW s \in Sessions, NEW a \in Accounts, StartAntigravityOAuth(s, a) PROVE Typed'
  BY <1>1 DEF StartAntigravityOAuth
<1>2. ASSUME NEW s \in Sessions, GrowOld(s) PROVE Typed'
  BY <1>2 DEF GrowOld
<1>3. ASSUME NEW s \in Sessions, Authorise(s) PROVE Typed'
  <2>1. Cardinality(codes) \in Nat /\ Cardinality(codes) < MaxCodes
    BY <1>3, FS_CardinalityType DEF Authorise
  <2>2. Cardinality(codes) + 1 \in 1..MaxCodes
    BY <2>1, OAuthFlowAssumption
  <2>3. codes' \subseteq Codes
    BY <1>3, <2>2 DEF Authorise, Codes
  <2>4. IsFiniteSet(codes')
    BY <1>3, FS_AddElement DEF Authorise
  <2> QED  BY <1>3, <2>3, <2>4 DEF Authorise
<1>4. ASSUME NEW w \in Workers, NEW c \in Codes, Exchange(w, c) PROVE Typed'
  <2>1. c[1] \in Sessions
    BY DEF Codes
  <2>2. [Idle EXCEPT !.pc = "redeem", !.code = c] \in Locals
    BY IdleType DEF Locals
  <2> QED  BY <1>4, <2>1, <2>2 DEF Exchange, Forget
<1>5. ASSUME NEW a \in Accounts, DeleteAccount(a) PROVE Typed'
  BY <1>5 DEF DeleteAccount
<1>6. CASE Restart
  <2>1. \A w \in Workers : worker[w].pc \in Storing => AccountOf(w) \in Accounts
    BY BusyFacts DEF Busy, Storing
  <2>2. crossed' \subseteq Accounts
    BY <1>6, <2>1 DEF Restart
  <2> QED  BY <1>6, <2>2, IdleType DEF Restart
<1>7. CASE UNCHANGED vars
  BY <1>7 DEF vars
<1> QED  BY <1>1, <1>2, <1>3, <1>4, <1>5, <1>6, <1>7, TypedWorkerStep DEF Next

-----------------------------------------------------------------------------
\* Codes

\* A step of one exchange leaves the others where they are.
LEMMA OneWorker ==
  ASSUME Typed, NEW w \in Workers, Step(w)
  PROVE  /\ \A v \in Workers \ {w} : worker'[v] = worker[v]
         /\ Busy(w)
         /\ worker'[w] = Idle \/ worker'[w].code = worker[w].code
         /\ owner' = owner /\ codes' = codes /\ redeemed \subseteq redeemed'
         /\ raced' = raced /\ exists' = exists
<1> USE DEF Typed, Busy, maps, google, tables, counts, history
<1>1. CASE Redeem(w)
  BY <1>1 DEF Redeem, Continue, Stop, Locals
<1>2. ASSUME NEW n, LookedUp(w, n)
      PROVE  /\ \A v \in Workers \ {w} : worker'[v] = worker[v]
             /\ Busy(w)
             /\ worker'[w].code = worker[w].code
             /\ owner' = owner /\ codes' = codes /\ redeemed' = redeemed
             /\ raced' = raced /\ exists' = exists
  BY <1>2 DEF LookedUp
<1>3. CASE ReadCredential(w)
  <2>1. Busy(w) /\ owner' = owner /\ codes' = codes /\ redeemed' = redeemed
        /\ raced' = raced /\ exists' = exists
    BY <1>3 DEF ReadCredential, Stop
  <2>2. \/ worker' = [worker EXCEPT ![w] = Idle]
        \/ worker' = [worker EXCEPT ![w] = [worker[w] EXCEPT !.pc = "upsert",
                      !.project = @ \/ (row[AccountOf(w)] # None /\ row[AccountOf(w)].project)]]
    BY <1>3 DEF ReadCredential, Continue, Stop
  <2>3. (\A v \in Workers \ {w} : worker'[v] = worker[v])
        /\ (worker'[w] = Idle \/ worker'[w].code = worker[w].code)
    BY <2>2 DEF Locals
  <2> QED  BY <2>1, <2>3
<1>4. CASE UpsertCredential(w)
  BY <1>4 DEF UpsertCredential, Continue, Stop, Locals
<1>5. CASE SetAccountCredential(w)
  BY <1>5 DEF SetAccountCredential, Continue, Locals
<1>6. CASE Finish(w)
  BY <1>6 DEF Finish
<1> QED  BY <1>1, <1>2, <1>3, <1>4, <1>5, <1>6, LookupMoves DEF Step

\* What was stored for a session grows by the codes that exchanges store.
LEMMA StoredBy ==
  ASSUME Typed, CodeInv, NEW w \in Workers, Step(w)
  PROVE  \/ stored' = stored
         \/ /\ UpsertCredential(w) /\ worker'[w].pc = "cache"
            /\ worker'[w].code = worker[w].code
            /\ stored' = [stored EXCEPT ![SessionOf(w)] = @ \cup {worker[w].code}]
<1> USE DEF maps, google, tables, counts, history
<1>1. CASE UpsertCredential(w)
  BY <1>1 DEF UpsertCredential, Continue, SessionOf, Typed, Locals
<1>2. ASSUME NEW n, LookedUp(w, n) PROVE stored' = stored
  BY <1>2 DEF LookedUp
<1> QED
  BY <1>1, <1>2, LookupMoves
  DEF Step, Redeem, ReadCredential, SetAccountCredential, Finish

LEMMA InitCode == Init => CodeInv
  BY DEF Init, CodeInv, Busy, Idle

LEMMA CodeStep == Typed /\ CodeInv /\ [Next]_vars => CodeInv'
<1> SUFFICES ASSUME Typed, CodeInv, [Next]_vars PROVE CodeInv'
  OBVIOUS
<1> USE DEF maps, google, tables, counts, history
<1>0. ASSUME UNCHANGED <<owner, codes, redeemed, worker, stored>> PROVE CodeInv'
  BY <1>0 DEF CodeInv, Busy
<1>1. ASSUME NEW s \in Sessions, NEW a \in Accounts, StartAntigravityOAuth(s, a) PROVE CodeInv'
  <2>1. owner[s] = None
    BY <1>1 DEF StartAntigravityOAuth
  <2>2. \A c \in codes : owner'[c[1]] = owner[c[1]]
    BY <1>1, <2>1, OAuthFlowAssumption DEF StartAntigravityOAuth, CodeInv, Typed
  <2> QED  BY <1>1, <2>2 DEF StartAntigravityOAuth, CodeInv, Busy
<1>2. ASSUME NEW s \in Sessions, GrowOld(s) PROVE CodeInv'
  BY <1>0, <1>2 DEF GrowOld
<1>3. ASSUME NEW s \in Sessions, Authorise(s) PROVE CodeInv'
  BY <1>3 DEF Authorise, CodeInv, Busy, Typed
<1>4. ASSUME NEW w \in Workers, NEW c \in Codes, Exchange(w, c) PROVE CodeInv'
  <2>1. CASE worker' = worker
    BY <1>0, <1>4, <2>1 DEF Exchange
  <2>2. CASE worker' = [worker EXCEPT ![w] = [Idle EXCEPT !.pc = "redeem", !.code = c]]
    BY <1>4, <2>2 DEF Exchange, CodeInv, Busy, Idle, Typed
  <2> QED  BY <1>4, <2>1, <2>2 DEF Exchange
<1>5. ASSUME NEW w \in Workers, Step(w) PROVE CodeInv'
  <2>1. Busy(w) /\ worker[w].code \in codes /\ worker[w].code[1] = SessionOf(w)
    BY <1>5, OneWorker DEF CodeInv, SessionOf
  <2>2. ASSUME Busy(w)'
        PROVE  worker'[w].code \in codes' /\ (worker'[w].pc # "redeem" => worker'[w].code \in redeemed')
    <3>1. CASE Redeem(w)
      BY <1>5, <2>1, <2>2, <3>1, OneWorker DEF Redeem, Continue, Stop, Busy, Idle, Typed, Locals
    <3>2. CASE worker[w].pc # "redeem"
      BY <1>5, <2>1, <2>2, <3>2, OneWorker DEF CodeInv, Busy, Idle
    <3>3. CASE worker[w].pc = "redeem" /\ ~ Redeem(w)
      BY <1>5, <3>3, LookupMoves
      DEF Step, LookedUp, ReadCredential, UpsertCredential, SetAccountCredential, Finish
    <3> QED  BY <3>1, <3>2, <3>3
  <2>3. \A v \in Workers \ {w} : Busy(v)' =>
           worker'[v].code \in codes' /\ (worker'[v].pc # "redeem" => worker'[v].code \in redeemed')
    BY <1>5, OneWorker DEF CodeInv, Busy
  <2>4. \A s \in Sessions : \A c \in stored'[s] : c \in redeemed' /\ c[1] = s
    <3>1. CASE stored' = stored
      BY <1>5, <3>1, OneWorker DEF CodeInv
    <3>2. CASE stored' # stored
      <4>1. /\ worker[w].pc = "upsert"
            /\ stored' = [stored EXCEPT ![SessionOf(w)] = @ \cup {worker[w].code}]
        BY <1>5, <3>2, StoredBy DEF UpsertCredential
      <4>2. worker[w].code \in redeemed
        BY <2>1, <4>1 DEF CodeInv
      <4> QED  BY <1>5, <2>1, <4>1, <4>2, OneWorker DEF CodeInv, Typed
    <3> QED  BY <3>1, <3>2
  <2>5. \A c \in codes' : owner'[c[1]] \in Accounts
    BY <1>5, OneWorker DEF CodeInv
  <2> QED  BY <2>2, <2>3, <2>4, <2>5 DEF CodeInv
<1>6. ASSUME NEW a \in Accounts, DeleteAccount(a) PROVE CodeInv'
  BY <1>0, <1>6 DEF DeleteAccount
<1>7. CASE Restart
  <2>1. \A w \in Workers : worker'[w].pc = "idle"
    BY <1>7 DEF Restart, Idle
  <2> QED  BY <1>7, <2>1 DEF Restart, CodeInv, Busy
<1>8. CASE UNCHANGED vars
  BY <1>0, <1>8 DEF vars
<1> QED  BY <1>1, <1>2, <1>3, <1>4, <1>5, <1>6, <1>7, <1>8 DEF Next

-----------------------------------------------------------------------------
\* What the console is told

\* The five kinds of steps of an exchange, as the console's maps see them.
Advances(w) ==
    /\ Unstored(w) /\ Unstored(w)' /\ worker'[w].code = worker[w].code
    /\ UNCHANGED <<session, done, stored>>

Gives(w) ==
    /\ Unstored(w) /\ worker'[w] = Idle
    /\ done' = [done EXCEPT ![SessionOf(w)] = Failed]
    /\ UNCHANGED <<session, stored>>

Stores(w) ==
    /\ Unstored(w) /\ Stored(w)' /\ worker'[w].code = worker[w].code
    /\ stored' = [stored EXCEPT ![SessionOf(w)] = @ \cup {worker[w].code}]
    /\ UNCHANGED <<session, done>>

GoesOn(w) ==
    /\ Stored(w) /\ Stored(w)' /\ worker'[w].code = worker[w].code
    /\ UNCHANGED <<session, done, stored>>

Ends(w) ==
    /\ Stored(w) /\ worker'[w] = Idle
    /\ done' = [done EXCEPT ![SessionOf(w)] = Succeeded]
    /\ session' = session \ {SessionOf(w)}
    /\ UNCHANGED stored

LEMMA KindsOfSteps ==
  ASSUME Typed, NEW w \in Workers, Step(w)
  PROVE  Advances(w) \/ Gives(w) \/ Stores(w) \/ GoesOn(w) \/ Ends(w)
<1> USE DEF Typed, Unstored, Stored, maps, google, tables, counts, history
<1>0. worker[w] \in Locals
  OBVIOUS
<1>1. CASE Redeem(w)
  <2>1. CASE Stop(w)
    BY <1>1, <2>1 DEF Redeem, Stop, Complete, Gives
  <2>2. CASE Continue(w, [worker[w] EXCEPT !.pc = "lookup", !.base = "prod"]) /\ UNCHANGED maps
    BY <1>0, <1>1, <2>2 DEF Redeem, Continue, Advances, Locals
  <2> QED  BY <1>1, <2>1, <2>2 DEF Redeem
<1>2. ASSUME NEW n, LookedUp(w, n) PROVE Advances(w)
  BY <1>2 DEF LookedUp, Advances
<1>3. CASE ReadCredential(w)
  <2>1. CASE Stop(w)
    BY <1>3, <2>1 DEF ReadCredential, Stop, Complete, Gives
  <2>2. CASE ~ Stop(w)
    <3>1. worker' = [worker EXCEPT ![w] = [worker[w] EXCEPT !.pc = "upsert",
                       !.project = @ \/ (row[AccountOf(w)] # None /\ row[AccountOf(w)].project)]]
      BY <1>3, <2>2 DEF ReadCredential, Continue
    <3>2. worker'[w].pc = "upsert" /\ worker'[w].code = worker[w].code
      BY <1>0, <3>1 DEF Locals
    <3> QED  BY <1>3, <2>2, <3>2 DEF ReadCredential, Advances
  <2> QED  BY <2>1, <2>2
<1>4. CASE UpsertCredential(w)
  <2>1. CASE Stop(w)
    BY <1>4, <2>1 DEF UpsertCredential, Stop, Complete, Gives, Continue, Idle
  <2>2. CASE ~ Stop(w)
    <3>1. worker' = [worker EXCEPT ![w] = [worker[w] EXCEPT !.pc = "cache"]]
      BY <1>4, <2>2 DEF UpsertCredential, Continue
    <3>2. worker'[w].pc = "cache" /\ worker'[w].code = worker[w].code
      BY <1>0, <3>1 DEF Locals
    <3> QED  BY <1>4, <2>2, <3>2 DEF UpsertCredential, Stores, SessionOf
  <2> QED  BY <2>1, <2>2
<1>5. CASE SetAccountCredential(w)
  BY <1>0, <1>5 DEF SetAccountCredential, Continue, GoesOn, Locals
<1>6. CASE Finish(w)
  BY <1>6 DEF Finish, Complete, Forget, Ends
<1> QED  BY <1>1, <1>2, <1>3, <1>4, <1>5, <1>6, LookupMoves DEF Step

LEMMA NoResult == None # Failed /\ None # Succeeded /\ Failed # Succeeded
<1>1. {Failed, Succeeded} \subseteq [ok : BOOLEAN, applied : BOOLEAN]
  BY DEF Failed, Succeeded
<1>2. None \notin [ok : BOOLEAN, applied : BOOLEAN]
  BY OAuthFlowAssumption
<1>3. Failed.ok # Succeeded.ok
  BY DEF Failed, Succeeded
<1> QED  BY <1>1, <1>2, <1>3

LEMMA InitTold == Init => ToldInv
<1> SUFFICES ASSUME Init PROVE ToldInv
  OBVIOUS
<1>1. /\ \A w \in Workers : ~ Busy(w) /\ ~ Stored(w) /\ ~ Unstored(w)
      /\ session = {} /\ \A s \in Sessions : done[s] = None
  BY DEF Init, Busy, Stored, Unstored, Idle
<1> QED  BY <1>1, NoResult DEF ToldInv

LEMMA ToldWorkerStep ==
  ASSUME Typed, CodeInv, ToldInv, NEW w \in Workers, Step(w)
  PROVE  ToldInv'
<1> DEFINE s == SessionOf(w)
<1>0. /\ \A v \in Workers \ {w} : worker'[v] = worker[v]
      /\ Busy(w) /\ raced' = raced /\ s \in Sessions
      /\ worker[w].code \in stored[s] \/ Unstored(w)
  BY OneWorker, BusyFacts, KindsOfSteps
  DEF ToldInv, Advances, Gives, Stores, GoesOn, Ends
<1>1. \A v \in Workers : Busy(v)' => Busy(v) /\ SessionOf(v)' = SessionOf(v)
  BY <1>0, OneWorker DEF Busy, SessionOf, Idle
<1>2. \A u, v \in Workers :
         Busy(u)' /\ Busy(v)' /\ SessionOf(u)' = SessionOf(v)' /\ SessionOf(v)' \notin raced' => u = v
  BY <1>0, <1>1 DEF ToldInv
<1>3. ASSUME NEW v \in Workers \ {w}, Busy(v), s \notin raced PROVE SessionOf(v) # s
  BY <1>0, <1>3 DEF ToldInv
<1>4. \A v \in Workers \ {w} :
         /\ (Stored(v)' <=> Stored(v)) /\ (Unstored(v)' <=> Unstored(v))
         /\ (Busy(v)' <=> Busy(v)) /\ SessionOf(v)' = SessionOf(v)
  BY <1>0 DEF Stored, Unstored, Busy, SessionOf
<1>5. \A v \in Workers : Stored(v) \/ Unstored(v) => Busy(v)
  BY DEF Stored, Unstored, Busy
<1>6. \A v \in Workers : Stored(v) => ~ Unstored(v)
  BY DEF Stored, Unstored
<1>a. CASE Advances(w)
  <2>1. SessionOf(w)' = s
    BY <1>a DEF Advances, SessionOf
  <2>2. \A t \in Sessions : Working(t)' <=> Working(t)
    BY <1>0, <1>4, <1>5, <1>a, <2>1 DEF Working, Advances, Busy, Unstored
  <2>3. \A v \in Workers : worker'[v].code = worker[v].code
    BY <1>0, <1>a DEF Advances
  <2>4. \A v \in Workers : /\ (Stored(v)' <=> Stored(v)) /\ (Unstored(v)' <=> Unstored(v))
                            /\ SessionOf(v)' = SessionOf(v)
    BY <1>4, <1>6, <1>a, <2>1 DEF Advances, Stored, Unstored
  <2>5. UNCHANGED <<session, done, stored, raced>>
    BY <1>0, <1>a DEF Advances
  <2> QED  BY <1>2, <2>2, <2>3, <2>4, <2>5 DEF ToldInv
<1>b. CASE Gives(w)
  <2>0. /\ ~ Stored(w)' /\ ~ Unstored(w)' /\ session' = session /\ stored' = stored
        /\ Unstored(w) /\ ~ Stored(w)
    BY <1>6, <1>b DEF Gives, Stored, Unstored, Idle
  <2>1. \A v \in Workers : Stored(v) => Stored(v)' /\ SessionOf(v)' = SessionOf(v)
    BY <1>4, <2>0
  <2>2. \A t \in session' \ raced' : stored'[t] # {} => \E v \in Workers : Stored(v)' /\ SessionOf(v)' = t
    BY <1>0, <2>0, <2>1 DEF ToldInv
  <2>3. \A v \in Workers : Unstored(v)' /\ SessionOf(v)' \notin raced' => stored'[SessionOf(v)'] = {}
    BY <1>0, <1>4, <2>0 DEF ToldInv
  <2>4. \A v \in Workers : Stored(v)' => worker'[v].code \in stored'[SessionOf(v)']
    BY <1>0, <1>4, <2>0 DEF ToldInv
  <2>5. \A t \in Sessions \ {s} : done'[t] = done[t] /\ (Working(t)' <=> Working(t))
    BY <1>0, <1>4, <1>b DEF Gives, Working, Busy, Idle, Typed
  <2>6. done'[s] = Failed /\ Failed # Succeeded
    BY <1>0, <1>b DEF Gives, Typed, Failed, Succeeded
  <2>7. s \notin raced => stored'[s] = {}
    BY <2>0 DEF ToldInv
  <2> QED
    BY <1>0, <1>2, <2>0, <2>2, <2>3, <2>4, <2>5, <2>6, <2>7 DEF ToldInv
<1>c. CASE Stores(w)
  <2>0. /\ SessionOf(w)' = s /\ Stored(w)' /\ ~ Unstored(w)' /\ session' = session /\ done' = done
        /\ worker'[w].code = worker[w].code
        /\ stored' = [stored EXCEPT ![s] = @ \cup {worker[w].code}]
    BY <1>c DEF Stores, SessionOf, Stored, Unstored
  <2>1. /\ worker[w].code \in stored'[s]
        /\ \A t \in Sessions \ {s} : stored'[t] = stored[t]
        /\ \A t \in Sessions : stored[t] \subseteq stored'[t]
    BY <1>0, <2>0 DEF Typed
  <2>2. \A v \in Workers : Busy(v) => SessionOf(v) \in Sessions
    BY BusyFacts
  <2>3. \A t \in session' \ raced' : stored'[t] # {} => \E v \in Workers : Stored(v)' /\ SessionOf(v)' = t
    <3>1. ASSUME NEW t \in session \ raced, stored'[t] # {}, t # s
          PROVE  \E v \in Workers : Stored(v)' /\ SessionOf(v)' = t
      <4>1. PICK v \in Workers : Stored(v) /\ SessionOf(v) = t
        BY <2>1, <3>1 DEF ToldInv, Typed
      <4> QED  BY <1>4, <2>0, <3>1, <4>1
    <3> QED  BY <1>0, <2>0, <3>1
  <2>4. \A v \in Workers : Unstored(v)' /\ SessionOf(v)' \notin raced' => stored'[SessionOf(v)'] = {}
    <3>1. ASSUME NEW v \in Workers, Unstored(v)', SessionOf(v)' \notin raced'
          PROVE  stored'[SessionOf(v)'] = {}
      <4>1. v # w
        BY <2>0, <3>1
      <4>2. SessionOf(v) # s /\ SessionOf(v) \in Sessions
        BY <1>0, <1>3, <1>4, <1>5, <2>2, <3>1, <4>1
      <4> QED  BY <1>0, <1>4, <2>1, <3>1, <4>1, <4>2 DEF ToldInv
    <3> QED  BY <3>1
  <2>5. \A v \in Workers : Stored(v)' => worker'[v].code \in stored'[SessionOf(v)']
    BY <1>0, <1>4, <1>5, <2>0, <2>1, <2>2 DEF ToldInv
  <2>6. Working(s)' /\ \A t \in Sessions \ {s} : Working(t)' <=> Working(t)
    BY <1>0, <1>4, <2>0 DEF Working, Stored, Busy
  <2> QED  BY <1>0, <1>2, <2>0, <2>1, <2>3, <2>4, <2>5, <2>6 DEF ToldInv
<1>d. CASE GoesOn(w)
  <2>1. SessionOf(w)' = s /\ ~ Unstored(w)'
    BY <1>d DEF GoesOn, SessionOf, Stored, Unstored
  <2>2. \A t \in Sessions : Working(t)' <=> Working(t)
    BY <1>0, <1>4, <1>5, <1>d, <2>1 DEF Working, GoesOn, Busy, Stored
  <2> QED  BY <1>0, <1>2, <1>4, <1>d, <2>1, <2>2 DEF ToldInv, GoesOn
<1>e. CASE Ends(w)
  <2>0. /\ ~ Stored(w)' /\ ~ Unstored(w)' /\ session' = session \ {s} /\ stored' = stored
        /\ Stored(w) /\ done'[s] = Succeeded /\ Failed # Succeeded
    BY <1>0, <1>e DEF Ends, Stored, Unstored, Idle, Failed, Succeeded, Typed
  <2>1. \A t \in session' \ raced' : stored'[t] # {} => \E v \in Workers : Stored(v)' /\ SessionOf(v)' = t
    <3>1. ASSUME NEW t \in session \ raced, stored[t] # {}, t # s
          PROVE  \E v \in Workers : Stored(v)' /\ SessionOf(v)' = t
      <4>1. PICK v \in Workers : Stored(v) /\ SessionOf(v) = t
        BY <3>1 DEF ToldInv, Typed
      <4> QED  BY <1>4, <3>1, <4>1
    <3> QED  BY <1>0, <2>0, <3>1
  <2>2. \A v \in Workers : Unstored(v)' /\ SessionOf(v)' \notin raced' => stored'[SessionOf(v)'] = {}
    BY <1>0, <1>4, <2>0 DEF ToldInv
  <2>3. \A v \in Workers : Stored(v)' => worker'[v].code \in stored'[SessionOf(v)']
    BY <1>0, <1>4, <2>0 DEF ToldInv
  <2>4. \A t \in Sessions \ {s} : done'[t] = done[t] /\ (Working(t)' <=> Working(t))
    BY <1>0, <1>4, <1>e DEF Ends, Working, Busy, Idle, Typed
  <2>5. stored[s] # {}
    BY <2>0 DEF ToldInv
  <2> QED  BY <1>0, <1>2, <2>0, <2>1, <2>2, <2>3, <2>4, <2>5 DEF ToldInv
<1> QED  BY <1>a, <1>b, <1>c, <1>d, <1>e, KindsOfSteps

\* Nothing happened yet for a session that was not started.
LEMMA Unstarted ==
  ASSUME Typed, CodeInv, NEW s \in Sessions, owner[s] = None
  PROVE  stored[s] = {} /\ \A w \in Workers : Busy(w) => SessionOf(w) # s
<1>1. None \notin Accounts
  BY OAuthFlowAssumption
<1> QED  BY <1>1 DEF Typed, CodeInv, SessionOf

LEMMA ToldStep == Typed /\ CodeInv /\ ToldInv /\ [Next]_vars => ToldInv'
<1> SUFFICES ASSUME Typed, CodeInv, ToldInv, [Next]_vars PROVE ToldInv'
  OBVIOUS
<1> USE DEF maps, google, tables, counts, history
<1>0. ASSUME UNCHANGED <<session, done, worker, stored, raced>> PROVE ToldInv'
  BY <1>0 DEF ToldInv, Busy, Stored, Unstored, SessionOf, Working
<1>1. ASSUME NEW s \in Sessions, NEW a \in Accounts, StartAntigravityOAuth(s, a) PROVE ToldInv'
  <2>1. stored[s] = {}
    BY <1>1, Unstarted DEF StartAntigravityOAuth
  <2>2. done' = [done EXCEPT ![s] = None] /\ session' = session \cup {s}
    BY <1>1 DEF StartAntigravityOAuth
  <2>3. UNCHANGED <<worker, stored, raced>>
    BY <1>1 DEF StartAntigravityOAuth
  <2>4. \A t \in Sessions : done'[t] \in {None, done[t]}
    BY <2>2 DEF Typed
  <2> QED
    BY <2>1, <2>2, <2>3, <2>4, NoResult
    DEF ToldInv, Busy, Stored, Unstored, SessionOf, Working
<1>2. ASSUME NEW s \in Sessions, GrowOld(s) PROVE ToldInv'
  BY <1>0, <1>2 DEF GrowOld
<1>3. ASSUME NEW s \in Sessions, Authorise(s) PROVE ToldInv'
  BY <1>0, <1>3 DEF Authorise
<1>4. ASSUME NEW w \in Workers, NEW c \in Codes, Exchange(w, c) PROVE ToldInv'
  <2>0. UNCHANGED <<done, stored>> /\ ~ Busy(w) /\ ~ Stored(w) /\ ~ Unstored(w)
    BY <1>4 DEF Exchange, Busy, Stored, Unstored
  <2>1. CASE c[1] \in old
    <3>1. session' = session \ {c[1]} /\ UNCHANGED <<worker, raced>>
      BY <1>4, <2>1 DEF Exchange, Forget
    <3> QED
      BY <2>0, <3>1 DEF ToldInv, Busy, Stored, Unstored, SessionOf, Working
  <2>2. CASE c[1] \notin old
    <3>1. /\ c[1] \in session /\ session' = session
          /\ worker' = [worker EXCEPT ![w] = [Idle EXCEPT !.pc = "redeem", !.code = c]]
          /\ raced' = IF \E v \in Workers : Busy(v) /\ SessionOf(v) = c[1]
                      THEN raced \cup {c[1]} ELSE raced
      BY <1>4, <2>2 DEF Exchange, Busy
    <3>2. Busy(w)' /\ Unstored(w)' /\ ~ Stored(w)' /\ SessionOf(w)' = c[1]
      BY <3>1 DEF Typed, Idle, Busy, Unstored, Stored, SessionOf
    <3>3. \A v \in Workers \ {w} :
             /\ (Stored(v)' <=> Stored(v)) /\ (Unstored(v)' <=> Unstored(v))
             /\ (Busy(v)' <=> Busy(v)) /\ SessionOf(v)' = SessionOf(v)
             /\ worker'[v].code = worker[v].code
      BY <3>1 DEF Typed, Stored, Unstored, Busy, SessionOf
    <3>4. raced \subseteq raced'
      BY <3>1
    <3>5. ASSUME NEW v \in Workers \ {w}, Busy(v), SessionOf(v) = c[1] PROVE c[1] \in raced'
      BY <3>1, <3>5
    <3>6. \A u, v \in Workers :
             Busy(u)' /\ Busy(v)' /\ SessionOf(u)' = SessionOf(v)' /\ SessionOf(v)' \notin raced' => u = v
      BY <3>2, <3>3, <3>4, <3>5 DEF ToldInv
    <3>7. \A t \in session' \ raced' : stored'[t] # {} => \E v \in Workers : Stored(v)' /\ SessionOf(v)' = t
      <4>1. ASSUME NEW t \in session' \ raced', stored'[t] # {}
            PROVE  \E v \in Workers : Stored(v)' /\ SessionOf(v)' = t
        <5>1. PICK v \in Workers : Stored(v) /\ SessionOf(v) = t
          BY <2>0, <3>1, <3>4, <4>1 DEF ToldInv
        <5> QED  BY <2>0, <3>3, <5>1
      <4> QED  BY <4>1
    <3>8. c[1] \notin raced' => stored[c[1]] = {}
      <4>1. ASSUME c[1] \notin raced', stored[c[1]] # {} PROVE FALSE
        <5>1. PICK v \in Workers : Stored(v) /\ SessionOf(v) = c[1]
          BY <3>1, <3>4, <4>1 DEF ToldInv
        <5>2. Busy(v) /\ v # w
          BY <2>0, <5>1 DEF Stored, Busy
        <5> QED  BY <3>5, <4>1, <5>1, <5>2
      <4> QED  BY <4>1
    <3>9. \A v \in Workers : Unstored(v)' /\ SessionOf(v)' \notin raced' => stored'[SessionOf(v)'] = {}
      BY <2>0, <3>2, <3>3, <3>4, <3>8 DEF ToldInv
    <3>10. \A v \in Workers : Stored(v)' => worker'[v].code \in stored'[SessionOf(v)']
      BY <2>0, <3>2, <3>3 DEF ToldInv
    <3>11. \A t \in Sessions : Working(t) => Working(t)'
      BY <2>0, <3>3 DEF Working, Busy
    <3> QED  BY <2>0, <3>4, <3>6, <3>7, <3>9, <3>10, <3>11 DEF ToldInv
  <2> QED  BY <2>1, <2>2
<1>5. ASSUME NEW a \in Accounts, DeleteAccount(a) PROVE ToldInv'
  BY <1>0, <1>5 DEF DeleteAccount
<1>6. CASE Restart
  <2>1. /\ \A w \in Workers : ~ Busy(w)' /\ ~ Stored(w)' /\ ~ Unstored(w)'
        /\ session' = {} /\ \A s \in Sessions : done'[s] = None
    BY <1>6 DEF Restart, Busy, Stored, Unstored, Idle
  <2> QED  BY <2>1, NoResult DEF ToldInv
<1>7. CASE UNCHANGED vars
  BY <1>0, <1>7 DEF vars
<1> QED  BY <1>1, <1>2, <1>3, <1>4, <1>5, <1>6, <1>7, ToldWorkerStep DEF Next

-----------------------------------------------------------------------------
\* The row and the cache

Writing(w) == worker[w].pc \in {"upsert", "cache", "finish"}

LEMMA InitCache == Init => CacheInv
  BY DEF Init, CacheInv, Idle

\* Rows, cache and accounts stay, and exchanges at most leave the writing
\* part, none of them from between its two writes.
LEMMA CacheKept ==
  ASSUME Typed, CodeInv, CacheInv,
         UNCHANGED <<exists, row, cache>>, codes \subseteq codes', crossed \subseteq crossed',
         \A c \in codes : owner'[c[1]] = owner[c[1]],
         \A v \in Workers : Writing(v)' \/ worker[v].pc = "cache" =>
                               Writing(v) /\ worker'[v] = worker[v]
  PROVE  CacheInv'
<1>1. \A v \in Workers : Writing(v) => AccountOf(v) \in Accounts /\ owner'[worker[v].code[1]] = AccountOf(v)
  BY BusyFacts DEF Writing, Busy, CodeInv, AccountOf, SessionOf
<1>2. \A v \in Workers : Writing(v)' => Writing(v) /\ worker'[v] = worker[v] /\ AccountOf(v)' = AccountOf(v)
  BY <1>1 DEF AccountOf, SessionOf
<1>3. \A a \in Accounts : row'[a] # None => row'[a].code \in codes' /\ owner'[row'[a].code[1]] = a
  BY DEF CacheInv
<1>4. \A u, v \in Workers :
         Writing(u)' /\ Writing(v)' /\ AccountOf(u)' = AccountOf(v)' /\ AccountOf(v)' \notin crossed' => u = v
  BY <1>2 DEF CacheInv, Writing
<1>5. \A v \in Workers : worker[v].pc = "cache" => worker'[v] = worker[v] /\ AccountOf(v)' = AccountOf(v)
  BY <1>1 DEF AccountOf, SessionOf, Writing
<1>6. ASSUME NEW a \in Accounts \ crossed', exists'[a], cache'[a] # row'[a]
      PROVE  \E v \in Workers : worker'[v].pc = "cache" /\ AccountOf(v)' = a
  <2>1. PICK v \in Workers : worker[v].pc = "cache" /\ AccountOf(v) = a
    BY <1>6 DEF CacheInv
  <2> QED  BY <1>5, <2>1
<1>7. ASSUME NEW v \in Workers, worker'[v].pc = "cache", AccountOf(v)' \notin crossed', exists'[AccountOf(v)']
      PROVE  row'[AccountOf(v)'] = [code |-> worker'[v].code, project |-> worker'[v].project]
  <2>1. Writing(v)'
    BY <1>7 DEF Writing
  <2>2. worker'[v] = worker[v] /\ AccountOf(v)' = AccountOf(v)
    BY <1>2, <2>1
  <2> QED  BY <1>7, <2>2 DEF CacheInv
<1> QED  BY <1>3, <1>4, <1>6, <1>7 DEF CacheInv, Writing

LEMMA CacheWorkerStep ==
  ASSUME Typed, CodeInv, CacheInv, NEW w \in Workers, Step(w)
  PROVE  CacheInv'
<1> USE DEF maps, google, tables, counts, history
<1> DEFINE mine == [code |-> worker[w].code, project |-> worker[w].project]
<1>0. /\ \A v \in Workers \ {w} : worker'[v] = worker[v]
      /\ UNCHANGED <<owner, codes, exists>>
      /\ worker[w] \in Locals
      /\ AccountOf(w) \in Accounts /\ worker[w].code \in codes
  BY OneWorker, BusyFacts DEF CodeInv, Typed
<1>1. \A v \in Workers \ {w} : AccountOf(v)' = AccountOf(v)
  BY <1>0 DEF AccountOf, SessionOf
<1>2. ASSUME UNCHANGED <<row, cache>>, crossed \subseteq crossed', ~ Writing(w)', worker[w].pc # "cache"
      PROVE  CacheInv'
  BY <1>0, <1>2, CacheKept DEF Writing
<1>3. ASSUME Stop(w) PROVE ~ Writing(w)'
  BY <1>3 DEF Stop, Typed, Writing, Idle
<1>a. CASE Redeem(w)
  <2>1. ~ Writing(w)'
    BY <1>0, <1>a, <1>3 DEF Redeem, Continue, Writing, Typed, Locals
  <2> QED  BY <1>2, <1>a, <2>1 DEF Redeem
<1>b. ASSUME NEW n, LookedUp(w, n) PROVE CacheInv'
  <2>1. ~ Writing(w)'
    BY <1>b DEF LookedUp, Writing, Typed
  <2> QED  BY <1>2, <1>b, <2>1 DEF LookedUp
<1>c. CASE ReadCredential(w)
  <2>1. CASE Stop(w)
    BY <1>2, <1>3, <1>c, <2>1 DEF ReadCredential
  <2>2. CASE ~ Stop(w)
    <3>0. UNCHANGED <<row, cache>> /\ crossed \subseteq crossed' /\ worker[w].pc = "persist"
      BY <1>c, <2>2 DEF ReadCredential
    <3>1. worker' = [worker EXCEPT ![w] = [worker[w] EXCEPT !.pc = "upsert",
                       !.project = @ \/ (row[AccountOf(w)] # None /\ row[AccountOf(w)].project)]]
      BY <1>c, <2>2 DEF ReadCredential, Continue
    <3>2. worker'[w].pc = "upsert" /\ worker'[w].code = worker[w].code
      BY <1>0, <3>1 DEF Locals, Typed
    <3>3. AccountOf(w)' = AccountOf(w)
      BY <1>0, <3>2 DEF AccountOf, SessionOf
    <3>4. AccountOf(w) \notin crossed' => \A v \in Workers \ {w} : Writing(v) => AccountOf(v) # AccountOf(w)
      BY <1>c, <2>2 DEF ReadCredential, Writing, Storing
    <3>5. \A u, v \in Workers :
             Writing(u)' /\ Writing(v)' /\ AccountOf(u)' = AccountOf(v)' /\ AccountOf(v)' \notin crossed' => u = v
      BY <1>0, <1>1, <3>0, <3>3, <3>4 DEF CacheInv, Writing
    <3>6. ASSUME NEW a \in Accounts \ crossed', exists'[a], cache'[a] # row'[a]
          PROVE  \E v \in Workers : worker'[v].pc = "cache" /\ AccountOf(v)' = a
      <4>1. PICK v \in Workers : worker[v].pc = "cache" /\ AccountOf(v) = a
        BY <1>0, <3>0, <3>6 DEF CacheInv
      <4> QED  BY <1>0, <1>1, <3>0, <4>1
    <3>7. ASSUME NEW v \in Workers, worker'[v].pc = "cache", AccountOf(v)' \notin crossed', exists'[AccountOf(v)']
          PROVE  row'[AccountOf(v)'] = [code |-> worker'[v].code, project |-> worker'[v].project]
      <4>1. v # w
        BY <3>2, <3>7
      <4> QED  BY <1>0, <1>1, <3>0, <3>7, <4>1 DEF CacheInv
    <3>8. \A a \in Accounts : row'[a] # None => row'[a].code \in codes' /\ owner'[row'[a].code[1]] = a
      BY <1>0, <3>0 DEF CacheInv
    <3> QED  BY <3>5, <3>6, <3>7, <3>8 DEF CacheInv, Writing
  <2> QED  BY <2>1, <2>2
<1>d. CASE UpsertCredential(w)
  <2>1. CASE Stop(w)
    BY <1>2, <1>3, <1>d, <2>1 DEF UpsertCredential, Stop, Continue, Idle, Typed
  <2>2. CASE ~ Stop(w)
    <3>0. /\ worker[w].pc = "upsert" /\ UNCHANGED <<cache, crossed>>
          /\ row' = [row EXCEPT ![AccountOf(w)] = mine]
      BY <1>d, <2>2 DEF UpsertCredential
    <3>1. worker' = [worker EXCEPT ![w] = [worker[w] EXCEPT !.pc = "cache"]]
      BY <1>d, <2>2 DEF UpsertCredential, Continue
    <3>2. /\ worker'[w].pc = "cache" /\ worker'[w].code = worker[w].code
          /\ worker'[w].project = worker[w].project
      BY <1>0, <3>1 DEF Locals, Typed
    <3>3. AccountOf(w)' = AccountOf(w) /\ owner[worker[w].code[1]] = AccountOf(w)
      BY <1>0, <3>2 DEF AccountOf, SessionOf
    <3>4. row'[AccountOf(w)] = mine /\ \A a \in Accounts \ {AccountOf(w)} : row'[a] = row[a]
      BY <1>0, <3>0 DEF Typed
    <3>5. \A u, v \in Workers :
             Writing(u)' /\ Writing(v)' /\ AccountOf(u)' = AccountOf(v)' /\ AccountOf(v)' \notin crossed' => u = v
      BY <1>0, <1>1, <3>0, <3>3 DEF CacheInv, Writing
    <3>6. ASSUME NEW a \in Accounts \ crossed', exists'[a], cache'[a] # row'[a]
          PROVE  \E v \in Workers : worker'[v].pc = "cache" /\ AccountOf(v)' = a
      <4>1. CASE a = AccountOf(w)
        BY <3>2, <3>3, <4>1
      <4>2. CASE a # AccountOf(w)
        <5>1. PICK v \in Workers : worker[v].pc = "cache" /\ AccountOf(v) = a
          BY <1>0, <3>0, <3>4, <3>6, <4>2 DEF CacheInv
        <5> QED  BY <1>0, <1>1, <4>2, <5>1
      <4> QED  BY <4>1, <4>2
    <3>7. ASSUME NEW v \in Workers, worker'[v].pc = "cache", AccountOf(v)' \notin crossed', exists'[AccountOf(v)']
          PROVE  row'[AccountOf(v)'] = [code |-> worker'[v].code, project |-> worker'[v].project]
      <4>1. CASE v = w
        BY <3>2, <3>3, <3>4, <4>1
      <4>2. CASE v # w
        <5>1. /\ worker'[v] = worker[v] /\ worker[v].pc = "cache" /\ AccountOf(v)' = AccountOf(v)
              /\ AccountOf(v) \in Accounts
          BY <1>0, <1>1, <3>7, <4>2, BusyFacts DEF Busy
        <5>2. AccountOf(v) # AccountOf(w)
          BY <3>0, <3>7, <4>2, <5>1 DEF CacheInv
        <5> QED  BY <1>0, <3>0, <3>4, <3>7, <5>1, <5>2 DEF CacheInv
      <4> QED  BY <4>1, <4>2
    <3>8. \A a \in Accounts : row'[a] # None => row'[a].code \in codes' /\ owner'[row'[a].code[1]] = a
      BY <1>0, <3>3, <3>4 DEF CacheInv
    <3> QED  BY <3>5, <3>6, <3>7, <3>8 DEF CacheInv, Writing
  <2> QED  BY <2>1, <2>2
<1>e. CASE SetAccountCredential(w)
  <2>0. /\ worker[w].pc = "cache" /\ UNCHANGED <<row, crossed>>
        /\ cache' = [cache EXCEPT ![AccountOf(w)] = mine]
        /\ worker' = [worker EXCEPT ![w] = [worker[w] EXCEPT !.pc = "finish"]]
    BY <1>e DEF SetAccountCredential, Continue
  <2>1. worker'[w].pc = "finish" /\ worker'[w].code = worker[w].code
    BY <1>0, <2>0 DEF Locals, Typed
  <2>2. AccountOf(w)' = AccountOf(w)
    BY <1>0, <2>1 DEF AccountOf, SessionOf
  <2>3. cache'[AccountOf(w)] = mine /\ \A a \in Accounts \ {AccountOf(w)} : cache'[a] = cache[a]
    BY <1>0, <2>0 DEF Typed
  <2>4. \A u, v \in Workers :
           Writing(u)' /\ Writing(v)' /\ AccountOf(u)' = AccountOf(v)' /\ AccountOf(v)' \notin crossed' => u = v
    BY <1>0, <1>1, <2>0, <2>2 DEF CacheInv, Writing
  <2>5. ASSUME NEW a \in Accounts \ crossed', exists'[a], cache'[a] # row'[a]
        PROVE  \E v \in Workers : worker'[v].pc = "cache" /\ AccountOf(v)' = a
    <3>1. a # AccountOf(w)
      BY <1>0, <2>0, <2>3, <2>5 DEF CacheInv
    <3>2. PICK v \in Workers : worker[v].pc = "cache" /\ AccountOf(v) = a
      BY <1>0, <2>0, <2>3, <2>5, <3>1 DEF CacheInv
    <3> QED  BY <1>0, <1>1, <3>1, <3>2
  <2>6. ASSUME NEW v \in Workers, worker'[v].pc = "cache", AccountOf(v)' \notin crossed', exists'[AccountOf(v)']
        PROVE  row'[AccountOf(v)'] = [code |-> worker'[v].code, project |-> worker'[v].project]
    <3>1. v # w
      BY <2>1, <2>6
    <3> QED  BY <1>0, <1>1, <2>0, <2>6, <3>1 DEF CacheInv
  <2>7. \A a \in Accounts : row'[a] # None => row'[a].code \in codes' /\ owner'[row'[a].code[1]] = a
    BY <1>0, <2>0 DEF CacheInv
  <2> QED  BY <2>4, <2>5, <2>6, <2>7 DEF CacheInv, Writing
<1>f. CASE Finish(w)
  <2>1. ~ Writing(w)'
    BY <1>f DEF Finish, Typed, Writing, Idle
  <2> QED  BY <1>2, <1>f, <2>1 DEF Finish
<1> QED  BY <1>a, <1>b, <1>c, <1>d, <1>e, <1>f, LookupMoves DEF Step

LEMMA CacheStep == Typed /\ CodeInv /\ CacheInv /\ [Next]_vars => CacheInv'
<1> SUFFICES ASSUME Typed, CodeInv, CacheInv, [Next]_vars PROVE CacheInv'
  OBVIOUS
<1> USE DEF maps, google, tables, counts, history
<1>0. ASSUME UNCHANGED <<exists, row, cache, owner, worker>>, codes \subseteq codes', crossed \subseteq crossed'
      PROVE  CacheInv'
  BY <1>0, CacheKept DEF Writing
<1>1. ASSUME NEW s \in Sessions, NEW a \in Accounts, StartAntigravityOAuth(s, a) PROVE CacheInv'
  <2>1. \A c \in codes : owner'[c[1]] = owner[c[1]]
    BY <1>1, OAuthFlowAssumption DEF StartAntigravityOAuth, CodeInv, Typed
  <2> QED  BY <1>1, <2>1, CacheKept DEF StartAntigravityOAuth, Writing
<1>2. ASSUME NEW s \in Sessions, GrowOld(s) PROVE CacheInv'
  BY <1>0, <1>2 DEF GrowOld
<1>3. ASSUME NEW s \in Sessions, Authorise(s) PROVE CacheInv'
  BY <1>0, <1>3 DEF Authorise
<1>4. ASSUME NEW w \in Workers, NEW c \in Codes, Exchange(w, c) PROVE CacheInv'
  <2>1. CASE worker' = worker
    BY <1>0, <1>4, <2>1 DEF Exchange
  <2>2. CASE worker' = [worker EXCEPT ![w] = [Idle EXCEPT !.pc = "redeem", !.code = c]]
    <3>1. worker'[w].pc = "redeem" /\ worker[w].pc = "idle"
      BY <1>4, <2>2 DEF Exchange, Idle, Typed
    <3>2. \A v \in Workers : Writing(v)' \/ worker[v].pc = "cache" => Writing(v) /\ worker'[v] = worker[v]
      BY <2>2, <3>1 DEF Writing, Typed
    <3> QED  BY <1>4, <3>2, CacheKept DEF Exchange
  <2> QED  BY <1>4, <2>1, <2>2 DEF Exchange
<1>5. ASSUME NEW a \in Accounts, DeleteAccount(a) PROVE CacheInv'
  <2>1. /\ \A b \in Accounts \ {a} : exists'[b] = exists[b] /\ row'[b] = row[b]
        /\ ~ exists'[a] /\ row'[a] = None
        /\ UNCHANGED <<cache, worker, owner, codes>> /\ crossed \subseteq crossed'
    BY <1>5 DEF DeleteAccount, Typed
  <2>2. \A v \in Workers : Writing(v) => AccountOf(v) \in Accounts
    BY BusyFacts DEF Writing, Busy
  <2> QED  BY <2>1, <2>2 DEF CacheInv, AccountOf, SessionOf, Writing
<1>6. CASE Restart
  <2>1. \A w \in Workers : worker'[w].pc = "idle"
    BY <1>6 DEF Restart, Idle
  <2> QED  BY <1>6, <2>1 DEF Restart, CacheInv
<1>7. CASE UNCHANGED vars
  BY <1>0, <1>7 DEF vars
<1> QED  BY <1>1, <1>2, <1>3, <1>4, <1>5, <1>6, <1>7, CacheWorkerStep DEF Next

-----------------------------------------------------------------------------
\* The theorems

LEMMA InvAlways == Spec => []Inv
<1>1. Init => Inv
  BY InitTyped, InitCode, InitTold, InitCache DEF Inv
<1>2. Inv /\ [Next]_vars => Inv'
  BY TypedStep, CodeStep, ToldStep, CacheStep DEF Inv
<1> QED  BY <1>1, <1>2, PTL DEF Spec

\* Every map and every exchange of the sign-in is well formed; in particular
\* an exchange works on a code of a session that was started for an account,
\* and only codes that Google took are ever stored.
THEOREM TypeCorrect == Spec => []TypeOK
<1>1. Inv => TypeOK
  <2> SUFFICES ASSUME Inv PROVE TypeOK
    OBVIOUS
  <2>1. \A w \in Workers : /\ worker[w].pc \in {"idle", "redeem", "lookup", "onboard"} \cup Storing
                           /\ worker[w].tries \in 0..OnboardTries
    BY DEF Inv, Typed, Locals
  <2>2. \A w \in Workers : worker[w].pc # "idle" => worker[w].code \in codes /\ AccountOf(w) \in Accounts
    BY BusyFacts DEF Inv, CodeInv, Busy
  <2>3. \A s \in Sessions : stored[s] \subseteq redeemed \cap ({s} \X (1..MaxCodes))
    BY DEF Inv, Typed, CodeInv, Codes
  <2> QED  BY <2>1, <2>2, <2>3 DEF Inv, Typed, TypeOK
<1> QED  BY <1>1, InvAlways, PTL

\* What the console polls is what happened: "applied" only when tokens were
\* stored, "failed" only when none were, unless two exchanges of the session
\* overlapped; and an account's row and cache hold tokens of its own session
\* and agree once no exchange is between the two writes.
THEOREM StatusAlwaysTrue == Spec => []StatusTrue
<1>1. Inv => ToldTrue
  <2> SUFFICES ASSUME Inv, NEW s \in Sessions
               PROVE  /\ Poll(s).ok => stored[s] # {}
                      /\ Poll(s).done /\ ~ Poll(s).ok /\ s \notin raced /\ ~ Working(s) => stored[s] = {}
    BY DEF ToldTrue
  <2>1. CASE done[s] = None
    BY <2>1 DEF Poll
  <2>2. CASE done[s] = Failed
    BY <2>2, NoResult DEF Poll, Failed, Inv, ToldInv
  <2>3. CASE done[s] = Succeeded
    BY <2>3, NoResult DEF Poll, Succeeded, Inv, ToldInv
  <2> QED  BY <2>1, <2>2, <2>3 DEF Inv, Typed
<1>2. Inv => StoredRight
  BY DEF Inv, CacheInv, StoredRight, Settled, Storing
<1> QED  BY <1>1, <1>2, InvAlways, PTL DEF StatusTrue
==============================================================================
