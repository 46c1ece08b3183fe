----------------------------- MODULE RelayProofs -----------------------------
(* Theorems about the failover walk and the account pool, for any accounts,  *)
(* tiers, thresholds and failures, and any number of concurrent requests.    *)
EXTENDS Relay, FiniteSetTheorems, TLAPS

PCs == {"idle", "picking", "calling"} \cup Ended
Errors == {"none", "retryable", "final"}

\* A walk that is inside its chain.
InChain(w) == w \in Walks /\ w.mi <= Len(w.chain)

LEMMA ChainsType ==
  ASSUME NEW w \in Walks
  PROVE  /\ w.chain \in Seq(Models) /\ Len(w.chain) \in Nat \ {0}
         /\ w.mi \in Nat \ {0} /\ w.attempt \in 0 .. MaxAttempts - 1 /\ w.pc \in PCs
         /\ w.attempt \in Nat /\ MaxAttempts \in Nat
<1>1. w.chain \in Chains /\ w.mi \in Nat \ {0} /\ w.attempt \in 0 .. MaxAttempts - 1 /\ w.pc \in PCs
  BY DEF Walks, PCs
<1>2. w.chain \in Seq(Models) /\ w.chain # <<>> /\ MaxAttempts \in Nat
  BY <1>1, RelayAssumption
<1>3. Len(w.chain) \in Nat \ {0}
  BY <1>2
<1> QED  BY <1>1, <1>2, <1>3

\* Updates of one field of a walk.
LEMMA SetPc ==
  ASSUME NEW w \in Walks, NEW p \in PCs
  PROVE  LET v == [w EXCEPT !.pc = p]
         IN  v \in Walks /\ v.pc = p /\ v.chain = w.chain /\ v.mi = w.mi
             /\ v.attempt = w.attempt /\ v.acct = w.acct /\ v.lastErr = w.lastErr
  BY DEF Walks, PCs

LEMMA SetAttempt ==
  ASSUME NEW w \in Walks, NEW n \in 0 .. MaxAttempts - 1
  PROVE  LET v == [w EXCEPT !.attempt = n]
         IN  v \in Walks /\ v.pc = w.pc /\ v.chain = w.chain /\ v.mi = w.mi /\ v.attempt = n
  BY DEF Walks

LEMMA SetModel ==
  ASSUME NEW w \in Walks, NEW n \in Nat \ {0}
  PROVE  LET v == [w EXCEPT !.mi = n]
         IN  v \in Walks /\ v.pc = w.pc /\ v.chain = w.chain /\ v.mi = n /\ v.attempt = w.attempt
  BY DEF Walks

LEMMA SetAccount ==
  ASSUME NEW w \in Walks, NEW a \in Accounts
  PROVE  LET v == [w EXCEPT !.acct = a]
         IN  v \in Walks /\ v.pc = w.pc /\ v.chain = w.chain /\ v.mi = w.mi /\ v.attempt = w.attempt
             /\ v.acct = a
  BY DEF Walks

LEMMA SetError ==
  ASSUME NEW w \in Walks, NEW e \in Errors
  PROVE  LET v == [w EXCEPT !.lastErr = e]
         IN  v \in Walks /\ v.pc = w.pc /\ v.chain = w.chain /\ v.mi = w.mi /\ v.attempt = w.attempt
             /\ v.acct = w.acct
  BY DEF Walks, Errors

\* The end of a loop body: the next attempt, the next model, or the end.
LEMMA ContinueType ==
  ASSUME NEW w, InChain(w)
  PROVE  /\ InChain(Continue(w)) /\ Continue(w).chain = w.chain
         /\ \/ Continue(w).pc = "picking" /\ Continue(w).mi = w.mi
               /\ Continue(w).attempt = w.attempt + 1
            \/ Continue(w).pc = "picking" /\ Continue(w).mi = w.mi + 1
               /\ Continue(w).attempt = 0
            \/ Continue(w).pc = "failed" /\ Continue(w).mi = w.mi
<1>0. w \in Walks
  BY DEF InChain
<1>1. /\ w.mi \in Nat \ {0} /\ Len(w.chain) \in Nat /\ w.attempt \in Nat /\ MaxAttempts \in Nat \ {0}
      /\ w.mi <= Len(w.chain)
  BY <1>0, ChainsType, RelayAssumption DEF InChain
<1> DEFINE p == [w EXCEPT !.pc = "picking"]
<1>2. p \in Walks /\ p.pc = "picking" /\ p.chain = w.chain /\ p.mi = w.mi /\ p.attempt = w.attempt
  BY <1>0, SetPc DEF PCs
<1>3. CASE w.attempt + 1 < MaxAttempts
  <2>1. w.attempt + 1 \in 0 .. MaxAttempts - 1
    BY <1>1, <1>3
  <2> DEFINE v == [p EXCEPT !.attempt = w.attempt + 1]
  <2>2. Continue(w) = v
    <3>1. Continue(w) = [w EXCEPT !.pc = "picking", !.attempt = w.attempt + 1]
      BY <1>3 DEF Continue
    <3> QED  BY <3>1
  <2> HIDE DEF p
  <2>3. v \in Walks /\ v.pc = "picking" /\ v.chain = w.chain /\ v.mi = w.mi
        /\ v.attempt = w.attempt + 1
    BY <1>2, <2>1, SetAttempt
  <2> HIDE DEF v
  <2> QED  BY <1>1, <2>2, <2>3 DEF InChain
<1>4. CASE ~ (w.attempt + 1 < MaxAttempts) /\ w.mi < Len(w.chain) /\ w.lastErr = "retryable"
  <2>1. 0 \in 0 .. MaxAttempts - 1 /\ w.mi + 1 \in Nat \ {0} /\ w.mi + 1 <= Len(w.chain)
    BY <1>1, <1>4
  <2> DEFINE q == [p EXCEPT !.attempt = 0]
  <2> DEFINE v == [q EXCEPT !.mi = w.mi + 1]
  <2>2. Continue(w) = v
    <3>1. Continue(w) = [w EXCEPT !.pc = "picking", !.attempt = 0, !.mi = w.mi + 1]
      BY <1>4 DEF Continue
    <3> QED  BY <3>1
  <2> HIDE DEF p
  <2>3. q \in Walks /\ q.pc = "picking" /\ q.chain = w.chain /\ q.attempt = 0
    BY <1>2, <2>1, SetAttempt
  <2> HIDE DEF q
  <2>4. v \in Walks /\ v.pc = "picking" /\ v.chain = w.chain /\ v.mi = w.mi + 1 /\ v.attempt = 0
    BY <2>1, <2>3, SetModel
  <2> HIDE DEF v
  <2> QED  BY <2>1, <2>2, <2>4 DEF InChain
<1>5. CASE ~ (w.attempt + 1 < MaxAttempts) /\ ~ (w.mi < Len(w.chain) /\ w.lastErr = "retryable")
  <2>1. Continue(w) = [w EXCEPT !.pc = "failed"]
    BY <1>5 DEF Continue
  <2> DEFINE v == [w EXCEPT !.pc = "failed"]
  <2>2. v \in Walks /\ v.pc = "failed" /\ v.chain = w.chain /\ v.mi = w.mi
    BY <1>0, SetPc DEF PCs, Ended
  <2> HIDE DEF v
  <2> QED  BY <1>1, <2>1, <2>2 DEF InChain, v
<1> QED  BY <1>3, <1>4, <1>5

\* The attempt failed with f.
LEMMA AfterErrorType ==
  ASSUME NEW w, InChain(w), NEW f
  PROVE  /\ InChain(AfterError(w, f)) /\ AfterError(w, f).chain = w.chain
         /\ \/ AfterError(w, f).pc = "picking" /\ AfterError(w, f).mi = w.mi
               /\ AfterError(w, f).attempt = w.attempt + 1
            \/ AfterError(w, f).pc = "picking" /\ AfterError(w, f).mi = w.mi + 1
               /\ AfterError(w, f).attempt = 0
            \/ AfterError(w, f).pc = "failed" /\ AfterError(w, f).mi = w.mi
<1> DEFINE e == IF f.retryable THEN "retryable" ELSE "final"
           v == [w EXCEPT !.lastErr = e]
<1>1. e \in Errors
  BY DEF Errors
<1>2. AfterError(w, f) = Continue(v)
  BY DEF AfterError
<1> HIDE DEF e
<1>3. v \in Walks /\ v.chain = w.chain /\ v.mi = w.mi /\ v.attempt = w.attempt
  BY <1>1, SetError DEF InChain
<1> HIDE DEF v
<1>4. InChain(v)
  BY <1>3 DEF InChain
<1> QED  BY <1>2, <1>3, <1>4, ContinueType

\* The walk goes on or ends without moving.
LEMMA PcType ==
  ASSUME NEW w, InChain(w), NEW p \in PCs
  PROVE  LET v == [w EXCEPT !.pc = p]
         IN  InChain(v) /\ v.pc = p /\ v.chain = w.chain /\ v.mi = w.mi /\ v.attempt = w.attempt
<1> DEFINE v == [w EXCEPT !.pc = p]
<1>1. v \in Walks /\ v.pc = p /\ v.chain = w.chain /\ v.mi = w.mi /\ v.attempt = w.attempt
  BY SetPc DEF InChain
<1> HIDE DEF v
<1>2. InChain(v) /\ v.pc = p /\ v.chain = w.chain /\ v.mi = w.mi /\ v.attempt = w.attempt
  BY <1>1 DEF InChain
<1> QED  BY <1>2 DEF v

\* The attempt picked account a.
LEMMA PickedType ==
  ASSUME NEW w, InChain(w), NEW a \in Accounts
  PROVE  LET v == [w EXCEPT !.pc = "calling", !.acct = a]
         IN  InChain(v) /\ v.pc = "calling" /\ v.chain = w.chain /\ v.mi = w.mi
             /\ v.attempt = w.attempt /\ v.acct = a
<1> DEFINE p == [w EXCEPT !.pc = "calling"]
           v == [p EXCEPT !.acct = a]
<1>1. p \in Walks /\ p.pc = "calling" /\ p.chain = w.chain /\ p.mi = w.mi /\ p.attempt = w.attempt
  BY SetPc DEF InChain, PCs
<1>2. [w EXCEPT !.pc = "calling", !.acct = a] = v
  OBVIOUS
<1> HIDE DEF p
<1>3. v \in Walks /\ v.pc = "calling" /\ v.chain = w.chain /\ v.mi = w.mi
      /\ v.attempt = w.attempt /\ v.acct = a
  BY <1>1, SetAccount
<1> HIDE DEF v
<1> QED  BY <1>2, <1>3 DEF InChain

-----------------------------------------------------------------------------
\* The health of an account stays well typed.
LEMMA HealthTypes ==
  ASSUME NEW h \in Health, NEW class \in Classes, NEW cd \in Nat
  PROVE  /\ Succeeded(h) \in Health /\ Reaped(h) \in Health
         /\ Counted(h, class) \in Health /\ Failed(h, class, cd) \in Health
<1>1. TimeoutCooldown \in Nat /\ ForbiddenCooldown \in Nat
  BY SchedulerAssumption
<1>2. Reaped(h) \in Health
  BY DEF Reaped, Fresh, Health
<1>3. Succeeded(h) \in Health
  BY DEF Succeeded, Health, Unset
<1>4. Counted(h, class) \in Health
  BY DEF Counted, Health
<1>5. Failed(h, class, cd) \in Health
  <2> DEFINE n == Counted(h, class)
             left == IF class = "429" THEN cd ELSE h.left
             pause == IF class = "timeout" THEN TimeoutCooldown ELSE ForbiddenCooldown
             long == IF left = Unset THEN pause ELSE left
  <2>1. left \in Nat \cup {Unset} /\ long \in Nat \cup {Unset}
    BY <1>1 DEF Health
  <2>2. \/ Failed(h, class, cd) = h
        \/ Failed(h, class, cd) = [n EXCEPT !.left = left]
        \/ Failed(h, class, cd) = [n EXCEPT !.healthy = FALSE, !.left = long]
    BY DEF Failed
  <2> HIDE DEF n, left, long
  <2>3. n \in Health
    BY <1>4 DEF n
  <2>4. [n EXCEPT !.left = left] \in Health
    BY <2>1, <2>3 DEF Health
  <2>5. [n EXCEPT !.healthy = FALSE, !.left = long] \in Health
    <3> DEFINE q == [n EXCEPT !.healthy = FALSE]
    <3>1. q \in Health
      BY <2>3 DEF Health
    <3> HIDE DEF q
    <3>2. [q EXCEPT !.left = long] \in Health
      BY <2>1, <3>1 DEF Health
    <3> QED  BY <3>2 DEF q
  <2> QED  BY <2>2, <2>4, <2>5
<1> QED  BY <1>2, <1>3, <1>4, <1>5

-----------------------------------------------------------------------------
\* The conjuncts of TypeOK about walks, and about the histories.
WalksTyped ==
    /\ walk \in [Requests -> Walks]
    /\ \A r \in Requests : /\ walk[r].mi <= Len(walk[r].chain)
                           /\ walk[r].pc = "calling" => walk[r].acct # NoAccount

HistoriesTyped ==
    /\ called \in [Requests -> SUBSET (Nat \X Accounts)] /\ calls \in [Requests -> Nat]
    /\ sent \in [Requests -> BOOLEAN] /\ steady \in [Requests -> BOOLEAN]
    /\ operated \in SUBSET Accounts

LEMMA TypeParts == TypeOK <=> PoolTypeOK /\ WalksTyped /\ HistoriesTyped
  BY DEF TypeOK, WalksTyped, HistoriesTyped

LEMMA WalkOf ==
  ASSUME WalksTyped, NEW r \in Requests
  PROVE  /\ InChain(walk[r])
         /\ walk[r].pc = "calling" => walk[r].acct \in Accounts
  BY DEF WalksTyped, InChain, Walks

\* A request moves to another well-typed point of its walk.
LEMMA WalkMoves ==
  ASSUME WalksTyped, NEW r \in Requests, NEW v, InChain(v), v.pc = "calling" => v.acct # NoAccount,
         walk' = [walk EXCEPT ![r] = v]
  PROVE  WalksTyped'
<1>1. v \in Walks /\ v.mi <= Len(v.chain)
  BY DEF InChain
<1>2. ASSUME NEW q \in Requests
      PROVE  walk'[q] = IF q = r THEN v ELSE walk[q]
  BY DEF WalksTyped
<1> QED  BY <1>1, <1>2 DEF WalksTyped

LEMMA SteadyType ==
  ASSUME HistoriesTyped, Watch
  PROVE  steady' \in [Requests -> BOOLEAN]
  BY DEF HistoriesTyped, Watch

LEMMA InitTypes == Init => TypeOK
<1> SUFFICES ASSUME Init PROVE TypeOK
  OBVIOUS
<1>1. PoolTypeOK
  BY DEF Init, PoolTypeOK, Fresh, Health, Unset
<1>2. WalksTyped
  <2>1. ASSUME NEW r \in Requests
        PROVE  /\ walk[r] \in Walks /\ walk[r].mi <= Len(walk[r].chain)
               /\ walk[r].pc # "calling"
    <3>1. PICK c \in Chains :
            walk[r] = [pc |-> "idle", chain |-> c, mi |-> 1, attempt |-> 0,
                       acct |-> NoAccount, lastErr |-> "none"]
      BY DEF Init
    <3>2. 0 \in 0 .. MaxAttempts - 1
      BY RelayAssumption
    <3>3. c \in Seq(Models) /\ c # <<>>
      BY RelayAssumption
    <3>4. 1 <= Len(c)
      BY <3>3
    <3> QED  BY <3>1, <3>2, <3>4 DEF Walks
  <2>2. walk = [r \in Requests |-> walk[r]]
    BY DEF Init
  <2> QED  BY <2>1, <2>2 DEF WalksTyped
<1>3. HistoriesTyped
  BY DEF Init, HistoriesTyped
<1> QED  BY <1>1, <1>2, <1>3, TypeParts

\* What the upstream call of a request does to the pool when it fails.
LEMMA NoteFailureType ==
  ASSUME PoolTypeOK, WalksTyped, NEW r \in Requests, walk[r].pc = "calling",
         NEW f \in Failures, NoteFailure(r, f)
  PROVE  pool' \in [Accounts -> Health]
<1>1. PICK cd \in RateLimitCooldowns :
        pool' = [pool EXCEPT ![walk[r].acct] = Failed(@, f.class, cd)]
  BY DEF NoteFailure
<1>2. cd \in Nat /\ f.class \in Classes /\ walk[r].acct \in Accounts
  BY WalkOf, SchedulerAssumption, RelayAssumption
<1>3. Failed(pool[walk[r].acct], f.class, cd) \in Health
  BY <1>2, HealthTypes DEF PoolTypeOK
<1> QED  BY <1>1, <1>3 DEF PoolTypeOK

LEMMA TypeStep == TypeOK /\ [Next]_vars => TypeOK'
<1> SUFFICES ASSUME PoolTypeOK, WalksTyped, HistoriesTyped, [Next]_vars
             PROVE  PoolTypeOK' /\ WalksTyped' /\ HistoriesTyped'
  BY TypeParts DEF TypeOK, PoolTypeOK, WalksTyped, HistoriesTyped
<1>1. ASSUME UNCHANGED <<pool, routes>> PROVE PoolTypeOK'
  BY <1>1 DEF PoolTypeOK
<1>2. ASSUME UNCHANGED <<called, calls>>, Watch, sent' \in [Requests -> BOOLEAN],
             operated' \in SUBSET Accounts
      PROVE  HistoriesTyped'
  BY <1>2, SteadyType DEF HistoriesTyped
<1>3. ASSUME NEW r \in Requests, Start(r)
      PROVE  PoolTypeOK' /\ WalksTyped' /\ HistoriesTyped'
  <2> DEFINE v == [walk[r] EXCEPT !.pc = "picking"]
  <2>1. walk' = [walk EXCEPT ![r] = v]
    BY <1>3 DEF Start
  <2>2. InChain(v) /\ v.pc = "picking"
    BY WalkOf, PcType DEF PCs
  <2> HIDE DEF v
  <2>3. WalksTyped'
    BY <2>1, <2>2, WalkMoves
  <2> QED  BY <1>1, <1>2, <1>3, <2>3 DEF Start, HistoriesTyped
<1>4. ASSUME NEW r \in Requests, PickAccount(r)
      PROVE  PoolTypeOK' /\ WalksTyped' /\ HistoriesTyped'
  <2>1. UNCHANGED <<pool, routes, sent, operated>> /\ Watch
    BY <1>4 DEF PickAccount
  <2>2. CASE PickedNone(r)
    <3>1. walk' = [walk EXCEPT ![r] = Continue(walk[r])] /\ UNCHANGED <<called, calls>>
      BY <2>2 DEF PickedNone
    <3>2. WalksTyped'
      BY <3>1, WalkOf, WalkMoves, ContinueType
    <3> QED  BY <1>1, <1>2, <2>1, <3>1, <3>2 DEF HistoriesTyped
  <2>3. ASSUME NEW a \in Pick(walk[r].attempt, ModelOf(walk[r])), Picked(r, a)
        PROVE  PoolTypeOK' /\ WalksTyped' /\ HistoriesTyped'
    <3>1. a \in Accounts
      BY <2>3 DEF Pick, Live, Cooling, Eligible
    <3> DEFINE v == [walk[r] EXCEPT !.pc = "calling", !.acct = a]
    <3>2. walk' = [walk EXCEPT ![r] = v]
      BY <2>3 DEF Picked
    <3>3. InChain(v) /\ v.acct = a
      BY <3>1, WalkOf, PickedType
    <3> HIDE DEF v
    <3>4. WalksTyped'
      BY <3>1, <3>2, <3>3, WalkMoves, RelayAssumption
    <3>5. walk[r].mi \in Nat
      BY WalkOf, ChainsType DEF InChain
    <3>6. called' \in [Requests -> SUBSET (Nat \X Accounts)] /\ calls' \in [Requests -> Nat]
      BY <2>3, <3>1, <3>5 DEF Picked, HistoriesTyped
    <3>7. steady' \in [Requests -> BOOLEAN]
      BY <2>1, SteadyType
    <3> QED  BY <1>1, <2>1, <3>4, <3>6, <3>7 DEF HistoriesTyped
  <2> QED  BY <1>4, <2>2, <2>3 DEF PickAccount
<1>5. ASSUME NEW r \in Requests, CallSucceeds(r)
      PROVE  PoolTypeOK' /\ WalksTyped' /\ HistoriesTyped'
  <2> DEFINE v == [walk[r] EXCEPT !.pc = "served"]
  <2>1. walk' = [walk EXCEPT ![r] = v]
    BY <1>5 DEF CallSucceeds
  <2>2. InChain(v) /\ v.pc = "served"
    BY WalkOf, PcType DEF PCs, Ended
  <2> HIDE DEF v
  <2>3. WalksTyped'
    BY <2>1, <2>2, WalkMoves
  <2>4. Succeeded(pool[walk[r].acct]) \in Health
    <3>1. pool[walk[r].acct] \in Health
      BY <1>5, WalkOf DEF CallSucceeds, PoolTypeOK
    <3> QED  BY <3>1, HealthTypes DEF Classes
  <2>5. PoolTypeOK'
    BY <1>5, <2>4 DEF CallSucceeds, PoolTypeOK
  <2>6. sent' \in [Requests -> BOOLEAN]
    BY <1>5 DEF CallSucceeds, HistoriesTyped
  <2> QED  BY <1>2, <1>5, <2>3, <2>5, <2>6 DEF CallSucceeds, HistoriesTyped
<1>6. ASSUME NEW r \in Requests, CallFails(r)
      PROVE  PoolTypeOK' /\ WalksTyped' /\ HistoriesTyped'
  <2>1. PICK f \in Failures : NoteFailure(r, f) /\ walk' = [walk EXCEPT ![r] = AfterError(@, f)]
    BY <1>6 DEF CallFails
  <2>2. walk' = [walk EXCEPT ![r] = AfterError(walk[r], f)]
    BY <2>1
  <2>3. WalksTyped'
    BY <2>2, WalkOf, WalkMoves, AfterErrorType
  <2>4. PoolTypeOK'
    BY <1>6, <2>1, NoteFailureType DEF CallFails, PoolTypeOK
  <2> QED  BY <1>2, <1>6, <2>3, <2>4 DEF CallFails, HistoriesTyped
<1>7. ASSUME NEW r \in Requests, CallBreaks(r)
      PROVE  PoolTypeOK' /\ WalksTyped' /\ HistoriesTyped'
  <2> DEFINE v == [walk[r] EXCEPT !.pc = "broken"]
  <2>1. walk' = [walk EXCEPT ![r] = v]
    BY <1>7 DEF CallBreaks
  <2>2. InChain(v) /\ v.pc = "broken"
    BY WalkOf, PcType DEF PCs, Ended
  <2> HIDE DEF v
  <2>3. WalksTyped'
    BY <2>1, <2>2, WalkMoves
  <2>4. PoolTypeOK'
    BY <1>7, NoteFailureType DEF CallBreaks, PoolTypeOK
  <2>5. sent' \in [Requests -> BOOLEAN]
    BY <1>7 DEF CallBreaks, HistoriesTyped
  <2> QED  BY <1>2, <1>7, <2>3, <2>4, <2>5 DEF CallBreaks, HistoriesTyped
<1>8. ASSUME Untouched, PoolTypeOK', operated' \in SUBSET Accounts
      PROVE  PoolTypeOK' /\ WalksTyped' /\ HistoriesTyped'
  BY <1>2, <1>8 DEF Untouched, WalksTyped, HistoriesTyped
<1>9. CASE Reap
  <2>1. PoolTypeOK'
    BY <1>9, HealthTypes DEF Reap, ReapCooldowns, PoolTypeOK, Classes
  <2> QED  BY <1>8, <1>9, <2>1 DEF Reap, HistoriesTyped
<1>10. CASE Clock
  <2>1. ASSUME NEW h \in Health
        PROVE  [h EXCEPT !.left = IF @ > 0 THEN @ - 1 ELSE @] \in Health
    BY DEF Health, Unset
  <2>2. PoolTypeOK'
    BY <1>10, <2>1 DEF Clock, Tick, PoolTypeOK
  <2> QED  BY <1>8, <1>10, <2>2 DEF Clock, HistoriesTyped
<1>11. CASE Reroute
  BY <1>8, <1>11 DEF Reroute, SetModelRoutes, PoolTypeOK, HistoriesTyped
<1>12. ASSUME NEW a \in Operable, Authorise(a)
       PROVE  PoolTypeOK' /\ WalksTyped' /\ HistoriesTyped'
  <2>1. a \in Accounts
    BY RelayAssumption
  <2> DEFINE q == [pool[a] EXCEPT !.healthy = TRUE]
             v == [q EXCEPT !.left = Unset]
  <2>2. pool' = [pool EXCEPT ![a] = v]
    BY <1>12 DEF Authorise, SetAccountHealth
  <2>3. q \in Health
    BY <2>1 DEF PoolTypeOK, Health
  <2> HIDE DEF q
  <2>4. v \in Health
    BY <2>3 DEF Health
  <2> HIDE DEF v
  <2>5. PoolTypeOK'
    BY <1>12, <2>2, <2>4 DEF Authorise, SetAccountHealth, PoolTypeOK
  <2> QED  BY <1>8, <1>12, <2>1, <2>5 DEF Authorise, HistoriesTyped
<1>13. ASSUME NEW a \in Operable, ReplaceAccounts(a)
       PROVE  PoolTypeOK' /\ WalksTyped' /\ HistoriesTyped'
  <2>1. a \in Accounts /\ Reloads \subseteq Health
    BY RelayAssumption
  <2>2. PoolTypeOK'
    BY <1>13, <2>1 DEF ReplaceAccounts, PoolTypeOK
  <2> QED  BY <1>8, <1>13, <2>1, <2>2 DEF ReplaceAccounts, HistoriesTyped
<1>14. CASE UNCHANGED vars
  BY <1>14 DEF vars, PoolTypeOK, WalksTyped, HistoriesTyped
<1> QED
  BY <1>3, <1>4, <1>5, <1>6, <1>7, <1>9, <1>10, <1>11, <1>12, <1>13, <1>14 DEF Next

\* Attempts stay below MaxAttempts, models inside the chain, and the counters and
\* cooldowns of the pool are numbers, in every reachable state.
THEOREM TypeCorrect == Spec => []TypeOK
<1> QED  BY InitTypes, TypeStep, PTL DEF Spec

-----------------------------------------------------------------------------
\* Counters and thresholds

Below(h) == /\ h.timeouts < TimeoutPauseThreshold
            /\ h.c403 < ForbiddenPauseThreshold
            /\ h.c429 < RateLimitPauseThreshold

\* A failure that does not pause the account leaves its counters below.
LEMMA FailedBelow ==
  ASSUME NEW h \in Health, NEW class \in Classes, NEW cd \in Nat,
         h.healthy => Below(h), Failed(h, class, cd).healthy
  PROVE  Below(Failed(h, class, cd))
<1> DEFINE n == Counted(h, class)
           left == IF class = "429" THEN cd ELSE h.left
           long == IF left = Unset
                   THEN (IF class = "timeout" THEN TimeoutCooldown ELSE ForbiddenCooldown)
                   ELSE left
<1>1. n \in Health
  BY HealthTypes
<1>2. CASE ~ h.listed
  BY <1>2 DEF Failed
<1>3. CASE h.listed /\ Pauses(n, class)
  <2>1. Failed(h, class, cd) = [n EXCEPT !.healthy = FALSE, !.left = long]
    BY <1>3 DEF Failed
  <2> HIDE DEF n, long
  <2>2. Failed(h, class, cd).healthy = FALSE
    BY <1>1, <2>1 DEF Health
  <2> QED  BY <2>2
<1>4. CASE h.listed /\ ~ Pauses(n, class)
  <2>1. Failed(h, class, cd) = [n EXCEPT !.left = left]
    BY <1>4 DEF Failed
  <2>2. n.healthy = h.healthy
    BY DEF Counted, Health
  <2>3. h.healthy
    BY <1>1, <2>1, <2>2 DEF Health
  <2>4. Below(n)
    BY <1>4, <2>3, SchedulerAssumption DEF Below, Pauses, Counted, Health, Classes
  <2> HIDE DEF n, left
  <2> QED  BY <1>1, <2>1, <2>4 DEF Below, Health
<1> QED  BY <1>2, <1>3, <1>4

\* The account of a step is in service afterwards only if its counters are below.
PoolBelow == \A a \in Accounts \ operated : pool[a].healthy => Below(pool[a])

LEMMA BelowIsThresholds == PoolBelow <=> ThresholdsPause
  BY DEF PoolBelow, ThresholdsPause, Below

LEMMA BelowFailure ==
  ASSUME TypeOK, PoolBelow, NEW r \in Requests, walk[r].pc = "calling",
         NEW f \in Failures, NoteFailure(r, f), UNCHANGED operated
  PROVE  PoolBelow'
<1>1. PICK cd \in RateLimitCooldowns :
        pool' = [pool EXCEPT ![walk[r].acct] = Failed(@, f.class, cd)]
  BY DEF NoteFailure
<1>2. cd \in Nat /\ f.class \in Classes /\ walk[r].acct \in Accounts
  BY TypeParts, WalkOf, SchedulerAssumption, RelayAssumption
<1> SUFFICES ASSUME NEW a \in Accounts \ operated, pool'[a].healthy PROVE Below(pool'[a])
  BY DEF PoolBelow, Below
<1>3. pool[a] \in Health /\ (pool[a].healthy => Below(pool[a]))
  BY TypeParts DEF PoolTypeOK, PoolBelow
<1>4. CASE a = walk[r].acct
  <2>1. pool'[a] = Failed(pool[a], f.class, cd)
    BY <1>1, <1>4, TypeParts DEF PoolTypeOK
  <2> QED  BY <1>2, <1>3, <2>1, FailedBelow
<1>5. CASE a # walk[r].acct
  <2>1. pool'[a] = pool[a]
    BY <1>1, <1>5, TypeParts DEF PoolTypeOK
  <2> QED  BY <1>3, <2>1
<1> QED  BY <1>4, <1>5

LEMMA BelowStep == TypeOK /\ PoolBelow /\ [Next]_vars => PoolBelow'
<1> SUFFICES ASSUME TypeOK, PoolBelow, [Next]_vars PROVE PoolBelow'
  OBVIOUS
<1>0. PoolTypeOK /\ WalksTyped
  BY TypeParts
<1>1. ASSUME UNCHANGED <<pool, operated>> PROVE PoolBelow'
  BY <1>1 DEF PoolBelow, Below
<1>2. ASSUME NEW r \in Requests, Start(r) \/ PickAccount(r) PROVE PoolBelow'
  BY <1>1, <1>2 DEF Start, PickAccount
<1>3. ASSUME NEW r \in Requests, CallSucceeds(r) PROVE PoolBelow'
  <2>1. ASSUME NEW a \in Accounts \ operated, pool'[a].healthy PROVE Below(pool'[a])
    <3>1. pool[a] \in Health /\ (pool[a].healthy => Below(pool[a]))
      BY <1>0 DEF PoolTypeOK, PoolBelow
    <3>2. pool'[a] = IF a = walk[r].acct THEN Succeeded(pool[a]) ELSE pool[a]
      BY <1>0, <1>3 DEF CallSucceeds, PoolTypeOK
    <3>3. Succeeded(pool[a]).healthy => Below(Succeeded(pool[a]))
      BY <3>1, SchedulerAssumption DEF Succeeded, Below, Health
    <3> QED  BY <2>1, <3>1, <3>2, <3>3
  <2> QED  BY <1>3, <2>1 DEF CallSucceeds, PoolBelow, Below
<1>4. ASSUME NEW r \in Requests, CallFails(r) \/ CallBreaks(r) PROVE PoolBelow'
  BY <1>4, BelowFailure DEF CallFails, CallBreaks
<1>5. CASE Reap
  <2>1. ASSUME NEW a \in Accounts \ operated, pool'[a].healthy PROVE Below(pool'[a])
    <3>1. pool[a] \in Health /\ (pool[a].healthy => Below(pool[a]))
      BY <1>0 DEF PoolTypeOK, PoolBelow
    <3>2. pool'[a] = Reaped(pool[a])
      BY <1>5 DEF Reap, ReapCooldowns
    <3>3. Below(Fresh)
      BY SchedulerAssumption DEF Below, Fresh
    <3> QED  BY <2>1, <3>1, <3>2, <3>3 DEF Reaped
  <2> QED  BY <1>5, <2>1 DEF Reap, PoolBelow, Below
<1>6. CASE Clock
  <2>1. ASSUME NEW a \in Accounts \ operated, pool'[a].healthy PROVE Below(pool'[a])
    <3>1. pool[a] \in Health /\ (pool[a].healthy => Below(pool[a]))
      BY <1>0 DEF PoolTypeOK, PoolBelow
    <3> DEFINE t == IF pool[a].left > 0 THEN pool[a].left - 1 ELSE pool[a].left
    <3>2. pool'[a] = [pool[a] EXCEPT !.left = t]
      BY <1>6 DEF Clock, Tick
    <3> HIDE DEF t
    <3> QED  BY <2>1, <3>1, <3>2 DEF Below, Health
  <2> QED  BY <1>6, <2>1 DEF Clock, PoolBelow, Below
<1>7. CASE Reroute
  BY <1>1, <1>7 DEF Reroute, SetModelRoutes
<1>8. ASSUME NEW a \in Operable, Authorise(a) \/ ReplaceAccounts(a) PROVE PoolBelow'
  <2>1. operated' = operated \cup {a}
    BY <1>8 DEF Authorise, ReplaceAccounts
  <2>2. ASSUME NEW b \in Accounts, b # a PROVE pool'[b] = pool[b]
    BY <1>0, <1>8, <2>2 DEF Authorise, SetAccountHealth, ReplaceAccounts, PoolTypeOK
  <2> QED  BY <2>1, <2>2 DEF PoolBelow, Below
<1>9. CASE UNCHANGED vars
  BY <1>1, <1>9 DEF vars
<1> QED
  BY <1>2, <1>3, <1>4, <1>5, <1>6, <1>7, <1>8, <1>9 DEF Next

\* An account that is in service has every counter below the threshold that
\* takes it out, for any number of requests that report about it at once.
THEOREM CountersBelowThresholds == Spec => []ThresholdsPause
<1>1. Init => TypeOK /\ PoolBelow
  BY InitTypes, SchedulerAssumption DEF Init, PoolBelow, Below, Fresh
<1>2. TypeOK /\ PoolBelow /\ [Next]_vars => (TypeOK /\ PoolBelow)'
  BY TypeStep, BelowStep
<1>3. PoolBelow => ThresholdsPause
  BY BelowIsThresholds
<1> QED  BY <1>1, <1>2, <1>3, PTL DEF Spec

-----------------------------------------------------------------------------
\* Nothing is replayed

SentInv == \A r \in Requests : sent[r] => walk[r].pc \in {"served", "broken"}

\* What a step does to one request: nothing, a move that sends nothing, or its end.
LEMMA SentStep ==
  ASSUME TypeOK, SentInv, [Next]_vars
  PROVE  /\ SentInv'
         /\ \A r \in Requests : sent[r] => calls'[r] = calls[r] /\ sent'[r]
<1>0. WalksTyped /\ HistoriesTyped
  BY TypeParts
<1>1. ASSUME UNCHANGED <<walk, calls, sent>>
      PROVE  SentInv' /\ \A r \in Requests : sent[r] => calls'[r] = calls[r] /\ sent'[r]
  BY <1>1 DEF SentInv
<1>2. ASSUME NEW r \in Requests, walk[r].pc \notin {"served", "broken"}, UNCHANGED sent,
             NEW v, walk' = [walk EXCEPT ![r] = v],
             \A q \in Requests : q # r => calls'[q] = calls[q]
      PROVE  SentInv' /\ \A q \in Requests : sent[q] => calls'[q] = calls[q] /\ sent'[q]
  BY <1>0, <1>2 DEF SentInv, WalksTyped
<1>3. ASSUME NEW r \in Requests, NEW e \in {"served", "broken"}, UNCHANGED calls,
             walk' = [walk EXCEPT ![r].pc = e], sent' = [sent EXCEPT ![r] = TRUE]
      PROVE  SentInv' /\ \A q \in Requests : sent[q] => calls'[q] = calls[q] /\ sent'[q]
  <2>1. walk[r] \in Walks
    BY <1>0 DEF WalksTyped
  <2>2. walk'[r].pc = e
    BY <1>0, <1>3, <2>1 DEF WalksTyped, Walks
  <2>3. \A q \in Requests : q # r => walk'[q] = walk[q] /\ sent'[q] = sent[q]
    BY <1>0, <1>3 DEF WalksTyped, HistoriesTyped
  <2>4. sent'[r] = TRUE
    BY <1>0, <1>3 DEF HistoriesTyped
  <2> QED  BY <1>3, <2>2, <2>3, <2>4 DEF SentInv
<1>4. ASSUME NEW r \in Requests, Start(r)
      PROVE  SentInv' /\ \A q \in Requests : sent[q] => calls'[q] = calls[q] /\ sent'[q]
  BY <1>2, <1>4 DEF Start
<1>5. ASSUME NEW r \in Requests, PickAccount(r)
      PROVE  SentInv' /\ \A q \in Requests : sent[q] => calls'[q] = calls[q] /\ sent'[q]
  <2>1. CASE PickedNone(r)
    BY <1>2, <1>5, <2>1 DEF PickAccount, PickedNone
  <2>2. ASSUME NEW a, Picked(r, a)
        PROVE  SentInv' /\ \A q \in Requests : sent[q] => calls'[q] = calls[q] /\ sent'[q]
    <3>1. \A q \in Requests : q # r => calls'[q] = calls[q]
      BY <1>0, <2>2 DEF Picked, HistoriesTyped
    <3> QED  BY <1>2, <1>5, <2>2, <3>1 DEF PickAccount, Picked
  <2> QED  BY <1>5, <2>1, <2>2 DEF PickAccount
<1>6. ASSUME NEW r \in Requests, CallSucceeds(r) \/ CallBreaks(r)
      PROVE  SentInv' /\ \A q \in Requests : sent[q] => calls'[q] = calls[q] /\ sent'[q]
  BY <1>3, <1>6 DEF CallSucceeds, CallBreaks
<1>7. ASSUME NEW r \in Requests, CallFails(r)
      PROVE  SentInv' /\ \A q \in Requests : sent[q] => calls'[q] = calls[q] /\ sent'[q]
  BY <1>2, <1>7 DEF CallFails
<1>8. ASSUME Reap \/ Clock \/ Reroute
      PROVE  SentInv' /\ \A q \in Requests : sent[q] => calls'[q] = calls[q] /\ sent'[q]
  BY <1>1, <1>8 DEF Reap, Clock, Reroute, Untouched
<1>9. ASSUME NEW a \in Operable, Authorise(a) \/ ReplaceAccounts(a)
      PROVE  SentInv' /\ \A q \in Requests : sent[q] => calls'[q] = calls[q] /\ sent'[q]
  BY <1>1, <1>9 DEF Authorise, ReplaceAccounts, Untouched
<1>10. CASE UNCHANGED vars
  BY <1>1, <1>10 DEF vars
<1> QED
  BY <1>4, <1>5, <1>6, <1>7, <1>8, <1>9, <1>10 DEF Next

\* Once the client has seen output of a call, its request calls nobody again,
\* whatever fails afterwards.
THEOREM NothingReplayed == Spec => NeverReplayed
<1> DEFINE Kept == \A r \in Requests : sent[r] => calls'[r] = calls[r] /\ sent'[r]
<1>1. Init => TypeOK /\ SentInv
  BY InitTypes DEF Init, SentInv
<1>2. TypeOK /\ SentInv /\ [Next]_vars => (TypeOK /\ SentInv)'
  BY TypeStep, SentStep
<1>3. TypeOK /\ SentInv /\ [Next]_vars => [Kept]_vars
  BY SentStep
<1> QED  BY <1>1, <1>2, <1>3, PTL DEF Spec, NeverReplayed

-----------------------------------------------------------------------------
\* Sideways, then down

\* The place of an account in a pool L, as Place counts it in the live pool.
Rank(a, L) == Cardinality({b \in L : Before(b, a)})

LEMMA RankType ==
  ASSUME NEW L \in SUBSET Accounts, NEW a \in Accounts
  PROVE  /\ Rank(a, L) \in Nat
         /\ IsFiniteSet({b \in L : Before(b, a)})
<1>1. IsFiniteSet({b \in L : Before(b, a)})
  BY FS_Subset, SchedulerAssumption
<1> QED  BY <1>1, FS_CardinalityType DEF Rank

\* Before orders the accounts.
LEMMA BeforeOrders ==
  ASSUME NEW a \in Accounts, NEW b \in Accounts, NEW c \in Accounts
  PROVE  /\ ~ Before(a, a)
         /\ a # b => Before(a, b) \/ Before(b, a)
         /\ Before(a, b) /\ Before(b, c) => Before(a, c)
<1>1. /\ Priority[a] \in Int /\ Priority[b] \in Int /\ Priority[c] \in Int
      /\ Index[a] \in Nat /\ Index[b] \in Nat /\ Index[c] \in Nat
      /\ a # b => Index[a] # Index[b]
  BY SchedulerAssumption
<1> QED  BY <1>1 DEF Before

LEMMA RankGrows ==
  ASSUME NEW L \in SUBSET Accounts, NEW a \in L, NEW b \in L, Before(a, b)
  PROVE  Rank(a, L) # Rank(b, L)
<1> DEFINE A == {x \in L : Before(x, a)}
           B == {x \in L : Before(x, b)}
<1>1. A \subseteq B
  BY BeforeOrders
<1>2. a \in B /\ a \notin A
  BY BeforeOrders
<1>3. IsFiniteSet(A) /\ IsFiniteSet(B)
  <2>1. IsFiniteSet(L)
    BY FS_Subset, SchedulerAssumption
  <2>2. A \subseteq L /\ B \subseteq L
    OBVIOUS
  <2> QED  BY <2>1, <2>2, FS_Subset
<1>4. Rank(a, L) = Cardinality(A) /\ Rank(b, L) = Cardinality(B)
  BY DEF Rank
<1> HIDE DEF A, B
<1>5. Cardinality(A) < Cardinality(B)
  BY <1>1, <1>2, <1>3, FS_Subset, FS_CardinalityType
<1>6. Cardinality(A) \in Nat /\ Cardinality(B) \in Nat
  BY <1>3, FS_CardinalityType
<1> QED  BY <1>4, <1>5, <1>6

\* Two accounts never have the same place.
LEMMA RankDistinct ==
  ASSUME NEW L \in SUBSET Accounts, NEW a \in L, NEW b \in L, a # b
  PROVE  Rank(a, L) # Rank(b, L)
<1>1. Before(a, b) \/ Before(b, a)
  BY BeforeOrders
<1> QED  BY <1>1, RankGrows

-----------------------------------------------------------------------------
\* What SidewaysThenDown says of one walk w that called C, over the live pool L.
CalledIn(w, C) == {a \in Accounts : <<w.mi, a>> \in C}

Sideways(w, C, L, st) ==
    (st /\ w.pc \in {"picking", "calling"} /\ L # {}) =>
        CalledIn(w, C) = {a \in L : Rank(a, L) < Picks(w)}

\* Calls are of the models so far, and a request that has not started has none.
CallsSoFar(w, C) ==
    /\ \A x \in C : x[1] <= w.mi
    /\ w.pc = "idle" => C = {} /\ w.attempt = 0

LivePool(r) == Live(ModelOf(walk[r]))

SideInv == \A r \in Requests : /\ Sideways(walk[r], called[r], LivePool(r), steady[r])
                               /\ CallsSoFar(walk[r], called[r])

LEMMA LiveType == \A r \in Requests : LivePool(r) \in SUBSET Accounts
  BY DEF LivePool, Live, Eligible

LEMMA SideImplies == SideInv => SidewaysThenDown
<1> SUFFICES ASSUME SideInv, NEW r \in Requests, steady[r],
                    walk[r].pc \in {"picking", "calling"}, Live(ModelOf(walk[r])) # {}
             PROVE  CalledFor(r) = {a \in Live(ModelOf(walk[r])) :
                                      Place(a, ModelOf(walk[r])) < Picks(walk[r])}
  BY DEF SidewaysThenDown
<1>1. Sideways(walk[r], called[r], Live(ModelOf(walk[r])), steady[r])
  BY DEF SideInv, LivePool
<1>2. \A a : Place(a, ModelOf(walk[r])) = Rank(a, Live(ModelOf(walk[r])))
  BY DEF Place, Rank
<1>3. CalledFor(r) = CalledIn(walk[r], called[r])
  BY DEF CalledFor, CalledIn
<1> QED  BY <1>1, <1>2, <1>3 DEF Sideways

\* A walk that comes to a model has called nobody for it.
LEMMA ArrivesSideways ==
  ASSUME NEW v \in Walks, NEW C, \A x \in C : x[1] < v.mi,
         v.pc = "picking", v.attempt = 0, NEW L \in SUBSET Accounts, NEW st
  PROVE  Sideways(v, C, L, st)
<1>1. CalledIn(v, C) = {}
  <2>1. v.mi \in Nat
    BY DEF Walks
  <2>2. \A a : <<v.mi, a>> \notin C
    BY <2>1
  <2> QED  BY <2>2 DEF CalledIn
<1>2. ASSUME NEW a \in L PROVE ~ (Rank(a, L) < 0)
  <2>1. Rank(a, L) \in Nat
    BY RankType
  <2> QED  BY <2>1
<1>3. Picks(v) = 0
  BY DEF Picks
<1> QED  BY <1>1, <1>2, <1>3 DEF Sideways

\* An attempt that picked nobody: nobody has that place.
LEMMA NoneSideways ==
  ASSUME NEW w \in Walks, NEW C, NEW L \in SUBSET Accounts, NEW st, Sideways(w, C, L, st),
         w.pc = "picking", \A a \in L : Rank(a, L) # w.attempt,
         NEW v, v.pc = "picking", v.mi = w.mi, v.attempt = w.attempt + 1
  PROVE  Sideways(v, C, L, st)
<1>1. Picks(w) = w.attempt /\ Picks(v) = w.attempt + 1 /\ w.attempt \in Nat
  BY ChainsType DEF Picks
<1>2. ASSUME NEW a \in L PROVE Rank(a, L) < w.attempt <=> Rank(a, L) < w.attempt + 1
  <2>1. Rank(a, L) \in Nat
    BY RankType
  <2> QED  BY <1>1, <2>1
<1>3. CalledIn(v, C) = CalledIn(w, C)
  BY DEF CalledIn
<1> QED  BY <1>1, <1>2, <1>3 DEF Sideways

\* An attempt that picked the account at its place.
LEMMA PickedSideways ==
  ASSUME NEW w \in Walks, NEW C, NEW L \in SUBSET Accounts, NEW st, Sideways(w, C, L, st),
         w.pc = "picking", NEW a \in Accounts, L # {} => a \in L /\ Rank(a, L) = w.attempt,
         NEW v, v.pc = "calling", v.mi = w.mi, v.attempt = w.attempt
  PROVE  Sideways(v, C \cup {<<w.mi, a>>}, L, st)
<1> SUFFICES ASSUME st, L # {}
             PROVE  CalledIn(v, C \cup {<<w.mi, a>>}) = {x \in L : Rank(x, L) < Picks(v)}
  BY DEF Sideways
<1>1. Picks(w) = w.attempt /\ Picks(v) = w.attempt + 1 /\ w.attempt \in Nat
  BY ChainsType DEF Picks
<1>2. CalledIn(w, C) = {x \in L : Rank(x, L) < w.attempt}
  BY <1>1 DEF Sideways
<1>3. CalledIn(v, C \cup {<<w.mi, a>>}) = CalledIn(w, C) \cup {a}
  BY DEF CalledIn
<1>4. ASSUME NEW x \in L
      PROVE  Rank(x, L) < w.attempt + 1 <=> Rank(x, L) < w.attempt \/ x = a
  <2>1. Rank(x, L) \in Nat /\ a \in L /\ Rank(a, L) = w.attempt
    BY RankType
  <2>2. x # a => Rank(x, L) # w.attempt
    BY <2>1, RankDistinct
  <2> QED  BY <1>1, <2>1, <2>2
<1>5. a \in L
  OBVIOUS
<1> QED  BY <1>1, <1>2, <1>3, <1>4, <1>5

\* A call that failed: the next attempt has called as many.
LEMMA FailedSideways ==
  ASSUME NEW w \in Walks, NEW C, NEW L \in SUBSET Accounts, NEW st, Sideways(w, C, L, st),
         w.pc = "calling", NEW v, v.pc = "picking", v.mi = w.mi, v.attempt = w.attempt + 1
  PROVE  Sideways(v, C, L, st)
<1>1. Picks(w) = Picks(v)
  BY DEF Picks
<1>2. CalledIn(v, C) = CalledIn(w, C)
  BY DEF CalledIn
<1> QED  BY <1>1, <1>2 DEF Sideways

-----------------------------------------------------------------------------
\* A walk whose pool is still watched sees the pool it saw before the step.
LEMMA WatchOf ==
  ASSUME Watch, NEW r \in Requests, steady'[r], Active(walk[r]), walk'[r].mi = walk[r].mi
  PROVE  steady[r] /\ LivePool(r)' = LivePool(r)
  BY DEF Watch, LivePool

\* A request that a step leaves alone.
LEMMA UnmovedSideways ==
  ASSUME SideInv, Watch, NEW r \in Requests, walk'[r] = walk[r], called'[r] = called[r]
  PROVE  /\ Sideways(walk'[r], called'[r], LivePool(r)', steady'[r])
         /\ CallsSoFar(walk'[r], called'[r])
<1>1. Sideways(walk[r], called[r], LivePool(r), steady[r]) /\ CallsSoFar(walk[r], called[r])
  BY DEF SideInv
<1>2. CASE steady'[r] /\ Active(walk[r])
  <2>1. steady[r] /\ LivePool(r)' = LivePool(r)
    BY <1>2, WatchOf
  <2> QED  BY <1>1, <1>2, <2>1 DEF Sideways
<1>3. CASE ~ (steady'[r] /\ Active(walk[r]))
  BY <1>1, <1>3 DEF Sideways, Active
<1> QED  BY <1>2, <1>3

\* A request that goes on after an attempt without a call, or a failed call.
LEMMA OnwardSideways ==
  ASSUME WalksTyped, HistoriesTyped, SideInv, Watch, NEW r \in Requests, Active(walk[r]),
         called'[r] = called[r], walk'[r] \in Walks, LivePool(r)' \in SUBSET Accounts,
         walk[r].pc = "picking" /\ LivePool(r) # {} =>
            \A a \in LivePool(r) : Rank(a, LivePool(r)) # walk[r].attempt,
         \/ walk'[r].pc = "picking" /\ walk'[r].mi = walk[r].mi
            /\ walk'[r].attempt = walk[r].attempt + 1
         \/ walk'[r].pc = "picking" /\ walk'[r].mi = walk[r].mi + 1 /\ walk'[r].attempt = 0
         \/ walk'[r].pc \in Ended /\ walk'[r].mi = walk[r].mi
  PROVE  /\ Sideways(walk'[r], called'[r], LivePool(r)', steady'[r])
         /\ CallsSoFar(walk'[r], called'[r])
<1> DEFINE w == walk[r]
           v == walk'[r]
           C == called[r]
           L == LivePool(r)
           M == LivePool(r)'
           st == steady[r]
           su == steady'[r]
<1>0. /\ Sideways(w, C, L, st) /\ CallsSoFar(w, C) /\ w \in Walks /\ v \in Walks
      /\ L \in SUBSET Accounts /\ M \in SUBSET Accounts
      /\ w.pc \in {"picking", "calling"} /\ called'[r] = C
      /\ C \in SUBSET (Nat \X Accounts)
  BY LiveType DEF SideInv, WalksTyped, HistoriesTyped, Active
<1>1. su /\ v.mi = w.mi => st /\ M = L
  BY WatchOf
<1>2. w.pc = "picking" => \A a \in L : Rank(a, L) # w.attempt
  OBVIOUS
<1>3. \/ v.pc = "picking" /\ v.mi = w.mi /\ v.attempt = w.attempt + 1
      \/ v.pc = "picking" /\ v.mi = w.mi + 1 /\ v.attempt = 0
      \/ v.pc \in Ended /\ v.mi = w.mi
  OBVIOUS
<1> SUFFICES Sideways(v, C, M, su) /\ CallsSoFar(v, C)
  BY <1>0
<1> HIDE DEF w, v, C, L, M, st, su
<1>4. w.mi \in Nat /\ w.attempt \in Nat /\ \A x \in C : x[1] <= w.mi
  BY <1>0, ChainsType DEF CallsSoFar
<1>5. CASE v.pc = "picking" /\ v.mi = w.mi /\ v.attempt = w.attempt + 1
  <2>1. Sideways(v, C, L, st)
    BY <1>0, <1>2, <1>5, NoneSideways, FailedSideways
  <2>2. Sideways(v, C, M, su)
    BY <1>1, <1>5, <2>1 DEF Sideways
  <2> QED  BY <1>4, <1>5, <2>2 DEF CallsSoFar
<1>6. CASE v.pc = "picking" /\ v.mi = w.mi + 1 /\ v.attempt = 0
  <2>1. \A x \in C : x[1] \in Nat
    BY <1>0
  <2>2. \A x \in C : x[1] < v.mi
    BY <1>4, <1>6, <2>1
  <2>3. \A x \in C : x[1] <= v.mi
    BY <1>4, <1>6, <2>1
  <2> QED  BY <1>0, <1>6, <2>2, <2>3, ArrivesSideways DEF CallsSoFar
<1>7. CASE v.pc \in Ended /\ v.mi = w.mi
  BY <1>4, <1>7 DEF Sideways, CallsSoFar, Ended
<1> QED  BY <1>3, <1>5, <1>6, <1>7

\* A request that has moved while the rest of the walks stood still.
LEMMA OneMoves ==
  ASSUME WalksTyped, HistoriesTyped, SideInv, Watch, NEW r \in Requests,
         NEW v, walk' = [walk EXCEPT ![r] = v], NEW C, called' = [called EXCEPT ![r] = C],
         Sideways(walk'[r], called'[r], LivePool(r)', steady'[r]),
         CallsSoFar(walk'[r], called'[r])
  PROVE  SideInv'
<1>1. ASSUME NEW q \in Requests, q # r
      PROVE  /\ Sideways(walk'[q], called'[q], LivePool(q)', steady'[q])
             /\ CallsSoFar(walk'[q], called'[q])
  <2>1. walk'[q] = walk[q] /\ called'[q] = called[q]
    BY <1>1 DEF WalksTyped, HistoriesTyped
  <2> QED  BY <2>1, UnmovedSideways
<1> QED  BY <1>1 DEF SideInv

\* A step that moves no request.
LEMMA NobodyMoves ==
  ASSUME SideInv, Watch, UNCHANGED <<walk, called>>
  PROVE  SideInv'
<1>1. ASSUME NEW q \in Requests
      PROVE  /\ Sideways(walk'[q], called'[q], LivePool(q)', steady'[q])
             /\ CallsSoFar(walk'[q], called'[q])
  BY UnmovedSideways
<1> QED  BY <1>1 DEF SideInv

LEMMA MovedTo ==
  ASSUME WalksTyped, NEW r \in Requests, NEW v, walk' = [walk EXCEPT ![r] = v]
  PROVE  walk'[r] = v
  BY DEF WalksTyped

\* The next attempt, the next model or the end, for the step of r that takes it there.
LEMMA OnwardStep ==
  ASSUME WalksTyped, HistoriesTyped, WalksTyped', SideInv, Watch,
         NEW r \in Requests, Active(walk[r]),
         NEW v, walk' = [walk EXCEPT ![r] = v], UNCHANGED called,
         walk[r].pc = "picking" /\ LivePool(r) # {} =>
            \A a \in LivePool(r) : Rank(a, LivePool(r)) # walk[r].attempt,
         \/ v.pc = "picking" /\ v.mi = walk[r].mi /\ v.attempt = walk[r].attempt + 1
         \/ v.pc = "picking" /\ v.mi = walk[r].mi + 1 /\ v.attempt = 0
         \/ v.pc \in Ended /\ v.mi = walk[r].mi
  PROVE  SideInv'
<1>1. walk'[r] = v /\ walk'[r] \in Walks
  BY MovedTo DEF WalksTyped
<1>2. LivePool(r)' \in SUBSET Accounts
  BY DEF LivePool, Live, Eligible
<1>3. called'[r] = called[r] /\ called' = [called EXCEPT ![r] = called[r]]
  BY DEF HistoriesTyped
<1>4. /\ Sideways(walk'[r], called'[r], LivePool(r)', steady'[r])
      /\ CallsSoFar(walk'[r], called'[r])
  BY <1>1, <1>2, <1>3, OnwardSideways
<1> QED  BY <1>3, <1>4, OneMoves

\* A pick that finds nobody: no live account has the place of the attempt.
LEMMA PicksNone ==
  ASSUME NEW r \in Requests, Pick(walk[r].attempt, ModelOf(walk[r])) = {}, LivePool(r) # {}
  PROVE  \A a \in LivePool(r) : Rank(a, LivePool(r)) # walk[r].attempt
  BY DEF Pick, LivePool, Place, Rank

\* A pick of a live account finds the one at the place of the attempt.
LEMMA PicksOne ==
  ASSUME NEW r \in Requests, NEW a \in Pick(walk[r].attempt, ModelOf(walk[r]))
  PROVE  /\ a \in Accounts
         /\ LivePool(r) # {} => a \in LivePool(r) /\ Rank(a, LivePool(r)) = walk[r].attempt
<1>1. a \in Accounts
  BY DEF Pick, Live, Cooling, Eligible
<1>2. ASSUME LivePool(r) # {}
      PROVE  a \in LivePool(r) /\ Rank(a, LivePool(r)) = walk[r].attempt
  BY <1>2 DEF Pick, LivePool, Place, Rank
<1> QED  BY <1>1, <1>2

LEMMA SideStep == TypeOK /\ SideInv /\ [Next]_vars => SideInv'
<1> SUFFICES ASSUME TypeOK, SideInv, [Next]_vars PROVE SideInv'
  OBVIOUS
<1>0. WalksTyped /\ HistoriesTyped /\ WalksTyped' /\ HistoriesTyped'
  BY TypeParts, TypeStep DEF TypeOK, WalksTyped, HistoriesTyped
<1>1. ASSUME NEW r \in Requests, Start(r) PROVE SideInv'
  <2> DEFINE v == [walk[r] EXCEPT !.pc = "picking"]
  <2>1. walk' = [walk EXCEPT ![r] = v] /\ called' = called /\ Watch /\ walk[r].pc = "idle"
    BY <1>1 DEF Start
  <2>2. v.pc = "picking" /\ v.attempt = walk[r].attempt /\ v.mi = walk[r].mi
    BY <1>0, WalkOf, PcType DEF PCs
  <2>3. called[r] = {} /\ walk[r].attempt = 0
    BY <2>1 DEF SideInv, CallsSoFar
  <2> HIDE DEF v
  <2>4. walk'[r] = v /\ walk'[r] \in Walks
    BY <1>0, <2>1, MovedTo DEF WalksTyped
  <2>5. LivePool(r)' \in SUBSET Accounts
    BY DEF LivePool, Live, Eligible
  <2>6. Sideways(walk'[r], called'[r], LivePool(r)', steady'[r])
    BY <2>1, <2>2, <2>3, <2>4, <2>5, ArrivesSideways
  <2>7. CallsSoFar(walk'[r], called'[r])
    BY <2>1, <2>2, <2>3, <2>4 DEF CallsSoFar
  <2>8. called' = [called EXCEPT ![r] = {}]
    BY <1>0, <2>1, <2>3 DEF HistoriesTyped
  <2> QED  BY <1>0, <2>1, <2>6, <2>7, <2>8, OneMoves
<1>2. ASSUME NEW r \in Requests, PickAccount(r) PROVE SideInv'
  <2>1. Watch /\ walk[r].pc = "picking" /\ Active(walk[r])
    BY <1>2 DEF PickAccount, Active
  <2>2. CASE PickedNone(r)
    <3>1. walk' = [walk EXCEPT ![r] = Continue(walk[r])] /\ UNCHANGED called
      BY <2>2 DEF PickedNone
    <3>2. LivePool(r) # {} => \A a \in LivePool(r) : Rank(a, LivePool(r)) # walk[r].attempt
      BY <2>2, PicksNone DEF PickedNone
    <3>3. \/ Continue(walk[r]).pc = "picking" /\ Continue(walk[r]).mi = walk[r].mi
             /\ Continue(walk[r]).attempt = walk[r].attempt + 1
          \/ Continue(walk[r]).pc = "picking" /\ Continue(walk[r]).mi = walk[r].mi + 1
             /\ Continue(walk[r]).attempt = 0
          \/ Continue(walk[r]).pc \in Ended /\ Continue(walk[r]).mi = walk[r].mi
      BY <1>0, WalkOf, ContinueType DEF Ended
    <3> QED  BY <1>0, <2>1, <3>1, <3>2, <3>3, OnwardStep
  <2>3. ASSUME NEW a \in Pick(walk[r].attempt, ModelOf(walk[r])), Picked(r, a) PROVE SideInv'
    <3> DEFINE v == [walk[r] EXCEPT !.pc = "calling", !.acct = a]
               C == called[r] \cup {<<walk[r].mi, a>>}
    <3>1. walk' = [walk EXCEPT ![r] = v] /\ called' = [called EXCEPT ![r] = C]
      BY <2>3 DEF Picked
    <3>2. /\ a \in Accounts
          /\ LivePool(r) # {} => a \in LivePool(r) /\ Rank(a, LivePool(r)) = walk[r].attempt
      BY <2>3, PicksOne
    <3>3. v.pc = "calling" /\ v.mi = walk[r].mi /\ v.attempt = walk[r].attempt
      BY <1>0, <3>2, WalkOf, PickedType
    <3>4. /\ Sideways(walk[r], called[r], LivePool(r), steady[r])
          /\ CallsSoFar(walk[r], called[r]) /\ walk[r] \in Walks
          /\ LivePool(r) \in SUBSET Accounts
      BY <1>0, LiveType DEF SideInv, WalksTyped
    <3>5. C = called[r] \cup {<<walk[r].mi, a>>}
      OBVIOUS
    <3> HIDE DEF v, C
    <3>6. walk'[r] = v /\ called'[r] = C
      BY <1>0, <3>1, MovedTo DEF HistoriesTyped
    <3>7. Sideways(v, C, LivePool(r), steady[r])
      BY <2>1, <3>2, <3>3, <3>4, <3>5, PickedSideways
    <3>8. CallsSoFar(v, C)
      <4>1. walk[r].mi \in Nat
        BY <3>4, ChainsType
      <4> QED  BY <3>3, <3>4, <3>5, <4>1 DEF CallsSoFar
    <3>9. steady'[r] => steady[r] /\ LivePool(r)' = LivePool(r)
      BY <2>1, <3>3, <3>6, WatchOf
    <3>10. Sideways(walk'[r], called'[r], LivePool(r)', steady'[r])
      BY <3>6, <3>7, <3>9 DEF Sideways
    <3> QED  BY <1>0, <2>1, <3>1, <3>6, <3>8, <3>10, OneMoves
  <2> QED  BY <1>2, <2>2, <2>3 DEF PickAccount
<1>3. ASSUME NEW r \in Requests, CallFails(r) PROVE SideInv'
  <2>1. PICK f \in Failures : walk' = [walk EXCEPT ![r] = AfterError(@, f)]
    BY <1>3 DEF CallFails
  <2> DEFINE v == AfterError(walk[r], f)
  <2>2. /\ walk' = [walk EXCEPT ![r] = v] /\ UNCHANGED called /\ Watch
        /\ walk[r].pc = "calling" /\ Active(walk[r])
    BY <1>3, <2>1 DEF CallFails, Active
  <2>3. \/ v.pc = "picking" /\ v.mi = walk[r].mi /\ v.attempt = walk[r].attempt + 1
        \/ v.pc = "picking" /\ v.mi = walk[r].mi + 1 /\ v.attempt = 0
        \/ v.pc \in Ended /\ v.mi = walk[r].mi
    BY <1>0, WalkOf, AfterErrorType DEF Ended
  <2> HIDE DEF v
  <2> QED  BY <1>0, <2>2, <2>3, OnwardStep
<1>4. ASSUME NEW r \in Requests, CallSucceeds(r) \/ CallBreaks(r) PROVE SideInv'
  <2>1. PICK e \in {"served", "broken"} : walk' = [walk EXCEPT ![r].pc = e]
    BY <1>4 DEF CallSucceeds, CallBreaks
  <2> DEFINE v == [walk[r] EXCEPT !.pc = e]
  <2>2. /\ walk' = [walk EXCEPT ![r] = v] /\ UNCHANGED called /\ Watch
        /\ walk[r].pc = "calling" /\ Active(walk[r])
    BY <1>4, <2>1 DEF CallSucceeds, CallBreaks, Active
  <2>3. v.pc \in Ended /\ v.mi = walk[r].mi
    BY <1>0, WalkOf, PcType DEF PCs, Ended
  <2> HIDE DEF v
  <2> QED  BY <1>0, <2>2, <2>3, OnwardStep
<1>5. ASSUME Reap \/ Clock \/ Reroute PROVE SideInv'
  BY <1>5, NobodyMoves DEF Reap, Clock, Reroute, Untouched
<1>6. ASSUME NEW a \in Operable, Authorise(a) \/ ReplaceAccounts(a) PROVE SideInv'
  BY <1>6, NobodyMoves DEF Authorise, ReplaceAccounts, Untouched
<1>7. CASE UNCHANGED vars
  <2>1. \A m : Live(m)' = Live(m)
    BY <1>7 DEF vars, Live, Eligible, accountSchedulable, AccountEligibleForModel,
                ProvidersForModel, MatchingRoutes
  <2>2. \A r \in Requests : LivePool(r)' = LivePool(r)
    BY <1>7, <2>1 DEF vars, LivePool, ModelOf
  <2> QED  BY <1>7, <2>2 DEF vars, SideInv
<1> QED
  BY <1>1, <1>2, <1>3, <1>4, <1>5, <1>6, <1>7 DEF Next

\* As long as the live pool of a model does not change under a walk, the walk
\* calls the live accounts in tier order, none twice and none left out, for any
\* number of accounts, tiers and concurrent requests.
THEOREM WalksGoSideways == Spec => []SidewaysThenDown
<1>1. Init => TypeOK /\ SideInv
  <2> SUFFICES ASSUME Init PROVE SideInv
    BY InitTypes
  <2>1. ASSUME NEW r \in Requests
        PROVE  walk[r].pc = "idle" /\ walk[r].attempt = 0 /\ called[r] = {}
    BY DEF Init
  <2> QED  BY <2>1 DEF SideInv, Sideways, CallsSoFar
<1>2. TypeOK /\ SideInv /\ [Next]_vars => (TypeOK /\ SideInv)'
  BY TypeStep, SideStep
<1>3. SideInv => SidewaysThenDown
  BY SideImplies
<1> QED  BY <1>1, <1>2, <1>3, PTL DEF Spec
=============================================================================
