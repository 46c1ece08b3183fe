---------------------------- MODULE QuotaProofs ----------------------------
(* Theorems about the billing core, for any users, calls, prices and        *)
(* windows, with failing statements and any number of restarts.             *)
EXTENDS QuotaBilling, FiniteSetTheorems, FunctionTheorems, TLAPS

-----------------------------------------------------------------------------
\* The laws of SumOver that the proofs about balances use

\* What one element carries is f[r] units: {r} \X (1 .. f[r]).
LEMMA UnitsOfOne ==
  ASSUME NEW r, NEW n \in Nat
  PROVE  /\ IsFiniteSet({r} \X (1 .. n))
         /\ Cardinality({r} \X (1 .. n)) = n
<1>1. IsFiniteSet({r}) /\ Cardinality({r}) = 1
  BY FS_Singleton
<1>2. IsFiniteSet(1 .. n) /\ Cardinality(1 .. n) = n
  BY FS_Interval
<1>3. Cardinality({r} \X (1 .. n)) = Cardinality({r}) * Cardinality(1 .. n)
  BY <1>1, <1>2, FS_Product
<1>4. IsFiniteSet({r} \X (1 .. n))
  BY <1>1, <1>2, FS_Product
<1>5. 1 * n = n
  OBVIOUS
<1> QED  BY <1>1, <1>2, <1>3, <1>4, <1>5

\* Finitely many elements carry finitely many units: their sum is a number.
LEMMA SumType ==
  ASSUME NEW T, NEW f \in [T -> Nat], NEW S \in SUBSET T, IsFiniteSet(S)
  PROVE  IsFiniteSet(Units(f, S)) /\ SumOver(f, S) \in Nat
<1> DEFINE C == {{r} \X (1 .. f[r]) : r \in S}
           g == [r \in S |-> {r} \X (1 .. f[r])]
<1>1. g \in Surjection(S, C)
  BY DEF Surjection
<1>2. IsFiniteSet(C)
  BY <1>1, FS_Surjection
<1>3. \A X \in C : IsFiniteSet(X)
  <2> TAKE X \in C
  <2> PICK r \in S : X = {r} \X (1 .. f[r])
    OBVIOUS
  <2> f[r] \in Nat
    OBVIOUS
  <2> QED  BY UnitsOfOne
<1>4. IsFiniteSet(Units(f, S))
  BY <1>2, <1>3, FS_UNION DEF Units
<1> QED  BY <1>4, FS_CardinalityType DEF SumOver

\* Nothing carries nothing.
LEMMA SumEmpty == \A f : SumOver(f, {}) = 0
  BY FS_EmptySet DEF SumOver, Units

\* The sum over disjoint sets is the sum of the sums.
LEMMA SumUnion ==
  ASSUME NEW T, NEW f \in [T -> Nat],
         NEW S \in SUBSET T, IsFiniteSet(S),
         NEW D \in SUBSET T, IsFiniteSet(D), S \cap D = {}
  PROVE  SumOver(f, S \cup D) = SumOver(f, S) + SumOver(f, D)
<1>1. /\ IsFiniteSet(Units(f, S)) /\ SumOver(f, S) \in Nat
      /\ IsFiniteSet(Units(f, D)) /\ SumOver(f, D) \in Nat
  BY SumType
<1>2. Units(f, S \cup D) = Units(f, S) \cup Units(f, D)
  BY DEF Units
<1>3. Units(f, S) \cap Units(f, D) = {}
  BY DEF Units
<1>4. Cardinality(Units(f, S \cup D))
        = Cardinality(Units(f, S)) + Cardinality(Units(f, D)) - Cardinality({})
  BY <1>1, <1>2, <1>3, FS_Union
<1> QED  BY <1>1, <1>4, FS_EmptySet DEF SumOver

\* The sum over one element is what it carries.
LEMMA SumSingleton ==
  ASSUME NEW T, NEW f \in [T -> Nat], NEW r \in T
  PROVE  SumOver(f, {r}) = f[r]
<1>1. Units(f, {r}) = {r} \X (1 .. f[r])
  BY DEF Units
<1> QED  BY <1>1, UnitsOfOne DEF SumOver

\* Adding an element adds what it carries.
LEMMA SumAdd ==
  ASSUME NEW T, NEW f \in [T -> Nat],
         NEW S \in SUBSET T, IsFiniteSet(S), NEW r \in T, r \notin S
  PROVE  SumOver(f, S \cup {r}) = SumOver(f, S) + f[r]
<1>1. IsFiniteSet({r}) /\ {r} \in SUBSET T /\ S \cap {r} = {}
  BY FS_Singleton
<1>2. SumOver(f, S \cup {r}) = SumOver(f, S) + SumOver(f, {r})
  BY <1>1, SumUnion
<1> QED  BY <1>2, SumSingleton

\* Taking a subset away takes away its sum.
LEMMA SumSubset ==
  ASSUME NEW T, NEW f \in [T -> Nat],
         NEW S \in SUBSET T, IsFiniteSet(S), NEW D \in SUBSET S
  PROVE  /\ SumOver(f, S) = SumOver(f, S \ D) + SumOver(f, D)
         /\ SumOver(f, D) \in Nat
         /\ SumOver(f, S \ D) \in Nat
<1>1. IsFiniteSet(D) /\ IsFiniteSet(S \ D)
  BY FS_Subset
<1>2. (S \ D) \cup D = S /\ (S \ D) \cap D = {}
  OBVIOUS
<1>3. SumOver(f, (S \ D) \cup D) = SumOver(f, S \ D) + SumOver(f, D)
  BY <1>1, <1>2, SumUnion
<1> QED  BY <1>1, <1>2, <1>3, SumType

\* Removing an element removes what it carries.
LEMMA SumRemove ==
  ASSUME NEW T, NEW f \in [T -> Nat],
         NEW S \in SUBSET T, IsFiniteSet(S), NEW r \in S
  PROVE  /\ SumOver(f, S) = SumOver(f, S \ {r}) + f[r]
         /\ SumOver(f, S \ {r}) \in Nat
<1>1. {r} \in SUBSET S /\ r \in T
  OBVIOUS
<1>2. /\ SumOver(f, S) = SumOver(f, S \ {r}) + SumOver(f, {r})
      /\ SumOver(f, S \ {r}) \in Nat
  BY <1>1, SumSubset
<1> QED  BY <1>1, <1>2, SumSingleton

\* Functions that agree on a set have the same sum over it.
LEMMA SumSame ==
  ASSUME NEW S, NEW f, NEW g, \A r \in S : f[r] = g[r]
  PROVE  SumOver(f, S) = SumOver(g, S)
<1>1. Units(f, S) = Units(g, S)
  BY DEF Units
<1> QED  BY <1>1 DEF SumOver

-----------------------------------------------------------------------------
\* Holds, credits and sets of requests

\* A hold is at least one unit and at most the cap.
LEMMA ReservationBounds ==
  ASSUME NEW chars \in PromptSizes
  PROVE  Reservation(chars) \in 1 .. MaxReservation
<1>1. chars \in Nat /\ DefaultReservation \in Nat \ {0} /\ MaxReservation \in Nat \ {0}
  BY QuotaAssumption
<1>2. (chars \div 4) * 2 \in Nat
  BY <1>1
<1> QED  BY <1>1, <1>2 DEF Reservation

\* A floored subtraction gives a number.
LEMMA LoweredType ==
  ASSUME NEW have \in Nat, NEW amount \in Nat
  PROVE  Lowered(have, amount) \in Nat
  BY DEF Lowered

\* Sets of requests are finite.
LEMMA RequestsFinite ==
  ASSUME NEW S \in SUBSET Requests
  PROVE  IsFiniteSet(S)
  BY FS_Subset, QuotaAssumption

\* The credit of a compensation is a number.
LEMMA CreditType ==
  ASSUME TypeOK
  PROVE  SumOver(logCost, comp.ids) \in Nat
<1>1. comp.ids \in SUBSET Requests /\ logCost \in [Requests -> Nat]
  BY DEF TypeOK
<1> QED  BY <1>1, RequestsFinite, SumType

\* Holds are numbers.
LEMMA HeldType == TypeOK => held \in [Requests -> Nat]
<1>1. 0 .. MaxReservation \subseteq Nat
  BY QuotaAssumption
<1> QED  BY <1>1 DEF TypeOK

LEMMA NoCompType ==
  NoComp \in [phase : {"idle", "running"}, user : Users,
              ids : SUBSET Requests, todo : SUBSET Requests]
  BY QuotaAssumption DEF NoComp

\* The last W elements of a sequence: Recent is one.
LastOf(s, W) == {s[i] : i \in {j \in DOMAIN s : j > Len(s) - W}}

-----------------------------------------------------------------------------
\* Type correctness is inductive by itself.
LEMMA TypeInit == Init => TypeOK
<1> SUFFICES ASSUME Init PROVE TypeOK
  OBVIOUS
<1>1. MaxReservation \in Nat /\ InitialTotal \in [Users -> Int]
  BY QuotaAssumption
<1> QED  BY <1>1, NoCompType DEF Init, TypeOK, Statuses, PCs

LEMMA TypeStep == TypeOK /\ [Next]_vars => TypeOK'
<1> SUFFICES ASSUME TypeOK, [Next]_vars PROVE TypeOK'
  OBVIOUS
<1> USE DEF TypeOK, Statuses, PCs, users, logs, history
<1>0. /\ Owner \in [Requests -> Users] /\ Costs \subseteq Nat /\ BrokenCost \in Nat
      /\ Totals \subseteq Int /\ Credits \subseteq Nat \ {0}
      /\ MaxReservation \in Nat \ {0}
  BY QuotaAssumption
<1>a. \A r \in Requests : reserved[Owner[r]] \in Nat /\ held[r] \in Nat
  BY <1>0
<1>1. ASSUME NEW r \in Requests, NEW chars \in PromptSizes, Admit(r, chars)
      PROVE  TypeOK'
  <2>1. Reservation(chars) \in 1 .. MaxReservation
    BY ReservationBounds
  <2>2. Reservation(chars) \in Nat /\ Reservation(chars) \in 0 .. MaxReservation
    BY <1>0, <2>1
  <2>3. reserved' \in [Users -> Nat]
    BY <1>0, <1>1, <2>2 DEF Admit
  <2>4. held' \in [Requests -> 0 .. MaxReservation]
    BY <1>1, <2>2 DEF Admit
  <2> QED  BY <1>1, <2>3, <2>4 DEF Admit
<1>2. ASSUME NEW r \in Requests, NEW chars \in PromptSizes, Refuse(r, chars)
      PROVE  TypeOK'
  BY <1>2 DEF Refuse
<1>3. ASSUME NEW r \in Requests, NEW status \in Statuses, NEW cost \in Nat,
             Settle(r, status, cost)
      PROVE  TypeOK'
  <2>1. used' \in [Users -> Nat] /\ order' \in [Users -> Seq(Requests)]
    BY SMTT(30), <1>0, <1>3 DEF Settle
  <2>2. Lowered(reserved[Owner[r]], held[r]) \in Nat
    BY <1>a, LoweredType
  <2>3. reserved' \in [Users -> Nat]
    BY <1>0, <1>3, <2>2 DEF Settle
  <2>4. Due(Owner[r]) \in SUBSET Requests /\ Due(Owner[r])' \in SUBSET Requests
    <3>1. Owner[r] \in Users
      BY <1>0
    <3>2. Recent(Owner[r]) \subseteq Requests
      BY <3>1 DEF Recent
    <3>3. \A q \in Seq(Requests) : LastOf(q, WindowSize) \subseteq Requests
      BY DEF LastOf
    <3>4. order'[Owner[r]] \in Seq(Requests)
      BY <2>1, <3>1
    <3>5. Recent(Owner[r])' = LastOf(order'[Owner[r]], WindowSize)
      BY DEF Recent, LastOf
    <3>6. Recent(Owner[r])' \subseteq Requests
      BY <3>3, <3>4, <3>5
    <3> QED  BY <3>2, <3>6 DEF Due, BrokenIn
  <2>5. owed' \in SUBSET Requests /\ dropped' \in SUBSET Requests
    BY <1>3, <2>4 DEF Settle
  <2> QED  BY <1>0, <1>3, <2>1, <2>3, <2>5 DEF Settle
<1>4. ASSUME NEW r \in Requests, Abort(r)
      PROVE  TypeOK'
  <2>1. Lowered(reserved[Owner[r]], held[r]) \in Nat
    BY <1>a, LoweredType
  <2> QED  BY <1>0, <1>4, <2>1 DEF Abort
<1>5. ASSUME NEW r \in Requests, LoseSettlement(r)
      PROVE  TypeOK'
  BY <1>5 DEF LoseSettlement
<1>6. ASSUME NEW u \in Users, StartCompensation(u)
      PROVE  comp' \in [phase : {"idle", "running"}, user : Users,
                        ids : SUBSET Requests, todo : SUBSET Requests]
  <2>1. Recent(u) \subseteq Requests
    BY DEF Recent
  <2>2. Due(u) \in SUBSET Requests
    BY <2>1 DEF Due, BrokenIn
  <2> QED  BY <1>6, <2>2 DEF StartCompensation
<1>7. ASSUME NEW r \in Requests, CompensateAfterBreak(r)
      PROVE  TypeOK'
  BY <1>0, <1>6, <1>7 DEF CompensateAfterBreak
<1>8. ASSUME NEW u \in Users, AdminCompensate(u)
      PROVE  TypeOK'
  BY <1>6, <1>8 DEF AdminCompensate
<1>9. CASE MarkCompensated
  <2>1. PICK r \in comp.todo : /\ compensated' = compensated \cup {r}
                              /\ comp' = [comp EXCEPT !.todo = @ \ {r}]
    BY <1>9 DEF MarkCompensated
  <2>2. compensated' \in SUBSET Requests
    BY <2>1
  <2>3. comp' \in [phase : {"idle", "running"}, user : Users,
                   ids : SUBSET Requests, todo : SUBSET Requests]
    BY <2>1
  <2> QED  BY <1>9, <2>2, <2>3 DEF MarkCompensated
<1>10. CASE CreditQuota
  <2>1. SumOver(logCost, comp.ids) \in Nat
    BY CreditType
  <2>2. Lowered(used[comp.user], SumOver(logCost, comp.ids)) \in Nat
    BY <2>1, LoweredType
  <2> QED  BY <1>10, <2>2, NoCompType DEF CreditQuota
<1>11. CASE FailCompensation
  BY <1>11, NoCompType DEF FailCompensation
<1>12. ASSUME NEW u \in Users, NEW t \in Int, SetTotal(u, t)
       PROVE  TypeOK'
  BY <1>12 DEF SetTotal
<1>13. CASE Restart
  BY SMTT(30), <1>13, NoCompType DEF Restart
<1>14. CASE UNCHANGED vars
  BY <1>14 DEF vars
<1>15. ASSUME NEW r \in Requests, Finish(r)
       PROVE  TypeOK'
  BY <1>0, <1>3, <1>4, <1>5, <1>15
     DEF Finish, SettleSuccess, SettleFailed, SettleBroken
<1>16. ASSUME NEW u \in Users, SetQuotaTotal(u) \/ AddQuotaCredit(u)
       PROVE  TypeOK'
  <2>1. CASE SetQuotaTotal(u)
    BY <1>0, <1>12, <2>1 DEF SetQuotaTotal
  <2>2. CASE AddQuotaCredit(u)
    <3>1. PICK c \in Credits : SetTotal(u, total[u] + c)
      BY <2>2 DEF AddQuotaCredit
    <3>2. total[u] + c \in Int
      BY <1>0
    <3> QED  BY <1>12, <3>1, <3>2
  <2> QED  BY <1>16, <2>1, <2>2
<1> QED
  BY <1>1, <1>2, <1>7, <1>8, <1>9, <1>10, <1>11, <1>13, <1>14, <1>15, <1>16 DEF Next

\* The columns, the handlers and the running compensation keep their types:
\* balances never go below zero and no hold exceeds the cap of admit.
THEOREM TypeCorrect == Spec => []TypeOK
  BY TypeInit, TypeStep, PTL DEF Spec

-----------------------------------------------------------------------------
\* A call that has not settled has no log.
UnsettledUnlogged ==
    \A r \in Requests :
        pc[r] \in {"arrived", "refused", "relaying", "unsettled"} =>
            logStatus[r] = "none"

\* The log order of a user lists logged calls of that user.
OrderedAreLogged ==
    \A u \in Users : \A i \in DOMAIN order[u] :
        Owner[order[u][i]] = u /\ logStatus[order[u][i]] # "none"

\* The logs a running compensation will credit are broken streams of its user
\* that nobody credited; those it has gone past are marked.  No run, no logs.
RunSound ==
    /\ comp.todo \subseteq comp.ids
    /\ comp.phase = "idle" => comp.ids = {}
    /\ \A r \in comp.ids : /\ Owner[r] = comp.user
                           /\ logStatus[r] = "stream_broken"
                           /\ r \notin refunded
    /\ comp.ids \ comp.todo \subseteq compensated

\* The inductive strengthening of RefundsAreMarked.
LogInv == UnsettledUnlogged /\ OrderedAreLogged /\ RunSound /\ RefundsAreMarked

LEMMA LogInit == Init => LogInv
  BY QuotaAssumption
     DEF Init, LogInv, UnsettledUnlogged, OrderedAreLogged, RunSound,
         RefundsAreMarked, NoComp

\* What a run finds due is broken, logged by its user and not yet credited.
LEMMA DueSound ==
  ASSUME TypeOK, LogInv, NEW u \in Users
  PROVE  /\ Due(u) \in SUBSET Requests
         /\ \A r \in Due(u) : /\ Owner[r] = u
                              /\ logStatus[r] = "stream_broken"
                              /\ r \notin refunded
<1>1. order[u] \in Seq(Requests)
  BY DEF TypeOK
<1>2. Recent(u) \subseteq {r \in Requests : Owner[r] = u}
  BY <1>1 DEF Recent, LogInv, OrderedAreLogged
<1>3. refunded \subseteq compensated
  BY DEF LogInv, RefundsAreMarked
<1> QED  BY <1>2, <1>3 DEF Due, BrokenIn

LEMMA LogStep == TypeOK /\ LogInv /\ [Next]_vars => LogInv'
<1> SUFFICES ASSUME TypeOK, LogInv, [Next]_vars PROVE LogInv'
  OBVIOUS
<1> USE DEF LogInv, UnsettledUnlogged, OrderedAreLogged, RunSound,
            RefundsAreMarked, users, logs, history
<1>0. Owner \in [Requests -> Users] /\ TypeOK'
  BY TypeStep, QuotaAssumption
<1>1. ASSUME NEW r \in Requests, NEW chars \in PromptSizes,
             Admit(r, chars) \/ Refuse(r, chars)
      PROVE  LogInv'
  <2>1. /\ logStatus[r] = "none"
        /\ UNCHANGED <<logStatus, order, comp, compensated, refunded>>
    BY <1>1 DEF Admit, Refuse
  <2>2. \A s \in Requests : s # r => pc'[s] = pc[s]
    BY <1>1 DEF Admit, Refuse, TypeOK
  <2>3. UnsettledUnlogged'
    BY <2>1, <2>2
  <2> QED  BY <2>1, <2>3
<1>2. ASSUME NEW r \in Requests, NEW status \in Statuses \ {"none"}, NEW cost \in Nat,
             Settle(r, status, cost)
      PROVE  LogInv'
  <2>1. /\ logStatus' = [logStatus EXCEPT ![r] = status]
        /\ logStatus[r] = "none" /\ Unlocked
        /\ UNCHANGED <<comp, compensated, refunded>>
    BY <1>2 DEF Settle
  <2>2. UnsettledUnlogged'
    BY <1>2, <2>1 DEF Settle, TypeOK
  <2>3. ASSUME NEW u \in Users, NEW i \in DOMAIN order'[u]
        PROVE  Owner[order'[u][i]] = u /\ logStatus'[order'[u][i]] # "none"
    <3>1. CASE u # Owner[r]
      <4>1. order'[u] = order[u] /\ order[u] \in Seq(Requests)
        BY <1>2, <3>1 DEF Settle, TypeOK
      <4>2. order[u][i] \in Requests
        BY <2>3, <4>1
      <4>3. Owner[order[u][i]] = u /\ logStatus[order[u][i]] # "none"
        BY <2>3, <4>1
      <4> QED  BY <2>1, <4>1, <4>2, <4>3 DEF TypeOK, Statuses
    <3>2. CASE u = Owner[r]
      <4>1. order[u] \in Seq(Requests) /\ order'[u] = Append(order[u], r)
        BY <1>0, <1>2, <3>2 DEF Settle, TypeOK
      <4>2. CASE i = Len(order[u]) + 1
        BY SMTT(30), <2>1, <3>2, <4>1, <4>2 DEF TypeOK, Statuses
      <4>3. CASE i \in DOMAIN order[u]
        <5>1. order'[u][i] = order[u][i] /\ order[u][i] \in Requests
          BY <4>1, <4>3
        <5> QED  BY <2>1, <4>3, <5>1 DEF TypeOK, Statuses
      <4> QED  BY <2>3, <4>1, <4>2, <4>3
    <3> QED  BY <3>1, <3>2
  <2>4. RunSound' /\ RefundsAreMarked'
    BY <2>1 DEF Unlocked, TypeOK
  <2> QED  BY <2>2, <2>3, <2>4
<1>3. ASSUME NEW r \in Requests, Abort(r) \/ LoseSettlement(r)
      PROVE  LogInv'
  <2>1. /\ logStatus[r] = "none"
        /\ UNCHANGED <<logStatus, order, comp, compensated, refunded>>
    BY <1>3 DEF Abort, LoseSettlement
  <2>2. \A s \in Requests : s # r => pc'[s] = pc[s]
    BY <1>3 DEF Abort, LoseSettlement, TypeOK
  <2>3. UnsettledUnlogged'
    BY <2>1, <2>2
  <2> QED  BY <2>1, <2>3
<1>4. ASSUME NEW u \in Users, Unlocked, StartCompensation(u),
             UNCHANGED <<logStatus, compensated, refunded>>
      PROVE  RunSound'
  BY <1>4, DueSound DEF StartCompensation, Unlocked
<1>5. ASSUME NEW r \in Requests, CompensateAfterBreak(r)
      PROVE  LogInv'
  <2>1. RunSound'
    BY <1>0, <1>4, <1>5 DEF CompensateAfterBreak
  <2> QED  BY <1>5, <2>1 DEF CompensateAfterBreak, TypeOK
<1>6. ASSUME NEW u \in Users, AdminCompensate(u)
      PROVE  LogInv'
  BY <1>4, <1>6 DEF AdminCompensate
<1>7. CASE MarkCompensated
  <2>1. PICK r \in comp.todo : /\ compensated' = compensated \cup {r}
                              /\ comp' = [comp EXCEPT !.todo = @ \ {r}]
    BY <1>7 DEF MarkCompensated
  <2>2. /\ comp'.todo = comp.todo \ {r} /\ comp'.ids = comp.ids
        /\ comp'.user = comp.user /\ comp'.phase = comp.phase
    BY <2>1 DEF TypeOK
  <2> QED  BY <1>7, <2>1, <2>2 DEF MarkCompensated
<1>8. CASE CreditQuota
  BY <1>8 DEF CreditQuota, NoComp
<1>9. CASE FailCompensation
  BY <1>9 DEF FailCompensation, NoComp
<1>10. ASSUME NEW u \in Users, SetQuotaTotal(u) \/ AddQuotaCredit(u)
       PROVE  LogInv'
  BY <1>10 DEF SetQuotaTotal, AddQuotaCredit, SetTotal
<1>11. CASE Restart
  BY <1>11 DEF Restart, NoComp, TypeOK, PCs
<1>12. CASE UNCHANGED vars
  BY <1>12 DEF vars
<1>13. ASSUME NEW r \in Requests, Finish(r)
       PROVE  LogInv'
  BY <1>2, <1>3, <1>13, QuotaAssumption
     DEF Finish, SettleSuccess, SettleFailed, SettleBroken, Statuses
<1> QED
  BY <1>1, <1>5, <1>6, <1>7, <1>8, <1>9, <1>10, <1>11, <1>12, <1>13 DEF Next

\* A log is credited only after it was marked, and only broken streams are
\* marked, however runs fail, stop at a restart and start again.
THEOREM RefundsAreMarkedAlways == Spec => []RefundsAreMarked
<1>1. Init => TypeOK /\ LogInv
  BY TypeInit, LogInit
<1>2. TypeOK /\ LogInv /\ [Next]_vars => (TypeOK /\ LogInv)'
  BY TypeStep, LogStep
<1>3. LogInv => RefundsAreMarked
  BY DEF LogInv
<1> QED  BY <1>1, <1>2, <1>3, PTL DEF Spec

-----------------------------------------------------------------------------
\* quota_reserved against the holds of the unsettled calls

LEMMA HoldsInit == Init => HoldsAccounted
<1> SUFFICES ASSUME Init, NEW u \in Users PROVE reserved[u] = SumOver(held, Holding(u))
  BY DEF HoldsAccounted
<1>1. Holding(u) = {} /\ reserved[u] = 0
  BY DEF Init, Holding
<1> QED  BY <1>1, SumEmpty

\* A step that leaves the balances, the holds and the set of calls that hold
\* alone leaves the sums alone.
LEMMA HoldsKept ==
  ASSUME HoldsAccounted, UNCHANGED <<reserved, held>>,
         \A u \in Users : Holding(u)' = Holding(u)
  PROVE  HoldsAccounted'
  BY DEF HoldsAccounted, SumOver, Units

\* A call that stops holding takes exactly its hold out of the balance: the
\* balance covers it, so the floor changes nothing.
LEMMA HoldsReleased ==
  ASSUME TypeOK, HoldsAccounted,
         NEW r \in Requests, pc[r] = "relaying",
         NEW p \in PCs \ {"relaying", "unsettled"}, pc' = [pc EXCEPT ![r] = p],
         held' = held,
         reserved' = [reserved EXCEPT ![Owner[r]] = Lowered(@, held[r])]
  PROVE  HoldsAccounted'
<1>0. Owner \in [Requests -> Users] /\ held \in [Requests -> Nat]
  BY QuotaAssumption, HeldType
<1> SUFFICES ASSUME NEW u \in Users PROVE reserved'[u] = SumOver(held, Holding(u)')
  BY DEF HoldsAccounted
<1>1. CASE u # Owner[r]
  <2>1. Holding(u)' = Holding(u)
    BY <1>1 DEF Holding, TypeOK
  <2> QED  BY <1>1, <2>1 DEF HoldsAccounted, TypeOK
<1>2. CASE u = Owner[r]
  <2>1. Holding(u)' = Holding(u) \ {r} /\ r \in Holding(u)
    BY <1>2 DEF Holding, TypeOK
  <2>2. Holding(u) \in SUBSET Requests /\ IsFiniteSet(Holding(u))
    BY RequestsFinite DEF Holding
  <2>3. /\ reserved[u] = SumOver(held, Holding(u) \ {r}) + held[r]
        /\ SumOver(held, Holding(u) \ {r}) \in Nat
    BY <1>0, <2>1, <2>2, SumRemove DEF HoldsAccounted
  <2>4. Lowered(reserved[u], held[r]) = SumOver(held, Holding(u) \ {r})
    BY <1>0, <2>3 DEF Lowered
  <2> QED  BY <1>2, <2>1, <2>4 DEF TypeOK
<1> QED  BY <1>1, <1>2

LEMMA HoldsStep == TypeOK /\ HoldsAccounted /\ [Next]_vars => HoldsAccounted'
<1> SUFFICES ASSUME TypeOK, HoldsAccounted, [Next]_vars PROVE HoldsAccounted'
  OBVIOUS
<1> USE DEF users, logs, history
<1>0. Owner \in [Requests -> Users]
  BY QuotaAssumption
<1>1. ASSUME NEW r \in Requests, NEW chars \in PromptSizes, Admit(r, chars)
      PROVE  HoldsAccounted'
  <2> DEFINE amount == Reservation(chars)
  <2>1. /\ pc[r] = "arrived" /\ pc' = [pc EXCEPT ![r] = "relaying"]
        /\ held' = [held EXCEPT ![r] = amount]
        /\ reserved' = [reserved EXCEPT ![Owner[r]] = @ + amount]
    BY <1>1 DEF Admit
  <2>2. /\ held' \in [Requests -> Nat]
        /\ \A s \in Requests : s # r => held'[s] = held[s]
        /\ held'[r] = amount
    <3>1. amount \in Nat
      BY ReservationBounds, QuotaAssumption
    <3>2. held \in [Requests -> Nat]
      BY HeldType
    <3> QED  BY <2>1, <3>1, <3>2
  <2> SUFFICES ASSUME NEW u \in Users PROVE reserved'[u] = SumOver(held', Holding(u)')
    BY DEF HoldsAccounted
  <2>3. /\ Holding(u) \in SUBSET Requests /\ IsFiniteSet(Holding(u))
        /\ r \notin Holding(u)
    BY <2>1, RequestsFinite DEF Holding
  <2>4. SumOver(held', Holding(u)) = SumOver(held, Holding(u))
    BY <2>2, <2>3, SumSame
  <2>5. CASE u # Owner[r]
    <3>1. Holding(u)' = Holding(u)
      BY <2>1, <2>5 DEF Holding, TypeOK
    <3> QED  BY <2>1, <2>4, <2>5, <3>1 DEF HoldsAccounted, TypeOK
  <2>6. CASE u = Owner[r]
    <3>1. Holding(u)' = Holding(u) \cup {r}
      BY <2>1, <2>6 DEF Holding, TypeOK
    <3>2. SumOver(held', Holding(u) \cup {r}) = SumOver(held', Holding(u)) + amount
      BY <2>2, <2>3, SumAdd
    <3>3. reserved'[u] = reserved[u] + amount
      BY <2>1, <2>6 DEF TypeOK
    <3> QED  BY <2>4, <3>1, <3>2, <3>3 DEF HoldsAccounted
  <2> QED  BY <2>5, <2>6
<1>2. ASSUME NEW r \in Requests, NEW chars \in PromptSizes, Refuse(r, chars)
      PROVE  HoldsAccounted'
  <2>1. \A u \in Users : Holding(u)' = Holding(u)
    BY <1>2 DEF Refuse, Holding, TypeOK
  <2> QED  BY <1>2, <2>1, HoldsKept DEF Refuse
<1>3. ASSUME NEW r \in Requests, NEW status, NEW cost, Settle(r, status, cost)
      PROVE  HoldsAccounted'
  <2> DEFINE p == IF status = "stream_broken" THEN "broken" ELSE "done"
  <2>1. /\ pc[r] = "relaying" /\ pc' = [pc EXCEPT ![r] = p] /\ held' = held
        /\ reserved' = [reserved EXCEPT ![Owner[r]] = Lowered(@, held[r])]
    BY <1>3 DEF Settle
  <2>2. p \in PCs \ {"relaying", "unsettled"}
    BY DEF PCs
  <2> HIDE DEF p
  <2> QED  BY <2>1, <2>2, HoldsReleased
<1>4. ASSUME NEW r \in Requests, Abort(r)
      PROVE  HoldsAccounted'
  <2>1. "done" \in PCs \ {"relaying", "unsettled"}
    BY DEF PCs
  <2> QED  BY <1>4, <2>1, HoldsReleased DEF Abort
<1>5. ASSUME NEW r \in Requests, LoseSettlement(r) \/ CompensateAfterBreak(r)
      PROVE  HoldsAccounted'
  <2>1. \A u \in Users : Holding(u)' = Holding(u)
    BY <1>5 DEF LoseSettlement, CompensateAfterBreak, Holding, TypeOK
  <2> QED  BY <1>5, <2>1, HoldsKept DEF LoseSettlement, CompensateAfterBreak
<1>6. CASE UNCHANGED <<reserved, held, pc>>
  <2>1. \A u \in Users : Holding(u)' = Holding(u)
    BY <1>6 DEF Holding
  <2> QED  BY <1>6, <2>1, HoldsKept
<1>7. CASE Restart
  <2> SUFFICES ASSUME NEW u \in Users PROVE reserved'[u] = SumOver(held', Holding(u)')
    BY DEF HoldsAccounted
  <2>1. Holding(u)' = {} /\ reserved'[u] = 0
    BY <1>7 DEF Restart, Holding, TypeOK
  <2> QED  BY <2>1, SumEmpty
<1>8. ASSUME NEW r \in Requests, Finish(r)
      PROVE  HoldsAccounted'
  BY <1>3, <1>4, <1>5, <1>8
     DEF Finish, SettleSuccess, SettleFailed, SettleBroken
<1>9. ASSUME NEW u \in Users, AdminCompensate(u) \/ SetQuotaTotal(u) \/ AddQuotaCredit(u)
      PROVE  UNCHANGED <<reserved, held, pc>>
  BY <1>9 DEF AdminCompensate, SetQuotaTotal, AddQuotaCredit, SetTotal
<1>10. ASSUME MarkCompensated \/ CreditQuota \/ FailCompensation \/ UNCHANGED vars
       PROVE  UNCHANGED <<reserved, held, pc>>
  BY <1>10 DEF MarkCompensated, CreditQuota, FailCompensation, vars
<1> QED
  BY <1>1, <1>2, <1>5, <1>6, <1>7, <1>8, <1>9, <1>10 DEF Next

\* quota_reserved is always the sum of the holds of the calls that have not
\* settled: whatever interleaves, no hold is released twice or outlives its
\* settlement, and after a restart nothing is reserved for calls that are gone.
THEOREM HoldsAlwaysAccounted == Spec => []HoldsAccounted
<1>1. Init => TypeOK /\ HoldsAccounted
  BY TypeInit, HoldsInit
<1>2. TypeOK /\ HoldsAccounted /\ [Next]_vars => (TypeOK /\ HoldsAccounted)'
  BY TypeStep, HoldsStep
<1> QED  BY <1>1, <1>2, PTL DEF Spec

-----------------------------------------------------------------------------
\* quota_used against the logs

\* The calls whose cost is still charged.
Net(u) == LoggedOf(u) \ refunded

LEMMA NetFinite ==
  ASSUME NEW u \in Users
  PROVE  /\ Net(u) \in SUBSET Requests /\ IsFiniteSet(Net(u))
         /\ LoggedOf(u) \in SUBSET Requests /\ IsFiniteSet(LoggedOf(u))
  BY RequestsFinite DEF Net, LoggedOf

LEMMA UsedInit == Init => UsedIsLedger
<1> SUFFICES ASSUME Init, NEW u \in Users PROVE used[u] = SumOver(logCost, Net(u))
  BY DEF UsedIsLedger, Net
<1>1. Net(u) = {} /\ used[u] = 0
  BY DEF Init, Net, LoggedOf
<1> QED  BY <1>1, SumEmpty

\* What every settlement does to the logs of a user.
LEMMA SettleLogs ==
  ASSUME TypeOK, LogInv, NEW r \in Requests, NEW status \in Statuses \ {"none"},
         NEW cost \in Nat, Settle(r, status, cost), NEW u \in Users
  PROVE  /\ u # Owner[r] => LoggedOf(u)' = LoggedOf(u)
         /\ u = Owner[r] => LoggedOf(u)' = LoggedOf(u) \cup {r}
         /\ r \notin LoggedOf(u) /\ r \notin refunded
         /\ \A s \in LoggedOf(u) : logCost'[s] = logCost[s]
         /\ logCost' \in [Requests -> Nat] /\ logCost'[r] = cost
<1>1. /\ logStatus[r] = "none" /\ logStatus' = [logStatus EXCEPT ![r] = status]
      /\ logCost' = [logCost EXCEPT ![r] = cost]
  BY DEF Settle, LogInv, UnsettledUnlogged
<1>2. r \notin refunded
  BY <1>1 DEF LogInv, RefundsAreMarked
<1>3. r \notin LoggedOf(u)
  BY <1>1 DEF LoggedOf
<1>4. /\ u # Owner[r] => LoggedOf(u)' = LoggedOf(u)
      /\ u = Owner[r] => LoggedOf(u)' = LoggedOf(u) \cup {r}
  BY <1>1 DEF LoggedOf, TypeOK, Statuses
<1>5. /\ \A s \in LoggedOf(u) : logCost'[s] = logCost[s]
      /\ logCost' \in [Requests -> Nat] /\ logCost'[r] = cost
  BY <1>1, <1>3 DEF LoggedOf, TypeOK
<1> QED  BY <1>2, <1>3, <1>4, <1>5

\* A credit takes out of its user's charged calls the ones it credits.
LEMMA CreditLogs ==
  ASSUME TypeOK, LogInv, CreditQuota
  PROVE  /\ comp.ids \in SUBSET Net(comp.user)
         /\ \A u \in Users : Net(u)' = Net(u) \ comp.ids
         /\ \A u \in Users : u # comp.user => Net(u)' = Net(u)
<1>1. /\ comp.ids \in SUBSET Requests
      /\ \A r \in comp.ids : /\ Owner[r] = comp.user
                             /\ logStatus[r] = "stream_broken" /\ r \notin refunded
  BY DEF LogInv, RunSound, TypeOK
<1>2. refunded' = refunded \cup comp.ids /\ logStatus' = logStatus
  BY DEF CreditQuota, logs
<1>3. comp.user \in Users
  BY DEF TypeOK
<1>4. comp.ids \in SUBSET Net(comp.user)
  BY <1>1 DEF Net, LoggedOf
<1>5. \A u \in Users : Net(u)' = Net(u) \ comp.ids
  BY <1>2 DEF Net, LoggedOf
<1>6. ASSUME NEW u \in Users, u # comp.user PROVE Net(u) \cap comp.ids = {}
  BY <1>1, <1>6 DEF Net, LoggedOf
<1> QED  BY <1>3, <1>4, <1>5, <1>6

LEMMA UsedStep == TypeOK /\ LogInv /\ UsedIsLedger /\ [Next]_vars => UsedIsLedger'
<1> SUFFICES ASSUME TypeOK, LogInv, UsedIsLedger, [Next]_vars PROVE UsedIsLedger'
  OBVIOUS
<1> USE DEF users, logs, history
<1>0. Owner \in [Requests -> Users]
  BY QuotaAssumption
<1>1. CASE UNCHANGED <<used, logStatus, logCost, refunded>>
  BY <1>1 DEF UsedIsLedger, LoggedOf, SumOver, Units
<1>2. ASSUME NEW r \in Requests, NEW status \in Statuses \ {"none"}, NEW cost \in Nat,
             Settle(r, status, cost)
      PROVE  UsedIsLedger'
  <2>1. used' = [used EXCEPT ![Owner[r]] = @ + cost] /\ refunded' = refunded
    BY <1>2 DEF Settle
  <2> SUFFICES ASSUME NEW u \in Users PROVE used'[u] = SumOver(logCost', Net(u)')
    BY DEF UsedIsLedger, Net
  <2>2. SumOver(logCost', Net(u)) = SumOver(logCost, Net(u))
    BY <1>2, SettleLogs, SumSame DEF Net
  <2>3. CASE u # Owner[r]
    <3>1. Net(u)' = Net(u)
      BY <1>2, <2>1, <2>3, SettleLogs DEF Net
    <3> QED  BY <2>1, <2>2, <2>3, <3>1 DEF UsedIsLedger, Net, TypeOK
  <2>4. CASE u = Owner[r]
    <3>1. /\ Net(u)' = Net(u) \cup {r} /\ r \notin Net(u)
          /\ logCost' \in [Requests -> Nat] /\ logCost'[r] = cost
      BY <1>2, <2>1, <2>4, SettleLogs DEF Net
    <3>2. SumOver(logCost', Net(u) \cup {r}) = SumOver(logCost', Net(u)) + cost
      BY <3>1, NetFinite, SumAdd
    <3>3. used'[u] = used[u] + cost
      BY <2>1, <2>4 DEF TypeOK
    <3> QED  BY <2>2, <3>1, <3>2, <3>3 DEF UsedIsLedger, Net
  <2> QED  BY <2>3, <2>4
<1>3. CASE CreditQuota
  <2> DEFINE credit == SumOver(logCost, comp.ids)
  <2>1. used' = [used EXCEPT ![comp.user] = Lowered(@, credit)] /\ logCost' = logCost
    BY <1>3 DEF CreditQuota
  <2> SUFFICES ASSUME NEW u \in Users PROVE used'[u] = SumOver(logCost', Net(u)')
    BY DEF UsedIsLedger, Net
  <2>2. CASE u # comp.user
    <3>1. Net(u)' = Net(u)
      BY <1>3, <2>2, CreditLogs
    <3> QED  BY <2>1, <2>2, <3>1 DEF UsedIsLedger, Net, TypeOK
  <2>3. CASE u = comp.user
    <3>1. comp.ids \in SUBSET Net(u) /\ Net(u)' = Net(u) \ comp.ids
      <4>1. comp.ids \in SUBSET Net(comp.user)
        BY <1>3, CreditLogs
      <4>2. comp.ids \in SUBSET Net(u)
        BY <2>3, <4>1
      <4> QED  BY <1>3, <4>2, CreditLogs
    <3>2. /\ SumOver(logCost, Net(u)) = SumOver(logCost, Net(u) \ comp.ids) + credit
          /\ credit \in Nat /\ SumOver(logCost, Net(u) \ comp.ids) \in Nat
      BY <3>1, NetFinite, SumSubset, logCost \in [Requests -> Nat] DEF TypeOK
    <3>3. used[u] = SumOver(logCost, Net(u))
      BY DEF UsedIsLedger, Net
    <3>4. Lowered(used[u], credit) = SumOver(logCost, Net(u) \ comp.ids)
      BY <3>2, <3>3 DEF Lowered
    <3>5. used'[u] = Lowered(used[u], credit)
      BY <2>1, <2>3 DEF TypeOK
    <3> QED  BY <2>1, <3>1, <3>4, <3>5
  <2> QED  BY <2>2, <2>3
<1>4. ASSUME NEW r \in Requests, NEW chars \in PromptSizes,
             Admit(r, chars) \/ Refuse(r, chars)
      PROVE  UNCHANGED <<used, logStatus, logCost, refunded>>
  BY <1>4 DEF Admit, Refuse
<1>5. ASSUME NEW r \in Requests, Abort(r) \/ LoseSettlement(r) \/ CompensateAfterBreak(r)
      PROVE  UNCHANGED <<used, logStatus, logCost, refunded>>
  BY <1>5 DEF Abort, LoseSettlement, CompensateAfterBreak
<1>6. ASSUME NEW u \in Users, AdminCompensate(u) \/ SetQuotaTotal(u) \/ AddQuotaCredit(u)
      PROVE  UNCHANGED <<used, logStatus, logCost, refunded>>
  BY <1>6 DEF AdminCompensate, SetQuotaTotal, AddQuotaCredit, SetTotal
<1>7. ASSUME MarkCompensated \/ FailCompensation \/ Restart \/ UNCHANGED vars
      PROVE  UNCHANGED <<used, logStatus, logCost, refunded>>
  BY <1>7 DEF MarkCompensated, FailCompensation, Restart, vars
<1>8. ASSUME NEW r \in Requests, Finish(r)
      PROVE  UsedIsLedger'
  BY <1>1, <1>2, <1>5, <1>8, QuotaAssumption
     DEF Finish, SettleSuccess, SettleFailed, SettleBroken, Statuses
<1> QED
  BY <1>1, <1>3, <1>4, <1>5, <1>6, <1>7, <1>8 DEF Next

\* quota_used is always the sum of the logged costs not credited back: every
\* call is charged once, every refund returns what its logs charged, once.
THEOREM UsedIsAlwaysLedger == Spec => []UsedIsLedger
<1>1. Init => TypeOK /\ LogInv /\ UsedIsLedger
  BY TypeInit, LogInit, UsedInit
<1>2. TypeOK /\ LogInv /\ UsedIsLedger /\ [Next]_vars
        => (TypeOK /\ LogInv /\ UsedIsLedger)'
  BY TypeStep, LogStep, UsedStep
<1> QED  BY <1>1, <1>2, PTL DEF Spec

-----------------------------------------------------------------------------
\* The spending bound

\* The ceiling is above the allowance, and a user who was never unlimited has
\* a positive allowance.
CeilingInv ==
    \A u \in Users : /\ total[u] <= ceiling[u]
                     /\ u \notin everUnlimited => total[u] > 0

\* The inductive strengthening of SpendBounded.
SpendInv ==
    TypeOK /\ LogInv /\ HoldsAccounted /\ CeilingInv /\ SpendBounded

LEMMA OverrunType == TypeOK => Overrun \in [Requests -> Nat]
<1> SUFFICES ASSUME TypeOK PROVE Overrun \in [Requests -> Nat]
  OBVIOUS
<1>1. \A r \in Requests : logCost[r] \in Nat /\ held[r] \in Nat
  BY HeldType DEF TypeOK
<1> QED  BY <1>1 DEF Overrun

LEMMA OverrunTypeNext == TypeOK' => Overrun' \in [Requests -> Nat]
<1> SUFFICES ASSUME TypeOK' PROVE Overrun' \in [Requests -> Nat]
  OBVIOUS
<1>1. 0 .. MaxReservation \subseteq Nat
  BY QuotaAssumption
<1>2. \A r \in Requests : logCost'[r] \in Nat /\ held'[r] \in Nat
  BY <1>1 DEF TypeOK
<1> QED  BY <1>2 DEF Overrun

\* The balances of a user are numbers, before and after a step.
LEMMA BalanceTypes ==
  ASSUME TypeOK, TypeOK', NEW u \in Users
  PROVE  /\ used[u] \in Nat /\ reserved[u] \in Nat /\ ceiling[u] \in Int
         /\ used'[u] \in Nat /\ reserved'[u] \in Nat /\ ceiling'[u] \in Int
         /\ total[u] \in Int
  BY DEF TypeOK

LEMMA OverrunSumType ==
  ASSUME TypeOK, NEW u \in Users
  PROVE  SumOver(Overrun, LoggedOf(u)) \in Nat
  BY OverrunType, NetFinite, SumType

LEMMA SpendInit == Init => CeilingInv /\ SpendBounded
<1> SUFFICES ASSUME Init PROVE CeilingInv /\ SpendBounded
  OBVIOUS
<1>1. CeilingInv
  BY QuotaAssumption DEF Init, CeilingInv
<1>2. ASSUME NEW u \in Users \ everUnlimited
      PROVE  used[u] + reserved[u] <= ceiling[u] + SumOver(Overrun, LoggedOf(u))
  <2>1. LoggedOf(u) = {} /\ used[u] = 0 /\ reserved[u] = 0
    BY DEF Init, LoggedOf
  <2>2. ceiling[u] \in Int /\ ceiling[u] > 0
    BY QuotaAssumption DEF Init
  <2> QED  BY <2>1, <2>2, SumEmpty
<1> QED  BY <1>1, <1>2 DEF SpendBounded

LEMMA CeilingStep == TypeOK /\ CeilingInv /\ [Next]_vars => CeilingInv'
<1> SUFFICES ASSUME TypeOK, CeilingInv, [Next]_vars PROVE CeilingInv'
  OBVIOUS
<1> USE DEF users, logs, history
<1>1. CASE UNCHANGED <<total, ceiling, everUnlimited>>
  BY <1>1 DEF CeilingInv
<1>2. ASSUME NEW u \in Users, NEW t \in Int, SetTotal(u, t)
      PROVE  CeilingInv'
  BY SMTT(30), <1>2 DEF SetTotal, CeilingInv, TypeOK
<1>3. ASSUME NEW u \in Users, SetQuotaTotal(u)
      PROVE  CeilingInv'
  BY <1>2, <1>3, QuotaAssumption DEF SetQuotaTotal
<1>4. ASSUME NEW u \in Users, AddQuotaCredit(u)
      PROVE  CeilingInv'
  <2>1. PICK c \in Credits : SetTotal(u, total[u] + c)
    BY <1>4 DEF AddQuotaCredit
  <2>2. c \in Int
    BY QuotaAssumption
  <2>3. total \in [Users -> Int]
    BY DEF TypeOK
  <2>4. total[u] + c \in Int
    BY <2>2, <2>3
  <2> QED  BY <1>2, <2>1, <2>4
<1>5. ASSUME NEW r \in Requests, NEW chars \in PromptSizes,
             Admit(r, chars) \/ Refuse(r, chars)
      PROVE  UNCHANGED <<total, ceiling, everUnlimited>>
  BY <1>5 DEF Admit, Refuse
<1>6. ASSUME NEW r \in Requests, Finish(r) \/ CompensateAfterBreak(r)
      PROVE  UNCHANGED <<total, ceiling, everUnlimited>>
  BY <1>6 DEF Finish, SettleSuccess, SettleFailed, SettleBroken, Settle, Abort,
              LoseSettlement, CompensateAfterBreak
<1>7. ASSUME NEW u \in Users, AdminCompensate(u)
      PROVE  UNCHANGED <<total, ceiling, everUnlimited>>
  BY <1>7 DEF AdminCompensate
<1>8. ASSUME MarkCompensated \/ CreditQuota \/ FailCompensation \/ Restart
               \/ UNCHANGED vars
      PROVE  UNCHANGED <<total, ceiling, everUnlimited>>
  BY <1>8 DEF MarkCompensated, CreditQuota, FailCompensation, Restart, vars
<1> QED
  BY <1>1, <1>3, <1>4, <1>5, <1>6, <1>7, <1>8 DEF Next

\* A step that adds nothing to the balances, keeps what calls overran and
\* grants no less keeps the bound.
LEMMA SpendKept ==
  ASSUME TypeOK, TypeOK', SpendBounded, everUnlimited \subseteq everUnlimited',
         \A u \in Users : /\ used'[u] + reserved'[u] <= used[u] + reserved[u]
                          /\ ceiling[u] <= ceiling'[u],
         UNCHANGED <<logStatus, logCost, held>>
  PROVE  SpendBounded'
<1> SUFFICES ASSUME NEW u \in Users, u \notin everUnlimited'
             PROVE  used'[u] + reserved'[u]
                      <= ceiling'[u] + SumOver(Overrun', LoggedOf(u)')
  BY DEF SpendBounded
<1>1. LoggedOf(u)' = LoggedOf(u) /\ Overrun' = Overrun
  BY DEF LoggedOf, Overrun
<1>2. used[u] + reserved[u] <= ceiling[u] + SumOver(Overrun, LoggedOf(u))
  BY DEF SpendBounded
<1>3. /\ used[u] \in Nat /\ reserved[u] \in Nat /\ ceiling[u] \in Int
      /\ used'[u] \in Nat /\ reserved'[u] \in Nat /\ ceiling'[u] \in Int
      /\ SumOver(Overrun, LoggedOf(u)) \in Nat
  BY OverrunSumType DEF TypeOK
<1>4. /\ used'[u] + reserved'[u] <= used[u] + reserved[u]
      /\ ceiling[u] <= ceiling'[u]
  OBVIOUS
<1>5. used'[u] + reserved'[u] <= ceiling'[u] + SumOver(Overrun, LoggedOf(u))
  BY <1>2, <1>3, <1>4
<1> QED  BY <1>1, <1>5

LEMMA LoweredBelow ==
  ASSUME NEW have \in Nat, NEW amount \in Nat
  PROVE  Lowered(have, amount) <= have
  BY DEF Lowered

LEMMA SpendAdmit ==
  ASSUME SpendInv, TypeOK', NEW r \in Requests, NEW chars \in PromptSizes,
         Admit(r, chars)
  PROVE  SpendBounded'
<1> USE DEF users, logs, history, SpendInv
<1> DEFINE amount == Reservation(chars)
<1>1. /\ pc[r] = "arrived" /\ Fits(Owner[r], amount)
      /\ held' = [held EXCEPT ![r] = amount]
      /\ reserved' = [reserved EXCEPT ![Owner[r]] = @ + amount]
      /\ UNCHANGED <<total, used, logStatus, logCost, ceiling, everUnlimited>>
  BY DEF Admit
<1> SUFFICES ASSUME NEW u \in Users, u \notin everUnlimited
             PROVE  used[u] + reserved'[u]
                      <= ceiling[u] + SumOver(Overrun', LoggedOf(u))
  BY <1>1 DEF SpendBounded, LoggedOf
<1>2. r \notin LoggedOf(u)
  BY <1>1 DEF LoggedOf, LogInv, UnsettledUnlogged
<1>3. \A s \in LoggedOf(u) : Overrun'[s] = Overrun[s]
  BY <1>1, <1>2 DEF Overrun, LoggedOf, TypeOK
<1>4. SumOver(Overrun', LoggedOf(u)) = SumOver(Overrun, LoggedOf(u))
  BY <1>3, SumSame
<1>5. /\ used[u] \in Nat /\ reserved[u] \in Nat /\ ceiling[u] \in Int
      /\ total[u] \in Int /\ SumOver(Overrun, LoggedOf(u)) \in Nat
  BY OverrunSumType DEF TypeOK
<1>6. used[u] + reserved[u] <= ceiling[u] + SumOver(Overrun, LoggedOf(u))
  BY DEF SpendBounded
<1>7. CASE u # Owner[r]
  <2>1. reserved'[u] = reserved[u]
    BY <1>1, <1>7 DEF TypeOK
  <2> QED  BY <1>4, <1>6, <2>1
<1>8. CASE u = Owner[r]
  <2>1. reserved'[u] = reserved[u] + amount
    BY <1>1, <1>8 DEF TypeOK
  <2>2. total[u] > 0 /\ total[u] <= ceiling[u]
    BY DEF CeilingInv
  <2>3. used[u] + reserved[u] + amount <= total[u]
    BY <1>1, <1>5, <1>8, <2>2 DEF Fits
  <2>4. amount \in Nat
    BY ReservationBounds, QuotaAssumption
  <2> HIDE DEF amount
  <2> QED  BY <1>4, <1>5, <2>1, <2>2, <2>3, <2>4
<1> QED  BY <1>7, <1>8

LEMMA SpendSettle ==
  ASSUME SpendInv, TypeOK', NEW r \in Requests,
         NEW status \in Statuses \ {"none"}, NEW cost \in Nat,
         Settle(r, status, cost)
  PROVE  SpendBounded'
<1> USE DEF users, logs, history, SpendInv
<1>1. /\ used' = [used EXCEPT ![Owner[r]] = @ + cost] /\ pc[r] = "relaying"
      /\ reserved' = [reserved EXCEPT ![Owner[r]] = Lowered(@, held[r])]
      /\ logStatus' = [logStatus EXCEPT ![r] = status]
      /\ logCost' = [logCost EXCEPT ![r] = cost]
      /\ UNCHANGED <<held, ceiling, everUnlimited>>
  BY DEF Settle
<1> SUFFICES ASSUME NEW u \in Users, u \notin everUnlimited
             PROVE  used'[u] + reserved'[u]
                      <= ceiling[u] + SumOver(Overrun', LoggedOf(u)')
  BY <1>1 DEF SpendBounded
<1>2. /\ used[u] \in Nat /\ reserved[u] \in Nat /\ ceiling[u] \in Int
      /\ SumOver(Overrun, LoggedOf(u)) \in Nat /\ held[r] \in Nat
  BY OverrunSumType, HeldType DEF TypeOK
<1>3. used[u] + reserved[u] <= ceiling[u] + SumOver(Overrun, LoggedOf(u))
  BY DEF SpendBounded
<1>4. \A s \in LoggedOf(u) : Overrun'[s] = Overrun[s]
  <2> TAKE s \in LoggedOf(u)
  <2>1. s # r /\ s \in Requests
    BY SettleLogs DEF LoggedOf
  <2>2. logStatus'[s] = logStatus[s] /\ logCost'[s] = logCost[s] /\ held'[s] = held[s]
    BY <1>1, <2>1 DEF TypeOK
  <2> QED  BY <2>1, <2>2 DEF Overrun
<1>5. SumOver(Overrun', LoggedOf(u)) = SumOver(Overrun, LoggedOf(u))
  BY <1>4, SumSame
<1>6. CASE u # Owner[r]
  <2>1. used'[u] = used[u] /\ reserved'[u] = reserved[u]
    BY <1>1, <1>6 DEF TypeOK
  <2>2. LoggedOf(u)' = LoggedOf(u)
    BY <1>6, SettleLogs
  <2> QED  BY <1>3, <1>5, <2>1, <2>2
<1>7. CASE u = Owner[r]
  <2>1. LoggedOf(u)' = LoggedOf(u) \cup {r} /\ r \notin LoggedOf(u)
    BY <1>7, SettleLogs
  <2>2. Overrun' \in [Requests -> Nat]
    BY OverrunTypeNext
  <2>3. SumOver(Overrun', LoggedOf(u) \cup {r})
          = SumOver(Overrun', LoggedOf(u)) + Overrun'[r]
    BY <2>1, <2>2, NetFinite, SumAdd
  <2>4. Overrun'[r] = IF cost > held[r] THEN cost - held[r] ELSE 0
    BY <1>1 DEF Overrun, TypeOK, Statuses
  <2>5. r \in Holding(u) /\ Holding(u) \in SUBSET Requests /\ IsFiniteSet(Holding(u))
    BY <1>1, <1>7, RequestsFinite DEF Holding
  <2>6. /\ reserved[u] = SumOver(held, Holding(u) \ {r}) + held[r]
        /\ SumOver(held, Holding(u) \ {r}) \in Nat
    BY <2>5, HeldType, SumRemove DEF HoldsAccounted
  <2>7. reserved[u] >= held[r]
    BY <1>2, <2>6
  <2>8. Lowered(reserved[u], held[r]) = reserved[u] - held[r]
    BY <1>2, <2>7 DEF Lowered
  <2>9. used'[u] = used[u] + cost /\ reserved'[u] = reserved[u] - held[r]
    BY <1>1, <1>7, <2>8 DEF TypeOK
  <2>10. SumOver(Overrun', LoggedOf(u)')
           = SumOver(Overrun, LoggedOf(u))
               + (IF cost > held[r] THEN cost - held[r] ELSE 0)
    BY <1>5, <2>1, <2>3, <2>4
  <2> QED  BY <1>2, <1>3, <2>9, <2>10
<1> QED  BY <1>6, <1>7

LEMMA SpendStep == SpendInv /\ [Next]_vars => SpendBounded'
<1> SUFFICES ASSUME SpendInv, [Next]_vars PROVE SpendBounded'
  OBVIOUS
<1> USE DEF users, logs, history
<1>0. /\ TypeOK /\ TypeOK' /\ LogInv /\ SpendBounded
      /\ Owner \in [Requests -> Users]
  BY TypeStep, QuotaAssumption DEF SpendInv
<1>1. CASE UNCHANGED <<used, reserved, ceiling, everUnlimited, logStatus, logCost, held>>
  BY <1>1 DEF SpendBounded, SpendInv, LoggedOf, Overrun, SumOver, Units
<1>2. ASSUME NEW r \in Requests, NEW chars \in PromptSizes,
             Admit(r, chars) \/ Refuse(r, chars)
      PROVE  SpendBounded'
  BY <1>0, <1>1, <1>2, SpendAdmit DEF Refuse
<1>3. ASSUME NEW r \in Requests, Abort(r)
      PROVE  SpendBounded'
  <2>1. /\ used' = used /\ ceiling' = ceiling /\ everUnlimited' = everUnlimited
        /\ reserved' = [reserved EXCEPT ![Owner[r]] = Lowered(@, held[r])]
        /\ UNCHANGED <<logStatus, logCost, held>>
    BY <1>3 DEF Abort
  <2>2. reserved[Owner[r]] \in Nat /\ held[r] \in Nat
    BY <1>0, HeldType DEF TypeOK
  <2>3. Lowered(reserved[Owner[r]], held[r]) <= reserved[Owner[r]]
    BY <2>2, LoweredBelow
  <2>4. reserved \in [Users -> Nat]
    BY <1>0 DEF TypeOK
  <2>5. ASSUME NEW u \in Users
        PROVE  /\ used'[u] + reserved'[u] <= used[u] + reserved[u]
               /\ ceiling[u] <= ceiling'[u]
    <3>1. CASE u = Owner[r]
      BY <1>0, <2>1, <2>3, <2>4, <3>1, BalanceTypes
    <3>2. CASE u # Owner[r]
      BY <1>0, <2>1, <2>4, <3>2, BalanceTypes
    <3> QED  BY <3>1, <3>2
  <2> QED  BY <1>0, <2>1, <2>5, SpendKept
<1>4. CASE CreditQuota
  <2>1. /\ reserved' = reserved /\ ceiling' = ceiling /\ everUnlimited' = everUnlimited
        /\ used' = [used EXCEPT ![comp.user] = Lowered(@, SumOver(logCost, comp.ids))]
        /\ UNCHANGED <<logStatus, logCost, held>>
    BY <1>4 DEF CreditQuota
  <2>2. used[comp.user] \in Nat /\ SumOver(logCost, comp.ids) \in Nat
    BY <1>0, CreditType DEF TypeOK
  <2>3. Lowered(used[comp.user], SumOver(logCost, comp.ids)) <= used[comp.user]
    BY <2>2, LoweredBelow
  <2>4. used \in [Users -> Nat]
    BY <1>0 DEF TypeOK
  <2>5. ASSUME NEW u \in Users
        PROVE  /\ used'[u] + reserved'[u] <= used[u] + reserved[u]
               /\ ceiling[u] <= ceiling'[u]
    <3>1. CASE u = comp.user
      BY <1>0, <2>1, <2>3, <2>4, <3>1, BalanceTypes
    <3>2. CASE u # comp.user
      BY <1>0, <2>1, <2>4, <3>2, BalanceTypes
    <3> QED  BY <3>1, <3>2
  <2> QED  BY <1>0, <2>1, <2>5, SpendKept
<1>5. ASSUME NEW u \in Users, NEW t \in Int, SetTotal(u, t)
      PROVE  SpendBounded'
  <2>1. /\ UNCHANGED <<used, reserved, logStatus, logCost, held>>
        /\ everUnlimited \subseteq everUnlimited'
        /\ \A w \in Users : ceiling[w] <= ceiling'[w]
    BY SMTT(30), <1>0, <1>5 DEF SetTotal, TypeOK
  <2>2. \A w \in Users : used'[w] + reserved'[w] <= used[w] + reserved[w]
    BY <1>0, <2>1, BalanceTypes
  <2> QED  BY <1>0, <2>1, <2>2, SpendKept
<1>6. ASSUME NEW u \in Users, SetQuotaTotal(u) \/ AddQuotaCredit(u)
      PROVE  SpendBounded'
  <2>1. CASE SetQuotaTotal(u)
    BY <1>5, <2>1, QuotaAssumption DEF SetQuotaTotal
  <2>2. CASE AddQuotaCredit(u)
    <3>1. PICK c \in Credits : SetTotal(u, total[u] + c)
      BY <2>2 DEF AddQuotaCredit
    <3>2. total[u] + c \in Int
      <4>1. total[u] \in Int /\ c \in Int
        BY <1>0, QuotaAssumption, BalanceTypes
      <4> QED  BY <4>1
    <3> QED  BY <1>5, <3>1, <3>2
  <2> QED  BY <1>6, <2>1, <2>2
<1>7. CASE Restart
  <2>1. /\ reserved' = [u \in Users |-> 0]
        /\ UNCHANGED <<used, logStatus, logCost, held, ceiling, everUnlimited>>
    BY <1>7 DEF Restart
  <2>2. \A u \in Users : /\ used'[u] + reserved'[u] <= used[u] + reserved[u]
                         /\ ceiling[u] <= ceiling'[u]
    BY <1>0, <2>1, BalanceTypes
  <2> QED  BY <1>0, <2>1, <2>2, SpendKept
<1>8. ASSUME NEW r \in Requests, LoseSettlement(r) \/ CompensateAfterBreak(r)
      PROVE  SpendBounded'
  BY <1>1, <1>8 DEF LoseSettlement, CompensateAfterBreak
<1>9. ASSUME NEW u \in Users, AdminCompensate(u)
      PROVE  SpendBounded'
  BY <1>1, <1>9 DEF AdminCompensate
<1>10. ASSUME MarkCompensated \/ FailCompensation \/ UNCHANGED vars
       PROVE  SpendBounded'
  BY <1>1, <1>10 DEF MarkCompensated, FailCompensation, vars
<1>11. ASSUME NEW r \in Requests, NEW status \in Statuses \ {"none"}, NEW cost \in Nat,
              Settle(r, status, cost)
       PROVE  SpendBounded'
  BY <1>0, <1>11, SpendSettle
<1>12. ASSUME NEW r \in Requests, Finish(r)
       PROVE  SpendBounded'
  BY <1>3, <1>8, <1>11, <1>12, QuotaAssumption
     DEF Finish, SettleSuccess, SettleFailed, SettleBroken, Statuses
<1> QED
  BY <1>2, <1>4, <1>6, <1>7, <1>8, <1>9, <1>10, <1>12 DEF Next

\* However many calls of a limited user are in flight at once, what is spent
\* and held stays within the largest allowance granted, plus what settled calls
\* cost beyond their holds.
THEOREM SpendAlwaysBounded == Spec => []SpendBounded
<1>1. Init => SpendInv
  BY TypeInit, LogInit, HoldsInit, SpendInit DEF SpendInv
<1>2. SpendInv /\ [Next]_vars => SpendInv'
  BY TypeStep, LogStep, HoldsStep, CeilingStep, SpendStep DEF SpendInv
<1>3. SpendInv => SpendBounded
  BY DEF SpendInv
<1> QED  BY <1>1, <1>2, <1>3, PTL DEF Spec

-----------------------------------------------------------------------------
\* Refunds that are due

\* With a store that works and a process that stays up, what is due to a user
\* none of whose calls is between its settlement and its compensation is what
\* a running compensation of that user has still to mark.
NothingDueLeft ==
    \A u \in Users :
        (\A r \in Requests : Owner[r] = u => pc[r] # "broken") =>
            Due(u) \subseteq IF comp.user = u THEN comp.todo ELSE {}

\* The inductive strengthening of NoMissedRefund.
RefundInv == (~ StoreErrors /\ restarts = 0) => NothingDueLeft

\* A product grows with its factor.
LEMMA ProductMonotone ==
  ASSUME NEW a \in Nat, NEW b \in Nat, NEW d \in Nat, a <= b
  PROVE  a * d <= b * d
<1>1. b = a + (b - a) /\ b - a \in Nat
  OBVIOUS
<1>2. b * d = a * d + (b - a) * d
  BY <1>1
<1>3. (b - a) * d \in Nat /\ a * d \in Nat
  BY <1>1
<1> QED  BY <1>2, <1>3

\* The window after one more log: the new log, and the old window without its
\* oldest log.
LEMMA WindowMoves ==
  ASSUME NEW s \in Seq(Requests), NEW r \in Requests, NEW W \in Nat \ {0}
  PROVE  /\ LastOf(Append(s, r), W) = LastOf(s, W - 1) \cup {r}
         /\ LastOf(s, W - 1) \subseteq LastOf(s, W)
         /\ \/ LastOf(s, W - 1) = LastOf(s, W)
            \/ \E x \in LastOf(s, W) : LastOf(s, W) \subseteq LastOf(s, W - 1) \cup {x}
<1> DEFINE old  == LastOf(s, W)
           t    == Append(s, r)
           new  == LastOf(t, W)
           kept == LastOf(s, W - 1)
           edge == Len(s) + 1 - W
<1> USE DEF LastOf
<1>1. /\ Len(s) \in Nat /\ DOMAIN s = 1 .. Len(s) /\ Len(t) = Len(s) + 1
      /\ DOMAIN t = 1 .. Len(s) + 1 /\ t[Len(s) + 1] = r
      /\ \A i \in 1 .. Len(s) : t[i] = s[i]
      /\ Len(s) - (W - 1) = Len(s) + 1 - W
  OBVIOUS
<1>2. Len(s) + 1 > Len(t) - W /\ edge \in Int
  BY <1>1
<1>3. new = kept \cup {r}
  <2>1. ASSUME NEW x \in new PROVE x \in kept \cup {r}
    <3>1. PICK i \in DOMAIN t : i > Len(t) - W /\ x = t[i]
      OBVIOUS
    <3>2. CASE i = Len(s) + 1
      BY <1>1, <3>1, <3>2
    <3>3. CASE i \in DOMAIN s
      BY <1>1, <3>1, <3>3
    <3> QED  BY <1>1, <3>2, <3>3
  <2>2. r \in new
    BY <1>1, <1>2
  <2>3. ASSUME NEW x \in kept PROVE x \in new
    <3>1. PICK i \in DOMAIN s : i > Len(s) - (W - 1) /\ x = s[i]
      OBVIOUS
    <3>2. i \in DOMAIN t /\ i > Len(t) - W /\ x = t[i]
      BY <1>1, <3>1
    <3> QED  BY <3>2
  <2> QED  BY <2>1, <2>2, <2>3
<1>4. kept \subseteq old
  BY <1>1
<1>5. ASSUME NEW i \in DOMAIN s, i > Len(s) - W
      PROVE  i > Len(s) + 1 - W \/ i = edge
  BY <1>1, <1>5
<1>6. ASSUME edge \in DOMAIN s PROVE \E x \in old : old \subseteq kept \cup {x}
  <2>1. s[edge] \in old
    BY <1>1, <1>6
  <2>2. old \subseteq kept \cup {s[edge]}
    BY <1>5
  <2> QED  BY <2>1, <2>2
<1>7. ASSUME edge \notin DOMAIN s PROVE kept = old
  <2>1. old \subseteq kept
    BY <1>5, <1>7
  <2> QED  BY <1>4, <2>1
<1>8. kept = old \/ \E x \in old : old \subseteq kept \cup {x}
  BY <1>6, <1>7
<1> QED  BY <1>3, <1>4, <1>8

\* A call that settles and is not a broken stream makes nothing due: it is
\* one more log, not broken, in a window that is at least as large as before.
LEMMA SettlingMakesNothingDue ==
  ASSUME TypeOK, LogInv, NEW r \in Requests, pc[r] = "relaying",
         NEW status \in Statuses \ {"none", "stream_broken"},
         logStatus' = [logStatus EXCEPT ![r] = status],
         order' = [order EXCEPT ![Owner[r]] = Append(@, r)],
         compensated' = compensated
  PROVE  Due(Owner[r])' \subseteq Due(Owner[r])
<1> DEFINE u == Owner[r]
           old == Recent(u)
           new == LastOf(Append(order[u], r), WindowSize)
           kept == LastOf(order[u], WindowSize - 1)
<1>0. /\ u \in Users /\ order[u] \in Seq(Requests)
      /\ order'[u] = Append(order[u], r) /\ WindowSize \in Nat \ {0}
  BY QuotaAssumption DEF TypeOK
<1>a. Recent(u)' = new
  <2>1. Recent(u)' = LastOf(order'[u], WindowSize)
    BY DEF Recent, LastOf
  <2> QED  BY <1>0, <2>1
<1>b. old = LastOf(order[u], WindowSize)
  BY DEF Recent, LastOf
<1>1. /\ new = kept \cup {r} /\ kept \subseteq old
      /\ kept = old \/ \E x \in old : old \subseteq kept \cup {x}
  BY <1>0, <1>b, WindowMoves
<1>2. old \in SUBSET Requests /\ logStatus[r] = "none" /\ r \notin old
  <2>1. logStatus[r] = "none"
    BY DEF LogInv, UnsettledUnlogged
  <2>2. \A x \in old : x \in Requests /\ logStatus[x] # "none"
    BY <1>0 DEF Recent, LogInv, OrderedAreLogged
  <2> QED  BY <2>1, <2>2
<1> HIDE DEF u, old, new, kept
<1>3. {x \in new : logStatus'[x] = "stream_broken"} = BrokenIn(kept) /\ BrokenIn(kept) \subseteq BrokenIn(old)
  BY <1>1, <1>2 DEF BrokenIn, TypeOK, Statuses
<1>4. /\ IsFiniteSet(kept) /\ IsFiniteSet(old)
      /\ IsFiniteSet(BrokenIn(old)) /\ IsFiniteSet(BrokenIn(kept))
  <2>1. /\ kept \in SUBSET Requests /\ BrokenIn(old) \in SUBSET Requests
        /\ BrokenIn(kept) \in SUBSET Requests
    BY <1>1, <1>2 DEF BrokenIn
  <2> QED  BY <1>2, <2>1, RequestsFinite
<1>5. Cardinality(old) <= Cardinality(new)
  <2>1. Cardinality(new) = Cardinality(kept) + 1 /\ Cardinality(kept) \in Nat
    BY <1>1, <1>2, <1>4, FS_AddElement, FS_CardinalityType
  <2>2. CASE kept = old
    BY <2>1, <2>2
  <2>3. ASSUME NEW x \in old, old \subseteq kept \cup {x}
        PROVE  Cardinality(old) <= Cardinality(new)
    <3>0. IsFiniteSet(kept \cup {x})
      BY <1>4, FS_AddElement
    <3>1. Cardinality(old) <= Cardinality(kept \cup {x})
      BY <2>3, <3>0, FS_Subset
    <3>2. Cardinality(kept \cup {x}) <= Cardinality(kept) + 1
      <4>1. Cardinality(kept \cup {x}) = IF x \in kept THEN Cardinality(kept)
                                         ELSE Cardinality(kept) + 1
        BY <1>4, FS_AddElement
      <4> QED  BY <2>1, <4>1
    <3>3. Cardinality(old) \in Nat /\ Cardinality(kept \cup {x}) \in Nat
      BY <1>4, <3>0, FS_CardinalityType
    <3> QED  BY <2>1, <3>1, <3>2, <3>3
  <2> QED  BY <1>1, <2>2, <2>3
<1>6. /\ Cardinality(BrokenIn(kept)) <= Cardinality(BrokenIn(old))
      /\ Cardinality(BrokenIn(kept)) \in Nat /\ Cardinality(BrokenIn(old)) \in Nat
      /\ Cardinality(old) \in Nat /\ Cardinality(new) \in Nat
  <2>1. IsFiniteSet(new)
    BY <1>1, <1>4, FS_AddElement
  <2> QED  BY <1>3, <1>4, <2>1, FS_Subset, FS_CardinalityType
<1>7. ASSUME NEW x \in Due(u)' PROVE x \in Due(u)
  <2>1. /\ Triggered(u)' /\ x \in BrokenIn(kept) /\ x \notin compensated'
    BY <1>a, <1>3, <1>7 DEF Due, BrokenIn
  <2>2. x \in BrokenIn(old) /\ x \notin compensated /\ old # {}
    BY <1>3, <2>1 DEF BrokenIn
  <2> DEFINE b == Cardinality(BrokenIn(old))
             bb == Cardinality(BrokenIn(kept))
             n == Cardinality(old)
             nn == Cardinality(new)
  <2>3. bb >= MinBroken /\ bb * ThresholdDen >= ThresholdNum * nn
    BY <1>a, <1>3, <2>1 DEF Triggered, BrokenIn
  <2>4. b \in Nat /\ bb \in Nat /\ n \in Nat /\ nn \in Nat /\ bb <= b /\ n <= nn
    BY <1>5, <1>6
  <2>5. MinBroken \in Nat /\ ThresholdNum \in Nat /\ ThresholdDen \in Nat
    BY QuotaAssumption
  <2> HIDE DEF b, bb, n, nn
  <2>6. bb * ThresholdDen <= b * ThresholdDen /\ n * ThresholdNum <= nn * ThresholdNum
    BY <2>4, <2>5, ProductMonotone
  <2>7. b >= MinBroken /\ b * ThresholdDen >= ThresholdNum * n
    <3>1. ThresholdNum * n = n * ThresholdNum /\ ThresholdNum * nn = nn * ThresholdNum
      BY <2>4, <2>5
    <3>2. /\ b * ThresholdDen \in Nat /\ bb * ThresholdDen \in Nat
          /\ n * ThresholdNum \in Nat /\ nn * ThresholdNum \in Nat
      BY <2>4, <2>5
    <3>3. b >= MinBroken
      BY <2>3, <2>4, <2>5
    <3>4. bb * ThresholdDen >= nn * ThresholdNum
      BY <2>3, <3>1
    <3>5. b * ThresholdDen >= n * ThresholdNum
      BY <2>6, <3>2, <3>4
    <3> QED  BY <3>1, <3>3, <3>5
  <2>8. Triggered(u)
    BY <2>2, <2>7 DEF Triggered, b, n, old
  <2> QED  BY <2>2, <2>8 DEF Due, old
<1> QED  BY <1>7 DEF u

LEMMA RefundInit == Init => RefundInv
<1> SUFFICES ASSUME Init, NEW u \in Users PROVE Due(u) = {}
  BY DEF RefundInv, NothingDueLeft
<1>1. order[u] = <<>>
  BY DEF Init
<1>2. Recent(u) = {}
  BY <1>1 DEF Recent
<1> QED  BY <1>2 DEF Due, Triggered

\* What is due to a user depends on the user's window only: on its order, the
\* states of the calls in it and the marks.
LEMMA DueSame ==
  ASSUME NEW u \in Users, order'[u] = order[u], compensated \subseteq compensated',
         \A r \in Recent(u) : logStatus'[r] = logStatus[r]
  PROVE  Due(u)' = Due(u) \ compensated'
<1>1. Recent(u)' = Recent(u)
  BY DEF Recent
<1>2. {r \in Recent(u) : logStatus'[r] = "stream_broken"} = BrokenIn(Recent(u))
  BY DEF BrokenIn
<1>3. BrokenIn(Recent(u))' = BrokenIn(Recent(u))
  BY <1>1, <1>2 DEF BrokenIn
<1>4. Triggered(u)' <=> Triggered(u)
  BY <1>1, <1>3 DEF Triggered
<1> QED  BY <1>3, <1>4 DEF Due

\* Marks only shrink what is due, and only to what is not marked.
LEMMA DueUnmarked ==
  ASSUME NEW u \in Users PROVE Due(u) \cap compensated = {}
  BY DEF Due

\* A step that leaves the logs, the broken calls and the compensation alone.
LEMMA RefundKept ==
  ASSUME TypeOK, RefundInv, UNCHANGED <<logs, comp, restarts>>,
         \A r \in Requests : pc[r] = "broken" => pc'[r] = "broken"
  PROVE  RefundInv'
<1>1. \A u \in Users : Due(u)' = Due(u)
  BY DueSame, DueUnmarked DEF logs
<1> QED  BY <1>1 DEF RefundInv, NothingDueLeft

\* A compensation that starts takes all that is due to its user.
LEMMA RefundStarted ==
  ASSUME TypeOK, LogInv, RefundInv, NEW u \in Users, Unlocked,
         StartCompensation(u), UNCHANGED <<logs, restarts>>,
         \A r \in Requests : Owner[r] # u => (pc[r] = "broken" => pc'[r] = "broken")
  PROVE  RefundInv'
<1> SUFFICES ASSUME ~ StoreErrors, restarts = 0, NEW w \in Users,
                    \A r \in Requests : Owner[r] = w => pc'[r] # "broken"
             PROVE  Due(w)' \subseteq IF comp'.user = w THEN comp'.todo ELSE {}
  BY DEF RefundInv, NothingDueLeft
<1>1. Due(w)' = Due(w)
  BY DueSame, DueUnmarked DEF logs
<1>2. comp.todo = {}
  BY DEF LogInv, RunSound, Unlocked
<1>3. CASE w = u
  <2>1. CASE Due(u) = {}
    BY <1>1, <1>3, <2>1
  <2>2. CASE Due(u) # {}
    <3>1. comp'.user = u /\ comp'.todo = Due(u)
      BY <2>2 DEF StartCompensation
    <3> QED  BY <1>1, <1>3, <3>1
  <2> QED  BY <2>1, <2>2
<1>4. CASE w # u
  <2>1. \A r \in Requests : Owner[r] = w => pc[r] # "broken"
    BY <1>4
  <2>2. Due(w) = {}
    BY <1>2, <2>1 DEF RefundInv, NothingDueLeft
  <2> QED  BY <1>1, <2>2
<1> QED  BY <1>3, <1>4

\* A settlement leaves alone what is due to other users.
LEMMA DueOfOthers ==
  ASSUME TypeOK, LogInv, NEW r \in Requests, NEW status, NEW cost,
         Settle(r, status, cost), NEW u \in Users, u # Owner[r]
  PROVE  Due(u)' = Due(u)
<1>1. /\ pc[r] = "relaying" /\ compensated' = compensated
      /\ logStatus' = [logStatus EXCEPT ![r] = status]
      /\ order' = [order EXCEPT ![Owner[r]] = Append(@, r)]
  BY DEF Settle
<1>2. logStatus[r] = "none"
  BY <1>1 DEF LogInv, UnsettledUnlogged
<1>3. order'[u] = order[u]
  BY <1>1 DEF TypeOK
<1>4. ASSUME NEW s \in Recent(u) PROVE logStatus'[s] = logStatus[s]
  <2>1. order[u] \in Seq(Requests)
    BY DEF TypeOK
  <2>2. s \in Requests /\ logStatus[s] # "none"
    BY <2>1 DEF Recent, LogInv, OrderedAreLogged
  <2> QED  BY <1>1, <1>2, <2>2 DEF TypeOK
<1> QED  BY <1>1, <1>3, <1>4, DueSame, DueUnmarked

\* A settlement of a call that was not cut: the window moves, and nothing of
\* it is due.  A cut call's user waits for its handler to compensate.
LEMMA RefundSettled ==
  ASSUME TypeOK, LogInv, RefundInv, NEW r \in Requests,
         NEW status \in Statuses \ {"none"}, NEW cost \in Nat, Settle(r, status, cost)
  PROVE  RefundInv'
<1>1. /\ Unlocked /\ pc[r] = "relaying" /\ UNCHANGED <<comp, compensated, restarts>>
      /\ logStatus' = [logStatus EXCEPT ![r] = status]
      /\ order' = [order EXCEPT ![Owner[r]] = Append(@, r)]
      /\ pc' = [pc EXCEPT ![r] = IF status = "stream_broken" THEN "broken" ELSE "done"]
  BY DEF Settle
<1>2. logStatus[r] = "none" /\ comp.todo = {}
  BY <1>1 DEF LogInv, UnsettledUnlogged, RunSound, Unlocked
<1> SUFFICES ASSUME ~ StoreErrors, restarts = 0, NEW u \in Users,
                    \A s \in Requests : Owner[s] = u => pc'[s] # "broken"
             PROVE  Due(u)' = {}
  BY <1>1 DEF RefundInv, NothingDueLeft
<1>3. \A s \in Requests : s # r => pc'[s] = pc[s]
  BY <1>1 DEF TypeOK
<1>4. \A s \in Requests : Owner[s] = u => pc[s] # "broken"
  BY <1>1, <1>3
<1>5. Due(u) = {}
  BY <1>1, <1>2, <1>4 DEF RefundInv, NothingDueLeft
<1>6. CASE u = Owner[r]
  <2>1. status # "stream_broken"
    BY <1>1, <1>6 DEF TypeOK
  <2>2. Due(Owner[r])' \subseteq Due(Owner[r])
    BY <1>1, <2>1, SettlingMakesNothingDue
  <2> QED  BY <1>5, <1>6, <2>2
<1>7. CASE u # Owner[r]
  BY <1>5, <1>7, DueOfOthers
<1> QED  BY <1>6, <1>7

LEMMA RefundMarked ==
  ASSUME TypeOK, LogInv, RefundInv, MarkCompensated
  PROVE  RefundInv'
<1>1. PICK r \in comp.todo : /\ compensated' = compensated \cup {r}
                            /\ comp' = [comp EXCEPT !.todo = @ \ {r}]
  BY DEF MarkCompensated
<1>2. UNCHANGED <<logStatus, order, pc, restarts>>
  BY DEF MarkCompensated
<1>3. comp'.user = comp.user /\ comp'.todo = comp.todo \ {r}
  BY <1>1 DEF TypeOK
<1> SUFFICES ASSUME ~ StoreErrors, restarts = 0, NEW u \in Users,
                    \A s \in Requests : Owner[s] = u => pc[s] # "broken"
             PROVE  Due(u)' \subseteq IF comp.user = u THEN comp.todo \ {r} ELSE {}
  BY <1>2, <1>3 DEF RefundInv, NothingDueLeft
<1>4. Due(u) \subseteq IF comp.user = u THEN comp.todo ELSE {}
  BY DEF RefundInv, NothingDueLeft
<1>5. Due(u)' = Due(u) \ compensated'
  BY <1>1, <1>2, DueSame
<1> QED  BY <1>1, <1>4, <1>5

LEMMA RefundStep == TypeOK /\ LogInv /\ RefundInv /\ [Next]_vars => RefundInv'
<1> SUFFICES ASSUME TypeOK, LogInv, RefundInv, [Next]_vars PROVE RefundInv'
  OBVIOUS
<1> USE DEF users, history
<1>0. Owner \in [Requests -> Users] /\ TypeOK' /\ Costs \subseteq Nat /\ BrokenCost \in Nat
  BY TypeStep, QuotaAssumption
<1>1. ASSUME NEW r \in Requests, NEW chars \in PromptSizes,
             Admit(r, chars) \/ Refuse(r, chars)
      PROVE  RefundInv'
  <2>1. UNCHANGED <<logs, comp, restarts>>
    BY <1>1 DEF Admit, Refuse
  <2>2. \A s \in Requests : pc[s] = "broken" => pc'[s] = "broken"
    BY <1>1 DEF Admit, Refuse, TypeOK
  <2> QED  BY <2>1, <2>2, RefundKept
<1>2. ASSUME NEW r \in Requests, Abort(r) \/ LoseSettlement(r)
      PROVE  RefundInv'
  <2>1. UNCHANGED <<logs, comp, restarts>>
    BY <1>2 DEF Abort, LoseSettlement
  <2>2. \A s \in Requests : pc[s] = "broken" => pc'[s] = "broken"
    BY <1>2 DEF Abort, LoseSettlement, TypeOK
  <2> QED  BY <2>1, <2>2, RefundKept
<1>3. ASSUME NEW r \in Requests, Finish(r)
      PROVE  RefundInv'
  <2>1. \A status \in Statuses \ {"none"}, cost \in Nat :
           Settle(r, status, cost) => RefundInv'
    BY RefundSettled
  <2> QED  BY <1>0, <1>2, <1>3, <2>1
           DEF Finish, SettleSuccess, SettleFailed, SettleBroken, Statuses
<1>4. ASSUME NEW r \in Requests, CompensateAfterBreak(r)
      PROVE  RefundInv'
  <2>1. CASE StoreErrors
    BY <2>1 DEF RefundInv
  <2>2. CASE ~ StoreErrors
    <3>1. /\ Unlocked /\ StartCompensation(Owner[r]) /\ UNCHANGED <<logs, restarts>>
          /\ pc' = [pc EXCEPT ![r] = "done"]
      BY <1>4, <2>2 DEF CompensateAfterBreak
    <3>2. \A s \in Requests : Owner[s] # Owner[r] =>
                                (pc[s] = "broken" => pc'[s] = "broken")
      BY <3>1 DEF TypeOK
    <3> QED  BY <1>0, <3>1, <3>2, RefundStarted
  <2> QED  BY <2>1, <2>2
<1>5. ASSUME NEW u \in Users, AdminCompensate(u)
      PROVE  RefundInv'
  BY <1>5, RefundStarted DEF AdminCompensate
<1>6. CASE CreditQuota
  <2>1. /\ UNCHANGED <<logs, pc, restarts>> /\ comp' = NoComp /\ comp.todo = {}
    BY <1>6 DEF CreditQuota
  <2>2. \A u \in Users : Due(u)' = Due(u)
    BY <2>1, DueSame, DueUnmarked DEF logs
  <2>3. \A u \in Users : (IF comp.user = u THEN comp.todo ELSE {}) = {}
    BY <2>1
  <2> QED  BY <2>1, <2>2, <2>3 DEF RefundInv, NothingDueLeft
<1>7. CASE FailCompensation
  BY <1>7 DEF FailCompensation, RefundInv
<1>8. ASSUME NEW u \in Users, SetQuotaTotal(u) \/ AddQuotaCredit(u)
      PROVE  RefundInv'
  <2>1. UNCHANGED <<logs, comp, restarts, pc>>
    BY <1>8 DEF SetQuotaTotal, AddQuotaCredit, SetTotal
  <2> QED  BY <2>1, RefundKept
<1>9. CASE Restart
  <2>1. restarts' # 0
    BY <1>9 DEF Restart, TypeOK
  <2> QED  BY <2>1 DEF RefundInv
<1>10. CASE UNCHANGED vars
  <2>1. UNCHANGED <<logs, comp, restarts, pc>>
    BY <1>10 DEF vars
  <2> QED  BY <2>1, RefundKept
<1> QED
  BY <1>1, <1>3, <1>4, <1>5, <1>6, <1>7, <1>8, <1>9, <1>10, RefundMarked DEF Next

\* What was owed at a settlement is still due, or marked, or was dropped by a
\* later settlement of the same user.
OwedKept == \A r \in owed : r \in Due(Owner[r]) \cup compensated \cup dropped

\* What is marked was credited, or the running compensation will credit it.
MarkPaid == compensated \subseteq refunded \cup comp.ids

OwedInv == (~ StoreErrors /\ restarts = 0) => OwedKept /\ MarkPaid

\* A step that leaves the logs, the marks and the history of refunds alone.
LEMMA OwedSame ==
  ASSUME OwedInv, UNCHANGED <<logs, comp, restarts, refunded, owed, dropped>>, TypeOK
  PROVE  OwedInv'
<1>1. \A u \in Users : Due(u)' = Due(u)
  BY DueSame, DueUnmarked DEF logs
<1>2. \A r \in owed : Owner[r] \in Users
  BY QuotaAssumption DEF TypeOK
<1> QED  BY <1>1, <1>2 DEF OwedInv, OwedKept, MarkPaid, logs

\* What falls due at a settlement is recorded as owed; what stops being due at
\* one is recorded as dropped.
LEMMA OwedSettled ==
  ASSUME TypeOK, LogInv, LogInv', OwedInv, NEW r \in Requests, NEW status, NEW cost,
         Settle(r, status, cost)
  PROVE  OwedInv'
<1> SUFFICES ASSUME ~ StoreErrors, restarts = 0 PROVE OwedKept' /\ MarkPaid'
  BY DEF Settle, OwedInv
<1>1. OwedKept /\ MarkPaid
  BY DEF OwedInv
<1>2. /\ UNCHANGED <<compensated, comp, refunded>>
      /\ owed' = owed \cup Due(Owner[r])'
      /\ dropped' = dropped \cup (Due(Owner[r]) \ Due(Owner[r])')
  BY DEF Settle
<1>3. MarkPaid'
  BY <1>1, <1>2 DEF MarkPaid
<1>4. \A u \in Users : u # Owner[r] => Due(u)' = Due(u)
  BY DueOfOthers
<1>5. ASSUME NEW x \in Due(Owner[r])' PROVE Owner[x] = Owner[r]
  <2>1. Owner[r] \in Users
    BY QuotaAssumption
  <2> QED  BY <1>5, <2>1 DEF Due, BrokenIn, Recent, LogInv, OrderedAreLogged
<1>6. ASSUME NEW x \in owed PROVE x \in Due(Owner[x])' \cup compensated' \cup dropped'
  <2>1. Owner[x] \in Users /\ x \in Due(Owner[x]) \cup compensated \cup dropped
    BY <1>1, QuotaAssumption DEF OwedKept, TypeOK
  <2>2. CASE Owner[x] = Owner[r]
    BY <1>2, <2>1, <2>2
  <2>3. CASE Owner[x] # Owner[r]
    BY <1>2, <1>4, <2>1, <2>3
  <2> QED  BY <2>2, <2>3
<1>7. ASSUME NEW x \in owed' PROVE x \in Due(Owner[x])' \cup compensated' \cup dropped'
  BY <1>2, <1>5, <1>6, <1>7
<1>8. OwedKept'
  BY <1>7 DEF OwedKept
<1> QED  BY <1>3, <1>8

LEMMA OwedStep == TypeOK /\ LogInv /\ OwedInv /\ [Next]_vars => OwedInv'
<1> SUFFICES ASSUME TypeOK, LogInv, OwedInv, [Next]_vars PROVE OwedInv'
  OBVIOUS
<1> USE DEF users, history
<1>0. LogInv'
  BY LogStep
<1>1. ASSUME NEW r \in Requests, NEW chars \in PromptSizes,
             Admit(r, chars) \/ Refuse(r, chars)
      PROVE  OwedInv'
  BY <1>1, OwedSame DEF Admit, Refuse
<1>2. ASSUME NEW r \in Requests, Finish(r)
      PROVE  OwedInv'
  <2>1. \A status, cost : Settle(r, status, cost) => OwedInv'
    BY <1>0, OwedSettled
  <2>2. ASSUME Abort(r) \/ LoseSettlement(r) PROVE OwedInv'
    BY <2>2, OwedSame DEF Abort, LoseSettlement
  <2> QED  BY <1>2, <2>1, <2>2 DEF Finish, SettleSuccess, SettleFailed, SettleBroken
<1>3. ASSUME NEW u \in Users, Unlocked, StartCompensation(u),
             UNCHANGED <<logs, restarts, history>>
      PROVE  OwedInv'
  <2>1. comp.ids = {}
    BY <1>3 DEF LogInv, RunSound, Unlocked
  <2>2. \A w \in Users : Due(w)' = Due(w)
    BY <1>3, DueSame, DueUnmarked DEF logs
  <2>3. \A r \in owed : Owner[r] \in Users
    BY QuotaAssumption DEF TypeOK
  <2> QED  BY <1>3, <2>1, <2>2, <2>3 DEF OwedInv, OwedKept, MarkPaid, logs
<1>4. ASSUME NEW r \in Requests, CompensateAfterBreak(r)
      PROVE  OwedInv'
  <2>1. CASE StoreErrors
    BY <2>1 DEF OwedInv
  <2>2. CASE ~ StoreErrors
    <3>1. /\ Unlocked /\ StartCompensation(Owner[r]) /\ Owner[r] \in Users
          /\ UNCHANGED <<logs, restarts, history>>
      BY <1>4, <2>2, QuotaAssumption DEF CompensateAfterBreak
    <3> QED  BY <1>3, <3>1
  <2> QED  BY <2>1, <2>2
<1>5. ASSUME NEW u \in Users, AdminCompensate(u)
      PROVE  OwedInv'
  BY <1>3, <1>5 DEF AdminCompensate
<1>6. CASE MarkCompensated
  <2>1. PICK r \in comp.todo : /\ compensated' = compensated \cup {r}
                              /\ comp' = [comp EXCEPT !.todo = @ \ {r}]
    BY <1>6 DEF MarkCompensated
  <2>2. UNCHANGED <<logStatus, order, restarts, refunded, owed, dropped>>
    BY <1>6 DEF MarkCompensated
  <2>3. comp'.ids = comp.ids /\ r \in comp.ids
    BY <2>1 DEF TypeOK, LogInv, RunSound
  <2>4. \A u \in Users : Due(u)' = Due(u) \ compensated'
    BY <2>1, <2>2, DueSame
  <2>5. \A x \in owed : Owner[x] \in Users
    BY QuotaAssumption DEF TypeOK
  <2> QED  BY <2>1, <2>2, <2>3, <2>4, <2>5 DEF OwedInv, OwedKept, MarkPaid
<1>7. CASE CreditQuota
  <2>1. /\ UNCHANGED <<logs, restarts, owed, dropped>>
        /\ comp' = NoComp /\ refunded' = refunded \cup comp.ids
    BY <1>7 DEF CreditQuota
  <2>2. \A u \in Users : Due(u)' = Due(u)
    BY <2>1, DueSame, DueUnmarked DEF logs
  <2>3. \A x \in owed : Owner[x] \in Users
    BY QuotaAssumption DEF TypeOK
  <2> QED  BY <2>1, <2>2, <2>3 DEF OwedInv, OwedKept, MarkPaid, logs
<1>8. CASE FailCompensation
  BY <1>8 DEF FailCompensation, OwedInv
<1>9. ASSUME NEW u \in Users, SetQuotaTotal(u) \/ AddQuotaCredit(u)
      PROVE  OwedInv'
  BY <1>9, OwedSame DEF SetQuotaTotal, AddQuotaCredit, SetTotal
<1>10. CASE Restart
  <2>1. restarts' # 0
    BY <1>10 DEF Restart, TypeOK
  <2> QED  BY <2>1 DEF OwedInv
<1>11. CASE UNCHANGED vars
  BY <1>11, OwedSame DEF vars
<1> QED
  BY <1>1, <1>2, <1>4, <1>5, <1>6, <1>7, <1>8, <1>9, <1>10, <1>11 DEF Next

\* While statements do not fail and the process stays up: once no call of the
\* user is between its settlement and its compensation, and no compensation
\* runs, nothing in the user's window is due, and every log that fell due at a
\* settlement was credited, unless a later settlement of the user took it out
\* of the window or the rate below the threshold before the compensation came.
\* For every window, threshold and interleaving.
THEOREM NoRefundIsMissed == Spec => []NoMissedRefund
<1>1. Init => TypeOK /\ LogInv /\ RefundInv /\ OwedInv
  BY TypeInit, LogInit, RefundInit DEF Init, OwedInv, OwedKept, MarkPaid
<1>2. TypeOK /\ LogInv /\ RefundInv /\ OwedInv /\ [Next]_vars
        => (TypeOK /\ LogInv /\ RefundInv /\ OwedInv)'
  BY TypeStep, LogStep, RefundStep, OwedStep
<1>3. TypeOK /\ LogInv /\ RefundInv /\ OwedInv => NoMissedRefund
  <2> SUFFICES ASSUME TypeOK, LogInv, RefundInv, OwedInv,
                      ~ StoreErrors, restarts = 0, Unlocked
               PROVE  /\ \A u \in Users : Waiting(u) = {} => Due(u) = {}
                      /\ \A r \in owed : Waiting(Owner[r]) = {}
                                            => r \in refunded \cup dropped
    BY DEF NoMissedRefund
  <2>1. comp.ids = {} /\ comp.todo = {}
    BY DEF LogInv, RunSound, Unlocked
  <2>2. ASSUME NEW u \in Users, Waiting(u) = {} PROVE Due(u) = {}
    BY <2>1, <2>2 DEF RefundInv, NothingDueLeft, Waiting
  <2>3. ASSUME NEW r \in owed, Waiting(Owner[r]) = {}
        PROVE  r \in refunded \cup dropped
    <3>1. Owner[r] \in Users
      BY QuotaAssumption DEF TypeOK
    <3>2. Due(Owner[r]) = {}
      BY <2>2, <2>3, <3>1
    <3> QED  BY <2>1, <3>2 DEF OwedInv, OwedKept, MarkPaid
  <2> QED  BY <2>2, <2>3
<1> QED  BY <1>1, <1>2, <1>3, PTL DEF Spec

-----------------------------------------------------------------------------
\* The billing core implements Billing

BillInv == TypeOK /\ LogInv /\ HoldsAccounted /\ UsedIsLedger

Phases == [r \in Requests |-> BillingPhase(r)]

\* The phases of the calls that a log and no refund, or no log, decide.
LEMMA PhaseValues ==
  ASSUME TypeOK, LogInv, NEW r \in Requests
  PROVE  /\ BillingPhase(r) = "refunded" <=> r \in refunded
         /\ BillingPhase(r) = "cut" <=> logStatus[r] = "stream_broken" /\ r \notin refunded
         /\ BillingPhase(r) = "new" <=> pc[r] = "arrived"
         /\ BillingPhase(r) = "held" <=> pc[r] \in {"relaying", "unsettled"}
<1>1. r \in refunded => logStatus[r] = "stream_broken"
  BY DEF LogInv, RefundsAreMarked
<1>2. pc[r] \in {"arrived", "refused", "relaying", "unsettled"} => logStatus[r] = "none"
  BY DEF LogInv, UnsettledUnlogged
<1>3. logStatus[r] \in Statuses /\ pc[r] \in PCs
  BY DEF TypeOK
<1> QED  BY <1>1, <1>2, <1>3 DEF BillingPhase, Statuses, PCs

\* A call keeps its phase when its log, its refund and its handler's place
\* before the log stay.
LEMMA PhaseKept ==
  ASSUME NEW r \in Requests, logStatus'[r] = logStatus[r],
         r \in refunded' <=> r \in refunded, pc'[r] = pc[r]
  PROVE  BillingPhase(r)' = BillingPhase(r)
  BY DEF BillingPhase

\* Billing's sums are this module's.
LEMMA SumAgrees == \A f, S : B!SumOver(f, S) = SumOver(f, S)
<1> SUFFICES ASSUME NEW f, NEW S PROVE B!SumOver(f, S) = SumOver(f, S)
  OBVIOUS
<1>1. B!Units(f, S) = Units(f, S)
  BY DEF B!Units, Units
<1> QED  BY <1>1 DEF B!SumOver, SumOver, B!Cardinality, Cardinality

LEMMA BillStutter ==
  ASSUME UNCHANGED <<held, logCost, reserved, used>>,
         \A r \in Requests : BillingPhase(r)' = BillingPhase(r)
  PROVE  UNCHANGED B!bvars
  BY DEF B!bvars

LEMMA BillInit == Init => B!BillingInit
<1> SUFFICES ASSUME Init PROVE B!BillingInit
  OBVIOUS
<1>1. \A r \in Requests : BillingPhase(r) = "new"
  BY DEF Init, BillingPhase
<1> QED  BY <1>1 DEF Init, B!BillingInit

LEMMA BillHold ==
  ASSUME BillInv, NEW r \in Requests, NEW chars \in PromptSizes, Admit(r, chars)
  PROVE  B!Hold(r)
<1> DEFINE amount == Reservation(chars)
<1>1. /\ pc[r] = "arrived" /\ pc' = [pc EXCEPT ![r] = "relaying"]
      /\ held' = [held EXCEPT ![r] = amount]
      /\ reserved' = [reserved EXCEPT ![Owner[r]] = @ + amount]
      /\ UNCHANGED <<used, logStatus, logCost, refunded>>
  BY DEF Admit, users, logs, history
<1>2. amount \in 1 .. MaxReservation
  BY ReservationBounds
<1>3. TypeOK /\ LogInv
  BY DEF BillInv
<1>4. BillingPhase(r) = "new" /\ logStatus[r] = "none" /\ r \notin refunded
  BY <1>1, <1>3, PhaseValues DEF LogInv, UnsettledUnlogged, RefundsAreMarked
<1>5. BillingPhase(r)' = "held"
  BY <1>1, <1>3, <1>4 DEF BillingPhase, TypeOK
<1>6. \A s \in Requests : s # r => BillingPhase(s)' = BillingPhase(s)
  BY <1>1, <1>3, PhaseKept DEF TypeOK
<1>7. Phases' = [Phases EXCEPT ![r] = "held"]
  BY <1>5, <1>6 DEF Phases
<1> HIDE DEF amount
<1> QED  BY <1>1, <1>2, <1>4, <1>7 DEF B!Hold, Phases

LEMMA BillTurn ==
  ASSUME BillInv, NEW r \in Requests, NEW chars \in PromptSizes, Refuse(r, chars)
  PROVE  B!Turn(r)
<1>1. /\ pc[r] = "arrived" /\ pc' = [pc EXCEPT ![r] = "refused"]
      /\ UNCHANGED <<held, reserved, used, logStatus, logCost, refunded>>
  BY DEF Refuse, users, logs, history
<1>2. TypeOK /\ LogInv
  BY DEF BillInv
<1>3. BillingPhase(r) = "new" /\ logStatus[r] = "none" /\ r \notin refunded
  BY <1>1, <1>2, PhaseValues DEF LogInv, UnsettledUnlogged, RefundsAreMarked
<1>4. BillingPhase(r)' = "refused"
  BY <1>1, <1>2, <1>3 DEF BillingPhase, TypeOK
<1>5. \A s \in Requests : s # r => BillingPhase(s)' = BillingPhase(s)
  BY <1>1, <1>2, PhaseKept DEF TypeOK
<1>6. Phases' = [Phases EXCEPT ![r] = "refused"]
  BY <1>4, <1>5 DEF Phases
<1> QED  BY <1>1, <1>3, <1>6 DEF B!Turn, Phases

\* The balance covers the hold of a call that holds: the floor is exact.
LEMMA HoldCovered ==
  ASSUME TypeOK, HoldsAccounted, NEW r \in Requests, pc[r] = "relaying"
  PROVE  Lowered(reserved[Owner[r]], held[r]) = reserved[Owner[r]] - held[r]
<1> DEFINE u == Owner[r]
<1>1. u \in Users /\ r \in Holding(u) /\ Holding(u) \in SUBSET Requests
      /\ IsFiniteSet(Holding(u)) /\ held \in [Requests -> Nat]
  BY QuotaAssumption, RequestsFinite, HeldType DEF Holding
<1>2. /\ SumOver(held, Holding(u)) = SumOver(held, Holding(u) \ {r}) + held[r]
      /\ SumOver(held, Holding(u) \ {r}) \in Nat
  BY <1>1, SumRemove
<1>3. reserved[u] = SumOver(held, Holding(u)) /\ held[r] \in Nat
  BY <1>1 DEF HoldsAccounted
<1>4. reserved[u] \in Nat /\ reserved[u] >= held[r]
  BY <1>1, <1>2, <1>3
<1> HIDE DEF u
<1>5. Lowered(reserved[u], held[r]) = reserved[u] - held[r]
  BY <1>3, <1>4 DEF Lowered
<1> QED  BY <1>5 DEF u

LEMMA BillCharge ==
  ASSUME BillInv, NEW r \in Requests, NEW status \in Statuses \ {"none"},
         NEW cost \in Costs \cup {0, BrokenCost}, Settle(r, status, cost)
  PROVE  B!Charge(r)
<1>1. /\ pc[r] = "relaying"
      /\ pc' = [pc EXCEPT ![r] = IF status = "stream_broken" THEN "broken" ELSE "done"]
      /\ logStatus' = [logStatus EXCEPT ![r] = status]
      /\ logCost' = [logCost EXCEPT ![r] = cost]
      /\ used' = [used EXCEPT ![Owner[r]] = @ + cost]
      /\ reserved' = [reserved EXCEPT ![Owner[r]] = Lowered(@, held[r])]
      /\ UNCHANGED <<held, refunded>>
  BY DEF Settle, history
<1>2. TypeOK /\ LogInv /\ HoldsAccounted /\ Owner \in [Requests -> Users]
  BY QuotaAssumption DEF BillInv
<1>3. BillingPhase(r) = "held" /\ r \notin refunded
  BY <1>1, <1>2, PhaseValues DEF LogInv, UnsettledUnlogged, RefundsAreMarked
<1>4. BillingPhase(r)' = IF status = "stream_broken" THEN "cut" ELSE "charged"
  <2>1. logStatus'[r] = status /\ r \notin refunded'
    BY <1>1, <1>2, <1>3 DEF TypeOK
  <2> QED  BY <2>1 DEF BillingPhase, Statuses
<1>5. \A s \in Requests : s # r => BillingPhase(s)' = BillingPhase(s)
  BY <1>1, <1>2, PhaseKept DEF TypeOK
<1>6. Phases' \in {[Phases EXCEPT ![r] = p] : p \in {"charged", "cut"}}
  BY <1>4, <1>5 DEF Phases
<1>7. reserved' = [reserved EXCEPT ![Owner[r]] = @ - held[r]]
  BY <1>1, <1>2, HoldCovered
<1> QED  BY <1>1, <1>3, <1>6, <1>7 DEF B!Charge, Phases

\* A panic voids the call, a restart every call that holds.
LEMMA BillAbort ==
  ASSUME BillInv, NEW r \in Requests, Abort(r)
  PROVE  B!Void
<1>1. /\ pc[r] = "relaying" /\ pc' = [pc EXCEPT ![r] = "done"]
      /\ reserved' = [reserved EXCEPT ![Owner[r]] = Lowered(@, held[r])]
      /\ UNCHANGED <<held, used, logStatus, logCost, refunded>>
  BY DEF Abort, logs, history
<1>2. TypeOK /\ LogInv /\ HoldsAccounted /\ Owner \in [Requests -> Users]
  BY QuotaAssumption DEF BillInv
<1>3. BillingPhase(r) = "held" /\ logStatus[r] = "none" /\ r \notin refunded
  BY <1>1, <1>2, PhaseValues DEF LogInv, UnsettledUnlogged, RefundsAreMarked
<1>4. BillingPhase(r)' = "void"
  BY <1>1, <1>2, <1>3 DEF BillingPhase, TypeOK
<1>5. \A s \in Requests : s # r => BillingPhase(s)' = BillingPhase(s)
  BY <1>1, <1>2, PhaseKept DEF TypeOK
<1>6. Phases' = [s \in Requests |-> IF s \in {r} THEN "void" ELSE Phases[s]]
  BY <1>4, <1>5 DEF Phases
<1>7. reserved' = [u \in Users |-> reserved[u] - SumOver(held, B!Of(u, {r}))]
  <2>1. reserved' \in [Users -> Nat] /\ reserved \in [Users -> Nat]
    BY <1>1, <1>2, HoldCovered, LoweredType, HeldType DEF TypeOK
  <2>2. ASSUME NEW u \in Users PROVE reserved'[u] = reserved[u] - SumOver(held, B!Of(u, {r}))
    <3>1. CASE u = Owner[r]
      <4>1. B!Of(u, {r}) = {r}
        BY <3>1 DEF B!Of
      <4>2. SumOver(held, {r}) = held[r]
        BY <1>2, HeldType, SumSingleton
      <4> QED  BY <1>1, <1>2, <2>1, <3>1, <4>1, <4>2, HoldCovered
    <3>2. CASE u # Owner[r]
      <4>1. B!Of(u, {r}) = {}
        BY <3>2 DEF B!Of
      <4>2. SumOver(held, {}) = 0
        BY SumEmpty
      <4>3. reserved'[u] = reserved[u] /\ reserved[u] \in Nat
        BY <1>1, <2>1, <3>2
      <4>4. reserved[u] = reserved[u] - 0
        BY <4>3
      <4> QED  BY <4>1, <4>2, <4>3, <4>4
    <3> QED  BY <3>1, <3>2
  <2> QED  BY <2>1, <2>2
<1>8. {r} \in SUBSET {s \in Requests : Phases[s] = "held"}
  BY <1>3 DEF Phases
<1>9. UNCHANGED <<held, logCost, used>>
  BY <1>1
<1>10. \E T \in SUBSET {s \in Requests : Phases[s] = "held"} :
          /\ Phases' = [s \in Requests |-> IF s \in T THEN "void" ELSE Phases[s]]
          /\ reserved' = [u \in Users |-> reserved[u] - B!SumOver(held, B!Of(u, T))]
          /\ UNCHANGED <<held, logCost, used>>
  BY <1>6, <1>7, <1>8, <1>9, SumAgrees
<1> QED  BY <1>10 DEF B!Void, Phases

LEMMA BillRestart ==
  ASSUME BillInv, Restart
  PROVE  B!Void
<1> DEFINE S == {r \in Requests : pc[r] \in {"relaying", "unsettled"}}
<1>1. /\ pc' = [r \in Requests |->
                  IF pc[r] \in {"relaying", "broken", "unsettled"} THEN "lost" ELSE pc[r]]
      /\ reserved' = [u \in Users |-> 0]
      /\ UNCHANGED <<held, used, logStatus, logCost, refunded>>
  BY DEF Restart, logs, history
<1>2. TypeOK /\ LogInv /\ HoldsAccounted
  BY DEF BillInv
<1>3. ASSUME NEW r \in S PROVE BillingPhase(r)' = "void" /\ BillingPhase(r) = "held"
  <2>1. BillingPhase(r) = "held" /\ logStatus[r] = "none" /\ r \notin refunded
    BY <1>2, PhaseValues DEF LogInv, UnsettledUnlogged, RefundsAreMarked
  <2> QED  BY <1>1, <2>1 DEF BillingPhase
<1>4. ASSUME NEW r \in Requests \ S PROVE BillingPhase(r)' = BillingPhase(r)
  <2>1. CASE pc[r] # "broken"
    BY <1>1, <2>1, PhaseKept
  <2>2. CASE pc[r] = "broken"
    BY <1>1, <2>2 DEF BillingPhase
  <2> QED  BY <2>1, <2>2
<1>5. Phases' = [r \in Requests |-> IF r \in S THEN "void" ELSE Phases[r]]
  BY <1>3, <1>4 DEF Phases
<1>6. reserved' = [u \in Users |-> reserved[u] - SumOver(held, B!Of(u, S))]
  <2>1. ASSUME NEW u \in Users PROVE 0 = reserved[u] - SumOver(held, B!Of(u, S))
    <3>1. B!Of(u, S) = Holding(u)
      BY DEF B!Of, Holding
    <3>2. reserved[u] = SumOver(held, Holding(u)) /\ reserved[u] \in Nat
      BY <1>2 DEF HoldsAccounted, TypeOK
    <3> QED  BY <3>1, <3>2
  <2> QED  BY <1>1, <2>1
<1>7. S \in SUBSET {s \in Requests : Phases[s] = "held"}
  BY <1>3 DEF Phases
<1> HIDE DEF S
<1>8. UNCHANGED <<held, logCost, used>>
  BY <1>1
<1>9. \E T \in SUBSET {s \in Requests : Phases[s] = "held"} :
         /\ Phases' = [s \in Requests |-> IF s \in T THEN "void" ELSE Phases[s]]
         /\ reserved' = [u \in Users |-> reserved[u] - B!SumOver(held, B!Of(u, T))]
         /\ UNCHANGED <<held, logCost, used>>
  BY <1>5, <1>6, <1>7, <1>8, SumAgrees
<1> QED  BY <1>9 DEF B!Void, Phases

LEMMA BillRefund ==
  ASSUME BillInv, CreditQuota
  PROVE  B!Refund(comp.user)
<1> DEFINE S == comp.ids
           u == comp.user
<1>1. /\ used' = [used EXCEPT ![u] = Lowered(@, SumOver(logCost, S))]
      /\ refunded' = refunded \cup S
      /\ UNCHANGED <<held, reserved, logStatus, logCost, pc>>
  BY DEF CreditQuota, logs
<1>2. TypeOK /\ LogInv /\ UsedIsLedger
  BY DEF BillInv
<1>3. /\ S \in SUBSET Requests /\ u \in Users
      /\ \A r \in S : Owner[r] = u /\ logStatus[r] = "stream_broken" /\ r \notin refunded
  BY <1>2 DEF TypeOK, LogInv, RunSound
<1>4. \A r \in S : BillingPhase(r) = "cut" /\ BillingPhase(r)' = "refunded"
  BY <1>1, <1>3 DEF BillingPhase
<1>5. \A r \in Requests \ S : BillingPhase(r)' = BillingPhase(r)
  BY <1>1, PhaseKept
<1>6. Phases' = [r \in Requests |-> IF r \in S THEN "refunded" ELSE Phases[r]]
  BY <1>4, <1>5 DEF Phases
<1>7. Lowered(used[u], SumOver(logCost, S)) = used[u] - SumOver(logCost, S)
  <2>1. S \in SUBSET Net(u)
    BY <1>2, CreditLogs
  <2>2. /\ SumOver(logCost, Net(u)) = SumOver(logCost, Net(u) \ S) + SumOver(logCost, S)
        /\ SumOver(logCost, S) \in Nat /\ SumOver(logCost, Net(u) \ S) \in Nat
    BY <1>2, <1>3, <2>1, NetFinite, SumSubset, logCost \in [Requests -> Nat] DEF TypeOK
  <2>3. used[u] = SumOver(logCost, Net(u))
    BY <1>2, <1>3 DEF UsedIsLedger, Net
  <2> HIDE DEF S, u
  <2>4. used[u] \in Nat /\ used[u] >= SumOver(logCost, S)
    BY <2>2, <2>3
  <2> QED  BY <2>2, <2>4 DEF Lowered
<1>8. S \in SUBSET {r \in B!Of(u, Requests) : Phases[r] = "cut"}
  BY <1>3, <1>4 DEF Phases, B!Of
<1>9. used' = [used EXCEPT ![u] = @ - SumOver(logCost, S)]
  BY <1>1, <1>7
<1> HIDE DEF S, u
<1>10. UNCHANGED <<held, logCost, reserved>>
  BY <1>1
<1>11. \E T \in SUBSET {r \in B!Of(u, Requests) : Phases[r] = "cut"} :
          /\ Phases' = [r \in Requests |-> IF r \in T THEN "refunded" ELSE Phases[r]]
          /\ used' = [used EXCEPT ![u] = @ - B!SumOver(logCost, T)]
          /\ UNCHANGED <<held, logCost, reserved>>
  BY <1>6, <1>8, <1>9, <1>10, SumAgrees
<1>12. B!Refund(u)
  BY <1>11 DEF B!Refund, Phases
<1> QED  BY <1>12 DEF u

LEMMA BillStep == BillInv /\ [Next]_vars => [B!BillingNext]_(B!bvars)
<1> SUFFICES ASSUME BillInv, [Next]_vars PROVE B!BillingNext \/ UNCHANGED B!bvars
  OBVIOUS
<1> USE DEF users, logs, history
<1>0. comp.user \in Users /\ TypeOK /\ LogInv /\ Owner \in [Requests -> Users]
  BY QuotaAssumption DEF BillInv, TypeOK
<1>1. ASSUME NEW r \in Requests, NEW chars \in PromptSizes, Admit(r, chars)
      PROVE  B!BillingNext
  BY <1>1, BillHold DEF B!BillingNext
<1>2. ASSUME NEW r \in Requests, NEW chars \in PromptSizes, Refuse(r, chars)
      PROVE  B!BillingNext
  BY <1>2, BillTurn DEF B!BillingNext
<1>3. ASSUME NEW r \in Requests,
             SettleSuccess(r) \/ SettleFailed(r) \/ SettleBroken(r)
      PROVE  B!BillingNext
  <2>1. PICK status \in Statuses \ {"none"}, cost \in Costs \cup {0, BrokenCost} :
           Settle(r, status, cost)
    BY <1>3 DEF SettleSuccess, SettleFailed, SettleBroken, Statuses
  <2>2. B!Charge(r)
    BY <2>1, BillCharge
  <2> QED  BY <2>2 DEF B!BillingNext
<1>4. ASSUME NEW r \in Requests, Abort(r)
      PROVE  B!BillingNext
  BY <1>4, BillAbort DEF B!BillingNext
<1>5. ASSUME NEW r \in Requests, LoseSettlement(r) \/ CompensateAfterBreak(r)
      PROVE  UNCHANGED B!bvars
  <2>1. UNCHANGED <<held, logCost, reserved, used, logStatus, refunded>>
    BY <1>5 DEF LoseSettlement, CompensateAfterBreak
  <2>2. ASSUME NEW s \in Requests PROVE BillingPhase(s)' = BillingPhase(s)
    <3>1. CASE s # r
      <4>1. pc'[s] = pc[s]
        BY <1>0, <1>5, <3>1 DEF LoseSettlement, CompensateAfterBreak, TypeOK
      <4> QED  BY <2>1, <4>1, PhaseKept
    <3>2. CASE s = r
      <4>1. \/ pc[s] = "relaying" /\ pc'[s] = "unsettled"
            \/ pc[s] = "broken" /\ pc'[s] = "done"
        BY <1>0, <1>5, <3>2 DEF LoseSettlement, CompensateAfterBreak, TypeOK
      <4> QED  BY <2>1, <4>1 DEF BillingPhase
    <3> QED  BY <3>1, <3>2
  <2> QED  BY <2>1, <2>2, BillStutter
<1>6. ASSUME UNCHANGED <<held, logCost, reserved, used, logStatus, refunded, pc>>
      PROVE  UNCHANGED B!bvars
  BY <1>6, PhaseKept, BillStutter
<1>7. ASSUME NEW u \in Users, AdminCompensate(u) \/ SetQuotaTotal(u) \/ AddQuotaCredit(u)
      PROVE  UNCHANGED B!bvars
  BY <1>6, <1>7 DEF AdminCompensate, SetQuotaTotal, AddQuotaCredit, SetTotal
<1>8. ASSUME MarkCompensated \/ FailCompensation \/ UNCHANGED vars
      PROVE  UNCHANGED B!bvars
  BY <1>6, <1>8 DEF MarkCompensated, FailCompensation, vars
<1>9. CASE CreditQuota
  BY <1>0, <1>9, BillRefund DEF B!BillingNext
<1>10. CASE Restart
  BY <1>10, BillRestart DEF B!BillingNext
<1>11. ASSUME NEW r \in Requests, Finish(r)
       PROVE  B!BillingNext \/ UNCHANGED B!bvars
  BY <1>3, <1>4, <1>5, <1>11 DEF Finish
<1> QED
  BY <1>1, <1>2, <1>5, <1>7, <1>8, <1>9, <1>10, <1>11 DEF Next

\* The billing core implements what billing promises: with balance columns
\* lowered to a floor, marks, lost statements and restarts, every step still
\* is one exact movement of Billing, or nothing Billing can see.
THEOREM QuotaImplementsBilling == Spec => ImplementsBilling
<1>1. Init => BillInv /\ B!BillingInit
  BY TypeInit, LogInit, HoldsInit, UsedInit, BillInit DEF BillInv
<1>2. BillInv /\ [Next]_vars => BillInv'
  BY TypeStep, LogStep, HoldsStep, UsedStep DEF BillInv
<1>3. BillInv /\ [Next]_vars => [B!BillingNext]_(B!bvars)
  BY BillStep
<1> QED  BY <1>1, <1>2, <1>3, PTL DEF Spec, ImplementsBilling
=============================================================================
