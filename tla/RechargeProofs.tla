--------------------------- MODULE RechargeProofs ---------------------------
(* Theorems about recharging, for any users, packages, keys and orders, with *)
(* failing statements, repeated notifications and any number of restarts.    *)
EXTENDS Recharge, FiniteSetTheorems, FunctionTheorems, TLAPS

\* Sets of orders are finite.
LEMMA OrdersFinite ==
  ASSUME NEW S \in SUBSET OrderIds
  PROVE  IsFiniteSet(S)
  BY FS_Subset, RechargeAssumption

-----------------------------------------------------------------------------
\* Sums of credits

\* An order carries its credit, and finitely many orders finitely many units.
LEMMA UnitsOfOrder ==
  ASSUME NEW o, NEW n \in Nat
  PROVE  IsFiniteSet({o} \X (1 .. n)) /\ Cardinality({o} \X (1 .. n)) = n
<1>1. IsFiniteSet({o}) /\ Cardinality({o}) = 1
  BY FS_Singleton
<1>2. IsFiniteSet(1 .. n) /\ Cardinality(1 .. n) = n
  BY FS_Interval
<1>3. /\ IsFiniteSet({o} \X (1 .. n))
      /\ Cardinality({o} \X (1 .. n)) = Cardinality({o}) * Cardinality(1 .. n)
  BY <1>1, <1>2, FS_Product
<1>4. 1 * n = n
  OBVIOUS
<1> QED  BY <1>1, <1>2, <1>3, <1>4

LEMMA SumOfOrders ==
  ASSUME NEW f \in [OrderIds -> Nat], NEW S \in SUBSET OrderIds
  PROVE  IsFiniteSet(Units(f, S)) /\ SumOver(f, S) \in Nat
<1> DEFINE C == {{o} \X (1 .. f[o]) : o \in S}
           g == [o \in S |-> {o} \X (1 .. f[o])]
<1>1. g \in Surjection(S, C)
  BY DEF Surjection
<1>2. IsFiniteSet(C)
  BY <1>1, OrdersFinite, FS_Surjection
<1>3. \A X \in C : IsFiniteSet(X)
  <2> TAKE X \in C
  <2>1. PICK o \in S : X = {o} \X (1 .. f[o])
    OBVIOUS
  <2>2. f[o] \in Nat
    OBVIOUS
  <2> QED  BY <2>1, <2>2, UnitsOfOrder
<1>4. IsFiniteSet(Units(f, S))
  BY <1>2, <1>3, FS_UNION DEF Units
<1> QED  BY <1>4, FS_CardinalityType DEF SumOver

LEMMA SumOfNoOrder == \A f : SumOver(f, {}) = 0
  BY FS_EmptySet DEF SumOver, Units

\* One order more adds its credit.
LEMMA SumOfOneMore ==
  ASSUME NEW f \in [OrderIds -> Nat], NEW S \in SUBSET OrderIds, NEW o \in OrderIds \ S
  PROVE  SumOver(f, S \cup {o}) = SumOver(f, S) + f[o]
<1> DEFINE U == {o} \X (1 .. f[o])
<1>1. /\ IsFiniteSet(Units(f, S)) /\ SumOver(f, S) \in Nat
      /\ IsFiniteSet(U) /\ Cardinality(U) = f[o] /\ f[o] \in Nat
  BY SumOfOrders, UnitsOfOrder
<1>2. Units(f, S \cup {o}) = Units(f, S) \cup U /\ Units(f, S) \cap U = {}
  BY DEF Units
<1>3. Cardinality(Units(f, S) \cup U)
        = Cardinality(Units(f, S)) + Cardinality(U) - Cardinality(Units(f, S) \cap U)
  BY <1>1, FS_Union
<1> HIDE DEF U
<1>4. Cardinality(Units(f, S) \cap U) = 0
  BY <1>2, FS_EmptySet
<1>5. SumOver(f, S \cup {o}) = SumOver(f, S) + Cardinality(U) - 0
  BY <1>2, <1>3, <1>4 DEF SumOver
<1> QED  BY <1>1, <1>5

\* Credits that agree on the orders have the same sum.
LEMMA SumOfSameCredits ==
  ASSUME NEW S, NEW f, NEW g, \A o \in S : f[o] = g[o]
  PROVE  SumOver(f, S) = SumOver(g, S)
<1>1. Units(f, S) = Units(g, S)
  BY DEF Units
<1> QED  BY <1>1 DEF SumOver

-----------------------------------------------------------------------------
\* Type correctness is inductive by itself.
LEMMA TypeInit == Init => TypeOK
<1> SUFFICES ASSUME Init PROVE TypeOK
  OBVIOUS
<1>1. (CHOOSE u \in Users : TRUE) \in Users
  BY RechargeAssumption
<1>2. CallsTyped(call)
  <2>1. ASSUME NEW c \in Calls PROVE call[c] \in CallRecords /\ call[c].pc # "ordered"
    BY DEF Init, CallRecords
  <2> QED  BY <2>1 DEF Init, CallsTyped
<1> QED  BY <1>1, <1>2, RechargeAssumption DEF Init, TypeOK, Statuses, NoManual, Unlocked

\* Inserting a row with values of the columns' types.
LEMMA InsertType ==
  ASSUME TypeOK, NEW o \in OrderIds, NEW st \in Statuses, NEW u \in Users \cup UnknownUsers,
         NEW prov \in {"alipay", "admin_manual"}, NEW cr \in Nat, NEW pr \in Nat,
         NEW k \in Keys \cup {NoKey}, InsertOrder(o, st, u, prov, cr, pr, k)
  PROVE  /\ status' \in [OrderIds -> Statuses]
         /\ buyer' \in [OrderIds -> Users \cup UnknownUsers]
         /\ provider' \in [OrderIds -> {"alipay", "admin_manual"}]
         /\ credit' \in [OrderIds -> Nat] /\ price' \in [OrderIds -> Nat]
         /\ key' \in [OrderIds -> Keys \cup {NoKey}]
  BY DEF InsertOrder, TypeOK

\* A request that has its order.
LEMMA OrderedType ==
  ASSUME TypeOK, NEW c \in Calls, NEW o \in OrderIds,
         call' = [call EXCEPT ![c] = [@ EXCEPT !.pc = "ordered", !.order = o]]
  PROVE  CallsTyped(call')
<1>0. call[c] \in CallRecords
  BY DEF TypeOK, CallsTyped
<1>1. /\ [call[c] EXCEPT !.pc = "ordered", !.order = o] \in CallRecords
      /\ [call[c] EXCEPT !.pc = "ordered", !.order = o].order = o
  <2> DEFINE q == [call[c] EXCEPT !.pc = "ordered"]
  <2>1. q \in CallRecords
    BY <1>0 DEF CallRecords
  <2> HIDE DEF q
  <2>2. [q EXCEPT !.order = o] \in CallRecords /\ [q EXCEPT !.order = o].order = o
    BY <2>1 DEF CallRecords
  <2> QED  BY <2>2 DEF q
<1>2. call' \in [Calls -> CallRecords]
  BY <1>1 DEF TypeOK, CallsTyped
<1>3. ASSUME NEW d \in Calls, call'[d].pc = "ordered" PROVE call'[d].order # Nobody
  <2>1. CASE d = c
    <3>1. call'[d] = [call[c] EXCEPT !.pc = "ordered", !.order = o]
      BY <2>1 DEF TypeOK, CallsTyped
    <3>2. call'[d].order = o
      BY <1>1, <3>1
    <3> QED  BY <3>2, RechargeAssumption
  <2>2. CASE d # c
    <3>1. call'[d] = call[d]
      BY <2>2 DEF TypeOK, CallsTyped
    <3> QED  BY <1>3, <3>1 DEF TypeOK, CallsTyped
  <2> QED  BY <2>1, <2>2
<1> QED  BY <1>2, <1>3 DEF CallsTyped

\* A request that is over.
LEMMA DoneType ==
  ASSUME TypeOK, NEW c \in Calls, call' = [call EXCEPT ![c].pc = "done"]
  PROVE  CallsTyped(call')
<1>1. [call[c] EXCEPT !.pc = "done"] \in CallRecords
  BY DEF TypeOK, CallRecords, CallsTyped
<1>2. call' \in [Calls -> CallRecords]
  BY <1>1 DEF TypeOK, CallsTyped
<1>3. ASSUME NEW d \in Calls, call'[d].pc = "ordered" PROVE call'[d].order # Nobody
  <2>1. d # c
    BY <1>3 DEF TypeOK, CallsTyped, CallRecords
  <2>2. call'[d] = call[d]
    BY <2>1 DEF TypeOK, CallsTyped
  <2> QED  BY <1>3, <2>2 DEF TypeOK, CallsTyped
<1> QED  BY <1>2, <1>3 DEF CallsTyped

LEMMA TypeStep == TypeOK /\ [Next]_vars => TypeOK'
<1> SUFFICES ASSUME TypeOK, [Next]_vars PROVE TypeOK'
  OBVIOUS
<1> USE DEF TypeOK, orders
<1>1. ASSUME NEW c \in Calls, CreatePaymentOrder(c) PROVE TypeOK'
  <2>1. CASE ReturnExisting(c)
    <3>1. PICK o \in Existing(call[c].user, call[c].key) :
            call' = [call EXCEPT ![c] = [@ EXCEPT !.pc = "ordered", !.order = o]]
      BY <2>1 DEF ReturnExisting
    <3>2. CallsTyped(call')
      BY <3>1, OrderedType DEF Existing
    <3> QED  BY <1>1, <2>1, <3>2 DEF CreatePaymentOrder, ReturnExisting, Unlocked
  <2>2. CASE CreateNew(c)
    <3>1. PICK o \in NewIds :
            /\ InsertOrder(o, "pending", call[c].user, "alipay", Credit[call[c].package],
                           Price[call[c].package], call[c].key)
            /\ call' = [call EXCEPT ![c] = [@ EXCEPT !.pc = "ordered", !.order = o]]
      BY <2>2 DEF CreateNew
    <3>2. call[c] \in CallRecords
      BY DEF CallsTyped
    <3>3. /\ o \in OrderIds
          /\ Credit[call[c].package] \in Nat /\ Price[call[c].package] \in Nat
          /\ call[c].user \in Users \cup UnknownUsers /\ call[c].key \in Keys \cup {NoKey}
      BY <3>2, RechargeAssumption DEF NewIds, CallRecords
    <3>4. CallsTyped(call')
      BY <3>1, <3>3, OrderedType
    <3>5. /\ status' \in [OrderIds -> Statuses]
          /\ buyer' \in [OrderIds -> Users \cup UnknownUsers]
          /\ provider' \in [OrderIds -> {"alipay", "admin_manual"}]
          /\ credit' \in [OrderIds -> Nat] /\ price' \in [OrderIds -> Nat]
          /\ key' \in [OrderIds -> Keys \cup {NoKey}]
      BY <3>1, <3>3, InsertType DEF Statuses
    <3> QED  BY <1>1, <3>4, <3>5 DEF CreatePaymentOrder, Unlocked
  <2> QED  BY <1>1, <2>1, <2>2 DEF CreatePaymentOrder
<1>2. ASSUME NEW c \in Calls, MakePayPage(c) PROVE TypeOK'
  <2>1. call[c] \in CallRecords /\ call[c].order # Nobody
    BY <1>2 DEF MakePayPage, CallsTyped
  <2>2. call[c].order \in OrderIds /\ call[c].package \in Packages
    BY <2>1 DEF CallRecords
  <2>3. CallsTyped(call')
    BY <1>2, DoneType DEF MakePayPage
  <2> QED  BY <1>2, <2>2, <2>3 DEF MakePayPage, Unlocked
<1>3. ASSUME NEW c \in Calls, RechargeFails(c) PROVE TypeOK'
  <2>1. CallsTyped(call')
    BY <1>3, DoneType DEF RechargeFails
  <2> QED  BY <1>3, <2>1 DEF RechargeFails, Unlocked
<1> USE DEF Unlocked
<1>4. ASSUME NEW o \in OrderIds, Notify(o) \/ MockPay(o) PROVE TypeOK'
  <2>1. MarkOrderPaidAndCredit(o)
    BY <1>4 DEF Notify, MockPay
  <2>2. total' \in [Users -> Int]
    <3>1. CASE buyer[o] \in Users
      <4>1. total[buyer[o]] + credit[o] \in Int
        BY <3>1
      <4> QED  BY <2>1, <3>1, <4>1 DEF MarkOrderPaidAndCredit, PayAndCredit
    <3>2. CASE buyer[o] \notin Users
      BY <2>1, <3>2 DEF MarkOrderPaidAndCredit, PayAndCredit
    <3> QED  BY <3>1, <3>2
  <2> QED  BY <2>1, <2>2 DEF MarkOrderPaidAndCredit, PayAndCredit, Statuses
<1>5. ASSUME NEW o \in OrderIds, NEW p \in Packages, Pay(o, p) PROVE TypeOK'
  BY <1>5 DEF Pay
<1>6. CASE ManualOrder
  <2>1. PICK o \in NewIds, u \in Users \cup UnknownUsers, cr \in ManualCredits :
          /\ InsertOrder(o, "paid", u, "admin_manual", cr, 0, NoKey)
          /\ manual' = [phase |-> "ordered", order |-> o]
          /\ UNCHANGED <<topups, total, call, links, paid, mock, restarts, credited>>
    BY <1>6 DEF ManualOrder
  <2>2. o \in OrderIds /\ cr \in Nat
    BY RechargeAssumption DEF NewIds
  <2>3. /\ status' \in [OrderIds -> Statuses]
        /\ buyer' \in [OrderIds -> Users \cup UnknownUsers]
        /\ provider' \in [OrderIds -> {"alipay", "admin_manual"}]
        /\ credit' \in [OrderIds -> Nat] /\ price' \in [OrderIds -> Nat]
        /\ key' \in [OrderIds -> Keys \cup {NoKey}]
    BY <2>1, <2>2, InsertType DEF Statuses
  <2>4. /\ manual' \in [phase : {"idle", "ordered", "credited"}, order : OrderIds \cup {Nobody}]
        /\ manual'.order # Nobody
    BY <2>1, <2>2, RechargeAssumption
  <2> QED  BY <2>1, <2>3, <2>4
<1>7. CASE ManualCredit
  <2>1. manual.phase = "ordered" /\ manual.order \in OrderIds
    BY <1>7 DEF ManualCredit
  <2> QED  BY <1>7, <2>1 DEF ManualCredit
<1>8. CASE ManualAudit
  BY <1>8 DEF ManualAudit, NoManual
<1>9. CASE ManualFails
  BY <1>9 DEF ManualFails, NoManual
<1>10. CASE Restart
  <2>1. ASSUME NEW c \in Calls
        PROVE  call'[c] \in CallRecords /\ call'[c].pc # "ordered"
    <3>1. call[c] \in CallRecords
      BY DEF CallsTyped
    <3>2. call'[c] = IF call[c].pc = "ordered" THEN [call[c] EXCEPT !.pc = "done"] ELSE call[c]
      BY <1>10 DEF Restart
    <3> QED  BY <3>1, <3>2 DEF CallRecords
  <2>2. CallsTyped(call')
    <3>1. call' = [c \in Calls |-> call'[c]]
      BY <1>10 DEF Restart
    <3> QED  BY <2>1, <3>1 DEF CallsTyped
  <2> QED  BY <1>10, <2>2 DEF Restart, NoManual
<1>11. CASE UNCHANGED vars
  BY <1>11 DEF vars
<1> QED
  BY <1>1, <1>2, <1>3, <1>4, <1>5, <1>6, <1>7, <1>8, <1>9, <1>10, <1>11 DEF Next

\* The rows of the orders, the credits and the request records are well typed in
\* every reachable state.
THEOREM TypeCorrect == Spec => []TypeOK
<1> QED  BY TypeInit, TypeStep, PTL DEF Spec

-----------------------------------------------------------------------------
\* What the manual top-up that holds the mutex has done so far, and that only
\* paid orders were credited and only credited orders audited.
CreditInv ==
    /\ \A o \in credited : status[o] = "paid"
    /\ topups \subseteq credited
    /\ ~ Unlocked => provider[manual.order] = "admin_manual"
    /\ ~ Unlocked => status[manual.order] = "paid"
    /\ manual.phase = "ordered" => manual.order \notin credited
    /\ manual.phase = "credited" => manual.order \in credited

OrderInv == TypeOK /\ CreditInv /\ PaidCreditedAudited

LEMMA OrderInit == Init => CreditInv /\ PaidCreditedAudited
  BY DEF Init, CreditInv, PaidCreditedAudited, NoManual, Unlocked

\* A row with a new id was never credited.
LEMMA NewIsUncredited ==
  ASSUME TypeOK, CreditInv, NEW o \in NewIds
  PROVE  o \in OrderIds /\ o \notin credited /\ o \notin topups
  BY DEF TypeOK, CreditInv, NewIds

LEMMA OrderStep == OrderInv /\ [Next]_vars => CreditInv' /\ PaidCreditedAudited'
<1> SUFFICES ASSUME TypeOK, CreditInv, PaidCreditedAudited, [Next]_vars
             PROVE  CreditInv' /\ PaidCreditedAudited'
  BY DEF OrderInv
<1> USE DEF CreditInv, PaidCreditedAudited, Unlocked, orders
<1>1. ASSUME NEW c \in Calls, CreatePaymentOrder(c) PROVE CreditInv' /\ PaidCreditedAudited'
  <2>1. CASE ReturnExisting(c)
    BY <1>1, <2>1 DEF CreatePaymentOrder, ReturnExisting
  <2>2. CASE CreateNew(c)
    <3>1. PICK o \in NewIds :
            InsertOrder(o, "pending", call[c].user, "alipay", Credit[call[c].package],
                        Price[call[c].package], call[c].key)
      BY <2>2 DEF CreateNew
    <3>2. o \in OrderIds /\ o \notin credited /\ o \notin topups
      BY NewIsUncredited
    <3>3. /\ status' = [status EXCEPT ![o] = "pending"]
          /\ provider' = [provider EXCEPT ![o] = "alipay"]
          /\ UNCHANGED <<credited, topups, manual>> /\ manual.phase = "idle"
      BY <1>1, <3>1 DEF InsertOrder, CreatePaymentOrder
    <3> QED  BY <3>2, <3>3 DEF TypeOK
  <2> QED  BY <1>1, <2>1, <2>2 DEF CreatePaymentOrder
<1>2. ASSUME NEW o \in OrderIds, Notify(o) \/ MockPay(o)
      PROVE  CreditInv' /\ PaidCreditedAudited'
  <2>1. /\ status' = [status EXCEPT ![o] = "paid"] /\ topups' = topups \cup {o}
        /\ credited' = credited \cup {o}
        /\ UNCHANGED <<provider, manual>> /\ manual.phase = "idle"
    BY <1>2 DEF Notify, MockPay, MarkOrderPaidAndCredit, PayAndCredit
  <2> QED  BY <2>1 DEF TypeOK
<1>3. CASE ManualOrder
  <2>1. PICK o \in NewIds, u \in Users \cup UnknownUsers, cr \in ManualCredits :
          /\ manual.phase = "idle"
          /\ InsertOrder(o, "paid", u, "admin_manual", cr, 0, NoKey)
          /\ manual' = [phase |-> "ordered", order |-> o]
          /\ UNCHANGED <<topups, credited>>
    BY <1>3 DEF ManualOrder
  <2>2. o \in OrderIds /\ o \notin credited /\ o \notin topups
    BY NewIsUncredited
  <2>3. /\ status' = [status EXCEPT ![o] = "paid"]
        /\ provider' = [provider EXCEPT ![o] = "admin_manual"]
    BY <2>1 DEF InsertOrder
  <2> QED  BY <2>1, <2>2, <2>3 DEF TypeOK
<1>4. CASE ManualCredit
  <2>1. /\ manual.phase = "ordered"
        /\ credited' = credited \cup {manual.order}
        /\ manual' = [manual EXCEPT !.phase = "credited"]
        /\ UNCHANGED <<status, provider, topups>>
    BY <1>4 DEF ManualCredit
  <2>2. manual'.order = manual.order /\ manual'.phase = "credited"
    BY <2>1 DEF TypeOK
  <2> QED  BY <2>1, <2>2 DEF TypeOK
<1>5. CASE ManualAudit
  BY <1>5 DEF ManualAudit, NoManual, TypeOK
<1>6. ASSUME ManualFails \/ Restart PROVE CreditInv' /\ PaidCreditedAudited'
  BY <1>6 DEF ManualFails, Restart, NoManual
<1>7. ASSUME NEW c \in Calls, MakePayPage(c) \/ RechargeFails(c)
      PROVE  CreditInv' /\ PaidCreditedAudited'
  BY <1>7 DEF MakePayPage, RechargeFails
<1>8. ASSUME NEW o \in OrderIds, NEW p \in Packages, Pay(o, p)
      PROVE  CreditInv' /\ PaidCreditedAudited'
  BY <1>8 DEF Pay
<1>9. CASE UNCHANGED vars
  BY <1>9 DEF vars
<1> QED
  BY <1>1, <1>2, <1>3, <1>4, <1>5, <1>6, <1>7, <1>8, <1>9 DEF Next

\* However notifications repeat, statements fail and the process restarts, a
\* console order is paid, credited and audited together or not at all.
THEOREM OrdersAllOrNothing == Spec => []PaidCreditedAudited
<1>1. Init => OrderInv
  BY TypeInit, OrderInit DEF OrderInv
<1>2. OrderInv /\ [Next]_vars => OrderInv'
  BY TypeStep, OrderStep DEF OrderInv
<1>3. OrderInv => PaidCreditedAudited
  BY DEF OrderInv
<1> QED  BY <1>1, <1>2, <1>3, PTL DEF Spec

-----------------------------------------------------------------------------
\* The allowance

\* A step that credits nobody and leaves the credited orders alone.
LEMMA CreditKept ==
  ASSUME TypeOK, CreditedOnce, UNCHANGED <<total, credited>>,
         \A o \in credited : buyer'[o] = buyer[o] /\ credit'[o] = credit[o]
  PROVE  CreditedOnce'
<1> SUFFICES ASSUME NEW u \in Users
             PROVE  total'[u] = InitialTotal[u] + SumOver(credit', {o \in credited' : buyer'[o] = u})
  BY DEF CreditedOnce, CreditedTo
<1>1. {o \in credited' : buyer'[o] = u} = CreditedTo(u)
  BY DEF CreditedTo
<1>2. SumOver(credit', CreditedTo(u)) = SumOver(credit, CreditedTo(u))
  BY SumOfSameCredits DEF CreditedTo
<1> QED  BY <1>1, <1>2 DEF CreditedOnce

\* A step that credits one more order.
LEMMA CreditAdded ==
  ASSUME TypeOK, CreditedOnce, NEW o \in OrderIds \ credited, UNCHANGED <<buyer, credit>>,
         total' = [total EXCEPT ![buyer[o]] = @ + credit[o]], credited' = credited \cup {o}
  PROVE  CreditedOnce'
<1> SUFFICES ASSUME NEW u \in Users
             PROVE  total'[u] = InitialTotal[u] + SumOver(credit', {x \in credited' : buyer'[x] = u})
  BY DEF CreditedOnce, CreditedTo
<1>1. total[u] = InitialTotal[u] + SumOver(credit, CreditedTo(u))
  BY DEF CreditedOnce
<1>2. /\ credit \in [OrderIds -> Nat] /\ total \in [Users -> Int]
      /\ CreditedTo(u) \in SUBSET OrderIds /\ o \notin CreditedTo(u)
  BY DEF TypeOK, CreditedTo
<1>3. IsFiniteSet(CreditedTo(u))
  BY <1>2, OrdersFinite
<1>4. InitialTotal[u] \in Int /\ credit[o] \in Nat /\ SumOver(credit, CreditedTo(u)) \in Nat
  BY <1>2, <1>3, SumOfOrders, RechargeAssumption
<1>5. CASE buyer[o] = u
  <2>1. {x \in credited' : buyer'[x] = u} = CreditedTo(u) \cup {o}
    BY <1>5 DEF CreditedTo
  <2>2. SumOver(credit, CreditedTo(u) \cup {o}) = SumOver(credit, CreditedTo(u)) + credit[o]
    BY <1>2, <1>3, SumOfOneMore
  <2>3. total'[u] = total[u] + credit[o]
    BY <1>2, <1>5
  <2> QED  BY <1>1, <1>4, <2>1, <2>2, <2>3
<1>6. CASE buyer[o] # u
  <2>1. {x \in credited' : buyer'[x] = u} = CreditedTo(u)
    BY <1>6 DEF CreditedTo
  <2>2. total'[u] = total[u]
    BY <1>2, <1>6
  <2> QED  BY <1>1, <2>1, <2>2
<1> QED  BY <1>5, <1>6

LEMMA CreditStep == OrderInv /\ CreditedOnce /\ [Next]_vars => CreditedOnce'
<1> SUFFICES ASSUME TypeOK, CreditInv, CreditedOnce, [Next]_vars
             PROVE  CreditedOnce'
  BY DEF OrderInv
<1>1. ASSUME NEW o \in NewIds, NEW st, NEW u, NEW prov, NEW cr, NEW pr, NEW k,
             InsertOrder(o, st, u, prov, cr, pr, k), UNCHANGED <<total, credited>>
      PROVE  CreditedOnce'
  <2>1. \A x \in credited : buyer'[x] = buyer[x] /\ credit'[x] = credit[x]
    BY <1>1, NewIsUncredited DEF InsertOrder, TypeOK
  <2> QED  BY <1>1, <2>1, CreditKept
<1>2. ASSUME UNCHANGED <<total, credited, buyer, credit>> PROVE CreditedOnce'
  BY <1>2, CreditKept
<1>3. ASSUME NEW c \in Calls, CreatePaymentOrder(c) PROVE CreditedOnce'
  BY <1>1, <1>2, <1>3 DEF CreatePaymentOrder, ReturnExisting, CreateNew, orders
<1>4. ASSUME NEW o \in OrderIds, Notify(o) \/ MockPay(o) PROVE CreditedOnce'
  <2>1. /\ status[o] = "pending" /\ UNCHANGED <<buyer, credit>>
        /\ total' = [total EXCEPT ![buyer[o]] = @ + credit[o]]
        /\ credited' = credited \cup {o}
    BY <1>4 DEF Notify, MockPay, MarkOrderPaidAndCredit, PayAndCredit
  <2>2. o \notin credited
    BY <2>1 DEF CreditInv
  <2> QED  BY <2>1, <2>2, CreditAdded
<1>5. CASE ManualOrder
  BY <1>1, <1>5 DEF ManualOrder
<1>6. CASE ManualCredit
  <2>1. manual.order \in OrderIds \ credited
    BY <1>6 DEF ManualCredit, CreditInv, TypeOK, Unlocked
  <2> QED  BY <1>6, <2>1, CreditAdded DEF ManualCredit, orders
<1>7. ASSUME ManualAudit \/ ManualFails \/ Restart PROVE CreditedOnce'
  BY <1>2, <1>7 DEF ManualAudit, ManualFails, Restart, orders
<1>8. ASSUME NEW c \in Calls, MakePayPage(c) \/ RechargeFails(c) PROVE CreditedOnce'
  BY <1>2, <1>8 DEF MakePayPage, RechargeFails, orders
<1>9. ASSUME NEW o \in OrderIds, NEW p \in Packages, Pay(o, p) PROVE CreditedOnce'
  BY <1>2, <1>9 DEF Pay, orders
<1>10. CASE UNCHANGED vars
  BY <1>2, <1>10 DEF vars, orders
<1> QED
  BY <1>3, <1>4, <1>5, <1>6, <1>7, <1>8, <1>9, <1>10 DEF Next

LEMMA CreditInit == Init => CreditedOnce
<1> SUFFICES ASSUME Init, NEW u \in Users
             PROVE  total[u] = InitialTotal[u] + SumOver(credit, CreditedTo(u))
  BY DEF CreditedOnce
<1>1. CreditedTo(u) = {}
  BY DEF Init, CreditedTo
<1>2. SumOver(credit, {}) = 0
  BY SumOfNoOrder
<1>3. total[u] = InitialTotal[u] /\ InitialTotal[u] \in Int
  BY RechargeAssumption DEF Init
<1> QED  BY <1>1, <1>2, <1>3

\* Every user's allowance is at any time the initial one plus the credits of the
\* credited orders, each counted once.
THEOREM CreditedExactlyOnce == Spec => []CreditedOnce
<1>1. Init => OrderInv /\ CreditedOnce
  BY TypeInit, OrderInit, CreditInit DEF OrderInv
<1>2. OrderInv /\ CreditedOnce /\ [Next]_vars => (OrderInv /\ CreditedOnce)'
  BY TypeStep, OrderStep, CreditStep DEF OrderInv
<1> QED  BY <1>1, <1>2, PTL DEF Spec

-----------------------------------------------------------------------------
\* Idempotency keys

LEMMA KeyStep == TypeOK /\ OneOrderPerKey /\ [Next]_vars => OneOrderPerKey'
<1> SUFFICES ASSUME TypeOK, OneOrderPerKey, [Next]_vars PROVE OneOrderPerKey'
  OBVIOUS
<1>1. ASSUME UNCHANGED <<buyer, key>>,
             \A o \in OrderIds : status'[o] # "none" => status[o] # "none"
      PROVE  OneOrderPerKey'
  BY <1>1 DEF OneOrderPerKey
<1>2. ASSUME NEW o \in NewIds, NEW st, NEW u, NEW prov, NEW cr, NEW pr, NEW k,
             InsertOrder(o, st, u, prov, cr, pr, k), k = NoKey \/ Existing(u, k) = {}
      PROVE  OneOrderPerKey'
  <2>1. /\ status' = [status EXCEPT ![o] = st] /\ buyer' = [buyer EXCEPT ![o] = u]
        /\ key' = [key EXCEPT ![o] = k]
    BY <1>2 DEF InsertOrder
  <2>2. ASSUME NEW x \in OrderIds, x # o
        PROVE  status'[x] = status[x] /\ buyer'[x] = buyer[x] /\ key'[x] = key[x]
    BY <2>1, <2>2 DEF TypeOK
  <2>3. o \in OrderIds /\ buyer'[o] = u /\ key'[o] = k
    BY <2>1 DEF TypeOK, NewIds
  <2>4. ASSUME NEW x \in OrderIds, x # o, status'[x] # "none", key'[x] # NoKey,
               buyer'[x] = u, key'[x] = k
        PROVE  FALSE
    BY <1>2, <2>2, <2>4 DEF Existing
  <2> QED  BY <2>2, <2>3, <2>4 DEF OneOrderPerKey
<1>3. ASSUME NEW c \in Calls, CreatePaymentOrder(c) PROVE OneOrderPerKey'
  <2>1. CASE ReturnExisting(c)
    BY <1>1, <2>1 DEF ReturnExisting, orders
  <2>2. CASE (call[c].key = NoKey \/ Existing(call[c].user, call[c].key) = {}) /\ CreateNew(c)
    BY <1>2, <2>2 DEF CreateNew
  <2> QED  BY <1>3, <2>1, <2>2 DEF CreatePaymentOrder
<1>4. ASSUME NEW o \in OrderIds, Notify(o) \/ MockPay(o) PROVE OneOrderPerKey'
  <2>1. /\ status[o] = "pending" /\ status' = [status EXCEPT ![o] = "paid"]
        /\ UNCHANGED <<buyer, key>>
    BY <1>4 DEF Notify, MockPay, MarkOrderPaidAndCredit, PayAndCredit
  <2>2. \A x \in OrderIds : status'[x] # "none" => status[x] # "none"
    BY <2>1 DEF TypeOK
  <2> QED  BY <1>1, <2>1, <2>2
<1>5. CASE ManualOrder
  BY <1>2, <1>5 DEF ManualOrder
<1>6. ASSUME UNCHANGED orders PROVE OneOrderPerKey'
  BY <1>1, <1>6 DEF orders
<1>7. ASSUME ManualCredit \/ ManualAudit \/ ManualFails \/ Restart PROVE OneOrderPerKey'
  BY <1>6, <1>7 DEF ManualCredit, ManualAudit, ManualFails, Restart
<1>8. ASSUME NEW c \in Calls, MakePayPage(c) \/ RechargeFails(c) PROVE OneOrderPerKey'
  BY <1>6, <1>8 DEF MakePayPage, RechargeFails
<1>9. ASSUME NEW o \in OrderIds, NEW p \in Packages, Pay(o, p) PROVE OneOrderPerKey'
  BY <1>6, <1>9 DEF Pay
<1>10. CASE UNCHANGED vars
  BY <1>6, <1>10 DEF vars
<1> QED
  BY <1>3, <1>4, <1>5, <1>7, <1>8, <1>9, <1>10 DEF Next

\* Any number of requests of a user with the same idempotency key make one order.
THEOREM KeysMakeOneOrder == Spec => []OneOrderPerKey
<1>1. Init => TypeOK /\ OneOrderPerKey
  BY TypeInit DEF Init, OneOrderPerKey
<1>2. TypeOK /\ OneOrderPerKey /\ [Next]_vars => (TypeOK /\ OneOrderPerKey)'
  BY TypeStep, KeyStep
<1> QED  BY <1>1, <1>2, PTL DEF Spec
=============================================================================
