------------------------------- MODULE Recharge -------------------------------
(***************************************************************************)
(* Recharging: console orders, the payment provider's notifications, mock  *)
(* payment, and manual top-ups by an admin.                                *)
(*                                                                         *)
(* An order is paid and credited in one transaction, by the first          *)
(* notification that reports success; the provider repeats notifications   *)
(* until one is acknowledged, and may repeat them after that.  A manual    *)
(* top-up is three statements under Store.mu with no transaction.          *)
(***************************************************************************)
EXTENDS Integers, FiniteSets, SetSum

CONSTANTS
    Users, UnknownUsers,   \* ids with and without a users row
    Packages,              \* RechargePackage ids
    Price, Credit,         \* amount_fiat_cents and quota_credit of a package
    Keys, NoKey,           \* idempotency keys; NoKey: none given
    OrderIds,              \* ids NewID may return; an order is made once
    Calls,                 \* POST /api/console/recharge requests
    ManualCredits,         \* credits an admin gives
    InitialTotal,          \* users.quota_total at the start
    Modes,                 \* values of SUBPORT_ALIPAY_MOCK the process may start with
    StoreErrors,           \* may a statement of the store fail?
    MaxRestarts,           \* bound: restarts of the process
    Nobody                 \* no package paid, no order

ASSUME RechargeAssumption ==
    /\ Users # {} /\ IsFiniteSet(OrderIds)
    /\ Users \cap UnknownUsers = {}
    /\ Price \in [Packages -> Nat] /\ Credit \in [Packages -> Nat \ {0}]
    /\ NoKey \notin Keys /\ Nobody \notin Packages \cup OrderIds
    /\ ManualCredits \subseteq Nat \ {0}
    /\ InitialTotal \in [Users -> Int]
    /\ Modes \subseteq BOOLEAN /\ StoreErrors \in BOOLEAN /\ MaxRestarts \in Nat

VARIABLES
    status, buyer, provider, credit, price, key,  \* columns of payment_orders
    topups,      \* orders that a quota_topups row names
    total,       \* users.quota_total
    call,        \* each console request: pc, user, package, key, order
    links,       \* external: pay pages made, <<order, package>>
    paid,        \* external: the package whose price was paid for an order
    mock,        \* the payment mode, read from the environment
    manual,      \* the AdminManualTopup that has Store.mu
    restarts,
    credited     \* history: orders whose credit was added to quota_total

orders == <<status, buyer, provider, credit, price, key>>
vars == <<orders, topups, total, call, links, paid, mock, manual, restarts, credited>>

Statuses == {"none", "pending", "paid"}
NoManual == [phase |-> "idle", order |-> Nobody]
Unlocked == manual.phase = "idle"

NewIds == {o \in OrderIds : status[o] = "none"}

Init ==
    /\ status = [o \in OrderIds |-> "none"]
    /\ buyer = [o \in OrderIds |-> CHOOSE u \in Users : TRUE]
    /\ provider = [o \in OrderIds |-> "alipay"]
    /\ credit = [o \in OrderIds |-> 0]
    /\ price = [o \in OrderIds |-> 0]
    /\ key = [o \in OrderIds |-> NoKey]
    /\ topups = {}
    /\ total = InitialTotal
    /\ call \in [Calls -> [pc : {"new"}, user : Users, package : Packages,
                           key : Keys \cup {NoKey}, order : {Nobody}]]
    /\ links = {}
    /\ paid = [o \in OrderIds |-> Nobody]
    /\ mock \in Modes
    /\ manual = NoManual
    /\ restarts = 0
    /\ credited = {}

-----------------------------------------------------------------------------
\* Console

\* The rows that CreatePaymentOrder returns instead of inserting one.
Existing(u, k) == {o \in OrderIds : status[o] # "none" /\ buyer[o] = u /\ key[o] = k}

InsertOrder(o, st, u, prov, cr, pr, k) ==
    /\ status' = [status EXCEPT ![o] = st]
    /\ buyer' = [buyer EXCEPT ![o] = u]
    /\ provider' = [provider EXCEPT ![o] = prov]
    /\ credit' = [credit EXCEPT ![o] = cr]
    /\ price' = [price EXCEPT ![o] = pr]
    /\ key' = [key EXCEPT ![o] = k]

ReturnExisting(c) ==
    /\ call[c].key # NoKey
    /\ \E o \in Existing(call[c].user, call[c].key) :
          call' = [call EXCEPT ![c] = [@ EXCEPT !.pc = "ordered", !.order = o]]
    /\ UNCHANGED orders

CreateNew(c) ==
    \E o \in NewIds :
        /\ InsertOrder(o, "pending", call[c].user, "alipay", Credit[call[c].package],
                       Price[call[c].package], call[c].key)
        /\ call' = [call EXCEPT ![c] = [@ EXCEPT !.pc = "ordered", !.order = o]]

CreatePaymentOrderAnyway(c) ==
    /\ Unlocked
    /\ call[c].pc = "new"
    /\ CreateNew(c)
    /\ UNCHANGED <<topups, total, links, paid, mock, manual, restarts, credited>>

\* One locked section: look the key up, else insert a pending order.
CreatePaymentOrder(c) ==
    /\ Unlocked
    /\ call[c].pc = "new"
    /\ \/ ReturnExisting(c)
       \/ /\ call[c].key = NoKey \/ Existing(call[c].user, call[c].key) = {}
          /\ CreateNew(c)
    /\ UNCHANGED <<topups, total, links, paid, mock, manual, restarts, credited>>

\* The pay page, priced for the package of this request; then its URL is
\* stored.  Making the page or storing the order may fail.
MakePayPage(c) ==
    /\ call[c].pc = "ordered"
    /\ links' = links \cup {<<call[c].order, call[c].package>>}
    /\ call' = [call EXCEPT ![c].pc = "done"]
    /\ UNCHANGED <<orders, topups, total, paid, mock, manual, restarts, credited>>

RechargeFails(c) ==
    /\ StoreErrors
    /\ call[c].pc \in {"new", "ordered"}
    /\ call' = [call EXCEPT ![c].pc = "done"]
    /\ UNCHANGED <<orders, topups, total, links, paid, mock, manual, restarts, credited>>

-----------------------------------------------------------------------------
\* Payment

\* External: the user pays on a page; the provider takes one payment per order.
Pay(o, p) ==
    /\ ~ mock
    /\ <<o, p>> \in links
    /\ paid[o] = Nobody
    /\ paid' = [paid EXCEPT ![o] = p]
    /\ UNCHANGED <<orders, topups, total, call, links, mock, manual, restarts, credited>>

\* One transaction: the status, the audit row, the credit.
PayAndCredit(o) ==
    /\ status' = [status EXCEPT ![o] = "paid"]
    /\ topups' = topups \cup {o}
    /\ total' = [total EXCEPT ![buyer[o]] = @ + credit[o]]
    /\ credited' = credited \cup {o}

PayFirst(o) ==
    /\ status' = [status EXCEPT ![o] = "paid"]
    /\ UNCHANGED <<topups, total, credited>>

MarkPaidUnchecked(o) ==
    /\ Unlocked
    /\ status[o] \in {"pending", "paid"}
    /\ PayAndCredit(o)
    /\ UNCHANGED <<buyer, provider, credit, price, key, call, links, paid, mock, manual, restarts>>

MarkPaidInPieces(o) ==
    /\ Unlocked
    /\ status[o] = "pending"
    /\ PayFirst(o) \/ PayAndCredit(o)
    /\ UNCHANGED <<buyer, provider, credit, price, key, call, links, paid, mock, manual, restarts>>

\* For an order that is paid it is a no-op that succeeds.
MarkOrderPaidAndCredit(o) ==
    /\ Unlocked
    /\ status[o] = "pending"
    /\ PayAndCredit(o)
    /\ UNCHANGED <<buyer, provider, credit, price, key, call, links, paid, mock, manual, restarts>>

\* A notification of success, as often as the provider sends it.  One that
\* finds the order paid, reports another status, or meets a failing store
\* changes nothing; after a failure the provider sends it again.
Notify(o) ==
    /\ ~ mock /\ paid[o] # Nobody
    /\ MarkOrderPaidAndCredit(o)

\* POST .../mock-pay by the order's owner, or a mock notification.
MockPay(o) == mock /\ MarkOrderPaidAndCredit(o)

-----------------------------------------------------------------------------
\* AdminManualTopup

ManualOrderOfAnySign ==
    \E o \in NewIds, u \in Users, cr \in ManualCredits :
        /\ Unlocked
        /\ InsertOrder(o, "paid", u, "admin_manual", - cr, 0, NoKey)
        /\ manual' = [phase |-> "ordered", order |-> o]
        /\ UNCHANGED <<topups, total, call, links, paid, mock, restarts, credited>>

\* First statement: an order that is already paid, for the id in the URL.
ManualOrder ==
    \E o \in NewIds, u \in Users \cup UnknownUsers, cr \in ManualCredits :
        /\ Unlocked
        /\ InsertOrder(o, "paid", u, "admin_manual", cr, 0, NoKey)
        /\ manual' = [phase |-> "ordered", order |-> o]
        /\ UNCHANGED <<topups, total, call, links, paid, mock, restarts, credited>>

\* Second statement: it must find the user's row.
ManualCredit ==
    LET o == manual.order IN
    /\ manual.phase = "ordered"
    /\ buyer[o] \in Users
    /\ total' = [total EXCEPT ![buyer[o]] = @ + credit[o]]
    /\ credited' = credited \cup {o}
    /\ manual' = [manual EXCEPT !.phase = "credited"]
    /\ UNCHANGED <<orders, topups, call, links, paid, mock, restarts>>

\* Third statement: the audit row.
ManualAudit ==
    /\ manual.phase = "credited"
    /\ topups' = topups \cup {manual.order}
    /\ manual' = NoManual
    /\ UNCHANGED <<orders, total, call, links, paid, mock, restarts, credited>>

ManualFailsLocked ==
    /\ ~ Unlocked /\ StoreErrors
    /\ UNCHANGED vars

\* No such user, or a statement fails: the handler returns what it wrote stays.
ManualFails ==
    /\ ~ Unlocked
    /\ StoreErrors \/ (manual.phase = "ordered" /\ buyer[manual.order] \notin Users)
    /\ manual' = NoManual
    /\ UNCHANGED <<orders, topups, total, call, links, paid, mock, restarts, credited>>

-----------------------------------------------------------------------------
\* The process stops and starts again: handlers are gone, rows and the
\* provider's notifications are not.
Restart ==
    /\ restarts < MaxRestarts
    /\ restarts' = restarts + 1
    /\ call' = [c \in Calls |-> IF call[c].pc = "ordered" THEN [call[c] EXCEPT !.pc = "done"]
                                                         ELSE call[c]]
    /\ manual' = NoManual
    /\ UNCHANGED <<orders, topups, total, links, paid, mock, credited>>

Next ==
    \/ \E c \in Calls : CreatePaymentOrder(c) \/ MakePayPage(c) \/ RechargeFails(c)
    \/ \E o \in OrderIds : Notify(o) \/ MockPay(o) \/ \E p \in Packages : Pay(o, p)
    \/ ManualOrder \/ ManualCredit \/ ManualAudit \/ ManualFails
    \/ Restart

Spec == Init /\ [][Next]_vars

\* The provider repeats a notification until it is acknowledged, and whoever
\* holds Store.mu goes on to its next statement.
Fairness ==
    /\ \A o \in OrderIds : SF_vars(Notify(o))
    /\ WF_vars(ManualCredit \/ ManualAudit \/ ManualFails)

FairSpec == Spec /\ Fairness

-----------------------------------------------------------------------------
CallRecords == [pc : {"new", "ordered", "done"}, user : Users, package : Packages,
                key : Keys \cup {NoKey}, order : OrderIds \cup {Nobody}]

CallsTyped(calls) ==
    /\ calls \in [Calls -> CallRecords]
    /\ \A c \in Calls : calls[c].pc = "ordered" => calls[c].order # Nobody

TypeOK ==
    /\ status \in [OrderIds -> Statuses]
    /\ buyer \in [OrderIds -> Users \cup UnknownUsers]
    /\ provider \in [OrderIds -> {"alipay", "admin_manual"}]
    /\ credit \in [OrderIds -> Nat] /\ price \in [OrderIds -> Nat]
    /\ key \in [OrderIds -> Keys \cup {NoKey}]
    /\ topups \in SUBSET OrderIds /\ credited \in SUBSET OrderIds
    /\ total \in [Users -> Int]
    /\ CallsTyped(call)
    /\ links \in SUBSET (OrderIds \X Packages)
    /\ paid \in [OrderIds -> Packages \cup {Nobody}]
    /\ mock \in BOOLEAN
    /\ manual \in [phase : {"idle", "ordered", "credited"}, order : OrderIds \cup {Nobody}]
    /\ ~ Unlocked => manual.order # Nobody
    /\ restarts \in Nat

CreditedTo(u) == {o \in credited : buyer[o] = u}

\* A user's allowance grew by exactly the credits of the orders that were
\* credited, each once, however often notifications, mock payments and
\* restarts repeat or cut short.
CreditedOnce ==
    \A u \in Users : total[u] = InitialTotal[u] + SumOver(credit, CreditedTo(u))

\* A console order is paid exactly when its credit was added and its audit row
\* written: no failure or restart leaves one without the others.
PaidCreditedAudited ==
    \A o \in OrderIds : (provider[o] = "alipay") =>
        /\ (status[o] = "paid") <=> (o \in credited)
        /\ (o \in credited) <=> (o \in topups)

\* A user has one order per idempotency key, however many requests carry it.
OneOrderPerKey ==
    \A o1, o2 \in OrderIds :
        (status[o1] # "none" /\ status[o2] # "none" /\ key[o1] # NoKey
            /\ buyer[o1] = buyer[o2] /\ key[o1] = key[o2]) => o1 = o2

\* What was paid is credited in the end, although deliveries fail, the
\* process restarts, and manual top-ups hold the mutex.
PaymentsCredited == \A o \in OrderIds : (paid[o] # Nobody) ~> (o \in credited)

-----------------------------------------------------------------------------
\* What the code says and does not keep (violation runs)

\* "AdminManualTopup credits a user": a paid order was credited.
PaidIsCredited ==
    Unlocked => \A o \in OrderIds : status[o] = "paid" => o \in credited

\* The matching row "is returned instead": its pay page asks for its price.
PaidInFull == \A o \in OrderIds : paid[o] # Nobody => Price[paid[o]] = price[o]
=============================================================================
