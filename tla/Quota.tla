-------------------------------- MODULE Quota --------------------------------
(***************************************************************************)
(* The billing core: quota admission, settlement and stream compensation.  *)
(*                                                                         *)
(* A gateway request (handleChat, handleResponses, handleMessages) holds   *)
(* quota before the upstream call, and after it settles: the usage log,    *)
(* the charge and the release of the hold commit in one transaction.  A    *)
(* stream cut after its first byte is billed, and the handler then runs    *)
(* CompensateBrokenStreams, which refunds broken streams once the user's   *)
(* recent calls break too often.                                           *)
(*                                                                         *)
(* Every write of this module runs under Store.mu.  A single statement or  *)
(* transaction is one step.  CompensateBrokenStreams is several statements *)
(* with no transaction: it keeps the mutex from its first read to its      *)
(* last write, so no other writer comes between, but the process can stop, *)
(* or a statement fail, after any of them.                                 *)
(***************************************************************************)
EXTENDS Integers, Sequences, FiniteSets, SetSum

CONSTANTS
    Users,               \* rows of the users table
    Requests,            \* gateway calls; a call settles at most once, so a
                         \* request also names its usage_logs row
    Owner,               \* the user whose API key the request presents
    PromptSizes,         \* characters of the prompts sent
    DefaultReservation,  \* defaultReservation: the smallest hold
    MaxReservation,      \* maxReservation(): the largest hold
    Costs,               \* what PriceCall may answer for a finished call
    BrokenCost,          \* nominal cost of a stream cut after its first byte
    InitialTotal,        \* quota_total of each user at the start
    Totals,              \* allowances an operator sets; 0 or less: unlimited
    Credits,             \* credits of paid and manual top-ups
    WindowSize, MinBroken, ThresholdNum, ThresholdDen,  \* CompensationConfig
    StoreErrors,         \* may a statement of the store fail?
    MaxTotal,            \* bound: no top-up beyond this allowance
    MaxRestarts          \* bound: restarts of the process

ASSUME QuotaAssumption ==
    /\ IsFiniteSet(Users) /\ Users # {} /\ IsFiniteSet(Requests)
    /\ Owner \in [Requests -> Users]
    /\ PromptSizes \subseteq Nat
    /\ DefaultReservation \in Nat \ {0} /\ MaxReservation \in Nat \ {0}
    /\ Costs \subseteq Nat /\ BrokenCost \in Nat
    /\ InitialTotal \in [Users -> Int]
    /\ Totals \subseteq Int /\ Credits \subseteq Nat \ {0}
    /\ WindowSize \in Nat \ {0} /\ MinBroken \in Nat
    /\ ThresholdNum \in Nat \ {0} /\ ThresholdDen \in Nat \ {0}
    /\ StoreErrors \in BOOLEAN /\ MaxTotal \in Int /\ MaxRestarts \in Nat

VARIABLES
    total, used, reserved,  \* users.quota_total, quota_used, quota_reserved
    logStatus, logCost,     \* usage_logs.status ("none": no row) and cost
    compensated,            \* requests whose log has compensated = 1
    order,                  \* each user's logs, oldest first (created_at)
    pc, held,               \* where each handler is; the hold it passes on
    comp,                   \* the CompensateBrokenStreams that has Store.mu
    restarts,               \* how often the process restarted
    refunded,               \* history: logs whose cost was credited back
    ceiling,                \* history: largest quota_total the user ever had
    everUnlimited,          \* history: users that ever had quota_total <= 0
    owed,                   \* history: logs that were due when a call settled
    dropped                 \* history: due logs that a later settlement pushed
                            \* out of the window, or diluted below the threshold

users   == <<total, used, reserved>>
logs    == <<logStatus, logCost, compensated, order>>
history == <<refunded, ceiling, everUnlimited, owed, dropped>>
vars    == <<users, logs, pc, held, comp, restarts, history>>

Statuses == {"none", "success", "failed", "stream_broken"}
PCs == {"arrived", "refused", "relaying", "broken", "done", "unsettled", "lost"}

NoComp == [phase |-> "idle", user |-> CHOOSE u \in Users : TRUE,
           ids |-> {}, todo |-> {}]

\* sync.Mutex Store.mu is free.
Unlocked == comp.phase = "idle"

-----------------------------------------------------------------------------
\* Sizes and conditions

ReservationUncapped(chars) ==
    IF (chars \div 4) * 2 < DefaultReservation THEN DefaultReservation
                                               ELSE (chars \div 4) * 2

\* reservationFor, capped by admit.
Reservation(chars) ==
    LET estimate == (chars \div 4) * 2
        floored  == IF estimate < DefaultReservation THEN DefaultReservation
                                                     ELSE estimate
    IN  IF floored > MaxReservation THEN MaxReservation ELSE floored

FitsIgnoringHolds(u, amount) == total[u] <= 0 \/ used[u] + amount <= total[u]

\* The condition inside the UPDATE of sqliteReserveQuota.
Fits(u, amount) == total[u] <= 0 \/ used[u] + reserved[u] + amount <= total[u]

\* CASE WHEN x > n THEN x - n ELSE 0 END.
Lowered(have, amount) == IF have > amount THEN have - amount ELSE 0

\* The last WindowSize logs of the user (ORDER BY created_at DESC LIMIT n).
Recent(u) ==
    {order[u][i] : i \in {j \in DOMAIN order[u] : j > Len(order[u]) - WindowSize}}

BrokenIn(S) == {r \in S : logStatus[r] = "stream_broken"}

\* Both guards of CompensateBrokenStreams let the run pass.
Triggered(u) ==
    LET broken == Cardinality(BrokenIn(Recent(u)))
    IN  /\ Recent(u) # {}
        /\ broken >= MinBroken
        /\ broken * ThresholdDen >= ThresholdNum * Cardinality(Recent(u))

DueAgain(u) == IF Triggered(u) THEN BrokenIn(Recent(u)) ELSE {}

\* The logs a run would refund: broken, in the window, not yet compensated.
Due(u) == IF Triggered(u) THEN BrokenIn(Recent(u)) \ compensated ELSE {}

LoggedOf(u) == {r \in Requests : Owner[r] = u /\ logStatus[r] # "none"}

-----------------------------------------------------------------------------
Init ==
    /\ total = InitialTotal
    /\ used = [u \in Users |-> 0]
    /\ reserved = [u \in Users |-> 0]
    /\ logStatus = [r \in Requests |-> "none"]
    /\ logCost = [r \in Requests |-> 0]
    /\ compensated = {}
    /\ order = [u \in Users |-> <<>>]
    /\ pc = [r \in Requests |-> "arrived"]
    /\ held = [r \in Requests |-> 0]
    /\ comp = NoComp
    /\ restarts = 0
    /\ refunded = {}
    /\ ceiling = InitialTotal
    /\ everUnlimited = {u \in Users : InitialTotal[u] <= 0}
    /\ owed = {}
    /\ dropped = {}

-----------------------------------------------------------------------------
\* Admission

\* admit: one conditional UPDATE checks and holds.
Admit(r, chars) ==
    LET u == Owner[r]
        amount == Reservation(chars)
    IN  /\ Unlocked
        /\ pc[r] = "arrived"
        /\ Fits(u, amount)
        /\ reserved' = [reserved EXCEPT ![u] = @ + amount]
        /\ held' = [held EXCEPT ![r] = amount]
        /\ pc' = [pc EXCEPT ![r] = "relaying"]
        /\ UNCHANGED <<total, used, logs, comp, restarts, history>>

\* 402 when the hold does not fit, 500 when the store failed: nothing is held.
Refuse(r, chars) ==
    /\ Unlocked
    /\ pc[r] = "arrived"
    /\ ~ Fits(Owner[r], Reservation(chars)) \/ StoreErrors
    /\ pc' = [pc EXCEPT ![r] = "refused"]
    /\ UNCHANGED <<users, logs, held, comp, restarts, history>>

-----------------------------------------------------------------------------
\* Settlement, after Relay or RelayStream returned

\* sqliteSettleUsage: the log, the charge and the release in one transaction.
Settle(r, status, cost) ==
    LET u == Owner[r]
    IN  /\ Unlocked
        /\ pc[r] = "relaying"
        /\ logStatus' = [logStatus EXCEPT ![r] = status]
        /\ logCost' = [logCost EXCEPT ![r] = cost]
        /\ order' = [order EXCEPT ![u] = Append(@, r)]
        /\ used' = [used EXCEPT ![u] = @ + cost]
        /\ reserved' = [reserved EXCEPT ![u] = Lowered(@, held[r])]
        /\ pc' = [pc EXCEPT ![r] =
                    IF status = "stream_broken" THEN "broken" ELSE "done"]
        /\ UNCHANGED <<total, held, compensated, comp, restarts, refunded,
                       ceiling, everUnlimited>>
        /\ owed' = owed \cup Due(u)'
        /\ dropped' = dropped \cup (Due(u) \ Due(u)')

SettleSuccess(r) == \E cost \in Costs : Settle(r, "success", cost)
SettleFailed(r)  == Settle(r, "failed", 0)
SettleBroken(r)  == Settle(r, "stream_broken", BrokenCost)

AbortEvenIfSettled(r) ==
    /\ Unlocked
    /\ pc[r] \in {"relaying", "done"}
    /\ reserved' = [reserved EXCEPT ![Owner[r]] = Lowered(@, held[r])]
    /\ pc' = [pc EXCEPT ![r] = "lost"]
    /\ UNCHANGED <<total, used, logs, held, comp, restarts, history>>

\* The handler panics before it settled: the deferred ReleaseQuota runs.
Abort(r) ==
    /\ Unlocked
    /\ pc[r] = "relaying"
    /\ reserved' = [reserved EXCEPT ![Owner[r]] = Lowered(@, held[r])]
    /\ pc' = [pc EXCEPT ![r] = "done"]
    /\ UNCHANGED <<total, used, logs, held, comp, restarts, history>>

\* The settling transaction (or the deferred release) fails and rolls back.
\* The handler drops the error and sets settled = true, so nothing tries
\* again.  When the call was a broken stream the handler still runs a
\* compensation, which does what AdminCompensate may do at any time.
LoseSettlement(r) ==
    /\ StoreErrors
    /\ Unlocked
    /\ pc[r] = "relaying"
    /\ pc' = [pc EXCEPT ![r] = "unsettled"]
    /\ UNCHANGED <<users, logs, held, comp, restarts, history>>

-----------------------------------------------------------------------------
\* Compensation of broken streams

\* Lock, read the window, decide.  With nothing due the run writes nothing.
StartCompensation(u) ==
    comp' = IF Due(u) = {} THEN comp
            ELSE [phase |-> "running", user |-> u, ids |-> Due(u), todo |-> Due(u)]

SkipCompensation(r) ==
    /\ Unlocked
    /\ pc[r] = "broken"
    /\ pc' = [pc EXCEPT ![r] = "done"]
    /\ UNCHANGED <<users, logs, held, comp, restarts, history>>

\* The handler of a broken stream, once it settled.
CompensateAfterBreak(r) ==
    /\ Unlocked
    /\ pc[r] = "broken"
    /\ pc' = [pc EXCEPT ![r] = "done"]
    /\ \/ StartCompensation(Owner[r])
       \/ StoreErrors /\ UNCHANGED comp
    /\ UNCHANGED <<users, logs, held, restarts, history>>

\* POST /api/compensate
AdminCompensate(u) ==
    /\ Unlocked
    /\ Due(u) # {}
    /\ StartCompensation(u)
    /\ UNCHANGED <<users, logs, pc, held, restarts, history>>

\* One UPDATE of sqliteMarkUsageCompensated; the window lists newest first.
MarkCompensated ==
    \E r \in comp.todo :
        /\ \E i \in DOMAIN order[comp.user] :
              /\ order[comp.user][i] = r
              /\ \A j \in DOMAIN order[comp.user] :
                    j > i => order[comp.user][j] \notin comp.todo
        /\ compensated' = compensated \cup {r}
        /\ comp' = [comp EXCEPT !.todo = @ \ {r}]
        /\ UNCHANGED <<users, logStatus, logCost, order, pc, held, restarts,
                       history>>

CreditBeforeMark ==
    /\ comp.phase = "running"
    /\ used' = [used EXCEPT ![comp.user] = Lowered(@, SumOver(logCost, comp.ids))]
    /\ refunded' = refunded \cup comp.ids
    /\ comp' = NoComp
    /\ UNCHANGED <<total, reserved, logs, pc, held, restarts, ceiling,
                   everUnlimited, owed, dropped>>

CreditWithoutUnlock ==
    /\ comp.phase = "running" /\ comp.todo = {}
    /\ used' = [used EXCEPT ![comp.user] = Lowered(@, SumOver(logCost, comp.ids))]
    /\ refunded' = refunded \cup comp.ids
    /\ comp' = [comp EXCEPT !.ids = {}]
    /\ UNCHANGED <<total, reserved, logs, pc, held, restarts, ceiling,
                   everUnlimited, owed, dropped>>

\* sqliteCreditQuota with the sum read at the start; then the mutex is free.
CreditQuota ==
    /\ comp.phase = "running"
    /\ comp.todo = {}
    /\ used' = [used EXCEPT ![comp.user] = Lowered(@, SumOver(logCost, comp.ids))]
    /\ refunded' = refunded \cup comp.ids
    /\ comp' = NoComp
    /\ UNCHANGED <<total, reserved, logs, pc, held, restarts, ceiling,
                   everUnlimited, owed, dropped>>

\* A mark or the credit fails: the run returns, what it marked stays marked.
FailCompensation ==
    /\ StoreErrors
    /\ comp.phase = "running"
    /\ comp' = NoComp
    /\ UNCHANGED <<users, logs, pc, held, restarts, history>>

-----------------------------------------------------------------------------
\* Allowances and restarts

SetTotal(u, t) ==
    /\ Unlocked
    /\ total' = [total EXCEPT ![u] = t]
    /\ ceiling' = [ceiling EXCEPT ![u] = IF t > @ THEN t ELSE @]
    /\ everUnlimited' = IF t <= 0 THEN everUnlimited \cup {u} ELSE everUnlimited
    /\ UNCHANGED <<used, reserved, logs, pc, held, comp, restarts, refunded, owed,
                   dropped>>

\* An operator writes the allowance: an absolute value, whatever was used.
SetQuotaTotal(u) == \E t \in Totals : SetTotal(u, t)

\* A paid order or a manual top-up adds to the allowance.
AddQuotaCredit(u) ==
    \E c \in Credits : total[u] + c <= MaxTotal /\ SetTotal(u, total[u] + c)

\* The process stops anywhere and starts again.  The handlers are gone, the
\* database stays, and opening it resets quota_reserved.
Restart ==
    /\ restarts < MaxRestarts
    /\ restarts' = restarts + 1
    /\ reserved' = [u \in Users |-> 0]
    /\ pc' = [r \in Requests |->
                IF pc[r] \in {"relaying", "broken", "unsettled"} THEN "lost"
                                                                 ELSE pc[r]]
    /\ comp' = NoComp
    /\ UNCHANGED <<total, used, logs, held, history>>

-----------------------------------------------------------------------------
\* How a request that holds quota ends.
Finish(r) ==
    SettleSuccess(r) \/ SettleFailed(r) \/ SettleBroken(r)
        \/ Abort(r) \/ LoseSettlement(r)

Next ==
    \/ \E r \in Requests :
          \/ \E chars \in PromptSizes : Admit(r, chars) \/ Refuse(r, chars)
          \/ Finish(r)
          \/ CompensateAfterBreak(r)
    \/ \E u \in Users : AdminCompensate(u) \/ SetQuotaTotal(u) \/ AddQuotaCredit(u)
    \/ MarkCompensated \/ CreditQuota \/ FailCompensation
    \/ Restart

Spec == Init /\ [][Next]_vars

\* Upstream clients have timeouts, so a relayed call ends; a handler goes on
\* to its next statement; the holder of Store.mu finishes.  Nothing makes
\* clients call, operators act or the process restart.
Fairness ==
    /\ \A r \in Requests : WF_vars(Finish(r)) /\ WF_vars(CompensateAfterBreak(r))
    /\ WF_vars(MarkCompensated \/ CreditQuota)

FairSpec == Spec /\ Fairness

-----------------------------------------------------------------------------
\* Invariants

\* Every hold stays within the cap, and the columns keep their types.
TypeOK ==
    /\ total \in [Users -> Int]
    /\ used \in [Users -> Nat]
    /\ reserved \in [Users -> Nat]
    /\ logStatus \in [Requests -> Statuses]
    /\ logCost \in [Requests -> Nat]
    /\ compensated \in SUBSET Requests
    /\ order \in [Users -> Seq(Requests)]
    /\ pc \in [Requests -> PCs]
    /\ held \in [Requests -> 0 .. MaxReservation]
    /\ comp \in [phase : {"idle", "running"}, user : Users,
                 ids : SUBSET Requests, todo : SUBSET Requests]
    /\ restarts \in Nat
    /\ refunded \in SUBSET Requests
    /\ ceiling \in [Users -> Int]
    /\ everUnlimited \in SUBSET Users
    /\ owed \in SUBSET Requests
    /\ dropped \in SUBSET Requests

\* Requests whose hold is still counted in quota_reserved.
Holding(u) == {r \in Requests : Owner[r] = u /\ pc[r] \in {"relaying", "unsettled"}}

\* quota_reserved is the sum of the holds of the calls that have not settled,
\* whatever admissions, settlements, panics, lost transactions and restarts
\* interleave: no hold is released twice, none outlives its settlement, and
\* the floor of the release never hides a difference.
HoldsAccounted ==
    \A u \in Users : reserved[u] = SumOver(held, Holding(u))

\* quota_used is the sum of the logged costs that were not credited back: a
\* call is charged once, a refund gives back exactly what the refunded logs
\* charged, and the floor of the credit never hides a difference.
UsedIsLedger ==
    \A u \in Users : used[u] = SumOver(logCost, LoggedOf(u) \ refunded)

\* A credit follows its marks: a log is credited only when it is marked, so no
\* later run (after an error or a restart) can credit it again; only broken
\* streams are ever marked.
RefundsAreMarked ==
    /\ refunded \subseteq compensated
    /\ \A r \in compensated : logStatus[r] = "stream_broken"

\* What a settled call cost beyond its hold (the estimate was too low).
Overrun == [r \in Requests |-> IF logStatus[r] # "none" /\ logCost[r] > held[r]
                               THEN logCost[r] - held[r] ELSE 0]

\* The purpose of admission: however many calls of a limited user run at once,
\* what is spent and held never exceeds the largest allowance the user was
\* given by more than the amounts by which settled calls outgrew their holds.
SpendBounded ==
    \A u \in Users \ everUnlimited :
        used[u] + reserved[u] <= ceiling[u] + SumOver(Overrun, LoggedOf(u))

\* Calls of the user that have settled and not yet run their compensation.
Waiting(u) == {r \in Requests : Owner[r] = u /\ pc[r] = "broken"}

\* While statements do not fail and the process stays up: once no call of the
\* user is between its settlement and its compensation, nothing in the window
\* is due, and whatever fell due at a settlement was credited, unless a later
\* settlement of the user, before the compensation, pushed it out of the
\* window or brought the rate below the threshold.  (Those refunds the code
\* does miss: DueIsRefunded.)
NoMissedRefund ==
    (~ StoreErrors /\ restarts = 0 /\ Unlocked) =>
        /\ \A u \in Users : Waiting(u) = {} => Due(u) = {}
        /\ \A r \in owed : Waiting(Owner[r]) = {} => r \in refunded \cup dropped

-----------------------------------------------------------------------------
\* Liveness

\* A call that holds quota ends, and with a store that works its hold ends
\* with it: it cannot stay admitted behind a compensation that has the mutex.
HoldsResolved ==
    \A r \in Requests : (pc[r] = "relaying") ~> (r \notin Holding(Owner[r]))

-----------------------------------------------------------------------------
\* What the code promises and does not keep (violation runs)

\* "Every caller that reserves MUST later either SettleUsage with the same
\* amount or ReleaseQuota it": with no call in flight nothing is reserved.
NoPinnedHold ==
    \A u \in Users :
        (\A r \in Requests : Owner[r] = u => pc[r] # "relaying") => reserved[u] = 0

\* "the system credits the cost back and marks each broken log": between runs
\* a log marked compensated was credited.
MarkedIsRefunded == Unlocked => compensated \subseteq refunded

\* When the rate of broken calls in the recent window passes the threshold, the
\* cost of the broken calls is refunded automatically (README, stream
\* compensation): what fell due when a call settled is credited once no call of
\* the user is between its settlement and its compensation.
DueIsRefunded ==
    (restarts = 0 /\ Unlocked) =>
        \A r \in owed : Waiting(Owner[r]) = {} => r \in refunded
=============================================================================
