------------------------------- MODULE Billing -------------------------------
(***************************************************************************)
(* What billing promises a user, without statements, mutexes or rows: a    *)
(* call holds an amount, ends exactly once with a price or with nothing,   *)
(* and a call that was cut is refunded at most once and in full.  Balances *)
(* move by exact amounts, in the same step as the call they belong to.     *)
(***************************************************************************)
EXTENDS Integers, SetSum

CONSTANTS Users, Requests, Owner,
          Amounts, Prices   \* what a call may hold, and what it may be charged

VARIABLES phase,          \* how far each call is
          hold, price,    \* what each call holds, and what it was charged
          onHold, spent   \* each user's balances

bvars == <<phase, hold, price, onHold, spent>>

Of(u, S) == {r \in S : Owner[r] = u}

BillingInit ==
    /\ phase = [r \in Requests |-> "new"]
    /\ hold = [r \in Requests |-> 0]
    /\ price = [r \in Requests |-> 0]
    /\ onHold = [u \in Users |-> 0]
    /\ spent = [u \in Users |-> 0]

Hold(r) ==
    /\ phase[r] = "new"
    /\ \E amount \in Amounts :
          /\ hold' = [hold EXCEPT ![r] = amount]
          /\ onHold' = [onHold EXCEPT ![Owner[r]] = @ + amount]
    /\ phase' = [phase EXCEPT ![r] = "held"]
    /\ UNCHANGED <<price, spent>>

Turn(r) ==
    /\ phase[r] = "new"
    /\ phase' = [phase EXCEPT ![r] = "refused"]
    /\ UNCHANGED <<hold, price, onHold, spent>>

Charge(r) ==
    /\ phase[r] = "held"
    /\ \E cost \in Prices :
          /\ price' = [price EXCEPT ![r] = cost]
          /\ spent' = [spent EXCEPT ![Owner[r]] = @ + cost]
    /\ phase' \in {[phase EXCEPT ![r] = p] : p \in {"charged", "cut"}}
    /\ onHold' = [onHold EXCEPT ![Owner[r]] = @ - hold[r]]
    /\ UNCHANGED hold

\* Calls that end with nothing to pay: one that panics, or all of a crash.
Void ==
    \E S \in SUBSET {r \in Requests : phase[r] = "held"} :
        /\ phase' = [r \in Requests |-> IF r \in S THEN "void" ELSE phase[r]]
        /\ onHold' = [u \in Users |-> onHold[u] - SumOver(hold, Of(u, S))]
        /\ UNCHANGED <<hold, price, spent>>

Refund(u) ==
    \E S \in SUBSET {r \in Of(u, Requests) : phase[r] = "cut"} :
        /\ phase' = [r \in Requests |-> IF r \in S THEN "refunded" ELSE phase[r]]
        /\ spent' = [spent EXCEPT ![u] = @ - SumOver(price, S)]
        /\ UNCHANGED <<hold, price, onHold>>

BillingNext ==
    \/ \E r \in Requests : Hold(r) \/ Turn(r) \/ Charge(r)
    \/ Void
    \/ \E u \in Users : Refund(u)

BillingSpec == BillingInit /\ [][BillingNext]_bvars
=============================================================================
