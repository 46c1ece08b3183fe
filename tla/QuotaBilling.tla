---------------------------- MODULE QuotaBilling ----------------------------
(* The billing core implements Billing: the two balance columns and the     *)
(* floored updates behave like exact balances moved once per call.          *)
EXTENDS Quota

\* A call's phase, from its handler, its log row and its refund.
BillingPhase(r) ==
    CASE r \in refunded                    -> "refunded"
      [] logStatus[r] = "stream_broken" /\ r \notin refunded -> "cut"
      [] logStatus[r] \in {"success", "failed"} -> "charged"
      [] logStatus[r] = "none" /\ pc[r] = "arrived" -> "new"
      [] logStatus[r] = "none" /\ pc[r] = "refused" -> "refused"
      [] logStatus[r] = "none" /\ pc[r] \in {"relaying", "unsettled"} -> "held"
      [] OTHER                              -> "void"

B == INSTANCE Billing WITH phase <- [r \in Requests |-> BillingPhase(r)],
                           hold <- held, price <- logCost,
                           onHold <- reserved, spent <- used,
                           Amounts <- 1 .. MaxReservation,
                           Prices <- Costs \cup {0, BrokenCost}

\* Every step of the billing core is one step of Billing or changes nothing
\* Billing can see: marks, lost settlements and failed compensations are
\* invisible, a restart voids all held calls at once.
ImplementsBilling == B!BillingInit /\ [][B!BillingNext]_(B!bvars)
=============================================================================
