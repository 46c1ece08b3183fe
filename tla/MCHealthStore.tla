---------------------------- MODULE MCHealthStore ----------------------------
(* HealthStore for TLC: a subscription account and a demo account.           *)
EXTENDS HealthStore

CONSTANTS a1, a2, k1, k2

MCAccounts == {a1, a2}
MCProvider == [a \in Accounts |-> IF a = a1 THEN "claude" ELSE "mock"]
MCPriority == [a \in Accounts |-> 1]
MCIndex == [a \in Accounts |-> IF a = a1 THEN 1 ELSE 2]
MCNoRoutes == {{}}
MCResults == {[class |-> "ok", cd |-> 0], [class |-> "429", cd |-> 1]}
MCSymmetry == Permutations(Admins)
=============================================================================
