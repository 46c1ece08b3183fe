------------------------------- MODULE SetSum -------------------------------
(***************************************************************************)
(* The sum of f[r] over the elements r of a finite set, written as the     *)
(* number of units the elements carry.  The balance columns of the users   *)
(* table (quota_used, quota_reserved, quota_total) are compared with sums  *)
(* over requests, logs and orders.  A fold would say the same, but what a  *)
(* fold computes is out of the proof system's reach, while the cardinality *)
(* of a finite set is not; QuotaProofs and RechargeProofs prove its laws.  *)
(***************************************************************************)
EXTENDS Integers, FiniteSets

\* One pair <<r, k>> for each unit that r carries.
Units(f, S) == UNION {{r} \X (1 .. f[r]) : r \in S}

SumOver(f, S) == Cardinality(Units(f, S))
=============================================================================
