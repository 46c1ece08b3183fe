------------------------------ MODULE MCRecharge ------------------------------
(* Recharge for TLC: one user with two requests that may share a key.        *)
EXTENDS Recharge, TLC

CONSTANTS u1, ghost, p10, p50

MCUsers == {u1}
MCUnknown == {ghost}
MCPackages == {p10, p50}
MCPrice == p10 :> 1 @@ p50 :> 5
MCCredit == p10 :> 2 @@ p50 :> 11
MCInitialTotal == [u \in Users |-> 3]
=============================================================================
