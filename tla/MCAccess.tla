------------------------------ MODULE MCAccess ------------------------------
(* Access for TLC: an administrator and a user of the legacy file, and the   *)
(* user admin, whom the first start creates or fails to create.              *)
EXTENDS Access, TLC

CONSTANTS boss, u1, u2, k1, k2, t1, t2

MCUsers == {boss, u1, u2}
MCLegacyUsers == {u1, u2}
MCLegacyRole == u1 :> "admin" @@ u2 :> "user"
MCLegacyKey == k1 :> u2
MCLegacySession == t1 :> u1
MCSymmetry == Permutations(Requests)
=============================================================================
