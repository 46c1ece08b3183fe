---------------------------- MODULE MCCredentials ----------------------------
(* Credentials for TLC: two accounts of one provider, one of them main's.    *)
EXTENDS Credentials, TLC

CONSTANTS a1, a2, c1, c2, k1, k2

MCProvider == [a \in Accounts |-> "claude"]
MCBoot == [p \in Providers |-> IF p = "claude" THEN a1 ELSE None]
MCAllKinds == {"loop", "force", "call", "put", "wipe", "test", "cookie", "import",
               "clear", "identity", "extra", "delete"}
MCRotations == {TRUE, FALSE}
MCSymmetry == Permutations(Jobs) \cup Permutations(Cookies)
=============================================================================
