------------------------------- MODULE MCQuota -------------------------------
(* Quota for TLC: three calls of one user, so that a window of two logs      *)
(* shifts and holds compete for the allowance.  Users meet only at the      *)
(* mutex, which one user's calls contend for as well.                       *)
EXTENDS QuotaBilling, TLC

CONSTANTS u1, r1, r2, r3, r4

MCUsers == {u1}
MCRequests == {r1, r2, r3}
MCOwner == [r \in MCRequests |-> u1]

\* One more call, for a window of three that shifts.
MCRequests4 == MCRequests \cup {r4}
MCOwner4 == [r \in MCRequests4 |-> u1]
MCInitialTotal == [u \in MCUsers |-> 5]
=============================================================================
