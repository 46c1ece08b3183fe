----------------------------- MODULE MCOAuthFlow -----------------------------
(* OAuthFlow for TLC: two sessions that may be of one account.               *)
EXTENDS OAuthFlow
=============================================================================
