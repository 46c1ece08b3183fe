------------------------------- MODULE MCStream -------------------------------
(* Stream for TLC: all adapters and writers, the code's three attempts.      *)
EXTENDS Stream
=============================================================================
