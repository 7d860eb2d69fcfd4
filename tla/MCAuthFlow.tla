----------------------------- MODULE MCAuthFlow -----------------------------
(* A small instance of AuthFlow for TLC.                                   *)
EXTENDS AuthFlow

CONSTANTS a1, a2, t1, t2
=============================================================================
