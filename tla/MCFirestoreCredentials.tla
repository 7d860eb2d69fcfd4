----------------------- MODULE MCFirestoreCredentials -----------------------
(* A small instance of FirestoreCredentials for TLC.                       *)
EXTENDS FirestoreCredentials

CONSTANTS a1, a2, write
=============================================================================
