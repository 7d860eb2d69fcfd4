------------------------- MODULE MCFirestoreWrites -------------------------
(* Small instances of FirestoreWrites for TLC.                             *)
EXTENDS FirestoreWrites, TLC

CONSTANTS u1, u2, d1, d2, d3, d4

\* The documents and the users are interchangeable.
Symmetry == Permutations(User) \cup Permutations(Doc)
=============================================================================
