------------------------- MODULE MCFirestoreListens -------------------------
(* Small instances of FirestoreListens for TLC.                            *)
EXTENDS FirestoreListens

CONSTANTS posts, d1, d2

\* The feed matches every document.
AllMatch == [q \in Query |-> Doc]
=============================================================================
