---------------------------- MODULE Publication ----------------------------
(***************************************************************************)
(* What the two upload pipelines of BookSelf promise, without any of the   *)
(* screens, callbacks or accounts that drive them: CreateVC.swift 70-109   *)
(* (a post) and UpdateProfileVC.swift 79-114 (a profile) both put an image *)
(* in Firebase Storage, ask for its URL and add one Firestore document     *)
(* that carries the URL.                                                   *)
(*                                                                         *)
(* An attempt is one tap of the button.  Its image is stored at most once; *)
(* its document may be recorded on the device only once the image is       *)
(* stored; a recorded document is durable, and ends published on the       *)
(* server or rejected by it; an attempt that is dropped never comes back,  *)
(* though its image may still arrive.                                      *)
(***************************************************************************)
CONSTANT Attempt

VARIABLES
  stored,     \* attempts whose image is in Firebase Storage
  recorded,   \* attempts whose document waits in the device's write queue
  published,  \* attempts whose document is in the server's collection
  dropped     \* attempts that failed, were rejected or died with the app

pubVars == <<stored, recorded, published, dropped>>

PubTypeOK ==
  /\ stored \subseteq Attempt
  /\ recorded \subseteq Attempt
  /\ published \subseteq Attempt
  /\ dropped \subseteq Attempt

PubInit ==
  /\ stored = {}
  /\ recorded = {}
  /\ published = {}
  /\ dropped = {}

Ended == published \cup dropped

Store(s) ==
  /\ s \notin stored \cup recorded \cup published
  /\ stored' = stored \cup {s}
  /\ UNCHANGED <<recorded, published, dropped>>

Record(s) ==
  /\ s \in stored \ (recorded \cup Ended)
  /\ recorded' = recorded \cup {s}
  /\ UNCHANGED <<stored, published, dropped>>

Publish(s) ==
  /\ s \in recorded
  /\ recorded' = recorded \ {s}
  /\ published' = published \cup {s}
  /\ UNCHANGED <<stored, dropped>>

Reject(s) ==
  /\ s \in recorded
  /\ recorded' = recorded \ {s}
  /\ dropped' = dropped \cup {s}
  /\ UNCHANGED <<stored, published>>

\* A failure drops one attempt, the death of the process every attempt that
\* has not yet been recorded.
Drop(S) ==
  /\ S \cap (recorded \cup Ended) = {}
  /\ dropped' = dropped \cup S
  /\ UNCHANGED <<stored, recorded, published>>

PubNext ==
  \/ \E s \in Attempt : Store(s) \/ Record(s) \/ Publish(s) \/ Reject(s)
  \/ \E S \in SUBSET Attempt : Drop(S)

PubSpec == PubInit /\ [][PubNext]_pubVars
=============================================================================
