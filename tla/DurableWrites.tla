---------------------------- MODULE DurableWrites ----------------------------
(***************************************************************************)
(* What the Firestore client promises the app that calls addDocument       *)
(* (CollectionReference::AddDocument, collection_reference.cc 90-95),      *)
(* without streams, handshakes or retries: a write joins the queue of the  *)
(* user the client serves and stays there, whatever happens to the         *)
(* process or the connection; the server applies the writes of a queue in  *)
(* its order; a write leaves only from the front of the served queue, and  *)
(* with the server's verdict: saved if the server has it, failed if the    *)
(* server never takes it.  Its callback hears the verdict at most once.    *)
(*                                                                         *)
(* The upload chains of both forms rely on this queue (UploadPipeline);    *)
(* FirestoreWrites shows that the client's code implements it.             *)
(***************************************************************************)
EXTENDS Sequences, Naturals

CONSTANTS
  User,  \* users the client can serve, the signed-out one included
  Doc    \* documents, each under the automatic id of one addDocument

VARIABLES
  served,     \* the user whose queue the client serves
  pending,    \* the writes of each user that await the server's verdict
  committed,  \* documents on the server
  heard       \* what the callback of each write has been told

writeVars == <<served, pending, committed, heard>>

Verdicts == {"none", "saved", "failed"}

Pending(u) == {pending[u][i] : i \in 1..Len(pending[u])}
Known == committed \cup UNION {Pending(u) : u \in User}

WritesInit ==
  /\ served \in User
  /\ pending = [u \in User |-> <<>>]
  /\ committed = {}
  /\ heard = [d \in Doc |-> "none"]

Write(d) ==
  /\ d \notin Known /\ heard[d] = "none"
  /\ pending' = [pending EXCEPT ![served] = Append(@, d)]
  /\ UNCHANGED <<served, committed, heard>>

\* Nothing overtakes: the first write of the queue the server lacks.
Commit(u) ==
  /\ \E i \in 1..Len(pending[u]) :
       /\ pending[u][i] \notin committed
       /\ \A j \in 1..(i - 1) : pending[u][j] \in committed
       /\ committed' = committed \cup {pending[u][i]}
  /\ UNCHANGED <<served, pending, heard>>

\* The callback is not there any more after a restart.
Leave(verdict) ==
  LET d == Head(pending[served]) IN
  /\ pending' = [pending EXCEPT ![served] = Tail(@)]
  /\ heard' \in {heard, [heard EXCEPT ![d] = verdict]}
  /\ UNCHANGED <<served, committed>>

Acknowledge ==
  /\ pending[served] # <<>> /\ Head(pending[served]) \in committed
  /\ Leave("saved")

Refuse ==
  /\ pending[served] # <<>> /\ Head(pending[served]) \notin committed
  /\ Leave("failed")

Serve(u) ==
  /\ served' = u
  /\ UNCHANGED <<pending, committed, heard>>

WritesNext ==
  \/ \E d \in Doc : Write(d)
  \/ \E u \in User : Commit(u) \/ Serve(u)
  \/ Acknowledge
  \/ Refuse

WritesSpec == WritesInit /\ [][WritesNext]_writeVars
=============================================================================
