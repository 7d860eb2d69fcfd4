------------------------ MODULE UploadPipeline_proofs ------------------------
(***************************************************************************)
(* Proofs about the upload pipeline, for any screens, uploads, accounts,   *)
(* pictures and contents: its type correctness, the inductive invariant    *)
(* PipelineInv, the invariants that follow from it, the durability of      *)
(* writes and the refinement of Publication.                               *)
(***************************************************************************)
EXTENDS UploadPipeline, SequenceTheorems, TLAPS

-----------------------------------------------------------------------------
(* The write queues.                                                       *)

\* Adding a write d to the queue of user u leaves every queue well formed,
\* every write of the new queues is d or was queued at the same place, and
\* every write of the old queues is where it was.
LEMMA AppendWrite ==
  ASSUME NEW S, NEW D, NEW Q \in [S -> Seq(D)], NEW u \in S, NEW d \in D,
         NEW R, R = [Q EXCEPT ![u] = Append(@, d)]
  PROVE  /\ R \in [S -> Seq(D)]
         /\ \A v \in S : \A i \in 1..Len(R[v]) :
              \/ v = u /\ i = Len(Q[u]) + 1 /\ R[v][i] = d
              \/ i \in 1..Len(Q[v]) /\ R[v][i] = Q[v][i]
         /\ \A v \in S : \A i \in 1..Len(Q[v]) :
              i \in 1..Len(R[v]) /\ R[v][i] = Q[v][i]
         /\ Len(Q[u]) + 1 \in 1..Len(R[u]) /\ R[u][Len(Q[u]) + 1] = d
<1>1. Append(Q[u], d) \in Seq(D)
  OBVIOUS
<1>2. R \in [S -> Seq(D)]
  BY <1>1
<1>3. ASSUME NEW v \in S, NEW i \in 1..Len(R[v])
      PROVE  \/ v = u /\ i = Len(Q[u]) + 1 /\ R[v][i] = d
             \/ i \in 1..Len(Q[v]) /\ R[v][i] = Q[v][i]
  <2>1. CASE v = u
    <3>1. R[v] = Append(Q[u], d)
      BY <2>1
    <3>2. /\ Len(R[v]) = Len(Q[u]) + 1
          /\ Len(Q[u]) \in Nat
      BY <3>1
    <3>3. CASE i = Len(Q[u]) + 1
      BY <2>1, <3>1, <3>3
    <3>4. CASE i # Len(Q[u]) + 1
      BY <2>1, <3>1, <3>2, <3>4
    <3> QED
      BY <3>3, <3>4
  <2>2. CASE v # u
    <3>1. R[v] = Q[v]
      BY <2>2
    <3> QED
      BY <3>1
  <2> QED
    BY <2>1, <2>2
<1>4. ASSUME NEW v \in S, NEW i \in 1..Len(Q[v])
      PROVE  i \in 1..Len(R[v]) /\ R[v][i] = Q[v][i]
  <2>1. CASE v = u
    <3>1. R[v] = Append(Q[u], d)
      BY <2>1
    <3> QED
      BY <2>1, <3>1
  <2>2. CASE v # u
    <3>1. R[v] = Q[v]
      BY <2>2
    <3> QED
      BY <3>1
  <2> QED
    BY <2>1, <2>2
<1>5. Len(Q[u]) + 1 \in 1..Len(R[u]) /\ R[u][Len(Q[u]) + 1] = d
  <2>1. R[u] = Append(Q[u], d) /\ Len(Q[u]) \in Nat
    OBVIOUS
  <2> QED
    BY <2>1
<1> QED
  BY <1>2, <1>3, <1>4, <1>5

\* Removing the first write of the queue of user u leaves every queue well
\* formed, every write of the new queues was queued before, one place further
\* back in the queue of u, and no other write has been lost.
LEMMA RemoveFirstWrite ==
  ASSUME NEW S, NEW D, NEW Q \in [S -> Seq(D)], NEW u \in S, Q[u] # <<>>,
         NEW R, R = [Q EXCEPT ![u] = Tail(@)]
  PROVE  /\ R \in [S -> Seq(D)]
         /\ Head(Q[u]) = Q[u][1] /\ 1 \in 1..Len(Q[u]) /\ Head(Q[u]) \in D
         /\ \A v \in S : \A i \in 1..Len(R[v]) :
              \/ v = u /\ i + 1 \in 1..Len(Q[u]) /\ R[v][i] = Q[u][i + 1]
              \/ v # u /\ i \in 1..Len(Q[v]) /\ R[v][i] = Q[v][i]
         /\ \A v \in S : \A i \in 1..Len(Q[v]) :
              /\ v = u /\ i # 1 => i - 1 \in 1..Len(R[v]) /\ R[v][i - 1] = Q[v][i]
              /\ v # u => i \in 1..Len(R[v]) /\ R[v][i] = Q[v][i]
<1>1. Q[u] \in Seq(D) /\ Len(Q[u]) \in Nat \ {0}
  BY EmptySeq
<1>2. /\ Head(Q[u]) \in D
      /\ Tail(Q[u]) \in Seq(D)
      /\ Len(Tail(Q[u])) = Len(Q[u]) - 1
      /\ \A i \in 1..Len(Tail(Q[u])) : Tail(Q[u])[i] = Q[u][i + 1]
  BY <1>1, HeadTailProperties
<1>3. Head(Q[u]) = Q[u][1] /\ 1 \in 1..Len(Q[u])
  BY <1>1
<1>4. R \in [S -> Seq(D)]
  BY <1>2
<1>5. ASSUME NEW v \in S, NEW i \in 1..Len(R[v])
      PROVE  \/ v = u /\ i + 1 \in 1..Len(Q[u]) /\ R[v][i] = Q[u][i + 1]
             \/ v # u /\ i \in 1..Len(Q[v]) /\ R[v][i] = Q[v][i]
  <2>1. CASE v = u
    <3>1. R[v] = Tail(Q[u])
      BY <2>1
    <3> QED
      BY <1>1, <1>2, <2>1, <3>1
  <2>2. CASE v # u
    <3>1. R[v] = Q[v]
      BY <2>2
    <3> QED
      BY <2>2, <3>1
  <2> QED
    BY <2>1, <2>2
<1>6. ASSUME NEW v \in S, NEW i \in 1..Len(Q[v])
      PROVE  /\ v = u /\ i # 1 => i - 1 \in 1..Len(R[v]) /\ R[v][i - 1] = Q[v][i]
             /\ v # u => i \in 1..Len(R[v]) /\ R[v][i] = Q[v][i]
  <2>1. CASE v = u
    <3>1. R[v] = Tail(Q[u])
      BY <2>1
    <3> QED
      BY <1>1, <1>2, <2>1, <3>1
  <2>2. CASE v # u
    <3>1. R[v] = Q[v]
      BY <2>2
    <3> QED
      BY <2>2, <3>1
  <2> QED
    BY <2>1, <2>2
<1> QED
  BY <1>2, <1>3, <1>4, <1>5, <1>6

-----------------------------------------------------------------------------
(* Type correctness.                                                       *)

\* The answer to a write leaves the queues and the stages well formed.
LEMMA AnswerTypeOK ==
  ASSUME PipelineTypeOK, NEW u \in User, queue[u] # <<>>, NEW r \in Stages, Answer(u, r)
  PROVE  PipelineTypeOK'
<1> USE DEF PipelineTypeOK
<1>1. queue' = [queue EXCEPT ![u] = Tail(@)]
  BY DEF Answer
<1>2. queue' \in [User -> Seq(Document)] /\ Head(queue[u]) \in Document
  BY <1>1, RemoveFirstWrite
<1>3. stage' \in [Upload -> Stages]
  BY <1>2 DEF Answer, Document
<1> QED
  BY <1>2, <1>3 DEF Answer, session

\* Every step keeps the types.
LEMMA NextTypeOK ==
  ASSUME PipelineTypeOK, [PipelineNext]_pipelineVars
  PROVE  PipelineTypeOK'
<1> USE DEF PipelineTypeOK, session, uploadVars, storeVars, Stages
<1>1. ASSUME NEW c \in Screen, NEW s \in Upload, NEW p \in Picture, PutData(c, s, p)
      PROVE  PipelineTypeOK'
  BY <1>1 DEF PutData
<1>2. ASSUME NEW s \in Upload, StorageReceives(s) PROVE PipelineTypeOK'
  BY <1>2 DEF StorageReceives
<1>3. ASSUME NEW s \in Upload, PutDataSucceeds(s) PROVE PipelineTypeOK'
  BY <1>3 DEF PutDataSucceeds
<1>4. ASSUME NEW s \in Upload, PutDataFails(s) PROVE PipelineTypeOK'
  BY <1>4 DEF PutDataFails
<1>5. ASSUME NEW s \in Upload, DownloadURLFails(s) PROVE PipelineTypeOK'
  BY <1>5 DEF DownloadURLFails
<1>6. ASSUME NEW s \in Upload, NEW x \in Content, AddDocument(s, x) PROVE PipelineTypeOK'
  <2>1. Written(s, x) \in Document /\ client \in User
    BY <1>6 DEF AddDocument, Written, Document, User
  <2>2. queue' = [queue EXCEPT ![client] = Append(@, Written(s, x))]
    BY <1>6 DEF AddDocument
  <2>3. queue' \in [User -> Seq(Document)]
    BY <2>1, <2>2, AppendWrite
  <2> QED
    BY <1>6, <2>3 DEF AddDocument
<1>7. ASSUME NEW u \in User, ServerApplies(u) PROVE PipelineTypeOK'
  <2>1. PICK i \in 1..Len(queue[u]) : collection' = collection \cup {queue[u][i]}
    BY <1>7 DEF ServerApplies
  <2>2. queue[u][i] \in Document
    BY ElementOfSeq
  <2> QED
    BY <1>7, <2>1, <2>2 DEF ServerApplies
<1>8. ASSUME NEW u \in User, WriteAcknowledged(u) PROVE PipelineTypeOK'
  BY <1>8, AnswerTypeOK DEF WriteAcknowledged, StreamOpen
<1>9. ASSUME NEW u \in User, WriteRejected(u) PROVE PipelineTypeOK'
  BY <1>9, AnswerTypeOK DEF WriteRejected, StreamOpen
<1>10. ASSUME NEW a \in Account, SignedIn(a) PROVE PipelineTypeOK'
  BY <1>10 DEF SignedIn, User
<1>11. CASE SignedOut
  BY <1>11 DEF SignedOut, User
<1>12. CASE CredentialChanged
  BY <1>12 DEF CredentialChanged
<1>13. CASE ProcessDies
  BY <1>13 DEF ProcessDies
<1>14. CASE UNCHANGED pipelineVars
  BY <1>14 DEF pipelineVars
<1> QED
  BY <1>1, <1>2, <1>3, <1>4, <1>5, <1>6, <1>7, <1>8, <1>9, <1>10, <1>11, <1>12, <1>13,
     <1>14 DEF PipelineNext

-----------------------------------------------------------------------------
(* The inductive invariant.                                                *)

\* A step that changes no document and takes no upload back before its write
\* keeps PipelineInv, if it keeps the images in order.
LEMMA DocumentsUntouched ==
  ASSUME PipelineInv, PipelineTypeOK', BlobInv', UNCHANGED <<queue, collection>>,
         \A s \in Upload : stage[s] \in {"adding", "restored"} =>
                            stage'[s] \in {"adding", "restored"},
         \A s \in Upload : stage[s] \in {"saved", "failed"} => stage'[s] = stage[s],
         \A s \in Upload : blob[s] # NoBlob => blob'[s] # NoBlob
  PROVE  PipelineInv'
<1>1. \A u \in User : \A i \in 1..Len(queue[u]) : queue[u][i].url \in Upload
  <2> TAKE u \in User
  <2> TAKE i \in 1..Len(queue[u])
  <2>1. queue[u][i] \in Document
    BY ElementOfSeq DEF PipelineInv, PipelineTypeOK
  <2> QED
    BY <2>1 DEF Document
<1>2. \A d \in collection : d.url \in Upload
  BY DEF PipelineInv, PipelineTypeOK, Document
<1>3. QueueInv'
  BY <1>1 DEF PipelineInv, QueueInv
<1>4. CollectionInv'
  BY <1>2 DEF PipelineInv, CollectionInv
<1>5. OneQueueEntry'
  BY DEF PipelineInv, OneQueueEntry
<1> QED
  BY <1>3, <1>4, <1>5 DEF PipelineInv

\* An upload that is not yet a write has no document anywhere.
LEMMA NoDocumentYet ==
  ASSUME PipelineInv, NEW s \in Upload,
         stage[s] \notin {"adding", "restored", "saved", "failed"}
  PROVE  /\ \A u \in User : \A i \in 1..Len(queue[u]) : queue[u][i].url # s
         /\ \A d \in collection : d.url # s
BY DEF PipelineInv, QueueInv, CollectionInv

\* addDocument: the new write is the only one of its upload and its image
\* is stored.
LEMMA AddDocumentInv ==
  ASSUME PipelineInv, NEW s \in Upload, NEW x \in Content, AddDocument(s, x)
  PROVE  PipelineInv'
<1> DEFINE d == Written(s, x)
<1>1. PipelineTypeOK /\ BlobInv /\ QueueInv /\ CollectionInv /\ OneQueueEntry
  BY DEF PipelineInv
<1>2. d \in Document /\ d.url = s /\ client \in User
  BY <1>1 DEF AddDocument, Written, Document, User, PipelineTypeOK
<1>3. /\ stage[s] = "resolving"
      /\ stage' = [stage EXCEPT ![s] = "adding"]
      /\ queue' = [queue EXCEPT ![client] = Append(@, d)]
      /\ UNCHANGED <<data, blob, collection>>
  BY DEF AddDocument
<1>4. PipelineTypeOK'
  BY <1>1, NextTypeOK DEF PipelineNext
<1>5. \A u \in User : \A i \in 1..Len(queue'[u]) :
        \/ u = client /\ i = Len(queue[client]) + 1 /\ queue'[u][i] = d
        \/ i \in 1..Len(queue[u]) /\ queue'[u][i] = queue[u][i]
  BY <1>1, <1>2, <1>3, AppendWrite DEF PipelineTypeOK
<1>6. /\ \A u \in User : \A i \in 1..Len(queue[u]) : queue[u][i].url # s
      /\ \A e \in collection : e.url # s
  BY <1>3, NoDocumentYet
<1>7. \A t \in Upload : stage'[t] = IF t = s THEN "adding" ELSE stage[t]
  BY <1>1, <1>3 DEF PipelineTypeOK
<1>8. /\ \A u \in User : \A i \in 1..Len(queue[u]) : queue[u][i].url \in Upload
      /\ \A e \in collection : e.url \in Upload
  <2>1. \A u \in User : \A i \in 1..Len(queue[u]) : queue[u][i] \in Document
    BY <1>1, ElementOfSeq DEF PipelineTypeOK
  <2> QED
    BY <1>1, <2>1 DEF PipelineTypeOK, Document
<1>9. BlobInv'
  BY <1>1, <1>3, <1>7 DEF BlobInv
<1>10. QueueInv'
  <2> SUFFICES ASSUME NEW u \in User, NEW i \in 1..Len(queue'[u])
               PROVE  /\ stage'[queue'[u][i].url] \in {"adding", "restored"}
                      /\ \A e \in collection : e.url = queue'[u][i].url => e = queue'[u][i]
    BY <1>3 DEF QueueInv
  <2>1. CASE queue'[u][i] = d
    BY <1>2, <1>6, <1>7, <2>1
  <2>2. CASE i \in 1..Len(queue[u]) /\ queue'[u][i] = queue[u][i]
    BY <1>1, <1>6, <1>7, <1>8, <2>2 DEF QueueInv
  <2> QED
    BY <1>5, <2>1, <2>2
<1>11. CollectionInv'
  BY <1>1, <1>3, <1>6, <1>7, <1>8 DEF CollectionInv
<1>12. OneQueueEntry'
  <2> SUFFICES ASSUME NEW u \in User, NEW v \in User,
                      NEW i \in 1..Len(queue'[u]), NEW j \in 1..Len(queue'[v]),
                      queue'[u][i].url = queue'[v][j].url
               PROVE  u = v /\ i = j
    BY DEF OneQueueEntry
  <2>1. CASE queue'[u][i].url = s
    <3>1. u = client /\ i = Len(queue[client]) + 1
      <4>1. ~(i \in 1..Len(queue[u]) /\ queue'[u][i] = queue[u][i])
        BY <1>6, <2>1
      <4> QED
        BY <1>5, <4>1
    <3>2. v = client /\ j = Len(queue[client]) + 1
      <4>1. ~(j \in 1..Len(queue[v]) /\ queue'[v][j] = queue[v][j])
        BY <1>6, <2>1
      <4> QED
        BY <1>5, <4>1
    <3> QED
      BY <3>1, <3>2
  <2>2. CASE queue'[u][i].url # s
    <3>1. i \in 1..Len(queue[u]) /\ queue'[u][i] = queue[u][i]
      BY <1>2, <1>5, <2>2
    <3>2. j \in 1..Len(queue[v]) /\ queue'[v][j] = queue[v][j]
      BY <1>2, <1>5, <2>2
    <3> QED
      BY <1>1, <3>1, <3>2 DEF OneQueueEntry
  <2> QED
    BY <2>1, <2>2
<1> QED
  BY <1>4, <1>9, <1>10, <1>11, <1>12 DEF PipelineInv

\* The server applies a write: what it stores is the document in the queue.
LEMMA ServerAppliesInv ==
  ASSUME PipelineInv, NEW u \in User, ServerApplies(u)
  PROVE  PipelineInv'
<1>1. PipelineTypeOK /\ BlobInv /\ QueueInv /\ CollectionInv /\ OneQueueEntry
  BY DEF PipelineInv
<1>2. PICK k \in 1..Len(queue[u]) : collection' = collection \cup {queue[u][k]}
  BY DEF ServerApplies
<1> DEFINE d == queue[u][k]
<1>3. UNCHANGED <<stage, data, blob, queue>>
  BY DEF ServerApplies, uploadVars
<1>4. PipelineTypeOK'
  BY <1>1, NextTypeOK DEF PipelineNext
<1>5. BlobInv'
  BY <1>1, <1>3 DEF BlobInv
<1>6. QueueInv'
  <2> SUFFICES ASSUME NEW v \in User, NEW i \in 1..Len(queue[v])
               PROVE  /\ stage[queue[v][i].url] \in {"adding", "restored"}
                      /\ \A e \in collection' : e.url = queue[v][i].url => e = queue[v][i]
    BY <1>3 DEF QueueInv
  <2>1. d.url = queue[v][i].url => d = queue[v][i]
    BY <1>1 DEF OneQueueEntry
  <2> QED
    BY <1>1, <1>2, <2>1 DEF QueueInv
<1>7. CollectionInv'
  <2>1. /\ stage[d.url] \in {"adding", "restored"}
        /\ \A e \in collection : e.url = d.url => e = d
    BY <1>1 DEF QueueInv
  <2>2. blob[d.url] # NoBlob
    <3>1. d \in Document
      BY <1>1, ElementOfSeq DEF PipelineTypeOK
    <3> QED
      BY <1>1, <2>1, <3>1 DEF BlobInv, Document
  <2> QED
    BY <1>1, <1>2, <1>3, <2>1, <2>2 DEF CollectionInv
<1>8. OneQueueEntry'
  BY <1>1, <1>3 DEF OneQueueEntry
<1> QED
  BY <1>4, <1>5, <1>6, <1>7, <1>8 DEF PipelineInv

\* The first write of a queue is answered: it leaves the queue, and its upload
\* is saved if the server has it and failed if it has not, or may not have.
LEMMA AnswerInv ==
  ASSUME PipelineInv, PipelineTypeOK', NEW u \in User, queue[u] # <<>>,
         NEW answer,
         \/ Head(queue[u]) \in collection /\ answer = "saved"
         \/ answer = "failed" /\ (WriteNoticesEnd \/ Head(queue[u]) \notin collection),
         Answer(u, answer)
  PROVE  PipelineInv'
<1> DEFINE h == Head(queue[u])
<1>1. PipelineTypeOK /\ BlobInv /\ QueueInv /\ CollectionInv /\ OneQueueEntry
  BY DEF PipelineInv
<1>0. /\ queue' = [queue EXCEPT ![u] = Tail(@)]
      /\ stage' = [stage EXCEPT ![h.url] = answer]
      /\ UNCHANGED <<data, blob, collection>>
  BY DEF Answer
<1>2. /\ h = queue[u][1] /\ 1 \in 1..Len(queue[u]) /\ h \in Document
      /\ \A v \in User : \A i \in 1..Len(queue'[v]) :
           \/ v = u /\ i + 1 \in 1..Len(queue[u]) /\ queue'[v][i] = queue[u][i + 1]
           \/ v # u /\ i \in 1..Len(queue[v]) /\ queue'[v][i] = queue[v][i]
  BY <1>0, <1>1, RemoveFirstWrite DEF PipelineTypeOK
<1>3. /\ h.url \in Upload
      /\ \A t \in Upload : stage'[t] = IF t = h.url THEN answer ELSE stage[t]
  BY <1>0, <1>1, <1>2 DEF PipelineTypeOK, Document
<1>4. /\ \A v \in User : \A i \in 1..Len(queue[v]) : queue[v][i].url \in Upload
      /\ \A e \in collection : e.url \in Upload
  <2>1. \A v \in User : \A i \in 1..Len(queue[v]) : queue[v][i] \in Document
    BY <1>1, ElementOfSeq DEF PipelineTypeOK
  <2> QED
    BY <1>1, <2>1 DEF PipelineTypeOK, Document
<1>5. /\ stage[h.url] \in {"adding", "restored"}
      /\ \A e \in collection : e.url = h.url => e = h
  BY <1>1, <1>2 DEF QueueInv
<1>6. BlobInv'
  BY <1>0, <1>1, <1>3, <1>5 DEF BlobInv
<1>7. ASSUME NEW v \in User, NEW i \in 1..Len(queue'[v])
      PROVE  \E j \in 1..Len(queue[v]) :
               /\ queue'[v][i] = queue[v][j]
               /\ queue[v][j].url # h.url
               /\ j = IF v = u THEN i + 1 ELSE i
  <2>1. CASE v = u
    <3>1. i + 1 \in 1..Len(queue[u]) /\ queue'[v][i] = queue[u][i + 1] /\ i + 1 # 1
      BY <1>2, <2>1
    <3> QED
      BY <1>1, <1>2, <2>1, <3>1 DEF OneQueueEntry
  <2>2. CASE v # u
    BY <1>1, <1>2, <2>2 DEF OneQueueEntry
  <2> QED
    BY <2>1, <2>2
<1>8. QueueInv'
  <2> SUFFICES ASSUME NEW v \in User, NEW i \in 1..Len(queue'[v])
               PROVE  /\ stage'[queue'[v][i].url] \in {"adding", "restored"}
                      /\ \A e \in collection : e.url = queue'[v][i].url => e = queue'[v][i]
    BY <1>0 DEF QueueInv
  <2>1. PICK j \in 1..Len(queue[v]) : queue'[v][i] = queue[v][j] /\ queue[v][j].url # h.url
    BY <1>7
  <2> QED
    BY <1>1, <1>3, <1>4, <2>1 DEF QueueInv
<1>9. CollectionInv'
  BY <1>0, <1>1, <1>3, <1>4, <1>5 DEF CollectionInv
<1>10. OneQueueEntry'
  <2> SUFFICES ASSUME NEW v \in User, NEW w \in User,
                      NEW i \in 1..Len(queue'[v]), NEW j \in 1..Len(queue'[w]),
                      queue'[v][i].url = queue'[w][j].url
               PROVE  v = w /\ i = j
    BY DEF OneQueueEntry
  <2>1. PICK m \in 1..Len(queue[v]) :
          queue'[v][i] = queue[v][m] /\ m = IF v = u THEN i + 1 ELSE i
    BY <1>7
  <2>2. PICK n \in 1..Len(queue[w]) :
          queue'[w][j] = queue[w][n] /\ n = IF w = u THEN j + 1 ELSE j
    BY <1>7
  <2>3. v = w /\ m = n
    BY <1>1, <2>1, <2>2 DEF OneQueueEntry
  <2> QED
    BY <1>2, <2>1, <2>2, <2>3
<1> QED
  BY <1>6, <1>8, <1>9, <1>10 DEF PipelineInv

\* The initial state satisfies PipelineInv: nothing is stored, queued or saved.
LEMMA InitInv == PipelineInit => PipelineInv
<1> SUFFICES ASSUME PipelineInit PROVE PipelineInv
  OBVIOUS
<1>1. \A u \in User : queue[u] = <<>> /\ Len(queue[u]) = 0
  BY EmptySeq DEF PipelineInit
<1>2. QueueInv /\ OneQueueEntry
  BY <1>1 DEF QueueInv, OneQueueEntry
<1>3. PipelineTypeOK
  BY EmptySeq DEF PipelineInit, PipelineTypeOK, Stages
<1> QED
  BY <1>2, <1>3 DEF PipelineInit, PipelineInv, BlobInv, CollectionInv

\* Every step keeps it.
LEMMA NextInv ==
  ASSUME PipelineInv, [PipelineNext]_pipelineVars
  PROVE  PipelineInv'
<1>1. PipelineTypeOK /\ PipelineTypeOK' /\ BlobInv
  BY NextTypeOK DEF PipelineInv
<1> USE DEF PipelineTypeOK, session, uploadVars, storeVars
<1>2. ASSUME NEW c \in Screen, NEW s \in Upload, NEW p \in Picture, PutData(c, s, p)
      PROVE  PipelineInv'
  <2>1. BlobInv'
    BY <1>1, <1>2 DEF PutData, BlobInv
  <2> QED
    BY <1>1, <1>2, <2>1, DocumentsUntouched DEF PutData
<1>3. ASSUME NEW s \in Upload, StorageReceives(s) PROVE PipelineInv'
  <2>1. BlobInv'
    BY <1>1, <1>3, BlobAssumption DEF StorageReceives, BlobInv
  <2> QED
    BY <1>1, <1>3, <2>1, DocumentsUntouched DEF StorageReceives
<1>4. ASSUME NEW s \in Upload, PutDataSucceeds(s) PROVE PipelineInv'
  <2>1. BlobInv'
    BY <1>1, <1>4 DEF PutDataSucceeds, BlobInv
  <2> QED
    BY <1>1, <1>4, <2>1, DocumentsUntouched DEF PutDataSucceeds
<1>5. ASSUME NEW s \in Upload, PutDataFails(s) \/ DownloadURLFails(s) PROVE PipelineInv'
  <2>1. BlobInv'
    BY <1>1, <1>5 DEF PutDataFails, DownloadURLFails, BlobInv
  <2> QED
    BY <1>1, <1>5, <2>1, DocumentsUntouched DEF PutDataFails, DownloadURLFails
<1>6. ASSUME NEW u \in User, WriteAcknowledged(u) \/ WriteRejected(u) PROVE PipelineInv'
  BY <1>1, <1>6, AnswerInv DEF WriteAcknowledged, WriteRejected, StreamOpen
<1>7. ASSUME UNCHANGED <<uploadVars, storeVars>> PROVE PipelineInv'
  <2>1. BlobInv'
    BY <1>1, <1>7 DEF BlobInv
  <2> QED
    BY <1>1, <1>7, <2>1, DocumentsUntouched
<1>8. ASSUME NEW a \in Account, SignedIn(a) PROVE PipelineInv'
  BY <1>7, <1>8 DEF SignedIn
<1>9. CASE SignedOut \/ CredentialChanged
  BY <1>7, <1>9 DEF SignedOut, CredentialChanged
<1>10. CASE ProcessDies
  <2>1. BlobInv'
    BY <1>1, <1>10 DEF ProcessDies, BlobInv
  <2> QED
    BY <1>1, <1>10, <2>1, DocumentsUntouched DEF ProcessDies
<1>11. CASE UNCHANGED pipelineVars
  BY <1>7, <1>11 DEF pipelineVars
<1> QED
  BY <1>2, <1>3, <1>4, <1>5, <1>6, <1>8, <1>9, <1>10, <1>11, AddDocumentInv,
     ServerAppliesInv DEF PipelineNext

\* PipelineInv, the inductive invariant, holds of every pipeline.
THEOREM PipelineInvariant == PipelineSpec => []PipelineInv
<1>1. PipelineInv /\ [PipelineNext]_pipelineVars => PipelineInv'
  BY NextInv
<1> QED
  BY <1>1, InitInv, PTL DEF PipelineSpec

-----------------------------------------------------------------------------
(* What follows from it.                                                   *)

\* Every document is queued somewhere or on the server.
LEMMA DocumentPlaces ==
  ASSUME PipelineTypeOK, NEW d \in Documents
  PROVE  /\ d \in Document
         /\ \/ d \in collection
            \/ \E u \in User : \E i \in 1..Len(queue[u]) : d = queue[u][i]
BY ElementOfSeq DEF PipelineTypeOK, Documents, QueuedDocuments

\* The invariants about documents hold wherever PipelineInv does.
LEMMA DocumentFacts ==
  ASSUME PipelineInv
  PROVE  /\ DocumentsShowTheirPicture
         /\ OneDocumentPerUpload
         /\ WriteNoticesEnd = FALSE => FailedUploadLeavesNoDocument
<1>1. PipelineTypeOK /\ BlobInv /\ QueueInv /\ CollectionInv /\ OneQueueEntry
  BY DEF PipelineInv
<1>2. ASSUME NEW d \in Documents
      PROVE  /\ d.url \in Upload /\ blob[d.url] # NoBlob
             /\ stage[d.url] = "failed" => WriteNoticesEnd
  <2>1. CASE d \in collection
    BY <1>1, <1>2, <2>1, DocumentPlaces DEF CollectionInv, Document
  <2>2. CASE d \notin collection
    BY <1>1, <1>2, <2>2, DocumentPlaces DEF QueueInv, BlobInv, Document
  <2> QED
    BY <2>1, <2>2
<1>3. DocumentsShowTheirPicture
  BY <1>1, <1>2 DEF BlobInv, DocumentsShowTheirPicture
<1>4. ASSUME NEW d \in Documents, NEW e \in Documents, d.url = e.url PROVE d = e
  <2>1. CASE d \in collection /\ e \in collection
    BY <1>1, <1>4, <2>1 DEF CollectionInv
  <2>2. CASE d \notin collection /\ e \in collection
    BY <1>1, <1>4, <2>2, DocumentPlaces DEF QueueInv
  <2>3. CASE d \in collection /\ e \notin collection
    BY <1>1, <1>4, <2>3, DocumentPlaces DEF QueueInv
  <2>4. CASE d \notin collection /\ e \notin collection
    BY <1>1, <1>4, <2>4, DocumentPlaces DEF OneQueueEntry
  <2> QED
    BY <2>1, <2>2, <2>3, <2>4
<1>5. OneDocumentPerUpload
  BY <1>1, <1>4 DEF OneDocumentPerUpload
<1>6. WriteNoticesEnd = FALSE => FailedUploadLeavesNoDocument
  BY <1>2 DEF FailedUploadLeavesNoDocument
<1> QED
  BY <1>3, <1>5, <1>6

\* No document ever names an image that is missing or is not the one the form
\* showed (CreateVC.swift 74-93, UpdateProfileVC.swift 81-97).
THEOREM DocumentsShowTheirPictureHolds == PipelineSpec => []DocumentsShowTheirPicture
BY PipelineInvariant, DocumentFacts, PTL

\* One tap makes at most one document (CreateVC.swift 93).
THEOREM OneDocumentPerUploadHolds == PipelineSpec => []OneDocumentPerUpload
BY PipelineInvariant, DocumentFacts, PTL

\* An upload that failed leaves no document (CreateVC.swift 94-96), if Firestore
\* reports failures only of writes that the server has refused.
THEOREM FailedUploadLeavesNoDocumentHolds ==
  ASSUME WriteNoticesEnd = FALSE
  PROVE  PipelineSpec => []FailedUploadLeavesNoDocument
<1>1. PipelineInv => FailedUploadLeavesNoDocument
  BY DocumentFacts
<1> QED
  BY <1>1, PipelineInvariant, PTL

-----------------------------------------------------------------------------
(* Durability of writes.                                                   *)

\* What one step may do to the documents.
Durable ==
  /\ collection \subseteq collection'
  /\ \A d \in QueuedDocuments :
       d \in QueuedDocuments' \cup collection' \/ stage'[d.url] = "failed"

\* A step that leaves the documents alone loses none.
LEMMA UntouchedDurable ==
  ASSUME UNCHANGED <<queue, collection>>
  PROVE  Durable
BY DEF Durable, QueuedDocuments

\* An answer takes only the first write from its queue.
LEMMA AnswerDurable ==
  ASSUME PipelineTypeOK, NEW u \in User, queue[u] # <<>>, NEW answer, Answer(u, answer),
         Head(queue[u]) \in collection \/ answer = "failed"
  PROVE  Durable
<1> DEFINE h == Head(queue[u])
<1>1. /\ queue' = [queue EXCEPT ![u] = Tail(@)]
      /\ stage' = [stage EXCEPT ![h.url] = answer]
      /\ collection' = collection
  BY DEF Answer
<1>2. /\ h = queue[u][1] /\ h \in Document
      /\ \A v \in User : \A i \in 1..Len(queue[v]) :
           /\ v = u /\ i # 1 =>
                i - 1 \in 1..Len(queue'[v]) /\ queue'[v][i - 1] = queue[v][i]
           /\ v # u => i \in 1..Len(queue'[v]) /\ queue'[v][i] = queue[v][i]
  BY <1>1, RemoveFirstWrite DEF PipelineTypeOK
<1>3. h \in collection' \/ stage'[h.url] = "failed"
  BY <1>1, <1>2 DEF PipelineTypeOK, Document
<1>4. ASSUME NEW d \in QueuedDocuments, d # h PROVE d \in QueuedDocuments'
  <2>1. PICK v \in User : \E i \in 1..Len(queue[v]) : d = queue[v][i]
    BY DEF QueuedDocuments
  <2>2. PICK i \in 1..Len(queue[v]) : d = queue[v][i]
    BY <2>1
  <2>3. PICK j \in 1..Len(queue'[v]) : queue'[v][j] = d
    <3>1. CASE v = u
      <4>1. i # 1
        BY <1>2, <1>4, <2>2, <3>1
      <4> QED
        BY <1>2, <2>2, <3>1, <4>1
    <3>2. CASE v # u
      BY <1>2, <2>2, <3>2
    <3> QED
      BY <3>1, <3>2
  <2> QED
    BY <2>3 DEF QueuedDocuments
<1> QED
  BY <1>1, <1>3, <1>4 DEF Durable

\* Every step keeps the writes it found.
LEMMA NextDurable ==
  ASSUME PipelineTypeOK, [PipelineNext]_pipelineVars
  PROVE  Durable
<1> USE DEF storeVars
<1>1. ASSUME NEW s \in Upload, NEW x \in Content, AddDocument(s, x) PROVE Durable
  <2>1. /\ client \in User /\ Written(s, x) \in Document
        /\ queue' = [queue EXCEPT ![client] = Append(@, Written(s, x))]
        /\ collection' = collection
    BY <1>1 DEF AddDocument, Written, Document, User, PipelineTypeOK
  <2>2. \A u \in User : \A i \in 1..Len(queue[u]) :
          i \in 1..Len(queue'[u]) /\ queue'[u][i] = queue[u][i]
    BY <2>1, AppendWrite DEF PipelineTypeOK
  <2> QED
    BY <2>1, <2>2 DEF Durable, QueuedDocuments
<1>2. ASSUME NEW u \in User, ServerApplies(u) PROVE Durable
  BY <1>2 DEF ServerApplies, Durable, QueuedDocuments
<1>3. ASSUME NEW u \in User, WriteAcknowledged(u) \/ WriteRejected(u) PROVE Durable
  BY <1>3, AnswerDurable DEF WriteAcknowledged, WriteRejected, StreamOpen
<1>4. ASSUME NEW c \in Screen, NEW s \in Upload, NEW p \in Picture, PutData(c, s, p)
      PROVE  Durable
  BY <1>4, UntouchedDurable DEF PutData
<1>5. ASSUME NEW s \in Upload,
             \/ StorageReceives(s) \/ PutDataSucceeds(s)
             \/ PutDataFails(s) \/ DownloadURLFails(s)
      PROVE  Durable
  BY <1>5, UntouchedDurable
     DEF StorageReceives, PutDataSucceeds, PutDataFails, DownloadURLFails
<1>6. ASSUME NEW a \in Account, SignedIn(a) PROVE Durable
  BY <1>6, UntouchedDurable DEF SignedIn
<1>7. CASE SignedOut \/ CredentialChanged \/ ProcessDies
  BY <1>7, UntouchedDurable DEF SignedOut, CredentialChanged, ProcessDies
<1>8. CASE UNCHANGED pipelineVars
  BY <1>8, UntouchedDurable DEF pipelineVars
<1> QED
  BY <1>1, <1>2, <1>3, <1>4, <1>5, <1>6, <1>7, <1>8 DEF PipelineNext

\* A write, once added, survives deaths of the app and changes of user until
\* the server takes or refuses it (CreateVC.swift 93, UpdateProfileVC.swift 97).
THEOREM WritesAreDurableHolds == PipelineSpec => WritesAreDurable
<1>1. PipelineInv /\ [PipelineNext]_pipelineVars => Durable
  BY NextDurable DEF PipelineInv
<1> QED
  BY <1>1, PipelineInvariant, PTL DEF PipelineSpec, WritesAreDurable, Durable

-----------------------------------------------------------------------------
(* The pipeline implements Publication.                                    *)

\* The abstract state, as the refinement mapping gives it.
Stored    == {s \in Upload : blob[s] # NoBlob}
Recorded  == Uploads({"adding", "restored"}) \ {d.url : d \in collection}
Published == {d.url : d \in collection}
Dropped   == Uploads({"failed", "lost"}) \ {d.url : d \in collection}

\* The initial states map to the abstract ones.
LEMMA InitImplements == PipelineInit => Abstract!PubInit
BY DEF PipelineInit, Abstract!PubInit, Uploads

\* A step that leaves stages and stores alone is an abstract stutter.
LEMMA UntouchedStutters ==
  ASSUME UNCHANGED <<stage, blob, collection>>
  PROVE  UNCHANGED Abstract!pubVars
BY DEF Abstract!pubVars, Uploads

\* The image: it is stored, or its upload dropped.
LEMMA ImageImplements ==
  ASSUME PipelineInv, NEW s \in Upload,
         \/ StorageReceives(s) \/ PutDataSucceeds(s)
         \/ PutDataFails(s) \/ DownloadURLFails(s)
  PROVE  [Abstract!PubNext]_Abstract!pubVars
<1>1. PipelineTypeOK /\ BlobInv /\ CollectionInv
  BY DEF PipelineInv
<1> USE DEF PipelineTypeOK, uploadVars, storeVars, Uploads
<1>2. CASE StorageReceives(s)
  <2>1. blob' = [blob EXCEPT ![s] = data[s]] /\ blob[s] = NoBlob /\ data[s] # NoBlob
    BY <1>1, <1>2, BlobAssumption DEF StorageReceives
  <2>2. stage[s] \in {"uploading", "failed", "lost"} /\ UNCHANGED <<stage, collection>>
    BY <1>2 DEF StorageReceives
  <2>3. \A d \in collection : d.url # s
    BY <1>1, <1>2 DEF CollectionInv, StorageReceives
  <2>4. Abstract!Store(s)
    BY <1>1, <2>1, <2>2, <2>3 DEF Abstract!Store
  <2> QED
    BY <2>4 DEF Abstract!PubNext
<1>3. CASE PutDataSucceeds(s)
  <2>1. /\ stage[s] = "uploading" /\ stage' = [stage EXCEPT ![s] = "resolving"]
        /\ UNCHANGED <<blob, collection>>
    BY <1>3 DEF PutDataSucceeds
  <2> QED
    BY <1>1, <2>1 DEF Abstract!pubVars
<1>4. CASE PutDataFails(s) \/ DownloadURLFails(s)
  <2>1. /\ stage[s] \in {"uploading", "resolving"}
        /\ stage' = [stage EXCEPT ![s] = "failed"]
        /\ UNCHANGED <<blob, collection>>
    BY <1>4 DEF PutDataFails, DownloadURLFails
  <2>2. \A d \in collection : d.url # s
    BY <1>1, <2>1 DEF CollectionInv
  <2>3. Abstract!Drop({s})
    BY <1>1, <2>1, <2>2 DEF Abstract!Drop, Abstract!Ended
  <2> QED
    BY <2>3 DEF Abstract!PubNext
<1> QED
  BY <1>2, <1>3, <1>4

\* addDocument records the upload.
LEMMA AddDocumentImplements ==
  ASSUME PipelineInv, NEW s \in Upload, NEW x \in Content, AddDocument(s, x)
  PROVE  [Abstract!PubNext]_Abstract!pubVars
<1>1. PipelineTypeOK /\ BlobInv /\ CollectionInv
  BY DEF PipelineInv
<1>2. /\ stage[s] = "resolving" /\ stage' = [stage EXCEPT ![s] = "adding"]
      /\ UNCHANGED <<blob, collection>>
  BY DEF AddDocument
<1>3. \A d \in collection : d.url # s
  BY <1>1, <1>2 DEF CollectionInv
<1>4. blob[s] # NoBlob
  BY <1>1, <1>2 DEF BlobInv
<1>5. Abstract!Record(s)
  BY <1>1, <1>2, <1>3, <1>4 DEF Abstract!Record, Abstract!Ended, PipelineTypeOK, Uploads
<1> QED
  BY <1>5 DEF Abstract!PubNext

\* The server publishes the upload when it applies its write.
LEMMA ServerAppliesImplements ==
  ASSUME PipelineInv, NEW u \in User, ServerApplies(u)
  PROVE  [Abstract!PubNext]_Abstract!pubVars
<1>1. PipelineTypeOK /\ QueueInv
  BY DEF PipelineInv
<1>2. PICK i \in 1..Len(queue[u]) :
        queue[u][i] \notin collection /\ collection' = collection \cup {queue[u][i]}
  BY DEF ServerApplies
<1>3. queue[u][i] \in Document
  BY <1>1, ElementOfSeq DEF PipelineTypeOK
<1>4. PICK s \in Upload : s = queue[u][i].url
  BY <1>3 DEF Document
<1>5. stage[s] \in {"adding", "restored"} /\ UNCHANGED <<stage, blob>>
  BY <1>1, <1>4 DEF ServerApplies, QueueInv, uploadVars
<1>6. \A d \in collection : d.url # s
  BY <1>1, <1>2, <1>4 DEF QueueInv
<1>7. Abstract!Publish(s)
  BY <1>2, <1>4, <1>5, <1>6 DEF Abstract!Publish, Uploads
<1> QED
  BY <1>7 DEF Abstract!PubNext

\* An acknowledgement is an abstract stutter; a refusal rejects the upload, and
\* stutters if the server has the document after all.
LEMMA AnswerImplements ==
  ASSUME PipelineInv, NEW u \in User, WriteAcknowledged(u) \/ WriteRejected(u)
  PROVE  [Abstract!PubNext]_Abstract!pubVars
<1> DEFINE h == Head(queue[u])
<1>1. PipelineTypeOK /\ QueueInv
  BY DEF PipelineInv
<1>2. queue[u] # <<>> /\ UNCHANGED <<blob, collection>>
  BY DEF WriteAcknowledged, WriteRejected, StreamOpen, Answer
<1>3. h = queue[u][1] /\ 1 \in 1..Len(queue[u]) /\ h \in Document
  BY <1>1, <1>2, EmptySeq, HeadTailProperties DEF PipelineTypeOK
<1> PICK s \in Upload : s = h.url
  BY <1>3 DEF Document
<1>4. stage[s] \in {"adding", "restored"} /\ \A d \in collection : d.url = s => d = h
  <2>1. /\ stage[queue[u][1].url] \in {"adding", "restored"}
        /\ \A d \in collection : d.url = queue[u][1].url => d = queue[u][1]
    BY <1>1, <1>3 DEF QueueInv
  <2> QED
    BY <1>3, <2>1
<1>5. CASE WriteAcknowledged(u)
  <2>1. h \in collection /\ stage' = [stage EXCEPT ![s] = "saved"]
    BY <1>5 DEF WriteAcknowledged, Answer
  <2>2. s \in Published
    BY <2>1 DEF Published
  <2>3. Published' = Published /\ Stored' = Stored
    BY <1>2 DEF Published, Stored
  <2>4. \A t \in Upload \ {s} : stage'[t] = stage[t]
    BY <1>1, <2>1 DEF PipelineTypeOK
  <2>5. stage'[s] = "saved"
    BY <1>1, <2>1 DEF PipelineTypeOK
  <2>6. Recorded' = Recorded /\ Dropped' = Dropped
    BY <1>2, <1>4, <2>2, <2>4, <2>5 DEF Recorded, Published, Dropped, Uploads
  <2> QED
    BY <2>3, <2>6 DEF Abstract!pubVars, Stored, Recorded, Published, Dropped
<1>6. CASE WriteRejected(u)
  <2>1. stage' = [stage EXCEPT ![s] = "failed"]
    BY <1>6 DEF WriteRejected, Answer
  <2>2. CASE h \notin collection
    <3>1. Abstract!Reject(s)
      BY <1>1, <1>2, <1>4, <2>1, <2>2 DEF Abstract!Reject, PipelineTypeOK, Uploads
    <3> QED
      BY <3>1 DEF Abstract!PubNext
  <2>3. CASE h \in collection
    <3>1. s \in Published
      BY <2>3 DEF Published
    <3>2. Published' = Published /\ Stored' = Stored
      BY <1>2 DEF Published, Stored
    <3>3. stage'[s] = "failed" /\ \A t \in Upload \ {s} : stage'[t] = stage[t]
      BY <1>1, <2>1 DEF PipelineTypeOK
    <3>4. Recorded' = Recorded /\ Dropped' = Dropped
      BY <1>2, <1>4, <3>1, <3>3 DEF Recorded, Published, Dropped, Uploads
    <3> QED
      BY <3>2, <3>4 DEF Abstract!pubVars, Stored, Recorded, Published, Dropped
  <2> QED
    BY <2>2, <2>3
<1> QED
  BY <1>5, <1>6

\* The death of the process drops every upload that is not yet a write.
LEMMA ProcessDiesImplements ==
  ASSUME PipelineInv, ProcessDies
  PROVE  [Abstract!PubNext]_Abstract!pubVars
<1> PICK S \in SUBSET Upload : S = Uploads({"uploading", "resolving"})
  BY DEF Uploads
<1>1. PipelineTypeOK /\ CollectionInv
  BY DEF PipelineInv
<1>2. UNCHANGED <<blob, collection>>
  BY DEF ProcessDies, storeVars
<1>3. \A s \in Upload :
        /\ stage'[s] \in {"adding", "restored"} <=> stage[s] \in {"adding", "restored"}
        /\ stage'[s] \in {"failed", "lost"} <=> stage[s] \in {"failed", "lost"} \/ s \in S
  BY <1>1 DEF ProcessDies, PipelineTypeOK, Uploads
<1>4. S \cap (Recorded \cup Published \cup Dropped) = {}
  BY <1>1 DEF CollectionInv, Recorded, Published, Dropped, Uploads
<1>5. Abstract!Drop(S)
  BY <1>2, <1>3, <1>4 DEF Abstract!Drop, Abstract!Ended, Recorded, Published, Dropped, Uploads
<1> QED
  BY <1>5 DEF Abstract!PubNext, Uploads

\* Every step maps to an abstract step or to a stutter.
LEMMA NextImplements ==
  ASSUME PipelineInv, [PipelineNext]_pipelineVars
  PROVE  [Abstract!PubNext]_Abstract!pubVars
<1> USE DEF uploadVars, storeVars
<1>1. ASSUME NEW c \in Screen, NEW s \in Upload, NEW p \in Picture, PutData(c, s, p)
      PROVE  [Abstract!PubNext]_Abstract!pubVars
  <2>1. /\ stage[s] = "unused" /\ stage' = [stage EXCEPT ![s] = "uploading"]
        /\ UNCHANGED <<blob, collection>>
    BY <1>1 DEF PutData
  <2> QED
    BY <2>1 DEF Abstract!pubVars, Uploads, PipelineInv, PipelineTypeOK
<1>2. ASSUME NEW a \in Account, SignedIn(a) PROVE [Abstract!PubNext]_Abstract!pubVars
  BY <1>2, UntouchedStutters DEF SignedIn
<1>3. CASE SignedOut \/ CredentialChanged
  BY <1>3, UntouchedStutters DEF SignedOut, CredentialChanged
<1>4. CASE UNCHANGED pipelineVars
  BY <1>4, UntouchedStutters DEF pipelineVars
<1> QED
  BY <1>1, <1>2, <1>3, <1>4, ImageImplements, AddDocumentImplements,
     ServerAppliesImplements, AnswerImplements, ProcessDiesImplements DEF PipelineNext

\* The pipeline implements Publication: an image is stored at most once, a
\* document is recorded only over a stored image, is durable from then on, and
\* an upload that was dropped never comes back.
THEOREM ImplementsPublicationHolds == PipelineSpec => ImplementsPublication
<1>1. PipelineInv /\ [PipelineNext]_pipelineVars => [Abstract!PubNext]_Abstract!pubVars
  BY NextImplements
<1> QED
  BY <1>1, InitImplements, PipelineInvariant, PTL
     DEF PipelineSpec, ImplementsPublication, Abstract!PubSpec

-----------------------------------------------------------------------------
(* What the proofs of the screens need of the pipeline.                     *)

\* The first write of a queue belongs to an upload and a screen.
LEMMA FirstScreenType ==
  ASSUME PipelineTypeOK, NEW u \in User, queue[u] # <<>>
  PROVE  Head(queue[u]).url \in Upload /\ FirstScreen(u) \in Screen
<1>1. Head(queue[u]) \in Document
  BY EmptySeq, HeadTailProperties DEF PipelineTypeOK
<1> QED
  BY <1>1 DEF Document, FirstScreen, PipelineTypeOK

\* A document keeps the screen it came from, and none is ever taken back.
LEMMA DocumentsKeepTheirScreen ==
  ASSUME PipelineInv, [PipelineNext]_pipelineVars, NEW d \in collection
  PROVE  d \in collection' /\ origin'[d.url] = origin[d.url]
<1>1. /\ PipelineTypeOK /\ d.url \in Upload
      /\ stage[d.url] \in {"adding", "restored", "saved", "failed"}
  BY DEF PipelineInv, PipelineTypeOK, CollectionInv, Document
<1>2. d \in collection'
  BY <1>1, NextDurable DEF Durable
<1>3. ASSUME NEW c \in Screen, NEW s \in Upload, NEW p \in Picture, PutData(c, s, p)
      PROVE  origin'[d.url] = origin[d.url]
  BY <1>1, <1>3 DEF PutData, PipelineTypeOK
<1>4. ASSUME ~\E c \in Screen, s \in Upload, p \in Picture : PutData(c, s, p)
      PROVE  origin' = origin
  BY <1>4 DEF PipelineNext, StorageReceives, PutDataSucceeds, PutDataFails,
     DownloadURLFails, AddDocument, ServerApplies, WriteAcknowledged, WriteRejected,
     Answer, SignedIn, SignedOut, CredentialChanged, ProcessDies, pipelineVars, uploadVars
<1> QED
  BY <1>2, <1>3, <1>4

\* When the handler of a write runs without an error, its document is on the
\* server.
LEMMA AcknowledgedDocument ==
  ASSUME PipelineInv, NEW u \in User, WriteAcknowledged(u)
  PROVE  \E d \in collection : d \in collection' /\ origin'[d.url] = FirstScreen(u)
BY DEF WriteAcknowledged, Answer, FirstScreen
=============================================================================
