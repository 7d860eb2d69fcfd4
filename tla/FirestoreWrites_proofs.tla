--------------------- MODULE FirestoreWrites_proofs -----------------------
(***************************************************************************)
(* Proofs about the write path of the Firestore client, for any users, any *)
(* documents and any limit of the pipeline, and about the credentials of   *)
(* its calls, for any accounts and streams.                                *)
(*                                                                         *)
(* TokenInv comes first: no stream token of one user ever serves the       *)
(* writes of another.  It does not lean on the types of the queues: what   *)
(* matters is which fields of the stream each task of the worker queue     *)
(* keeps.  That each call has the right credentials is not proved there    *)
(* but at the end, of FirestoreCredentials: CredentialsInv follows Auth's  *)
(* change of user through the main queue and the worker queue.             *)
(*                                                                         *)
(* IInv is the rest of the story.  The answers of the server do not say    *)
(* which write they are about, so the invariant ties them down: what the   *)
(* call carries, answers first and requests behind, spells the pipeline    *)
(* (Sound), the pipeline is the front of the queue (PipelineInv), the      *)
(* queue is ordered by ids (QueueInv), every answer is about a committed   *)
(* write and a permanent error about a refused one (Truthful).  Only then  *)
(* is the verdict a callback hears the verdict on its write (VerdictInv).  *)
(***************************************************************************)
EXTENDS FirestoreWrites, FirestoreCredentials, SequenceTheorems, WellFoundedInduction, TLAPS

-----------------------------------------------------------------------------
(* What the operators do to any queue, pipeline and stream.  That the next   *)
(* id is above all others is well-founded induction in disguise: there is a  *)
(* least such id.                                                            *)

\* Batches in the order in which they were written.
Ordered(q) == \A i, j \in 1..Len(q) : i < j => q[i].id < q[j].id

\* p holds the first batches of q, or as many of them as fit.
Begins(p, q) == Len(p) <= Len(q) /\ \A i \in 1..Len(p) : p[i] = q[i]
Limit(n) == IF MaxPendingWrites < n THEN MaxPendingWrites ELSE n
Fills(p, q) == Begins(p, q) /\ Len(p) = Limit(Len(q))

-----------------------------------------------------------------------------
(* Sequences and numbers.                                                  *)

\* What concatenating does.
LEMMA Concatenated ==
  ASSUME NEW S, NEW a \in Seq(S), NEW b \in Seq(S), NEW c, c = a \o b
  PROVE  /\ c \in Seq(S) /\ Len(a) \in Nat /\ Len(b) \in Nat /\ Len(c) = Len(a) + Len(b)
         /\ \A i \in 1..Len(a) : c[i] = a[i]
         /\ \A i \in 1..Len(b) : c[Len(a) + i] = b[i]
  OBVIOUS

\* What cutting out a part does.
LEMMA Cut ==
  ASSUME NEW S, NEW q \in Seq(S), NEW m \in Nat \ {0}, NEW n \in Nat, n <= Len(q), m <= n + 1,
         NEW c, c = SubSeq(q, m, n)
  PROVE  /\ c \in Seq(S) /\ Len(c) = n - m + 1
         /\ \A i \in 1..Len(c) : c[i] = q[m + i - 1]
<1>1. \A i \in m..n : q[i] \in S
  OBVIOUS
<1> QED
  BY <1>1, SubSeqProperties

\* What taking away the first element does.
LEMMA Rest ==
  ASSUME NEW S, NEW q \in Seq(S), q # <<>>
  PROVE  /\ Len(q) \in Nat \ {0} /\ Head(q) = q[1] /\ Head(q) \in S
         /\ Tail(q) \in Seq(S) /\ Len(Tail(q)) = Len(q) - 1
         /\ \A i \in 1..Len(Tail(q)) : Tail(q)[i] = q[i + 1]
<1>1. Len(q) \in Nat \ {0}
  BY EmptySeq
<1>2. Head(q) = q[1]
  OBVIOUS
<1> QED
  BY <1>1, <1>2, HeadTailProperties

\* What adding an element does.
LEMMA Added ==
  ASSUME NEW S, NEW q \in Seq(S), NEW e \in S, NEW r, r = Append(q, e)
  PROVE  /\ r \in Seq(S) /\ Len(q) \in Nat /\ Len(r) = Len(q) + 1
         /\ \A i \in 1..Len(q) : r[i] = q[i]
         /\ r[Len(q) + 1] = e
  OBVIOUS

\* Sequences with the same elements are the same.
LEMMA Same ==
  ASSUME NEW S, NEW p \in Seq(S), NEW q \in Seq(S), Len(p) = Len(q),
         \A i \in 1..Len(p) : p[i] = q[i]
  PROVE  p = q
  BY SeqEqual

\* A set of natural numbers has a least one.
LEMMA Least ==
  ASSUME NEW T, T \subseteq Nat, T # {}
  PROVE  \E m \in T : \A n \in T : m <= n
<1> DEFINE R == {ss \in Nat \X Nat : ss[1] < ss[2]}
<1>1. IsWellFoundedOn(R, Nat)
  BY NatLessThanWellFounded, Zenon DEF OpToRel
<1>2. PICK m \in T : \A n \in T : ~ (<<n, m>> \in R)
  BY <1>1, WFMin
<1>3. \A n \in T : n < m => <<n, m>> \in R
  <2> TAKE n \in T
  <2>1. <<n, m>> \in Nat \X Nat /\ <<n, m>>[1] = n /\ <<n, m>>[2] = m
    OBVIOUS
  <2> QED
    BY <2>1
<1>4. \A n \in T : ~ (n < m)
  BY <1>2, <1>3
<1> QED
  BY <1>4

-----------------------------------------------------------------------------
(* The queues and the pipeline.                                            *)

\* The batches of a queue have the fields of batches.
LEMMA BatchFields ==
  ASSUME NEW q \in Seq(Batch), NEW i \in 1..Len(q)
  PROVE  q[i] \in Batch /\ q[i].id \in Nat \ {0} /\ q[i].doc \in Doc
<1>1. q[i] \in Batch
  OBVIOUS
<1> QED
  BY <1>1 DEF Batch

\* The next batch id is above those of every queue, if there is such a number
\* at all: the current one is one.
LEMMA NextIdIsAbove ==
  ASSUME \A b \in Queued : b.id \in Nat, NEW n \in Nat \ {0}, \A b \in Queued : b.id < n
  PROVE  /\ LoadNextBatchId \in Nat \ {0}
         /\ \A b \in Queued : b.id < LoadNextBatchId
<1> DEFINE T == {m \in Nat \ {0} : \A b \in Queued : b.id < m}
<1>1. PICK m \in T : \A k \in T : m <= k
  BY Least
<1>2. m = 1 \/ \E b \in Queued : m = b.id + 1
  <2> SUFFICES ASSUME m # 1 PROVE \E b \in Queued : m = b.id + 1
    OBVIOUS
  <2>1. m - 1 \in Nat \ {0} /\ m - 1 \notin T
    BY <1>1
  <2>2. PICK b \in Queued : ~(b.id < m - 1)
    BY <2>1
  <2>3. b.id \in Nat /\ b.id < m
    BY <1>1
  <2> QED
    BY <2>1, <2>2, <2>3
<1>3. m \in {b.id + 1 : b \in Queued} \cup {1} /\ \A b \in Queued : b.id < m
  BY <1>1, <1>2
<1>4. /\ LoadNextBatchId \in {b.id + 1 : b \in Queued} \cup {1}
      /\ \A b \in Queued : b.id < LoadNextBatchId
  BY <1>3 DEF LoadNextBatchId
<1> QED
  BY <1>4

\* The front of an ordered queue is removed, and nothing else.
LEMMA FrontRemoved ==
  ASSUME NEW q \in Seq(Batch), Ordered(q), q # <<>>
  PROVE  Removed(q, q[1]) = Tail(q)
<1>1. Len(q) \in Nat \ {0} /\ \A i \in 1..Len(q) : q[i].id \in Nat
  BY Rest, BatchFields
<1>2. \A i \in 1..Len(q) : q[i] = q[1] => i = 1
  BY <1>1 DEF Ordered
<1>3. Place(q, q[1]) = 1
  BY <1>1, <1>2 DEF Place
<1>4. SubSeq(q, 1, 0) = <<>> /\ SubSeq(q, 2, Len(q)) = Tail(q)
  BY <1>1, SubSeqEmpty, TailIsSubSeq
<1>5. <<>> \o Tail(q) = Tail(q)
  BY Rest, ConcatEmptySeq
<1> QED
  BY <1>1, <1>3, <1>4, <1>5 DEF Removed

\* Filling a pipeline that holds the first batches of a queue appends those
\* that follow, as far as there is room.
LEMMA PipelineFilled ==
  ASSUME NEW q \in Seq(Batch), Ordered(q), NEW p \in Seq(Batch), Begins(p, q),
         Len(p) <= MaxPendingWrites
  PROVE  /\ NewBatches(p, q) \in Seq(Batch) /\ FilledPipeline(p, q) \in Seq(Batch)
         /\ Fills(FilledPipeline(p, q), q)
         /\ FilledPipeline(p, q) = p \o NewBatches(p, q)
<1> DEFINE n == Len(p)
<1> DEFINE m == Limit(Len(q))
<1>1. n \in Nat /\ Len(q) \in Nat /\ n <= Len(q) /\ MaxPendingWrites \in Nat \ {0}
  BY MaxPendingWritesAssumption DEF Begins
<1>2. \A i \in 1..Len(q) : q[i].id \in Nat \ {0}
  BY BatchFields
<1>3. n \in 0..Len(q) /\ \A i \in 1..Len(q) : i <= n <=> q[i].id <= LastId(p)
  <2>1. CASE n = 0
    <3>1. LastId(p) = 0
      BY <2>1, EmptySeq DEF LastId
    <3> QED
      BY <1>1, <1>2, <2>1, <3>1
  <2>2. CASE n # 0
    <3>1. LastId(p) = q[n].id
      BY <1>1, <2>2, EmptySeq DEF LastId, Begins
    <3>2. n \in 1..Len(q)
      BY <1>1, <2>2
    <3>3. \A i \in 1..Len(q) : i <= n <=> q[i].id <= q[n].id
      BY <1>1, <1>2, <3>2 DEF Ordered
    <3> QED
      BY <1>1, <3>1, <3>3
  <2> QED
    BY <2>1, <2>2
<1>4. Skipped(q, LastId(p)) = n
  <2>1. \A k \in 0..Len(q) : (\A i \in 1..Len(q) : i <= k <=> q[i].id <= LastId(p)) => k = n
    <3> SUFFICES ASSUME NEW k \in 0..Len(q),
                        \A i \in 1..Len(q) : i <= k <=> q[i].id <= LastId(p), k # n
                 PROVE  FALSE
      OBVIOUS
    <3>1. \A i \in 1..Len(q) : i <= k <=> i <= n
      BY <1>3
    <3>2. CASE k < n
      BY <1>1, <3>1, <3>2
    <3>3. CASE n < k
      BY <1>1, <3>1, <3>3
    <3> QED
      BY <1>1, <3>2, <3>3
  <2> QED
    BY <1>3, <2>1 DEF Skipped
<1>5. m \in n..Len(q)
  BY <1>1 DEF Limit
<1>6. NewBatches(p, q) = SubSeq(q, n + 1, m)
  BY <1>1, <1>4 DEF NewBatches, Limit
<1>7. /\ NewBatches(p, q) \in Seq(Batch) /\ Len(NewBatches(p, q)) = m - n
      /\ \A i \in 1..Len(NewBatches(p, q)) : NewBatches(p, q)[i] = q[n + 1 + i - 1]
  <2>1. n + 1 \in Nat \ {0} /\ m \in Nat /\ m <= Len(q) /\ n + 1 <= m + 1
    BY <1>1, <1>5
  <2>2. m - (n + 1) + 1 = m - n
    BY <1>1, <1>5
  <2> QED
    BY <1>6, <2>1, <2>2, Cut
<1>8. FilledPipeline(p, q) = p \o NewBatches(p, q)
  BY DEF FilledPipeline
<1> DEFINE f == FilledPipeline(p, q)
<1> DEFINE new == NewBatches(p, q)
<1> HIDE DEF f, new, m, n
<1>9. /\ f \in Seq(Batch) /\ Len(f) = n + Len(new)
      /\ \A i \in 1..n : f[i] = p[i]
      /\ \A i \in 1..Len(new) : f[n + i] = new[i]
  <2>1. f = p \o new /\ new \in Seq(Batch)
    BY <1>7, <1>8 DEF f, new
  <2> QED
    BY <2>1, Concatenated DEF n
<1>10. Len(f) = m /\ m <= Len(q)
  BY <1>1, <1>5, <1>7, <1>9 DEF new
<1>11. \A i \in 1..Len(f) : f[i] = q[i]
  <2> TAKE i \in 1..Len(f)
  <2>1. CASE i <= n
    BY <1>1, <1>9, <2>1 DEF Begins, n
  <2>2. CASE i > n
    <3>1. i - n \in 1..Len(new) /\ n + (i - n) = i
      BY <1>1, <1>5, <1>7, <1>10, <2>2 DEF new
    <3>2. f[i] = new[i - n] /\ new[i - n] = q[n + 1 + (i - n) - 1]
      BY <1>7, <1>9, <3>1 DEF new
    <3> QED
      BY <1>1, <3>1, <3>2
  <2> QED
    BY <1>1, <1>5, <1>10, <2>1, <2>2
<1> QED
  BY <1>7, <1>8, <1>9, <1>10, <1>11 DEF f, new, m, Fills, Begins

-----------------------------------------------------------------------------
(* What is said of a stream.                                               *)

Talks(s) == IsOpen(s) /\ HandshakeComplete(s)

\* The answers that can still arrive are about the first writes of p, and the
\* requests behind them about the rest.
Matches(s, p) ==
  /\ Begins(s.answers, p)
  /\ Talks(s) /\ s.ended = "no" =>
       /\ Len(s.answers) + Len(s.wire) = Len(p)
       /\ \A i \in 1..Len(s.wire) : s.wire[i] = p[Len(s.answers) + i]

\* An answer is about a write of C, a permanent error about one of R.
Truthful(s, p, C, R) ==
  /\ \A i \in 1..Len(s.answers) : s.answers[i].doc \in C
  /\ s.ended = "permanent" =>
       /\ s.handshake # "answered"
       /\ Talks(s) => Len(s.answers) < Len(p) /\ p[Len(s.answers) + 1].doc \in R

\* The stream s, of the user u, serves the pipeline p or waits to be started.
Sound(s, p, u) ==
  /\ s \in Streams
  /\ s.user = u
  /\ IsOpen(s) \/ s = NoCall(s.state, u)
  /\ s.idle => Talks(s) /\ p = <<>>
  /\ ~Talks(s) => s.wire = <<>> /\ s.answers = <<>>
  /\ IsStarted(s) /\ ~HandshakeComplete(s) => p # <<>>
  /\ Matches(s, p)
  /\ WriteNoticesEnd \/ s.failing = "no"

-----------------------------------------------------------------------------
(* Streams.                                                                *)

States == {"Initial", "Starting", "Open", "Error", "Backoff"}

\* The fields of a stream.
LEMMA StreamTypes ==
  ASSUME NEW s \in Streams
  PROVE  /\ s.state \in States /\ s.idle \in BOOLEAN /\ s.user \in User
         /\ s.handshake \in {"none", "sent", "answered", "complete"}
         /\ s.wire \in Seq(Batch) /\ s.answers \in Seq(Batch)
         /\ Len(s.wire) \in Nat /\ Len(s.answers) \in Nat
         /\ s.ended \in {"no", "transient", "aborted", "permanent"}
         /\ s.failing \in {"no", "later", "now"}
<1>1. s.wire \in Seq(Batch) /\ s.answers \in Seq(Batch)
  BY DEF Streams
<1> QED
  BY <1>1 DEF Streams, States

\* A stream without a call is sound over any pipeline, once it is started only
\* over one that is not empty.
LEMMA NoCallSound ==
  ASSUME NEW state \in States, NEW u \in User, NEW p \in Seq(Batch), NEW C, NEW R,
         state = "Open" => FALSE,
         state \in {"Starting", "Backoff"} => p # <<>>
  PROVE  Sound(NoCall(state, u), p, u) /\ Truthful(NoCall(state, u), p, C, R)
<1> DEFINE s == NoCall(state, u)
<1>1. <<>> \in Seq(Batch) /\ Len(<<>>) = 0 /\ Len(p) \in Nat
  OBVIOUS
<1>2. /\ s.state = state /\ s.user = u /\ s.idle = FALSE /\ s.handshake = "none"
      /\ s.wire = <<>> /\ s.answers = <<>> /\ s.ended = "no" /\ s.failing = "no"
  BY DEF NoCall
<1>3. s \in Streams
  BY <1>1 DEF NoCall, Streams, States
<1>4. ~Talks(s) /\ ~HandshakeComplete(s) /\ s = NoCall(s.state, u)
  BY <1>2 DEF Talks, HandshakeComplete
<1> HIDE DEF s
<1>5. Matches(s, p) /\ Truthful(s, p, C, R)
  BY <1>1, <1>2, <1>4 DEF Matches, Begins, Truthful
<1>6. Sound(s, p, u)
  BY <1>2, <1>3, <1>4, <1>5 DEF Sound, IsStarted, States
<1> QED
  BY <1>5, <1>6 DEF s

\* A stream without a call goes from state to state.
LEMMA NoCallMoved ==
  ASSUME NEW state, NEW u, NEW to, NEW s, s = NoCall(state, u)
  PROVE  [s EXCEPT !.state = to] = NoCall(to, u)
<1> DEFINE t == NoCall(to, u)
<1> DEFINE F ==
      {"state", "handshake", "idle", "user", "wire", "answers", "ended", "failing"}
<1>1. s = [f \in F |-> s[f]] /\ t = [f \in F |-> t[f]]
  BY DEF NoCall
<1>2. /\ t.state = to /\ s.handshake = t.handshake /\ s.idle = t.idle /\ s.user = t.user
      /\ s.wire = t.wire /\ s.answers = t.answers /\ s.ended = t.ended
      /\ s.failing = t.failing
  BY DEF NoCall
<1> HIDE DEF t
<1>3. [s EXCEPT !.state = to] = t
  BY <1>1, <1>2
<1> QED
  BY <1>3 DEF t

\* What sending the writes b changes of a stream.
Sends(r, s, b) ==
  /\ r \in Streams
  /\ r.state = s.state /\ r.handshake = s.handshake /\ r.user = s.user
  /\ r.answers = s.answers /\ r.ended = s.ended
  /\ b = <<>> => r = s
  /\ b # <<>> => r.idle = FALSE
  /\ s.ended = "no" => r.wire = s.wire \o b
  /\ s.ended # "no" => r.wire = s.wire
  /\ WriteNoticesEnd \/ s.failing = "no" => WriteNoticesEnd \/ r.failing = "no"

\* WriteMutations sends.
LEMMA Sent ==
  ASSUME NEW s \in Streams, NEW b \in Seq(Batch), NEW r, r = WriteMutations(s, b)
  PROVE  Sends(r, s, b)
<1> USE DEF Sends
<1>1. s.wire \in Seq(Batch) /\ s.wire \o b \in Seq(Batch) /\ s.failing \in {"no", "later", "now"}
  BY StreamTypes, Concatenated
<1>2. CASE b = <<>>
  <2>1. s.wire \o b = s.wire
    BY <1>1, <1>2, ConcatEmptySeq
  <2> QED
    BY <1>2, <2>1 DEF WriteMutations
<1>3. CASE b # <<>> /\ s.ended = "no"
  BY <1>1, <1>3 DEF WriteMutations, Streams
<1>4. CASE b # <<>> /\ s.ended # "no"
  <2> DEFINE failing == IF ~WriteNoticesEnd \/ s.failing # "no" THEN s.failing
                        ELSE IF s.answers = <<>> THEN "now" ELSE "later"
  <2>1. r = [s EXCEPT !.idle = FALSE, !.failing = failing]
    BY <1>4 DEF WriteMutations
  <2>2. failing \in {"no", "later", "now"}
    BY <1>1
  <2>3. ~WriteNoticesEnd => failing = s.failing
    OBVIOUS
  <2> HIDE DEF failing
  <2> QED
    BY <1>4, <2>1, <2>2, <2>3 DEF Streams
<1> QED
  BY <1>2, <1>3, <1>4

\* Filling the pipeline of a sound stream leaves a sound stream, started if
\* there is anything to send.
LEMMA StreamFilled ==
  ASSUME NEW u \in User, NEW q \in Seq(Batch), Ordered(q), NEW p \in Seq(Batch), Begins(p, q),
         Len(p) <= MaxPendingWrites, NEW s, Sound(s, p, u), NEW C, NEW R, Truthful(s, p, C, R),
         NEW full, full = FilledPipeline(p, q), NEW r, r = FilledStream(s, p, q)
  PROVE  Sound(r, full, u) /\ Truthful(r, full, C, R) /\ (full # <<>> => IsStarted(r))
<1> DEFINE new == NewBatches(p, q)
<1> DEFINE sent == IF Talks(s) THEN WriteMutations(s, new) ELSE s
<1> DEFINE idle == MarkedIdle(sent, full)
<1>1. /\ new \in Seq(Batch) /\ full \in Seq(Batch) /\ full = p \o new
      /\ Len(p) \in Nat /\ Len(new) \in Nat /\ Len(full) = Len(p) + Len(new)
      /\ \A i \in 1..Len(p) : full[i] = p[i]
      /\ \A i \in 1..Len(new) : full[Len(p) + i] = new[i]
  <2>1. new \in Seq(Batch) /\ full \in Seq(Batch) /\ full = p \o new
    BY PipelineFilled
  <2> HIDE DEF new
  <2> QED
    BY <2>1, Concatenated
<1>2. r = IF ShouldStart(idle, full) THEN Start(idle) ELSE idle
  BY DEF FilledStream, Talks
<1>3. s \in Streams /\ s.user = u /\ s.state \in States
  BY StreamTypes DEF Sound
<1>4. (full = <<>> <=> p = <<>> /\ new = <<>>)
  BY <1>1, ConcatEqualIffEmpty
<1> HIDE DEF new
<1>5. CASE Talks(s)
  <2>1. sent = WriteMutations(s, new)
    BY <1>5
  <2> HIDE DEF sent
  <2>2. /\ sent \in Streams
        /\ sent.state = s.state /\ sent.handshake = s.handshake /\ sent.user = s.user
        /\ sent.answers = s.answers /\ sent.ended = s.ended
        /\ new = <<>> => sent = s
        /\ new # <<>> => sent.idle = FALSE
        /\ s.ended = "no" => sent.wire = s.wire \o new
        /\ WriteNoticesEnd \/ sent.failing = "no"
    <3>1. WriteNoticesEnd \/ s.failing = "no"
      BY DEF Sound
    <3>2. new \in Seq(Batch)
      BY <1>1
    <3>3. s \in Streams /\ sent = WriteMutations(s, new)
      BY <1>3, <2>1
    <3>4. Sends(sent, s, new)
      BY <3>2, <3>3, Sent
    <3> QED
      BY <3>1, <3>4 DEF Sends
  <2>3. idle = IF full = <<>> THEN [sent EXCEPT !.idle = TRUE] ELSE sent
    BY <1>5, <2>2 DEF MarkedIdle, IsOpen, Talks
  <2>4. /\ idle \in Streams
        /\ idle.state = s.state /\ idle.handshake = s.handshake /\ idle.user = s.user
        /\ idle.answers = s.answers /\ idle.ended = s.ended
        /\ idle.wire = sent.wire /\ idle.failing = sent.failing
        /\ full # <<>> => idle = sent
    BY <2>2, <2>3 DEF Streams
  <2> HIDE DEF idle
  <2>5. r = idle
    BY <1>2, <1>5, <2>4 DEF ShouldStart, IsStarted, Talks, IsOpen
  <2>6. Talks(r) /\ IsStarted(r) /\ HandshakeComplete(r)
    BY <1>5, <2>4, <2>5 DEF Talks, IsOpen, HandshakeComplete, IsStarted
  <2>7. r.idle => full = <<>>
    <3> SUFFICES ASSUME full # <<>> PROVE r.idle = FALSE
      BY <1>5, <2>2, <2>4, <2>5, StreamTypes
    <3>1. r = sent
      BY <2>4, <2>5
    <3>2. CASE new = <<>>
      <4>1. p # <<>> /\ r = s
        BY <1>4, <2>2, <3>1, <3>2
      <4> QED
        BY <1>3, <4>1, StreamTypes DEF Sound
    <3>3. CASE new # <<>>
      BY <2>2, <3>1, <3>3
    <3> QED
      BY <3>2, <3>3
  <2>8. Begins(r.answers, full)
    <3>1. r.answers = s.answers /\ Len(s.answers) \in Nat /\ Begins(s.answers, p)
      BY <1>3, <2>4, <2>5, StreamTypes DEF Sound, Matches
    <3> QED
      BY <1>1, <3>1 DEF Begins
  <2>9. ASSUME r.ended = "no"
        PROVE  /\ Len(r.answers) + Len(r.wire) = Len(full)
               /\ \A i \in 1..Len(r.wire) : r.wire[i] = full[Len(r.answers) + i]
    <3> DEFINE w == s.wire
    <3> DEFINE a == Len(s.answers)
    <3>1. s.ended = "no" /\ r.wire = w \o new /\ r.answers = s.answers
      BY <2>2, <2>4, <2>5, <2>9
    <3>2. w \in Seq(Batch) /\ a \in Nat
      BY <1>3, StreamTypes
    <3>3. a + Len(w) = Len(p) /\ \A i \in 1..Len(w) : w[i] = p[a + i]
      BY <1>5, <3>1 DEF Sound, Matches
    <3> HIDE DEF w, a
    <3>4. /\ Len(w) \in Nat /\ Len(r.wire) = Len(w) + Len(new)
          /\ \A i \in 1..Len(w) : r.wire[i] = w[i]
          /\ \A i \in 1..Len(new) : r.wire[Len(w) + i] = new[i]
      BY <1>1, <3>1, <3>2, Concatenated
    <3>5. \A i \in 1..Len(r.wire) : r.wire[i] = full[a + i]
      <4> TAKE i \in 1..Len(r.wire)
      <4>1. CASE i <= Len(w)
        <5>1. a + i \in 1..Len(p) /\ i \in 1..Len(w)
          BY <3>2, <3>3, <3>4, <4>1
        <5> QED
          BY <1>1, <3>3, <3>4, <5>1
      <4>2. CASE i > Len(w)
        <5>1. i - Len(w) \in 1..Len(new) /\ Len(w) + (i - Len(w)) = i
          BY <3>4, <4>2
        <5>2. Len(p) + (i - Len(w)) = a + i
          <6>1. i \in Nat /\ Len(w) \in Nat /\ a \in Nat /\ Len(p) = a + Len(w)
            BY <3>2, <3>3, <3>4
          <6> QED
            BY <6>1
        <5>3. r.wire[i] = new[i - Len(w)]
          BY <3>4, <5>1
        <5>4. full[a + i] = new[i - Len(w)]
          BY <1>1, <5>1, <5>2
        <5> QED
          BY <5>3, <5>4
      <4> QED
        BY <3>4, <4>1, <4>2
    <3>6. a + Len(r.wire) = Len(full)
      <4>1. Len(p) = a + Len(w) /\ Len(w) \in Nat /\ Len(new) \in Nat
        BY <1>1, <3>3, <3>4
      <4>2. Len(r.wire) = Len(w) + Len(new) /\ Len(full) = Len(p) + Len(new)
        BY <1>1, <3>4
      <4> QED
        BY <3>2, <4>1, <4>2
    <3> QED
      BY <3>1, <3>5, <3>6 DEF a
  <2>10. Matches(r, full)
    BY <2>8, <2>9 DEF Matches
  <2>11. Truthful(r, full, C, R)
    <3>1. /\ r.answers = s.answers /\ r.ended = s.ended /\ r.handshake = s.handshake
          /\ Len(s.answers) \in Nat
      BY <1>3, <2>4, <2>5, StreamTypes
    <3>2. s.ended = "permanent" =>
            /\ s.handshake # "answered"
            /\ Len(s.answers) + 1 \in 1..Len(p)
            /\ p[Len(s.answers) + 1].doc \in R
      BY <1>1, <1>5, <3>1 DEF Truthful
    <3>3. s.ended = "permanent" =>
            /\ s.handshake # "answered"
            /\ Len(s.answers) < Len(full)
            /\ full[Len(s.answers) + 1].doc \in R
      BY <1>1, <3>1, <3>2
    <3>4. \A i \in 1..Len(s.answers) : s.answers[i].doc \in C
      BY DEF Truthful
    <3> QED
      BY <3>1, <3>3, <3>4 DEF Truthful
  <2>12. r \in Streams /\ r.user = u /\ IsOpen(r) /\ (WriteNoticesEnd \/ r.failing = "no")
    BY <1>3, <2>2, <2>4, <2>5, <2>6 DEF Talks
  <2> QED
    BY <2>6, <2>7, <2>10, <2>11, <2>12 DEF Sound
<1>6. CASE ~Talks(s)
  <2>1. sent = s /\ s.answers = <<>> /\ s.wire = <<>> /\ ~s.idle
    BY <1>6 DEF Sound
  <2>2. CASE IsOpen(s)
    <3>1. ~HandshakeComplete(s) /\ IsStarted(s) /\ p # <<>> /\ full # <<>>
      BY <1>4, <1>6, <2>2 DEF Talks, Sound, IsStarted, IsOpen
    <3>2. r = s
      BY <1>2, <2>1, <3>1 DEF MarkedIdle, ShouldStart
    <3>3. Matches(r, full) /\ Truthful(r, full, C, R)
      <4>1. Len(s.answers) = 0 /\ Len(full) \in Nat /\ ~Talks(s)
        BY <1>1, <1>6, <2>1
      <4>2. Matches(s, full)
        BY <4>1 DEF Matches, Begins
      <4>3. Truthful(s, full, C, R)
        BY <4>1 DEF Truthful
      <4> QED
        BY <3>2, <4>2, <4>3
    <3> QED
      BY <1>6, <2>1, <3>1, <3>2, <3>3 DEF Sound
  <2>3. CASE ~IsOpen(s)
    <3>1. s = NoCall(s.state, u) /\ s.state # "Open" /\ idle = s
      BY <2>1, <2>3 DEF Sound, IsOpen, MarkedIdle
    <3>2. IsStarted(s) => full # <<>>
      <4>1. ~HandshakeComplete(s)
        BY <3>1 DEF NoCall, HandshakeComplete
      <4> QED
        BY <1>4, <4>1 DEF Sound
    <3> DEFINE state == IF ShouldStart(s, full)
                          THEN IF s.state = "Error" THEN "Backoff" ELSE "Starting"
                          ELSE s.state
    <3>3. r = NoCall(state, u)
      <4>2. Start(s) = NoCall(IF s.state = "Error" THEN "Backoff" ELSE "Starting", u)
        BY <3>1, NoCallMoved DEF Start
      <4> QED
        BY <1>2, <3>1, <4>2
    <3>4. /\ state \in States /\ state # "Open"
          /\ state \in {"Starting", "Backoff"} <=> full # <<>>
      BY <1>3, <3>1, <3>2 DEF ShouldStart, IsStarted, States
    <3> HIDE DEF state
    <3>5. Sound(r, full, u) /\ Truthful(r, full, C, R)
      BY <1>1, <3>3, <3>4, NoCallSound
    <3>6. r.state = state
      BY <3>3 DEF NoCall
    <3> QED
      BY <3>4, <3>5, <3>6 DEF IsStarted
  <2> QED
    BY <2>2, <2>3
<1> QED
  BY <1>5, <1>6

-----------------------------------------------------------------------------
(* The shape of the stream.                                                *)

StreamFields ==
  {"state", "handshake", "idle", "user", "wire", "answers", "ended", "failing"}

IsStream(s) == s = [f \in StreamFields |-> s[f]]

\* The stream r carries the credentials s did, and is not open unless s was.
Inherits(r, s) ==
  /\ IsStream(r)
  /\ r.user = s.user
  /\ IsOpen(r) => IsOpen(s)

\* The stream and the stream tokens belong to one user each.  That the call
\* opens with the served user's credentials is how OpensWithCredentials is
\* stated, and CallsCarryTheServedUserHolds, at the end, why it may be.
TokensStayWithTheirUser ==
  /\ IsOpen(stream) => stream.user = currentUser
  /\ token \in {currentUser, NoToken}
  /\ \A u \in User : savedToken[u] \in {u, NoToken}

\* The inductive invariant.
TokenInv ==
  /\ currentUser \in User
  /\ savedToken \in [User -> User \cup {NoToken}]
  /\ IsStream(stream)
  /\ TokensStayWithTheirUser

\* A stream without a call.
LEMMA NoCallShape ==
  ASSUME NEW state, NEW u
  PROVE  /\ IsStream(NoCall(state, u))
         /\ NoCall(state, u).state = state /\ NoCall(state, u).user = u
<1> DEFINE s == NoCall(state, u)
<1>1. DOMAIN s = StreamFields
  BY DEF NoCall, StreamFields
<1>2. s = [f \in DOMAIN s |-> s[f]]
  BY DEF NoCall
<1>3. IsStream(s)
  BY <1>1, <1>2 DEF IsStream
<1> QED
  BY <1>3 DEF NoCall

\* Starting a stream does not open it.
LEMMA StartInherits ==
  ASSUME NEW s, IsStream(s)
  PROVE  Inherits(Start(s), s) /\ ~IsOpen(Start(s))
  BY DEF Start, IsStream, Inherits, IsOpen, StreamFields

\* Sending writes on a stream.
LEMMA WriteInherits ==
  ASSUME NEW s, IsStream(s), NEW batches
  PROVE  Inherits(WriteMutations(s, batches), s)
  BY DEF WriteMutations, IsStream, Inherits, IsOpen, StreamFields

\* Arming the idle timer.
LEMMA IdleInherits ==
  ASSUME NEW s, IsStream(s), NEW p
  PROVE  Inherits(MarkedIdle(s, p), s)
  BY DEF MarkedIdle, IsStream, Inherits, IsOpen, StreamFields

\* FillWritePipeline never changes whose stream it is, and opens none.
LEMMA FilledInherits ==
  ASSUME NEW s, IsStream(s), NEW p, NEW q
  PROVE  Inherits(FilledStream(s, p, q), s)
<1> DEFINE sent == IF IsOpen(s) /\ HandshakeComplete(s)
                     THEN WriteMutations(s, NewBatches(p, q)) ELSE s
<1> DEFINE full == FilledPipeline(p, q)
<1> DEFINE idle == MarkedIdle(sent, full)
<1> HIDE DEF full
<1>1. Inherits(s, s)
  BY DEF Inherits
<1>2. Inherits(sent, s)
  BY <1>1, WriteInherits
<1> HIDE DEF sent
<1>3. Inherits(idle, sent)
  BY <1>2, IdleInherits DEF Inherits
<1>4. Inherits(idle, s)
  BY <1>2, <1>3 DEF Inherits
<1> HIDE DEF idle
<1>5. Inherits(Start(idle), s)
  BY <1>4, StartInherits DEF Inherits
<1>6. FilledStream(s, p, q) = IF ShouldStart(idle, full) THEN Start(idle) ELSE idle
  BY DEF FilledStream, sent, full, idle
<1> QED
  BY <1>4, <1>5, <1>6

-----------------------------------------------------------------------------
(* Steps.                                                                  *)

\* A step within one user's stream.
LEMMA SameUserStep ==
  ASSUME TokenInv, currentUser' = currentUser, Inherits(stream', stream),
         token' \in {token, currentUser, NoToken},
         savedToken' \in {savedToken, [savedToken EXCEPT ![currentUser] = currentUser],
                          [savedToken EXCEPT ![currentUser] = NoToken]}
  PROVE  TokenInv'
<1>1. savedToken' \in [User -> User \cup {NoToken}]
  BY DEF TokenInv
<1>2. \A u \in User : savedToken'[u] \in {u, NoToken}
  BY DEF TokenInv, TokensStayWithTheirUser
<1>3. IsStream(stream') /\ (IsOpen(stream') => stream'.user = currentUser)
  BY DEF TokenInv, TokensStayWithTheirUser, Inherits
<1>4. token' \in {currentUser, NoToken}
  BY DEF TokenInv, TokensStayWithTheirUser
<1> QED
  BY <1>1, <1>2, <1>3, <1>4 DEF TokenInv, TokensStayWithTheirUser

\* A stream that starts anew.
LEMMA FreshStream ==
  ASSUME NEW u \in User, NEW state, state # "Open", NEW s, Inherits(s, NoCall(state, u))
  PROVE  IsStream(s) /\ ~IsOpen(s) /\ s.user = u
  BY NoCallShape DEF Inherits, IsOpen

\* A restart of the network reloads the token of the user it now serves.
LEMMA RestartStep ==
  ASSUME TokenInv, NEW u \in User, currentUser' = u, NEW q, RestartNetwork(u, q),
         UNCHANGED savedToken
  PROVE  TokenInv'
<1>1. Inherits(stream', NoCall("Initial", u))
  BY NoCallShape, FilledInherits DEF RestartNetwork, FillWritePipeline
<1>2. IsStream(stream') /\ ~IsOpen(stream')
  BY <1>1, FreshStream
<1>3. token' \in {u, NoToken}
  BY DEF RestartNetwork, TokenInv, TokensStayWithTheirUser
<1> QED
  BY <1>2, <1>3 DEF TokenInv, TokensStayWithTheirUser

\* A step after which the stream has no call.
LEMMA ClosedStep ==
  ASSUME TokenInv, currentUser' = currentUser, IsStream(stream'), ~IsOpen(stream'),
         token' \in {token, NoToken},
         savedToken' \in {savedToken, [savedToken EXCEPT ![currentUser] = NoToken]}
  PROVE  TokenInv'
<1>1. savedToken' \in [User -> User \cup {NoToken}]
  BY DEF TokenInv
<1>2. \A u \in User : savedToken'[u] \in {u, NoToken}
  BY DEF TokenInv, TokensStayWithTheirUser
<1>3. token' \in {currentUser, NoToken}
  BY DEF TokenInv, TokensStayWithTheirUser
<1> QED
  BY <1>1, <1>2, <1>3 DEF TokenInv, TokensStayWithTheirUser

\* The end of a stream: a refused write, or any other error.
LEMMA FinishStep ==
  ASSUME TokenInv, NEW status, StreamFinishes(status)
  PROVE  TokenInv'
<1>1. CASE RejectFront
  <2>1. Inherits(stream', NoCall("Initial", currentUser))
    BY <1>1, NoCallShape, FilledInherits DEF RejectFront, FillWritePipeline
  <2>2. IsStream(stream') /\ ~IsOpen(stream')
    BY <2>1, FreshStream DEF TokenInv
  <2> QED
    BY <1>1, <2>2, ClosedStep DEF RejectFront, StreamFinishes
<1>2. ASSUME NEW forget \in BOOLEAN, KeepPipeline(forget) PROVE TokenInv'
  <2>1. IsStream(NoCall("Error", currentUser)) /\ ~IsOpen(NoCall("Error", currentUser))
    BY NoCallShape DEF IsOpen
  <2>2. IsStream(stream') /\ ~IsOpen(stream')
    BY <1>2, <2>1, StartInherits DEF KeepPipeline, Inherits
  <2> QED
    BY <1>2, <2>2, ClosedStep DEF KeepPipeline, StreamFinishes
<1> QED
  BY <1>1, <1>2 DEF StreamFinishes

\* Every task of the client, and whatever the server and the network do.
LEMMA NextTokenInv == TokenInv /\ [Next]_vars => TokenInv'
<1> SUFFICES ASSUME TokenInv, [Next]_vars PROVE TokenInv'
  OBVIOUS
<1> USE DEF engineVars, localVars, remoteVars, serverVars
<1>0. IsStream(stream) /\ Inherits(stream, stream) /\ currentUser \in User
  BY DEF TokenInv, Inherits
<1>1. ASSUME NEW d \in Doc, WriteDocument(d) PROVE TokenInv'
  <2>1. Inherits(stream', stream)
    BY <1>0, <1>1, FilledInherits DEF WriteDocument, FillWritePipeline
  <2> QED
    BY <1>1, <2>1, SameUserStep DEF WriteDocument
<1>2. ASSUME NEW u \in User, HandleCredentialChange(u) PROVE TokenInv'
  BY <1>2, RestartStep DEF HandleCredentialChange
<1>3. ASSUME NEW u \in User, Relaunched(u) PROVE TokenInv'
  BY <1>3, RestartStep DEF Relaunched
<1>4. CASE OpensWithCredentials
  <2> DEFINE s == NoCall("Open", currentUser)
  <2>1. IsStream(s) /\ s.user = currentUser
    BY NoCallShape
  <2>2. stream' = [s EXCEPT !.handshake = "sent"]
    BY <1>4 DEF OpensWithCredentials
  <2> HIDE DEF s
  <2>3. IsStream(stream') /\ stream'.user = currentUser
    BY <2>1, <2>2 DEF IsStream, StreamFields
  <2> QED
    BY <1>4, <2>3 DEF OpensWithCredentials, TokenInv, TokensStayWithTheirUser
<1>5. CASE HandshakeResponse
  <2> DEFINE s == [stream EXCEPT !.handshake = "complete"]
  <2>1. Inherits(s, stream)
    BY <1>0 DEF IsStream, Inherits, IsOpen, StreamFields
  <2> HIDE DEF s
  <2>2. Inherits(WriteMutations(s, pipeline), s)
    BY <2>1, WriteInherits DEF Inherits
  <2>3. Inherits(stream', stream)
    BY <1>5, <2>1, <2>2 DEF HandshakeResponse, Inherits, s
  <2>4. stream.user = currentUser
    BY <1>5 DEF HandshakeResponse, TokenInv, TokensStayWithTheirUser
  <2> QED
    BY <1>5, <2>3, <2>4, SameUserStep DEF HandshakeResponse
<1>6. CASE MutationResult
  <2>1. Inherits(WithoutAnswer(stream), stream)
    BY <1>0 DEF WithoutAnswer, IsStream, Inherits, IsOpen, StreamFields
  <2>2. Inherits(stream', WithoutAnswer(stream))
    BY <1>6, <2>1, FilledInherits DEF MutationResult, FillWritePipeline, Inherits
  <2>3. Inherits(stream', stream)
    BY <2>1, <2>2 DEF Inherits
  <2>4. AnswerRead(Head(pipeline))
    BY <1>6 DEF MutationResult
  <2>5. stream.user = currentUser
    BY <2>4 DEF AnswerRead, TokenInv, TokensStayWithTheirUser
  <2> QED
    BY <2>3, <2>4, <2>5, SameUserStep DEF AnswerRead
<1>7. CASE CredentialsFail \/ ReadNoticesEnd \/ WriteFindsEnd
  BY <1>7, FinishStep DEF CredentialsFail, ReadNoticesEnd, WriteFindsEnd
<1>8. CASE BackoffElapsed \/ IdleTimeout
  <2>1. IsStream(stream') /\ ~IsOpen(stream')
    BY <1>8, NoCallShape DEF BackoffElapsed, IdleTimeout, IsOpen
  <2> QED
    BY <1>8, <2>1, ClosedStep DEF BackoffElapsed, IdleTimeout
<1>9. CASE ConnectivityChanged
  BY <1>0, <1>9, RestartStep DEF ConnectivityChanged
<1>10. ASSUME NEW s, Inherits(s, stream), OnCall(s) PROVE TokenInv'
  BY <1>10, SameUserStep DEF OnCall
<1>11. CASE ServerGreets
  BY <1>0, <1>10, <1>11 DEF ServerGreets, IsStream, Inherits, IsOpen, StreamFields
<1>12. CASE ServerCommits
  BY <1>0, <1>10, <1>12 DEF ServerCommits, IsStream, Inherits, IsOpen, StreamFields
<1>13. CASE ServerRefuses
  BY <1>0, <1>10, <1>13 DEF ServerRefuses, IsStream, Inherits, IsOpen, StreamFields
<1>14. CASE ServerRefusesHandshake
  BY <1>0, <1>10, <1>14 DEF ServerRefusesHandshake, IsStream, Inherits, IsOpen, StreamFields
<1>15. ASSUME NEW status, CallBreaks(status) PROVE TokenInv'
  BY <1>0, <1>10, <1>15 DEF CallBreaks, IsStream, Inherits, IsOpen, StreamFields
<1>16. CASE UNCHANGED vars
  BY <1>0, <1>16, SameUserStep DEF vars
<1> QED
  BY <1>1, <1>2, <1>3, <1>4, <1>5, <1>6, <1>7, <1>8, <1>9, <1>11, <1>12, <1>13, <1>14,
     <1>15, <1>16 DEF Next

\* Nobody has a token at first.
LEMMA InitTokenInv == Init => TokenInv
<1> SUFFICES ASSUME Init PROVE TokenInv
  OBVIOUS
<1>1. IsStream(stream) /\ ~IsOpen(stream)
  BY NoCallShape DEF Init, IsOpen
<1> QED
  BY <1>1 DEF Init, TokenInv, TokensStayWithTheirUser

-----------------------------------------------------------------------------
(* The invariant of the write path.                                        *)

QueueInv ==
  /\ queue \in [User -> Seq(Batch)] /\ nextBatchId \in Nat \ {0}
  /\ callbacks \in SUBSET [user : User, batch : Batch]
  /\ IdsAreUnique

PipelineInv == pipeline \in Seq(Batch) /\ Fills(pipeline, queue[currentUser])

StreamInv ==
  /\ Sound(stream, pipeline, currentUser)
  /\ Truthful(stream, pipeline, committed, refused)
  /\ pipeline # <<>> => IsStarted(stream)

VerdictInv ==
  /\ heard \in [Doc -> {"none", "saved", "failed"}]
  /\ committed \in SUBSET Doc /\ refused \in SUBSET Doc /\ committed \cap refused = {}
  /\ SavedIsCommitted
  /\ ~WriteNoticesEnd => FailedIsRefused

IInv == TokenInv /\ QueueInv /\ PipelineInv /\ StreamInv /\ VerdictInv

-----------------------------------------------------------------------------
(* What the parts say.                                                     *)

\* Each queue is ordered, and the id that comes next is above all.
LEMMA QueueFacts ==
  ASSUME QueueInv
  PROVE  /\ \A u \in User : queue[u] \in Seq(Batch) /\ Ordered(queue[u])
         /\ \A b \in Queued : b.id \in Nat /\ b.id < nextBatchId
<1>1. \A u \in User : queue[u] \in Seq(Batch)
  BY DEF QueueInv
<1>2. \A u \in User : Ordered(queue[u])
  BY DEF QueueInv, IdsAreUnique, Ordered
<1>3. ASSUME NEW u \in User, NEW i \in 1..Len(queue[u])
      PROVE  queue[u][i].id \in Nat /\ queue[u][i].id < nextBatchId
  BY <1>1, <1>3, BatchFields DEF QueueInv, IdsAreUnique
<1> QED
  BY <1>1, <1>2, <1>3 DEF Queued, Batches

\* The pipeline is no longer than its limit.
LEMMA PipelineFacts ==
  ASSUME IInv
  PROVE  /\ pipeline \in Seq(Batch) /\ Len(pipeline) \in Nat /\ Len(pipeline) <= MaxPendingWrites
         /\ queue[currentUser] \in Seq(Batch) /\ Ordered(queue[currentUser])
         /\ Begins(pipeline, queue[currentUser])
<1>1. currentUser \in User /\ queue[currentUser] \in Seq(Batch) /\ Ordered(queue[currentUser])
  BY QueueFacts DEF IInv, TokenInv
<1>2. Len(queue[currentUser]) \in Nat /\ MaxPendingWrites \in Nat
  BY <1>1, MaxPendingWritesAssumption
<1> QED
  BY <1>1, <1>2 DEF IInv, PipelineInv, Fills, Limit

\* A pipeline that is filled again from the queue of the user served.
LEMMA Refilled ==
  ASSUME NEW u \in User, currentUser' = u, NEW q \in Seq(Batch), q = queue'[u], Ordered(q),
         NEW p \in Seq(Batch), Begins(p, q), Len(p) <= MaxPendingWrites,
         NEW s, Sound(s, p, u), Truthful(s, p, committed', refused'),
         FillWritePipeline(s, p, q)
  PROVE  PipelineInv' /\ StreamInv'
<1>1. pipeline' = FilledPipeline(p, q) /\ stream' = FilledStream(s, p, q)
  BY DEF FillWritePipeline
<1>2. pipeline' \in Seq(Batch) /\ Fills(pipeline', q)
  BY <1>1, PipelineFilled
<1>3. /\ Sound(stream', pipeline', u) /\ Truthful(stream', pipeline', committed', refused')
      /\ pipeline' # <<>> => IsStarted(stream')
  BY <1>1, StreamFilled
<1> QED
  BY <1>2, <1>3 DEF PipelineInv, StreamInv

\* The pipeline and the queue stay as they are, and so does what the server
\* has said of them.
LEMMA StreamOnly ==
  ASSUME IInv, UNCHANGED <<currentUser, queue, pipeline, committed, refused>>,
         Sound(stream', pipeline, currentUser), Truthful(stream', pipeline, committed, refused),
         pipeline # <<>> => IsStarted(stream')
  PROVE  PipelineInv' /\ StreamInv'
  BY DEF IInv, PipelineInv, StreamInv

\* A restart of the network starts from an empty pipeline.
LEMMA Restarted ==
  ASSUME IInv, NEW u \in User, currentUser' = u, UNCHANGED <<queue, committed, refused>>,
         RestartNetwork(u, queue[u])
  PROVE  PipelineInv' /\ StreamInv'
<1> DEFINE q == queue[u]
<1> DEFINE p == <<>>
<1>1. q \in Seq(Batch) /\ Ordered(q) /\ q = queue'[u]
  BY QueueFacts DEF IInv
<1>2. p \in Seq(Batch) /\ Begins(p, q) /\ Len(p) <= MaxPendingWrites
  BY <1>1, MaxPendingWritesAssumption DEF Begins
<1>3. /\ Sound(NoCall("Initial", u), p, u)
      /\ Truthful(NoCall("Initial", u), p, committed', refused')
  BY <1>2, NoCallSound DEF States
<1>4. FillWritePipeline(NoCall("Initial", u), p, q)
  BY DEF RestartNetwork
<1> HIDE DEF p, q
<1> QED
  BY <1>1, <1>2, <1>3, <1>4, Refilled

-----------------------------------------------------------------------------
(* The queues.                                                             *)

\* Nothing happens to the queues.
LEMMA QueuesKept ==
  ASSUME QueueInv, UNCHANGED <<queue, nextBatchId, callbacks>>
  PROVE  QueueInv'
  BY DEF QueueInv, IdsAreUnique, Batches

\* A change of user or a restart draws the ids anew; callbacks may be lost.
LEMMA IdsDrawnAnew ==
  ASSUME QueueInv, UNCHANGED queue, callbacks' \in {callbacks, {}},
         nextBatchId' \in {nextBatchId, LoadNextBatchId}
  PROVE  QueueInv'
<1>1. /\ nextBatchId' \in Nat \ {0}
      /\ \A b \in Queued : b.id < nextBatchId'
  BY QueueFacts, NextIdIsAbove DEF QueueInv
<1>2. \A u \in User : \A i \in 1..Len(queue[u]) : queue[u][i].id < nextBatchId'
  BY <1>1 DEF Queued, Batches
<1> QED
  BY <1>1, <1>2 DEF QueueInv, IdsAreUnique, Batches

LEMMA Below ==
  ASSUME NEW x \in Nat, NEW y \in Nat, x < y
  PROVE  x # y /\ y # x
  OBVIOUS

\* A write joins the queue of one user.
LEMMA WriteQueued ==
  ASSUME QueueInv, NEW v \in User, NEW d \in Doc, NEW b, b = [id |-> nextBatchId, doc |-> d],
         queue' = [queue EXCEPT ![v] = Append(@, b)], nextBatchId' = nextBatchId + 1,
         callbacks' = callbacks \cup {[user |-> v, batch |-> b]}
  PROVE  QueueInv'
<1>1. b \in Batch /\ b.id = nextBatchId
  BY DEF QueueInv, Batch
<1>2. \A u \in User : queue[u] \in Seq(Batch) /\ Len(queue[u]) \in Nat
  BY QueueFacts
<1>3. queue'[v] = Append(queue[v], b) /\ \A u \in User \ {v} : queue'[u] = queue[u]
  BY DEF QueueInv
<1>4. /\ queue'[v] \in Seq(Batch) /\ Len(queue'[v]) = Len(queue[v]) + 1
      /\ \A i \in 1..Len(queue[v]) : queue'[v][i] = queue[v][i]
      /\ queue'[v][Len(queue[v]) + 1] = b
  BY <1>1, <1>2, <1>3, Added
<1>5. queue' \in [User -> Seq(Batch)]
  BY <1>3, <1>4 DEF QueueInv
<1>6. \A u \in User : \A i \in 1..Len(queue'[u]) :
        \/ i \in 1..Len(queue[u]) /\ queue'[u][i] = queue[u][i]
        \/ u = v /\ i = Len(queue[v]) + 1 /\ queue'[u][i].id = nextBatchId
  BY <1>1, <1>2, <1>3, <1>4
<1>7. \A u \in User : \A i \in 1..Len(queue[u]) :
        queue[u][i].id \in Nat /\ queue[u][i].id < nextBatchId
  BY QueueFacts DEF Queued, Batches
<1>8. \A u \in User : \A i \in 1..Len(queue'[u]) : queue'[u][i].id < nextBatchId + 1
  BY <1>6, <1>7 DEF QueueInv
<1>9. ASSUME NEW u \in User, NEW w \in User, NEW i \in 1..Len(queue'[u]),
             NEW j \in 1..Len(queue'[w])
      PROVE  /\ queue'[u][i].id = queue'[w][j].id => u = w /\ i = j
             /\ u = w /\ i < j => queue'[u][i].id < queue'[w][j].id
  <2>1. i \in Nat /\ j \in Nat /\ nextBatchId \in Nat
    BY <1>2, <1>4 DEF QueueInv
  <2>2. CASE i \in 1..Len(queue[u]) /\ j \in 1..Len(queue[w])
    <3>1. queue'[u][i] = queue[u][i] /\ queue'[w][j] = queue[w][j]
      BY <1>3, <1>4, <2>2
    <3> QED
      BY <2>2, <3>1 DEF QueueInv, IdsAreUnique
  <2>3. CASE i \in 1..Len(queue[u]) /\ j \notin 1..Len(queue[w])
    <3>1. queue'[u][i] = queue[u][i] /\ queue'[w][j].id = nextBatchId
      BY <1>3, <1>4, <1>6, <2>3
    <3>2. queue[u][i].id < nextBatchId /\ queue[u][i].id \in Nat
      BY <1>7, <2>3
    <3>3. queue[u][i].id < nextBatchId /\ queue[u][i].id # nextBatchId
      BY <2>1, <3>2, Below
    <3> QED
      BY <3>1, <3>3, Zenon
  <2>4. CASE i \notin 1..Len(queue[u]) /\ j \in 1..Len(queue[w])
    <3>0. queue'[w][j] = queue[w][j] /\ queue'[u][i].id = nextBatchId
      BY <1>3, <1>4, <1>6, <2>4
    <3>1. /\ queue'[w][j] = queue[w][j] /\ queue[w][j].id < nextBatchId
          /\ queue'[u][i].id = nextBatchId /\ queue[w][j].id \in Nat
      BY <3>0, <1>7, <2>4
    <3>2. u = v /\ i = Len(queue[v]) + 1
      BY <1>6, <2>4
    <3>3. u = w => ~(i < j)
      BY <1>2, <2>1, <2>4, <3>2
    <3>4. nextBatchId # queue[w][j].id
      BY <2>1, <3>1, Below
    <3> QED
      BY <3>1, <3>3, <3>4, Zenon
  <2>5. CASE i \notin 1..Len(queue[u]) /\ j \notin 1..Len(queue[w])
    <3>1. u = v /\ w = v /\ i = Len(queue[v]) + 1 /\ j = Len(queue[v]) + 1
      BY <1>6, <2>5
    <3> QED
      BY <2>1, <3>1
  <2> QED
    BY <2>2, <2>3, <2>4, <2>5
<1>10. \A c \in callbacks' : c.batch \in Batches(queue'[c.user])
  <2> SUFFICES ASSUME NEW c \in callbacks' PROVE c.batch \in Batches(queue'[c.user])
    OBVIOUS
  <2>1. CASE c \in callbacks
    <3>1. c.user \in User /\ c.batch \in Batches(queue[c.user])
      BY <2>1 DEF QueueInv, IdsAreUnique
    <3>2. PICK i \in 1..Len(queue[c.user]) : c.batch = queue[c.user][i]
      BY <3>1 DEF Batches
    <3>3. i \in 1..Len(queue'[c.user]) /\ queue'[c.user][i] = queue[c.user][i]
      BY <1>2, <1>3, <1>4, <3>1
    <3> QED
      BY <3>2, <3>3 DEF Batches
  <2>2. CASE c = [user |-> v, batch |-> b]
    <3>1. Len(queue[v]) + 1 \in 1..Len(queue'[v])
      BY <1>2, <1>4
    <3> QED
      BY <1>4, <2>2, <3>1 DEF Batches
  <2> QED
    BY <2>1, <2>2
<1>11. callbacks' \in SUBSET [user : User, batch : Batch] /\ nextBatchId' \in Nat \ {0}
  BY <1>1 DEF QueueInv
<1> QED
  BY <1>5, <1>8, <1>9, <1>10, <1>11 DEF QueueInv, IdsAreUnique

\* The first write of a queue leaves it, and its callback goes.
LEMMA FrontLeaves ==
  ASSUME QueueInv, NEW v \in User, queue[v] # <<>>, NEW b, b = queue[v][1],
         queue' = [queue EXCEPT ![v] = Removed(@, b)], UNCHANGED nextBatchId,
         callbacks' = callbacks \ {[user |-> v, batch |-> b]}
  PROVE  /\ QueueInv'
         /\ queue' = [queue EXCEPT ![v] = Tail(@)]
<1>1. \A u \in User : queue[u] \in Seq(Batch) /\ Ordered(queue[u]) /\ Len(queue[u]) \in Nat
  BY QueueFacts
<1>2. queue'[v] = Tail(queue[v]) /\ \A u \in User \ {v} : queue'[u] = queue[u]
  BY <1>1, FrontRemoved DEF QueueInv
<1>3. queue' = [queue EXCEPT ![v] = Tail(@)]
  BY <1>1, FrontRemoved
<1>4. /\ queue'[v] \in Seq(Batch) /\ Len(queue[v]) \in Nat \ {0}
      /\ Len(queue'[v]) = Len(queue[v]) - 1
      /\ \A i \in 1..Len(queue'[v]) : queue'[v][i] = queue[v][i + 1]
  <2> DEFINE q == queue[v]
  <2>1. q \in Seq(Batch) /\ q # <<>> /\ queue'[v] = Tail(q)
    BY <1>1, <1>2
  <2> HIDE DEF q
  <2>2. /\ Tail(q) \in Seq(Batch) /\ Len(q) \in Nat \ {0} /\ Len(Tail(q)) = Len(q) - 1
        /\ \A i \in 1..Len(Tail(q)) : Tail(q)[i] = q[i + 1]
    BY <2>1, Rest
  <2> QED
    BY <2>1, <2>2 DEF q
<1>5. queue' \in [User -> Seq(Batch)]
  BY <1>2, <1>4 DEF QueueInv
<1> DEFINE at(u, i) == IF u = v THEN i + 1 ELSE i
<1>6. \A u \in User : \A i \in 1..Len(queue'[u]) :
        i \in Nat /\ at(u, i) \in 1..Len(queue[u]) /\ queue'[u][i] = queue[u][at(u, i)]
  BY <1>1, <1>2, <1>4
<1>7. \A u \in User : \A i \in 1..Len(queue'[u]) : queue'[u][i].id < nextBatchId'
  BY <1>6 DEF QueueInv, IdsAreUnique
<1>8. ASSUME NEW u \in User, NEW w \in User, NEW i \in 1..Len(queue'[u]),
             NEW j \in 1..Len(queue'[w])
      PROVE  /\ queue'[u][i].id = queue'[w][j].id => u = w /\ i = j
             /\ u = w /\ i < j => queue'[u][i].id < queue'[w][j].id
  <2>1. /\ i \in Nat /\ at(u, i) \in 1..Len(queue[u]) /\ queue'[u][i] = queue[u][at(u, i)]
        /\ j \in Nat /\ at(w, j) \in 1..Len(queue[w]) /\ queue'[w][j] = queue[w][at(w, j)]
    BY <1>6
  <2>2. /\ queue[u][at(u, i)].id = queue[w][at(w, j)].id => u = w /\ at(u, i) = at(w, j)
        /\ u = w /\ at(u, i) < at(w, j) => queue[u][at(u, i)].id < queue[w][at(w, j)].id
    BY <2>1 DEF QueueInv, IdsAreUnique
  <2>3. /\ u = w /\ at(u, i) = at(w, j) => i = j
        /\ u = w /\ i < j => at(u, i) < at(w, j)
    BY <2>1
  <2> HIDE DEF at
  <2> QED
    BY <2>1, <2>2, <2>3
<1>9. \A c \in callbacks' : c.batch \in Batches(queue'[c.user])
  <2> SUFFICES ASSUME NEW c \in callbacks' PROVE c.batch \in Batches(queue'[c.user])
    OBVIOUS
  <2>1. c \in [user : User, batch : Batch] /\ c.batch \in Batches(queue[c.user])
    BY DEF QueueInv, IdsAreUnique
  <2>2. c.user = v => c.batch # b
    <3>1. c = [user |-> c.user, batch |-> c.batch]
      BY <2>1
    <3> QED
      BY <3>1
  <2>3. PICK i \in 1..Len(queue[c.user]) : c.batch = queue[c.user][i]
    BY <2>1 DEF Batches
  <2>4. CASE c.user = v
    <3>1. i # 1
      BY <2>2, <2>3, <2>4
    <3>2. i - 1 \in 1..Len(queue'[v]) /\ queue'[v][i - 1] = queue[v][i - 1 + 1]
      BY <1>4, <2>3, <2>4, <3>1
    <3> QED
      BY <1>4, <2>3, <2>4, <3>2 DEF Batches
  <2>5. CASE c.user # v
    BY <1>2, <2>1, <2>3, <2>5 DEF Batches
  <2> QED
    BY <2>4, <2>5
<1>10. callbacks' \in SUBSET [user : User, batch : Batch] /\ nextBatchId' \in Nat \ {0}
  BY DEF QueueInv
<1> QED
  BY <1>3, <1>5, <1>7, <1>8, <1>9, <1>10 DEF QueueInv, IdsAreUnique

-----------------------------------------------------------------------------
\* The parts of the invariant that are left once TokenInv is known.
DeliveryInv == PipelineInv /\ StreamInv /\ VerdictInv

-----------------------------------------------------------------------------
(* Verdicts.                                                               *)

\* Nobody is told anything, the server does not change its mind.
LEMMA NothingTold ==
  ASSUME VerdictInv, UNCHANGED heard, committed' \in SUBSET Doc, refused' \in SUBSET Doc,
         committed \subseteq committed', refused \subseteq refused',
         committed' \cap refused' = {}
  PROVE  VerdictInv'
  BY DEF VerdictInv, SavedIsCommitted, FailedIsRefused

\* A callback is told the server's verdict, if it is still there.
LEMMA VerdictTold ==
  ASSUME VerdictInv, NEW b \in Batch, NEW verdict \in {"saved", "failed"},
         NotifyUser(b, verdict), UNCHANGED serverVars,
         verdict = "saved" => b.doc \in committed,
         verdict = "failed" /\ ~WriteNoticesEnd => b.doc \in refused
  PROVE  VerdictInv'
<1>1. b.doc \in Doc
  BY DEF Batch
<1>2. heard' \in {heard, [heard EXCEPT ![b.doc] = verdict]}
  BY DEF NotifyUser
<1>3. committed' = committed /\ refused' = refused
  BY DEF serverVars
<1>4. heard' \in [Doc -> {"none", "saved", "failed"}]
  BY <1>1, <1>2 DEF VerdictInv
<1>5. SavedIsCommitted'
  BY <1>1, <1>2, <1>3 DEF VerdictInv, SavedIsCommitted
<1>6. ~WriteNoticesEnd => FailedIsRefused'
  BY <1>1, <1>2, <1>3 DEF VerdictInv, FailedIsRefused
<1> QED
  BY <1>3, <1>4, <1>5, <1>6 DEF VerdictInv

-----------------------------------------------------------------------------
(* The front of the pipeline.                                              *)

\* The front of the pipeline is that of the queue.
LEMMA FrontFacts ==
  ASSUME IInv, pipeline # <<>>
  PROVE  /\ queue[currentUser] # <<>> /\ Head(pipeline) \in Batch
         /\ Head(pipeline) = pipeline[1] /\ Head(pipeline) = queue[currentUser][1]
         /\ Tail(pipeline) \in Seq(Batch) /\ Len(Tail(pipeline)) <= MaxPendingWrites
         /\ Begins(Tail(pipeline), Tail(queue[currentUser]))
<1> DEFINE p == pipeline
<1> DEFINE q == queue[currentUser]
<1>1. /\ p \in Seq(Batch) /\ p # <<>> /\ Len(p) <= MaxPendingWrites /\ q \in Seq(Batch)
      /\ Begins(p, q)
  BY PipelineFacts
<1> HIDE DEF p, q
<1>2. /\ Len(p) \in Nat \ {0} /\ Head(p) = p[1] /\ Head(p) \in Batch /\ Tail(p) \in Seq(Batch)
      /\ Len(Tail(p)) = Len(p) - 1 /\ \A i \in 1..Len(Tail(p)) : Tail(p)[i] = p[i + 1]
  BY <1>1, Rest
<1>3. q # <<>> /\ p[1] = q[1] /\ Len(p) <= Len(q)
  BY <1>1, <1>2 DEF Begins
<1>4. /\ Len(q) \in Nat \ {0} /\ Len(Tail(q)) = Len(q) - 1
      /\ \A i \in 1..Len(Tail(q)) : Tail(q)[i] = q[i + 1]
  BY <1>1, <1>3, Rest
<1>5. Begins(Tail(p), Tail(q))
  <2>1. Len(Tail(p)) <= Len(Tail(q))
    BY <1>2, <1>3, <1>4
  <2>2. \A i \in 1..Len(Tail(p)) : Tail(p)[i] = Tail(q)[i]
    <3> TAKE i \in 1..Len(Tail(p))
    <3>1. i \in 1..Len(Tail(q)) /\ i + 1 \in 1..Len(p)
      BY <1>2, <1>4, <2>1
    <3>2. Tail(p)[i] = p[i + 1] /\ Tail(q)[i] = q[i + 1]
      BY <1>2, <1>4, <3>1
    <3> QED
      BY <1>1, <3>1, <3>2 DEF Begins
  <2> QED
    BY <2>1, <2>2 DEF Begins
<1>6. Len(Tail(p)) <= MaxPendingWrites
  BY <1>1, <1>2, MaxPendingWritesAssumption
<1> QED
  BY <1>2, <1>3, <1>5, <1>6 DEF p, q

\* An answer that is there is about the front of the pipeline.
LEMMA AnswerFacts ==
  ASSUME IInv, stream.answers # <<>>
  PROVE  /\ Talks(stream) /\ pipeline # <<>> /\ pipeline[1].doc \in committed
         /\ Len(stream.answers) \in Nat \ {0} /\ stream.answers \in Seq(Batch)
<1>1. Sound(stream, pipeline, currentUser) /\ Truthful(stream, pipeline, committed, refused)
  BY DEF IInv, StreamInv
<1>2. stream.answers \in Seq(Batch)
  BY <1>1, StreamTypes DEF Sound
<1>3. Len(stream.answers) \in Nat \ {0}
  BY <1>2, Rest
<1>4. Talks(stream) /\ Begins(stream.answers, pipeline)
  BY <1>1 DEF Sound, Matches
<1>5. stream.answers[1] = pipeline[1] /\ Len(pipeline) # 0
  BY <1>3, <1>4, PipelineFacts DEF Begins
<1>6. stream.answers[1].doc \in committed
  BY <1>1, <1>3 DEF Truthful
<1>7. pipeline # <<>>
  BY <1>5
<1> QED
  BY <1>2, <1>3, <1>4, <1>5, <1>6, <1>7

-----------------------------------------------------------------------------
(* Tasks of SyncEngine.                                                    *)

\* The app writes: the batch joins the queue, and the pipeline if there is
\* room.
LEMMA WriteDocumentInv ==
  ASSUME IInv, NEW d \in Doc, WriteDocument(d)
  PROVE  QueueInv' /\ DeliveryInv'
<1> DEFINE b == [id |-> nextBatchId, doc |-> d]
<1> DEFINE q == queue[currentUser]
<1> DEFINE r == queue'[currentUser]
<1>1. /\ queue' = [queue EXCEPT ![currentUser] = Append(@, b)] /\ nextBatchId' = nextBatchId + 1
      /\ callbacks' = callbacks \cup {[user |-> currentUser, batch |-> b]}
      /\ FillWritePipeline(stream, pipeline, r)
      /\ currentUser' = currentUser /\ heard' = heard
      /\ committed' = committed /\ refused' = refused
  BY DEF WriteDocument, serverVars
<1>2. currentUser \in User
  BY DEF IInv, TokenInv
<1>3. QueueInv'
  BY <1>1, <1>2, WriteQueued DEF IInv
<1>4. r \in Seq(Batch) /\ Ordered(r)
  <2>1. \A u \in User : queue'[u] \in Seq(Batch)
    BY <1>3 DEF QueueInv
  <2>2. \A u \in User : Ordered(queue'[u])
    BY <1>3 DEF QueueInv, IdsAreUnique, Ordered
  <2> QED
    BY <1>2, <2>1, <2>2
<1>5. Begins(pipeline, r)
  <2>1. b \in Batch
    BY DEF IInv, QueueInv, Batch
  <2>2. q \in Seq(Batch) /\ r = Append(q, b)
    BY <1>1, <1>2 DEF IInv, QueueInv
  <2> HIDE DEF q, r, b
  <2>3. /\ Len(q) \in Nat /\ Len(r) = Len(q) + 1
        /\ \A i \in 1..Len(q) : r[i] = q[i]
    BY <2>1, <2>2, Added
  <2>4. Begins(pipeline, q) /\ Len(pipeline) \in Nat
    BY PipelineFacts DEF q
  <2> QED
    BY <2>3, <2>4 DEF Begins
<1>6. /\ Sound(stream, pipeline, currentUser)
      /\ Truthful(stream, pipeline, committed', refused')
  BY <1>1 DEF IInv, StreamInv
<1> HIDE DEF r
<1>7. PipelineInv' /\ StreamInv'
  BY <1>1, <1>2, <1>4, <1>5, <1>6, PipelineFacts, Refilled DEF r
<1>8. VerdictInv'
  BY <1>1, NothingTold DEF IInv, VerdictInv
<1> QED
  BY <1>3, <1>7, <1>8 DEF DeliveryInv

\* A restart of the network, be it for another user, a new token, a new
\* process or a new connection.
LEMMA RestartInv ==
  ASSUME IInv, NEW u \in User, currentUser' = u, RestartNetwork(u, queue[u]),
         UNCHANGED <<queue, heard, committed, refused>>, callbacks' \in {callbacks, {}},
         nextBatchId' \in {nextBatchId, LoadNextBatchId}
  PROVE  QueueInv' /\ DeliveryInv'
<1>1. QueueInv'
  BY IdsDrawnAnew DEF IInv
<1>2. PipelineInv' /\ StreamInv'
  BY Restarted
<1>3. VerdictInv'
  BY NothingTold DEF IInv, VerdictInv
<1> QED
  BY <1>1, <1>2, <1>3 DEF DeliveryInv

-----------------------------------------------------------------------------
(* Tasks of the write stream.                                              *)

\* The first answer is read.
LEMMA AnswerTaken ==
  ASSUME NEW s, NEW p \in Seq(Batch), NEW u, Sound(s, p, u), s.answers # <<>>, NEW C, NEW R,
         Truthful(s, p, C, R), NEW r, r = WithoutAnswer(s)
  PROVE  Sound(r, Tail(p), u) /\ Truthful(r, Tail(p), C, R)
<1>1. s \in Streams /\ s.answers \in Seq(Batch) /\ Len(s.wire) \in Nat /\ s.wire \in Seq(Batch)
      /\ s.failing \in {"no", "later", "now"}
  BY StreamTypes DEF Sound
<1>2. Talks(s) /\ Begins(s.answers, p) /\ s.user = u
  BY DEF Sound, Matches
<1> DEFINE a == s.answers
<1> DEFINE t == Tail(a)
<1> DEFINE failing == IF s.failing = "later" THEN "now" ELSE s.failing
<1>3. /\ Len(a) \in Nat \ {0} /\ t \in Seq(Batch) /\ Len(t) = Len(a) - 1
      /\ \A i \in 1..Len(t) : t[i] = a[i + 1]
  BY <1>1, Rest
<1>4. r = [s EXCEPT !.answers = t, !.failing = failing]
  BY DEF WithoutAnswer
<1>5. failing \in {"no", "later", "now"} /\ (s.failing = "no" => failing = "no")
  BY <1>1
<1> HIDE DEF t, failing
<1>6. /\ r \in Streams /\ r.answers = t /\ r.failing = failing
      /\ r.state = s.state /\ r.handshake = s.handshake /\ r.idle = s.idle
      /\ r.user = s.user /\ r.wire = s.wire /\ r.ended = s.ended
  BY <1>1, <1>3, <1>4, <1>5 DEF Streams
<1>7. Len(p) \in Nat \ {0} /\ p # <<>>
  BY <1>2, <1>3 DEF Begins
<1>8. Len(Tail(p)) = Len(p) - 1 /\ \A i \in 1..Len(Tail(p)) : Tail(p)[i] = p[i + 1]
  BY <1>7, Rest
<1>9. Talks(r) /\ HandshakeComplete(r) /\ IsOpen(r) /\ ~r.idle
  <2>1. s.idle \in BOOLEAN /\ (s.idle => p = <<>>)
    BY <1>1, StreamTypes DEF Sound
  <2> QED
    BY <1>2, <1>6, <1>7, <2>1 DEF Talks, IsOpen, HandshakeComplete
<1>10. Begins(t, Tail(p))
  <2>1. Len(a) <= Len(p) /\ \A i \in 1..Len(a) : a[i] = p[i]
    BY <1>2 DEF Begins
  <2>2. Len(t) <= Len(Tail(p))
    BY <1>3, <1>7, <1>8, <2>1
  <2>3. \A i \in 1..Len(t) : t[i] = Tail(p)[i]
    <3> TAKE i \in 1..Len(t)
    <3>1. i + 1 \in 1..Len(a) /\ i \in 1..Len(Tail(p))
      BY <1>3, <1>7, <1>8, <2>1
    <3>2. t[i] = a[i + 1] /\ Tail(p)[i] = p[i + 1]
      BY <1>3, <1>8, <3>1
    <3> QED
      BY <2>1, <3>1, <3>2
  <2> QED
    BY <2>2, <2>3 DEF Begins
<1>11. ASSUME s.ended = "no"
       PROVE  /\ Len(t) + Len(s.wire) = Len(Tail(p))
              /\ \A i \in 1..Len(s.wire) : s.wire[i] = Tail(p)[Len(t) + i]
  <2> DEFINE w == s.wire
  <2>1. Len(a) + Len(w) = Len(p) /\ \A i \in 1..Len(w) : w[i] = p[Len(a) + i]
    BY <1>2, <1>11 DEF Sound, Matches
  <2>2. Len(w) \in Nat
    BY <1>1
  <2> HIDE DEF w, a
  <2>3. Len(t) + Len(w) = Len(Tail(p))
    <3> DEFINE m == Len(a)
    <3> DEFINE n == Len(p)
    <3> DEFINE k == Len(w)
    <3>1. m \in Nat \ {0} /\ n \in Nat \ {0} /\ k \in Nat /\ m + k = n
      BY <1>3, <1>7, <2>1, <2>2 DEF a
    <3>2. Len(t) = m - 1 /\ Len(Tail(p)) = n - 1
      BY <1>3, <1>8 DEF a
    <3> HIDE DEF m, n, k
    <3>3. (m - 1) + k = n - 1
      BY <3>1
    <3>4. Len(t) + k = Len(Tail(p))
      BY <3>2, <3>3
    <3> QED
      BY <3>4 DEF k
  <2>4. \A i \in 1..Len(w) : w[i] = Tail(p)[Len(t) + i]
    <3> TAKE i \in 1..Len(w)
    <3>1. Len(t) + i \in 1..Len(Tail(p)) /\ Len(t) + i + 1 = Len(a) + i
      BY <1>3, <2>2, <2>3
    <3>2. Tail(p)[Len(t) + i] = p[Len(t) + i + 1]
      BY <1>8, <3>1
    <3> QED
      BY <2>1, <3>1, <3>2
  <2> QED
    BY <2>3, <2>4 DEF w
<1>12. Matches(r, Tail(p))
  BY <1>6, <1>10, <1>11 DEF Matches
<1>13. \A i \in 1..Len(t) : t[i].doc \in C
  <2> TAKE i \in 1..Len(t)
  <2>1. i + 1 \in 1..Len(a) /\ t[i] = a[i + 1]
    BY <1>3
  <2> QED
    BY <2>1 DEF Truthful
<1>14. ASSUME s.ended = "permanent"
       PROVE  /\ s.handshake # "answered" /\ Len(t) < Len(Tail(p))
              /\ Tail(p)[Len(t) + 1].doc \in R
  <2>1. s.handshake # "answered" /\ Len(a) < Len(p) /\ p[Len(a) + 1].doc \in R
    BY <1>2, <1>14 DEF Truthful
  <2>2. Len(t) + 1 \in 1..Len(Tail(p)) /\ Len(t) + 1 + 1 = Len(a) + 1 /\ Len(t) < Len(Tail(p))
    BY <1>3, <1>7, <1>8, <2>1
  <2>3. Tail(p)[Len(t) + 1] = p[Len(t) + 1 + 1]
    BY <1>8, <2>2
  <2> QED
    BY <2>1, <2>2, <2>3
<1>15. Truthful(r, Tail(p), C, R)
  BY <1>6, <1>13, <1>14 DEF Truthful
<1>16. WriteNoticesEnd \/ r.failing = "no"
  BY <1>5, <1>6 DEF Sound
<1>17. Sound(r, Tail(p), u)
  BY <1>2, <1>6, <1>9, <1>12, <1>16 DEF Sound
<1> QED
  BY <1>15, <1>17

\* An answer is read: the front of the pipeline leaves, and rightly so.
LEMMA MutationResultInv ==
  ASSUME IInv, MutationResult
  PROVE  QueueInv' /\ DeliveryInv'
<1> DEFINE b == Head(pipeline)
<1>1. /\ stream.answers # <<>>
      /\ queue' = [queue EXCEPT ![currentUser] = Removed(@, b)]
      /\ NotifyUser(b, "saved")
      /\ UNCHANGED <<currentUser, nextBatchId, serverVars>>
      /\ FillWritePipeline(WithoutAnswer(stream), Tail(pipeline), queue'[currentUser])
  BY DEF MutationResult, AnswerRead
<1>2. currentUser \in User
  BY DEF IInv, TokenInv
<1>3. pipeline # <<>> /\ b.doc \in committed /\ b \in Batch /\ b = queue[currentUser][1]
      /\ queue[currentUser] # <<>>
  BY <1>1, AnswerFacts, FrontFacts
<1>4. callbacks' = callbacks \ {[user |-> currentUser, batch |-> b]}
  BY <1>1 DEF NotifyUser
<1>5. QueueInv' /\ queue' = [queue EXCEPT ![currentUser] = Tail(@)]
  BY <1>1, <1>2, <1>3, <1>4, FrontLeaves DEF IInv
<1> DEFINE q == queue'[currentUser]
<1>6. q = Tail(queue[currentUser]) /\ q \in Seq(Batch) /\ Ordered(q)
  <2>1. \A u \in User : Ordered(queue'[u])
    BY <1>5 DEF QueueInv, IdsAreUnique, Ordered
  <2> QED
    BY <1>2, <1>5, <2>1 DEF IInv, QueueInv
<1> HIDE DEF q
<1>7. /\ Tail(pipeline) \in Seq(Batch) /\ Begins(Tail(pipeline), q)
      /\ Len(Tail(pipeline)) <= MaxPendingWrites
  BY <1>3, <1>6, FrontFacts
<1>8. committed' = committed /\ refused' = refused
  BY <1>1 DEF serverVars
<1>9. /\ Sound(WithoutAnswer(stream), Tail(pipeline), currentUser)
      /\ Truthful(WithoutAnswer(stream), Tail(pipeline), committed', refused')
  BY <1>1, <1>8, AnswerTaken, PipelineFacts DEF IInv, StreamInv
<1>10. PipelineInv' /\ StreamInv'
  <2>1. FillWritePipeline(WithoutAnswer(stream), Tail(pipeline), q) /\ currentUser' = currentUser
        /\ q = queue'[currentUser]
    BY <1>1 DEF q
  <2> QED
    BY <1>2, <1>6, <1>7, <1>9, <2>1, Refilled
<1>11. VerdictInv'
  BY <1>1, <1>3, VerdictTold DEF IInv
<1> QED
  BY <1>5, <1>10, <1>11 DEF DeliveryInv

\* The stream ends: its front is refused, or everything is kept.
LEMMA FinishInv ==
  ASSUME IInv, NEW status, StreamFinishes(status),
         /\ pipeline # <<>> /\ HandshakeComplete(stream) /\ status = "permanent"
         /\ ~WriteNoticesEnd
         => pipeline[1].doc \in refused
  PROVE  QueueInv' /\ DeliveryInv'
<1>1. currentUser \in User /\ pipeline \in Seq(Batch)
  BY PipelineFacts DEF IInv, TokenInv
<1>2. /\ currentUser' = currentUser /\ nextBatchId' = nextBatchId
      /\ committed' = committed /\ refused' = refused
  BY DEF StreamFinishes, serverVars
<1>3. CASE /\ pipeline # <<>> /\ HandshakeComplete(stream) /\ status = "permanent"
           /\ RejectFront
  <2> DEFINE b == Head(pipeline)
  <2>1. /\ queue' = [queue EXCEPT ![currentUser] = Removed(@, b)]
        /\ NotifyUser(b, "failed")
        /\ FillWritePipeline(NoCall("Initial", currentUser), Tail(pipeline),
                             queue'[currentUser])
    BY <1>3 DEF RejectFront
  <2>2. b \in Batch /\ b = queue[currentUser][1] /\ queue[currentUser] # <<>> /\ b = pipeline[1]
    BY <1>3, FrontFacts
  <2>3. callbacks' = callbacks \ {[user |-> currentUser, batch |-> b]}
    BY <2>1 DEF NotifyUser
  <2>4. QueueInv' /\ queue' = [queue EXCEPT ![currentUser] = Tail(@)]
    BY <1>1, <1>2, <2>1, <2>2, <2>3, FrontLeaves DEF IInv
  <2> DEFINE q == queue'[currentUser]
  <2>5. q = Tail(queue[currentUser]) /\ q \in Seq(Batch) /\ Ordered(q)
    <3>1. \A u \in User : Ordered(queue'[u])
      BY <2>4 DEF QueueInv, IdsAreUnique, Ordered
    <3> QED
      BY <1>1, <2>4, <3>1 DEF IInv, QueueInv
  <2> DEFINE s == NoCall("Initial", currentUser)
  <2>6. FillWritePipeline(s, Tail(pipeline), q) /\ q = queue'[currentUser]
    BY <2>1
  <2> HIDE DEF q
  <2>7. /\ Tail(pipeline) \in Seq(Batch) /\ Begins(Tail(pipeline), q)
        /\ Len(Tail(pipeline)) <= MaxPendingWrites
    BY <1>3, <2>5, FrontFacts
  <2>8. Sound(s, Tail(pipeline), currentUser) /\ Truthful(s, Tail(pipeline), committed', refused')
    BY <1>1, <2>7, NoCallSound DEF States
  <2> HIDE DEF s
  <2>9. PipelineInv' /\ StreamInv'
    BY <1>1, <1>2, <2>5, <2>6, <2>7, <2>8, Refilled
  <2>10. ~WriteNoticesEnd => b.doc \in refused
    BY <1>3, <2>2
  <2>11. VerdictInv'
    BY <1>2, <2>1, <2>2, <2>10, VerdictTold DEF IInv, serverVars
  <2> QED
    BY <2>4, <2>9, <2>11 DEF DeliveryInv
<1>4. ASSUME NEW forget \in BOOLEAN, KeepPipeline(forget) PROVE QueueInv' /\ DeliveryInv'
  <2>1. UNCHANGED <<callbacks, heard, queue, pipeline>>
    BY <1>4 DEF KeepPipeline
  <2> DEFINE to == IF pipeline = <<>> THEN "Error" ELSE "Backoff"
  <2>2. stream' = NoCall(to, currentUser)
    <3>1. NoCall("Error", currentUser).state = "Error"
      BY DEF NoCall
    <3>2. Start(NoCall("Error", currentUser)) = NoCall("Backoff", currentUser)
      BY <3>1, NoCallMoved DEF Start
    <3> QED
      BY <1>4, <3>2 DEF KeepPipeline
  <2>3. to \in States /\ to # "Open" /\ (to \in {"Starting", "Backoff"} <=> pipeline # <<>>)
    BY DEF States
  <2> HIDE DEF to
  <2>4. /\ Sound(stream', pipeline, currentUser)
        /\ Truthful(stream', pipeline, committed, refused)
    BY <1>1, <2>2, <2>3, NoCallSound
  <2>5. stream'.state = to
    BY <2>2 DEF NoCall
  <2>6. PipelineInv' /\ StreamInv'
    BY <1>2, <2>1, <2>3, <2>4, <2>5, StreamOnly DEF IsStarted
  <2>7. QueueInv' /\ VerdictInv'
    BY <1>2, <2>1, QueuesKept, NothingTold DEF IInv, VerdictInv
  <2> QED
    BY <2>6, <2>7 DEF DeliveryInv
<1> QED
  BY <1>3, <1>4 DEF StreamFinishes, IsPermanentWriteError

-----------------------------------------------------------------------------
(* The call opens, is greeted, ends.                                       *)

\* The call opens: the handshake is sent over a pipeline that is not empty.
LEMMA OpensInv ==
  ASSUME IInv, OpensWithCredentials
  PROVE  QueueInv' /\ DeliveryInv'
<1> DEFINE s == NoCall("Open", currentUser)
<1>1. /\ stream.state = "Starting" /\ stream' = [s EXCEPT !.handshake = "sent"]
      /\ UNCHANGED <<engineVars, localVars, pipeline, serverVars>>
  BY DEF OpensWithCredentials
<1>2. UNCHANGED <<currentUser, callbacks, heard, queue, nextBatchId, pipeline, committed, refused>>
  BY <1>1 DEF engineVars, localVars, serverVars
<1>3. Sound(stream, pipeline, currentUser) /\ currentUser \in User /\ pipeline \in Seq(Batch)
  BY PipelineFacts DEF IInv, StreamInv, TokenInv
<1>4. pipeline # <<>>
  <2>1. stream = NoCall("Starting", currentUser)
    BY <1>1, <1>3 DEF Sound, IsOpen
  <2>2. ~HandshakeComplete(stream)
    BY <2>1 DEF NoCall, HandshakeComplete
  <2> QED
    BY <1>1, <1>3, <2>2 DEF Sound, IsStarted
<1>5. <<>> \in Seq(Batch) /\ Len(<<>>) = 0 /\ Len(pipeline) \in Nat
  BY <1>3
<1>6. /\ stream'.state = "Open" /\ stream'.handshake = "sent" /\ stream'.idle = FALSE
      /\ stream'.user = currentUser /\ stream'.wire = <<>> /\ stream'.answers = <<>>
      /\ stream'.ended = "no" /\ stream'.failing = "no" /\ stream' \in Streams
  BY <1>1, <1>3, <1>5 DEF NoCall, Streams
<1>7. IsOpen(stream') /\ IsStarted(stream') /\ ~Talks(stream')
  BY <1>6 DEF IsOpen, IsStarted, Talks, HandshakeComplete
<1>8. Matches(stream', pipeline) /\ Truthful(stream', pipeline, committed, refused)
  BY <1>5, <1>6, <1>7 DEF Matches, Begins, Truthful
<1>9. Sound(stream', pipeline, currentUser)
  BY <1>4, <1>6, <1>7, <1>8 DEF Sound
<1>10. PipelineInv' /\ StreamInv'
  BY <1>2, <1>7, <1>8, <1>9, StreamOnly
<1>11. QueueInv' /\ VerdictInv'
  BY <1>2, QueuesKept, NothingTold DEF IInv, VerdictInv
<1> QED
  BY <1>10, <1>11 DEF DeliveryInv

\* The handshake is answered: the whole pipeline is sent.
LEMMA HandshakeResponseInv ==
  ASSUME IInv, HandshakeResponse
  PROVE  QueueInv' /\ DeliveryInv'
<1> DEFINE s == [stream EXCEPT !.handshake = "complete"]
<1>1. /\ IsOpen(stream) /\ stream.handshake = "answered"
      /\ stream' = WriteMutations(s, pipeline)
      /\ UNCHANGED <<engineVars, queue, nextBatchId, pipeline, serverVars>>
  BY DEF HandshakeResponse
<1>2. UNCHANGED <<currentUser, callbacks, heard, queue, nextBatchId, pipeline, committed, refused>>
  BY <1>1 DEF engineVars, serverVars
<1>3. /\ Sound(stream, pipeline, currentUser) /\ Truthful(stream, pipeline, committed, refused)
      /\ pipeline \in Seq(Batch) /\ Len(pipeline) \in Nat
  BY PipelineFacts DEF IInv, StreamInv
<1>4. ~HandshakeComplete(stream) /\ IsStarted(stream) /\ ~Talks(stream)
  BY <1>1 DEF HandshakeComplete, IsStarted, IsOpen, Talks
<1>5. /\ pipeline # <<>> /\ stream.wire = <<>> /\ stream.answers = <<>>
      /\ stream.ended # "permanent" /\ stream.user = currentUser
      /\ WriteNoticesEnd \/ stream.failing = "no"
  BY <1>1, <1>3, <1>4 DEF Sound, Truthful
<1>6. /\ s \in Streams /\ s.state = "Open" /\ s.handshake = "complete" /\ s.user = currentUser
      /\ s.wire = <<>> /\ s.answers = <<>> /\ s.ended = stream.ended
      /\ s.failing = stream.failing
  <2>1. stream \in Streams
    BY <1>3 DEF Sound
  <2> QED
    BY <1>1, <1>5, <2>1 DEF Streams, IsOpen
<1>7. Sends(stream', s, pipeline)
  BY <1>1, <1>3, <1>6, Sent
<1> HIDE DEF s
<1>8. /\ stream' \in Streams /\ stream'.state = "Open" /\ stream'.handshake = "complete"
      /\ stream'.user = currentUser /\ stream'.answers = <<>>
      /\ stream'.ended = stream.ended /\ stream'.idle = FALSE
      /\ stream.ended = "no" => stream'.wire = <<>> \o pipeline
  BY <1>5, <1>6, <1>7 DEF Sends
<1>9. WriteNoticesEnd \/ stream'.failing = "no"
  BY <1>5, <1>6, <1>7 DEF Sends
<1>10. Talks(stream') /\ IsOpen(stream') /\ HandshakeComplete(stream') /\ IsStarted(stream')
  BY <1>8 DEF Talks, IsOpen, HandshakeComplete, IsStarted
<1>11. <<>> \o pipeline = pipeline
  BY <1>3, ConcatEmptySeq
<1>12. Len(stream'.answers) = 0
  BY <1>8
<1>13. Matches(stream', pipeline)
  <2>1. Begins(stream'.answers, pipeline)
    BY <1>3, <1>12 DEF Begins
  <2>2. stream'.ended = "no" => stream'.wire = pipeline
    BY <1>8, <1>11
  <2> QED
    BY <1>3, <1>12, <2>1, <2>2 DEF Matches
<1>14. Truthful(stream', pipeline, committed, refused)
  BY <1>5, <1>8, <1>12 DEF Truthful
<1>15. Sound(stream', pipeline, currentUser)
  BY <1>8, <1>9, <1>10, <1>13 DEF Sound
<1>16. PipelineInv' /\ StreamInv'
  BY <1>2, <1>10, <1>14, <1>15, StreamOnly
<1>17. QueueInv' /\ VerdictInv'
  BY <1>2, QueuesKept, NothingTold DEF IInv, VerdictInv
<1> QED
  BY <1>16, <1>17 DEF DeliveryInv

\* Nothing but the stream changes, and it has no call any more.
LEMMA ClosedInv ==
  ASSUME IInv, UNCHANGED <<engineVars, localVars, pipeline, serverVars>>,
         NEW state \in {"Initial", "Starting"}, stream' = NoCall(state, currentUser),
         state = "Starting" <=> pipeline # <<>>
  PROVE  QueueInv' /\ DeliveryInv'
<1>1. UNCHANGED <<currentUser, callbacks, heard, queue, nextBatchId, pipeline, committed, refused>>
  BY DEF engineVars, localVars, serverVars
<1>2. currentUser \in User /\ pipeline \in Seq(Batch)
  BY PipelineFacts DEF IInv, TokenInv
<1>3. /\ Sound(stream', pipeline, currentUser)
      /\ Truthful(stream', pipeline, committed, refused)
  BY <1>2, NoCallSound DEF States
<1>4. stream'.state = state
  BY DEF NoCall
<1>5. PipelineInv' /\ StreamInv'
  BY <1>1, <1>3, <1>4, StreamOnly DEF IsStarted
<1>6. QueueInv' /\ VerdictInv'
  BY <1>1, QueuesKept, NothingTold DEF IInv, VerdictInv
<1> QED
  BY <1>5, <1>6 DEF DeliveryInv

\* The wait is over, or the idle timer stops the stream.
LEMMA TimersInv ==
  ASSUME IInv, BackoffElapsed \/ IdleTimeout
  PROVE  QueueInv' /\ DeliveryInv'
<1>1. Sound(stream, pipeline, currentUser)
  BY DEF IInv, StreamInv
<1>2. CASE BackoffElapsed
  <2>1. stream = NoCall("Backoff", currentUser)
    BY <1>1, <1>2 DEF BackoffElapsed, Sound, IsOpen
  <2>2. IsStarted(stream) /\ ~HandshakeComplete(stream)
    BY <2>1 DEF NoCall, IsStarted, HandshakeComplete
  <2>3. pipeline # <<>>
    BY <1>1, <2>2 DEF Sound
  <2> QED
    BY <1>2, <2>3, ClosedInv DEF BackoffElapsed
<1>3. CASE IdleTimeout
  <2>1. pipeline = <<>>
    BY <1>1, <1>3 DEF IdleTimeout, Sound
  <2> QED
    BY <1>3, <2>1, ClosedInv DEF IdleTimeout
<1> QED
  BY <1>2, <1>3

\* The end of the call as its read or a write operation notices it.
LEMMA EndInv ==
  ASSUME IInv, CredentialsFail \/ ReadNoticesEnd \/ WriteFindsEnd
  PROVE  QueueInv' /\ DeliveryInv'
<1>1. Sound(stream, pipeline, currentUser) /\ Truthful(stream, pipeline, committed, refused)
  BY DEF IInv, StreamInv
<1>2. CASE CredentialsFail
  BY <1>2, FinishInv DEF CredentialsFail
<1>3. CASE ReadNoticesEnd
  <2>1. IsOpen(stream) /\ stream.answers = <<>> /\ StreamFinishes(stream.ended)
    BY <1>3 DEF ReadNoticesEnd
  <2>2. HandshakeComplete(stream) /\ stream.ended = "permanent" => pipeline[1].doc \in refused
    <3>1. Len(stream.answers) = 0
      BY <2>1
    <3> QED
      BY <1>1, <2>1, <3>1 DEF Truthful, Talks
  <2> QED
    BY <2>1, <2>2, FinishInv
<1>4. CASE WriteFindsEnd
  <2>1. WriteNoticesEnd /\ StreamFinishes(stream.ended)
    BY <1>1, <1>4 DEF WriteFindsEnd, Sound
  <2> QED
    BY <2>1, FinishInv
<1> QED
  BY <1>2, <1>3, <1>4

-----------------------------------------------------------------------------
(* The server and the network.                                             *)

\* What they do to a call that has not ended.
LEMMA OnCallInv ==
  ASSUME IInv, NEW s, OnCall(s), heard' = heard,
         committed' \in SUBSET Doc, refused' \in SUBSET Doc,
         committed \subseteq committed', refused \subseteq refused', committed' \cap refused' = {},
         Sound(s, pipeline, currentUser), Truthful(s, pipeline, committed', refused'), IsOpen(s)
  PROVE  QueueInv' /\ DeliveryInv'
<1>1. /\ stream' = s
      /\ UNCHANGED <<currentUser, callbacks, queue, nextBatchId, pipeline>>
  BY DEF OnCall, engineVars, localVars
<1>2. QueueInv' /\ VerdictInv'
  BY <1>1, QueuesKept, NothingTold DEF IInv
<1>3. PipelineInv' /\ StreamInv'
  BY <1>1 DEF IInv, PipelineInv, StreamInv, IsOpen, IsStarted
<1> QED
  BY <1>2, <1>3 DEF DeliveryInv

\* Only the progress of the handshake, or the end of the call, is new.
LEMMA HandshakeInv ==
  ASSUME IInv, ServerGreets \/ ServerRefusesHandshake
  PROVE  QueueInv' /\ DeliveryInv'
<1> DEFINE s == IF ServerGreets THEN [stream EXCEPT !.handshake = "answered"]
                ELSE [stream EXCEPT !.ended = "permanent"]
<1>1. /\ Sound(stream, pipeline, currentUser) /\ Truthful(stream, pipeline, committed, refused)
      /\ pipeline \in Seq(Batch) /\ Len(pipeline) \in Nat /\ VerdictInv
  BY PipelineFacts DEF IInv, StreamInv
<1>2. /\ OnCall(s) /\ stream.handshake = "sent" /\ IsOpen(stream) /\ stream.ended = "no"
      /\ heard' = heard /\ committed' = committed /\ refused' = refused
  BY DEF ServerGreets, ServerRefusesHandshake, OnCall, engineVars, serverVars
<1>3. stream \in Streams /\ ~HandshakeComplete(stream) /\ ~Talks(stream)
  BY <1>1, <1>2 DEF Sound, HandshakeComplete, Talks
<1>4. /\ s \in Streams /\ s.state = stream.state /\ s.idle = stream.idle /\ s.user = stream.user
      /\ s.wire = stream.wire /\ s.answers = stream.answers /\ s.failing = stream.failing
      /\ \/ s.handshake = "answered" /\ s.ended = "no"
         \/ s.handshake = "sent" /\ s.ended = "permanent"
  BY <1>2, <1>3 DEF Streams
<1> HIDE DEF s
<1>5. IsOpen(s) /\ IsStarted(s) /\ IsStarted(stream) /\ ~HandshakeComplete(s) /\ ~Talks(s)
  BY <1>2, <1>4 DEF IsOpen, IsStarted, HandshakeComplete, Talks
<1>6. stream.wire = <<>> /\ stream.answers = <<>> /\ pipeline # <<>> /\ ~stream.idle
  BY <1>1, <1>3, <1>5 DEF Sound
<1>7. Len(s.answers) = 0
  BY <1>4, <1>6
<1>8. Matches(s, pipeline) /\ Truthful(s, pipeline, committed, refused)
  BY <1>1, <1>4, <1>5, <1>7 DEF Matches, Begins, Truthful
<1>9. Sound(s, pipeline, currentUser)
  BY <1>1, <1>4, <1>5, <1>6, <1>8 DEF Sound
<1> QED
  BY <1>1, <1>2, <1>5, <1>8, <1>9, OnCallInv DEF VerdictInv

\* What the first request of a call is about.
LEMMA RequestFacts ==
  ASSUME IInv, IsOpen(stream), stream.ended = "no", stream.wire # <<>>
  PROVE  /\ Talks(stream) /\ stream \in Streams /\ pipeline # <<>> /\ ~stream.idle
         /\ stream.wire \in Seq(Batch) /\ stream.answers \in Seq(Batch)
         /\ Len(stream.wire) \in Nat \ {0} /\ Len(stream.answers) \in Nat
         /\ Head(stream.wire) = stream.wire[1] /\ Head(stream.wire) \in Batch
         /\ Tail(stream.wire) \in Seq(Batch) /\ Len(Tail(stream.wire)) = Len(stream.wire) - 1
         /\ \A i \in 1..Len(Tail(stream.wire)) : Tail(stream.wire)[i] = stream.wire[i + 1]
         /\ Len(stream.answers) + Len(stream.wire) = Len(pipeline)
         /\ \A i \in 1..Len(stream.wire) : stream.wire[i] = pipeline[Len(stream.answers) + i]
         /\ Begins(stream.answers, pipeline)
         /\ Head(stream.wire) = pipeline[Len(stream.answers) + 1]
<1>1. Sound(stream, pipeline, currentUser)
  BY DEF IInv, StreamInv
<1>2. Talks(stream) /\ stream \in Streams
  BY <1>1 DEF Sound
<1>3. stream.wire \in Seq(Batch) /\ stream.answers \in Seq(Batch) /\ Len(stream.answers) \in Nat
      /\ stream.idle \in BOOLEAN
  BY <1>2, StreamTypes
<1> DEFINE w == stream.wire
<1>4. /\ Len(w) \in Nat \ {0} /\ Head(w) = w[1] /\ Head(w) \in Batch
      /\ Tail(w) \in Seq(Batch) /\ Len(Tail(w)) = Len(w) - 1
      /\ \A i \in 1..Len(Tail(w)) : Tail(w)[i] = w[i + 1]
  BY <1>3, Rest
<1>5. /\ Len(stream.answers) + Len(w) = Len(pipeline)
      /\ \A i \in 1..Len(w) : w[i] = pipeline[Len(stream.answers) + i]
      /\ Begins(stream.answers, pipeline)
  BY <1>1, <1>2 DEF Sound, Matches
<1>6. w[1] = pipeline[Len(stream.answers) + 1]
  <2>1. 1 \in 1..Len(w)
    BY <1>4
  <2> QED
    BY <1>5, <2>1
<1>7. pipeline # <<>>
  <2>1. Len(pipeline) # 0
    <3> DEFINE m == Len(stream.answers)
    <3> DEFINE n == Len(pipeline)
    <3> DEFINE k == Len(w)
    <3>1. m \in Nat /\ k \in Nat \ {0} /\ m + k = n
      BY <1>3, <1>4, <1>5
    <3> HIDE DEF m, n, k
    <3>2. n # 0
      BY <3>1
    <3> QED
      BY <3>2 DEF n
  <2> QED
    BY <2>1
<1>8. ~stream.idle
  BY <1>1, <1>3, <1>7 DEF Sound
<1> QED
  BY <1>2, <1>3, <1>4, <1>5, <1>6, <1>7, <1>8

\* The server commits: the answer is about the write after those answered.
LEMMA ServerCommitsInv ==
  ASSUME IInv, ServerCommits
  PROVE  QueueInv' /\ DeliveryInv'
<1> DEFINE w == stream.wire
<1> DEFINE a == stream.answers
<1> DEFINE b == Head(w)
<1> DEFINE x == Tail(w)
<1> DEFINE y == Append(a, b)
<1> DEFINE s == [stream EXCEPT !.wire = x, !.answers = y]
<1>1. /\ w # <<>> /\ b.doc \notin refused /\ OnCall(s)
      /\ committed' = committed \cup {b.doc} /\ refused' = refused
  BY DEF ServerCommits
<1>2. IsOpen(stream) /\ stream.ended = "no" /\ heard' = heard
  BY <1>1 DEF OnCall, engineVars
<1>3. /\ Sound(stream, pipeline, currentUser) /\ Truthful(stream, pipeline, committed, refused)
      /\ VerdictInv /\ pipeline \in Seq(Batch)
  BY PipelineFacts DEF IInv, StreamInv
<1>4. /\ Talks(stream) /\ stream \in Streams /\ pipeline # <<>> /\ ~stream.idle
      /\ w \in Seq(Batch) /\ a \in Seq(Batch)
      /\ Len(w) \in Nat \ {0} /\ Len(a) \in Nat /\ b \in Batch
      /\ x \in Seq(Batch) /\ Len(x) = Len(w) - 1
      /\ \A i \in 1..Len(x) : x[i] = w[i + 1]
      /\ Len(a) + Len(w) = Len(pipeline)
      /\ \A i \in 1..Len(w) : w[i] = pipeline[Len(a) + i]
      /\ Begins(a, pipeline) /\ b = pipeline[Len(a) + 1]
  BY <1>1, <1>2, RequestFacts
<1> HIDE DEF w, a, b, x
<1>5. /\ y \in Seq(Batch) /\ Len(y) = Len(a) + 1
      /\ \A i \in 1..Len(a) : y[i] = a[i]
      /\ y[Len(a) + 1] = b
  BY <1>4, Added
<1> HIDE DEF y
<1>6. /\ s \in Streams /\ s.wire = x /\ s.answers = y /\ s.state = stream.state
      /\ s.handshake = stream.handshake /\ s.idle = stream.idle /\ s.user = stream.user
      /\ s.ended = stream.ended /\ s.failing = stream.failing
  BY <1>4, <1>5 DEF Streams
<1> HIDE DEF s
<1>7. Talks(s) /\ IsOpen(s) /\ HandshakeComplete(s)
  BY <1>4, <1>6 DEF Talks, IsOpen, HandshakeComplete
<1>8. Begins(y, pipeline)
  <2>1. Len(y) <= Len(pipeline)
    <3>1. Len(pipeline) = Len(a) + Len(w) /\ Len(y) = Len(a) + 1
      BY <1>4, <1>5
    <3> QED
      BY <1>4, <3>1
  <2>2. \A i \in 1..Len(y) : y[i] = pipeline[i]
    <3> TAKE i \in 1..Len(y)
    <3>1. CASE i \in 1..Len(a)
      BY <1>4, <1>5, <3>1 DEF Begins
    <3>2. CASE i = Len(a) + 1
      BY <1>4, <1>5, <3>2
    <3> QED
      BY <1>4, <1>5, <3>1, <3>2
  <2> QED
    BY <2>1, <2>2 DEF Begins
<1>9. Len(y) + Len(x) = Len(pipeline) /\ \A i \in 1..Len(x) : x[i] = pipeline[Len(y) + i]
  <2>1. Len(y) + Len(x) = Len(pipeline)
    <3>1. /\ Len(pipeline) = Len(a) + Len(w) /\ Len(y) = Len(a) + 1 /\ Len(x) = Len(w) - 1
          /\ Len(a) \in Nat /\ Len(w) \in Nat
      BY <1>4, <1>5
    <3> QED
      BY <3>1
  <2>2. \A i \in 1..Len(x) : x[i] = pipeline[Len(y) + i]
    <3> TAKE i \in 1..Len(x)
    <3>1. i + 1 \in 1..Len(w) /\ x[i] = w[i + 1]
      BY <1>4
    <3>2. w[i + 1] = pipeline[Len(a) + (i + 1)]
      BY <1>4, <3>1
    <3>3. Len(a) + (i + 1) = Len(y) + i
      <4>1. i \in Nat /\ Len(a) \in Nat /\ Len(y) = Len(a) + 1
        BY <1>4, <1>5
      <4> QED
        BY <4>1
    <3> QED
      BY <3>1, <3>2, <3>3
  <2> QED
    BY <2>1, <2>2
<1>10. Matches(s, pipeline)
  BY <1>6, <1>8, <1>9 DEF Matches
<1>11. Truthful(s, pipeline, committed', refused')
  <2>1. \A i \in 1..Len(a) : a[i].doc \in committed
    BY <1>3 DEF Truthful, a
  <2>2. \A i \in 1..Len(y) : y[i].doc \in committed'
    <3> TAKE i \in 1..Len(y)
    <3>1. CASE i \in 1..Len(a)
      BY <1>1, <1>5, <2>1, <3>1
    <3>2. CASE i = Len(a) + 1
      BY <1>1, <1>5, <3>2
    <3> QED
      BY <1>4, <1>5, <3>1, <3>2
  <2> QED
    BY <1>2, <1>6, <2>2 DEF Truthful
<1>12. Sound(s, pipeline, currentUser)
  BY <1>3, <1>4, <1>6, <1>7, <1>10 DEF Sound
<1>13. b.doc \in Doc
  BY <1>4 DEF Batch
<1>14. /\ committed' \in SUBSET Doc /\ refused' \in SUBSET Doc
       /\ committed \subseteq committed' /\ refused \subseteq refused'
       /\ committed' \cap refused' = {}
  BY <1>1, <1>3, <1>13 DEF VerdictInv
<1> QED
  BY <1>1, <1>2, <1>7, <1>11, <1>12, <1>14, OnCallInv

\* The server refuses: the write after those answered is the one.
LEMMA ServerRefusesInv ==
  ASSUME IInv, ServerRefuses
  PROVE  QueueInv' /\ DeliveryInv'
<1> DEFINE a == stream.answers
<1> DEFINE b == Head(stream.wire)
<1> DEFINE s == [stream EXCEPT !.wire = <<>>, !.ended = "permanent"]
<1>1. /\ stream.wire # <<>> /\ b.doc \notin committed /\ OnCall(s)
      /\ refused' = refused \cup {b.doc} /\ committed' = committed
  BY DEF ServerRefuses
<1>2. IsOpen(stream) /\ stream.ended = "no" /\ heard' = heard
  BY <1>1 DEF OnCall, engineVars
<1>3. /\ Sound(stream, pipeline, currentUser) /\ Truthful(stream, pipeline, committed, refused)
      /\ VerdictInv
  BY DEF IInv, StreamInv
<1>4. /\ Talks(stream) /\ stream \in Streams /\ pipeline # <<>> /\ ~stream.idle
      /\ Len(stream.wire) \in Nat \ {0} /\ Len(a) \in Nat /\ b \in Batch
      /\ Len(a) + Len(stream.wire) = Len(pipeline)
      /\ Begins(a, pipeline) /\ b = pipeline[Len(a) + 1]
  BY <1>1, <1>2, RequestFacts
<1> HIDE DEF b
<1>5. <<>> \in Seq(Batch)
  OBVIOUS
<1>6. /\ s \in Streams /\ s.answers = a /\ s.state = stream.state
      /\ s.handshake = stream.handshake /\ s.idle = stream.idle /\ s.user = stream.user
      /\ s.ended = "permanent" /\ s.failing = stream.failing
  BY <1>4, <1>5 DEF Streams
<1> HIDE DEF s, a
<1>7. Talks(s) /\ IsOpen(s) /\ HandshakeComplete(s) /\ s.handshake = "complete"
  BY <1>4, <1>6 DEF Talks, IsOpen, HandshakeComplete
<1>8. Matches(s, pipeline)
  BY <1>4, <1>6 DEF Matches
<1>9. Truthful(s, pipeline, committed', refused')
  <2>1. \A i \in 1..Len(a) : a[i].doc \in committed
    BY <1>3 DEF Truthful, a
  <2>2. Len(a) < Len(pipeline)
    BY <1>4
  <2> QED
    BY <1>1, <1>4, <1>6, <1>7, <2>1, <2>2 DEF Truthful
<1>10. Sound(s, pipeline, currentUser)
  BY <1>3, <1>4, <1>6, <1>7, <1>8 DEF Sound
<1>11. b.doc \in Doc
  BY <1>4 DEF Batch
<1>12. /\ committed' \in SUBSET Doc /\ refused' \in SUBSET Doc
       /\ committed \subseteq committed' /\ refused \subseteq refused'
       /\ committed' \cap refused' = {}
  BY <1>1, <1>3, <1>11 DEF VerdictInv
<1> QED
  BY <1>1, <1>2, <1>7, <1>9, <1>10, <1>12, OnCallInv

\* The call breaks: some of the answers may still be read.
LEMMA CallBreaksInv ==
  ASSUME IInv, NEW status \in {"transient", "aborted"}, CallBreaks(status)
  PROVE  QueueInv' /\ DeliveryInv'
<1> DEFINE a == stream.answers
<1>1. PICK n \in 0..Len(a) :
        OnCall([stream EXCEPT !.wire = <<>>, !.answers = SubSeq(a, 1, n), !.ended = status])
  BY DEF CallBreaks
<1> DEFINE c == SubSeq(a, 1, n)
<1> DEFINE s == [stream EXCEPT !.wire = <<>>, !.answers = c, !.ended = status]
<1>2. OnCall(s) /\ committed' = committed /\ refused' = refused
  BY <1>1 DEF CallBreaks, serverVars
<1>3. IsOpen(stream) /\ stream.ended = "no" /\ heard' = heard
  BY <1>2 DEF OnCall, engineVars
<1>4. /\ Sound(stream, pipeline, currentUser) /\ Truthful(stream, pipeline, committed, refused)
      /\ VerdictInv /\ Len(pipeline) \in Nat
  BY PipelineFacts DEF IInv, StreamInv
<1>5. stream \in Streams /\ a \in Seq(Batch) /\ Len(a) \in Nat /\ Begins(a, pipeline)
  BY <1>4, StreamTypes DEF Sound, Matches
<1>6. /\ c \in Seq(Batch) /\ Len(c) = n /\ n <= Len(a)
      /\ \A i \in 1..Len(c) : c[i] = a[i]
  BY <1>5, Cut
<1>7. <<>> \in Seq(Batch)
  OBVIOUS
<1> HIDE DEF a, c
<1>8. /\ s \in Streams /\ s.answers = c /\ s.wire = <<>> /\ s.state = stream.state
      /\ s.handshake = stream.handshake /\ s.idle = stream.idle /\ s.user = stream.user
      /\ s.ended = status /\ s.failing = stream.failing
  BY <1>5, <1>6, <1>7 DEF Streams
<1> HIDE DEF s
<1>9. /\ Talks(s) <=> Talks(stream)
      /\ IsOpen(s) /\ IsStarted(s) /\ IsStarted(stream)
      /\ HandshakeComplete(s) <=> HandshakeComplete(stream)
  BY <1>3, <1>8 DEF Talks, IsOpen, HandshakeComplete, IsStarted
<1>10. Begins(c, pipeline)
  BY <1>4, <1>5, <1>6 DEF Begins
<1>11. Matches(s, pipeline)
  BY <1>8, <1>10 DEF Matches
<1>12. Truthful(s, pipeline, committed', refused')
  <2>1. \A i \in 1..Len(a) : a[i].doc \in committed
    BY <1>4 DEF Truthful, a
  <2>2. \A i \in 1..Len(c) : c[i].doc \in committed
    BY <1>5, <1>6, <2>1
  <2> QED
    BY <1>2, <1>8, <2>2 DEF Truthful
<1>13. ~Talks(s) => c = <<>>
  <2>1. ~Talks(s) => a = <<>>
    BY <1>4, <1>9 DEF Sound, a
  <2>2. a = <<>> => Len(a) = 0
    OBVIOUS
  <2>3. Len(c) = 0 => c = <<>>
    BY <1>6, EmptySeq
  <2> QED
    BY <1>5, <1>6, <2>1, <2>2, <2>3
<1>14. Sound(s, pipeline, currentUser)
  BY <1>4, <1>8, <1>9, <1>11, <1>13 DEF Sound
<1> QED
  BY <1>2, <1>3, <1>4, <1>9, <1>12, <1>14, OnCallInv DEF VerdictInv

-----------------------------------------------------------------------------
(* The theorems.                                                           *)

\* Nothing has been written at first.
LEMMA InitInv == Init => IInv
<1> SUFFICES ASSUME Init PROVE IInv
  OBVIOUS
<1>1. /\ currentUser \in User /\ queue = [u \in User |-> <<>>] /\ pipeline = <<>>
      /\ stream = NoCall("Initial", currentUser) /\ callbacks = {} /\ nextBatchId = 1
      /\ heard = [d \in Doc |-> "none"] /\ committed = {} /\ refused = {}
  BY DEF Init
<1>2. <<>> \in Seq(Batch) /\ Len(<<>>) = 0
  OBVIOUS
<1>3. TokenInv
  BY InitTokenInv
<1>4. QueueInv
  BY <1>1, <1>2 DEF QueueInv, IdsAreUnique
<1>5. PipelineInv
  BY <1>1, <1>2, MaxPendingWritesAssumption DEF PipelineInv, Fills, Begins, Limit
<1>6. StreamInv
  BY <1>1, <1>2, NoCallSound DEF StreamInv, States
<1>7. VerdictInv
  BY <1>1 DEF VerdictInv, SavedIsCommitted, FailedIsRefused
<1> QED
  BY <1>3, <1>4, <1>5, <1>6, <1>7 DEF IInv

\* Every task of the worker queue, and everything the server and the network
\* do, keeps the invariant.
LEMMA NextInv == IInv /\ [Next]_vars => IInv'
<1> SUFFICES ASSUME IInv, [Next]_vars PROVE IInv'
  OBVIOUS
<1> SUFFICES QueueInv' /\ DeliveryInv'
  BY NextTokenInv DEF IInv, DeliveryInv
<1>1. ASSUME NEW d \in Doc, WriteDocument(d) PROVE QueueInv' /\ DeliveryInv'
  BY <1>1, WriteDocumentInv
<1>2. ASSUME NEW u \in User, HandleCredentialChange(u) PROVE QueueInv' /\ DeliveryInv'
  <2>1. /\ currentUser' = u /\ RestartNetwork(u, queue[u])
        /\ UNCHANGED <<queue, heard, committed, refused>> /\ callbacks' \in {callbacks, {}}
        /\ nextBatchId' \in {nextBatchId, LoadNextBatchId}
    BY <1>2 DEF HandleCredentialChange, serverVars
  <2> QED
    BY <2>1, RestartInv
<1>3. ASSUME NEW u \in User, Relaunched(u) PROVE QueueInv' /\ DeliveryInv'
  <2>1. /\ currentUser' = u /\ RestartNetwork(u, queue[u])
        /\ UNCHANGED <<queue, heard, committed, refused>> /\ callbacks' \in {callbacks, {}}
        /\ nextBatchId' \in {nextBatchId, LoadNextBatchId}
    BY <1>3 DEF Relaunched, serverVars
  <2> QED
    BY <2>1, RestartInv
<1>4. CASE ConnectivityChanged
  <2>1. /\ currentUser' = currentUser /\ RestartNetwork(currentUser, queue[currentUser])
        /\ UNCHANGED <<queue, heard, committed, refused>> /\ callbacks' \in {callbacks, {}}
        /\ nextBatchId' \in {nextBatchId, LoadNextBatchId}
    BY <1>4 DEF ConnectivityChanged, engineVars, localVars, serverVars
  <2>2. currentUser \in User
    BY DEF IInv, TokenInv
  <2> QED
    BY <2>1, <2>2, RestartInv
<1>5. CASE OpensWithCredentials
  BY <1>5, OpensInv
<1>6. CASE HandshakeResponse
  BY <1>6, HandshakeResponseInv
<1>7. CASE MutationResult
  BY <1>7, MutationResultInv
<1>8. CASE CredentialsFail \/ ReadNoticesEnd \/ WriteFindsEnd
  BY <1>8, EndInv
<1>9. CASE BackoffElapsed \/ IdleTimeout
  BY <1>9, TimersInv
<1>10. CASE ServerGreets \/ ServerRefusesHandshake
  BY <1>10, HandshakeInv
<1>11. CASE ServerCommits
  BY <1>11, ServerCommitsInv
<1>12. CASE ServerRefuses
  BY <1>12, ServerRefusesInv
<1>13. ASSUME NEW status \in {"transient", "aborted"}, CallBreaks(status)
       PROVE  QueueInv' /\ DeliveryInv'
  BY <1>13, CallBreaksInv
<1>14. CASE UNCHANGED vars
  <2>1. UNCHANGED <<currentUser, callbacks, heard, queue, nextBatchId, pipeline, stream,
                    committed, refused>>
    BY <1>14 DEF vars, engineVars, localVars, remoteVars, serverVars
  <2>2. QueueInv'
    BY <2>1, QueuesKept DEF IInv
  <2>3. DeliveryInv'
    BY <2>1 DEF IInv, DeliveryInv, PipelineInv, StreamInv, VerdictInv, SavedIsCommitted, FailedIsRefused
  <2> QED
    BY <2>2, <2>3
<1> QED
  BY <1>1, <1>2, <1>3, <1>4, <1>5, <1>6, <1>7, <1>8, <1>9, <1>10, <1>11, <1>12, <1>13,
     <1>14 DEF Next

\* The invariant of the write path.
LEMMA InvHolds == Spec => []IInv
  BY InitInv, NextInv, PTL DEF Spec

\* The variables have their types.
THEOREM TypeCorrect == Spec => []TypeOK
<1>1. IInv => TypeOK
  BY DEF IInv, TokenInv, QueueInv, PipelineInv, StreamInv, VerdictInv, Sound, TypeOK,
         TokensStayWithTheirUser
<1> QED
  BY <1>1, InvHolds, PTL

\* However often the ids are drawn anew, at a change of user or a restart
\* (LoadNextBatchIdFromDb), no two writes that wait share one, so a callback
\* hears of its own write only (SyncEngine::NotifyUser).
THEOREM IdsAreUniqueHolds == Spec => []IdsAreUnique
<1>1. IInv => IdsAreUnique
  BY DEF IInv, QueueInv
<1> QED
  BY <1>1, InvHolds, PTL

\* Every task leaves the pipeline with the first writes of the queue it
\* serves, as many as fit, and a started stream if there are any
\* (RemoteStore::FillWritePipeline).
THEOREM PipelineIsFullHolds == Spec => []PipelineIsFull
<1>1. IInv => PipelineIsFull
  <2> SUFFICES ASSUME IInv PROVE PipelineIsFull
    OBVIOUS
  <2> DEFINE q == queue[currentUser]
  <2> DEFINE n == IF MaxPendingWrites < Len(q) THEN MaxPendingWrites ELSE Len(q)
  <2>1. /\ pipeline \in Seq(Batch) /\ q \in Seq(Batch) /\ Len(pipeline) = n
        /\ Begins(pipeline, q)
    BY PipelineFacts DEF IInv, PipelineInv, Fills, Limit
  <2>2. pipeline # <<>> => IsStarted(stream)
    BY DEF IInv, StreamInv
  <2>3. Len(q) \in Nat /\ n \in Nat /\ n <= Len(q)
    BY <2>1, MaxPendingWritesAssumption
  <2> HIDE DEF n, q
  <2> DEFINE c == SubSeq(q, 1, n)
  <2>4. c \in Seq(Batch) /\ Len(c) = n /\ \A i \in 1..Len(c) : c[i] = q[1 + i - 1]
    <3>1. 1 \in Nat \ {0} /\ 1 <= n + 1 /\ n - 1 + 1 = n
      BY <2>3
    <3> QED
      BY <2>1, <2>3, <3>1, Cut
  <2> HIDE DEF c
  <2>5. \A i \in 1..Len(pipeline) : pipeline[i] = c[i]
    <3> TAKE i \in 1..Len(pipeline)
    <3>1. i \in 1..Len(c) /\ 1 + i - 1 = i
      BY <2>1, <2>3, <2>4
    <3> QED
      BY <2>1, <2>4, <3>1 DEF Begins
  <2>6. pipeline = c
    BY <2>1, <2>4, <2>5, Same
  <2> QED
    BY <2>2, <2>6 DEF PipelineIsFull, c, n, q
<1> QED
  BY <1>1, InvHolds, PTL

\* "This is a response to a write containing mutations and should be
\* correlated to the first write in our write pipeline": it always is
\* (RemoteStore::OnWriteStreamMutationResult).
THEOREM AnswersFollowPipelineHolds == Spec => []AnswersFollowPipeline
<1>1. IInv => AnswersFollowPipeline
  <2> SUFFICES ASSUME IInv PROVE AnswersFollowPipeline
    OBVIOUS
  <2> DEFINE a == stream.answers
  <2> DEFINE w == stream.wire
  <2>1. Sound(stream, pipeline, currentUser)
    BY DEF IInv, StreamInv
  <2>2. /\ a \in Seq(Batch) /\ w \in Seq(Batch) /\ Len(a) \in Nat /\ Len(w) \in Nat
        /\ Begins(a, pipeline) /\ pipeline \in Seq(Batch) /\ Len(pipeline) \in Nat
    BY <2>1, StreamTypes, PipelineFacts DEF Sound, Matches
  <2>3. ASSUME stream.ended = "no", HandshakeComplete(stream) PROVE a \o w = pipeline
    <3>1. IsOpen(stream)
      BY <2>1, <2>3 DEF Sound, HandshakeComplete, NoCall
    <3>2. Len(a) + Len(w) = Len(pipeline) /\ \A i \in 1..Len(w) : w[i] = pipeline[Len(a) + i]
      BY <2>1, <2>3, <3>1 DEF Sound, Matches, Talks
    <3> DEFINE c == a \o w
    <3> HIDE DEF a, w
    <3>3. /\ c \in Seq(Batch) /\ Len(c) = Len(a) + Len(w)
          /\ \A i \in 1..Len(a) : c[i] = a[i]
          /\ \A i \in 1..Len(w) : c[Len(a) + i] = w[i]
      BY <2>2, Concatenated
    <3> HIDE DEF c
    <3>4. \A i \in 1..Len(c) : c[i] = pipeline[i]
      <4> TAKE i \in 1..Len(c)
      <4>1. CASE i \in 1..Len(a)
        BY <2>2, <3>3, <4>1 DEF Begins
      <4>2. CASE i > Len(a)
        <5>1. i - Len(a) \in 1..Len(w) /\ Len(a) + (i - Len(a)) = i
          BY <2>2, <3>3, <4>2
        <5> QED
          BY <3>2, <3>3, <5>1
      <4> QED
        BY <2>2, <3>3, <4>1, <4>2
    <3>5. c = pipeline
      BY <2>2, <3>2, <3>3, <3>4, Same
    <3> QED
      BY <3>5 DEF c, a, w
  <2>4. Len(a) <= Len(pipeline) /\ a = SubSeq(pipeline, 1, Len(a))
    <3> HIDE DEF a
    <3> DEFINE c == SubSeq(pipeline, 1, Len(a))
    <3>1. Len(a) <= Len(pipeline) /\ 1 <= Len(a) + 1 /\ Len(a) - 1 + 1 = Len(a)
          /\ 1 \in Nat \ {0}
      BY <2>2 DEF Begins
    <3>2. c \in Seq(Batch) /\ Len(c) = Len(a) /\ \A i \in 1..Len(c) : c[i] = pipeline[1 + i - 1]
      BY <2>2, <3>1, Cut
    <3> HIDE DEF c
    <3>3. \A i \in 1..Len(a) : a[i] = c[i]
      <4> TAKE i \in 1..Len(a)
      <4>1. i \in 1..Len(c) /\ 1 + i - 1 = i
        BY <2>2, <3>2
      <4> QED
        BY <2>2, <3>2, <4>1 DEF Begins
    <3>4. a = c
      BY <2>2, <3>2, <3>3, Same
    <3> QED
      BY <3>1, <3>4 DEF c
  <2> QED
    BY <2>3, <2>4 DEF AnswersFollowPipeline
<1> QED
  BY <1>1, InvHolds, PTL

\* The assertions of the write path never fail (remote_store.cc 453-458,
\* write_stream.cc 77-81).
THEOREM AssertionsNeverFail == Spec => []AssertionsHold
<1>1. IInv => AssertionsHold
  <2> SUFFICES ASSUME IInv PROVE AssertionsHold
    OBVIOUS
  <2>1. Sound(stream, pipeline, currentUser)
    BY DEF IInv, StreamInv
  <2>2. ~Talks(stream) => stream.wire \o stream.answers = <<>>
    <3>1. <<>> \o <<>> = <<>>
      OBVIOUS
    <3> QED
      BY <2>1, <3>1 DEF Sound
  <2>3. stream.idle => Talks(stream) /\ pipeline = <<>>
    BY <2>1 DEF Sound
  <2>4. ~IsOpen(stream) => stream = NoCall(stream.state, currentUser)
    BY <2>1 DEF Sound
  <2> QED
    BY <2>2, <2>3, <2>4 DEF AssertionsHold, Talks
<1> QED
  BY <1>1, InvHolds, PTL

\* Who is told that the write is saved can rely on it: the server has it,
\* whatever was lost, resent or restarted in between.
THEOREM SavedIsCommittedHolds == Spec => []SavedIsCommitted
<1>1. IInv => SavedIsCommitted
  BY DEF IInv, VerdictInv
<1> QED
  BY <1>1, InvHolds, PTL

\* Who is told that the write has failed can rely on it, as long as only read
\* operations notice the end of a call: with WriteNoticesEnd it is not so
\* (the run firestore_verdict).
THEOREM FailedIsRefusedHolds ==
  ASSUME ~WriteNoticesEnd
  PROVE  Spec => []FailedIsRefused
<1>1. IInv => FailedIsRefused
  BY DEF IInv, VerdictInv
<1> QED
  BY <1>1, InvHolds, PTL

-----------------------------------------------------------------------------
(* The client implements DurableWrites: streams, handshakes, retries and   *)
(* ids are gone, the documents that wait are the documents of the queues.  *)

(* Documents and queues.                                                   *)

\* The documents of a queue, in its order.
LEMMA DocumentsOf ==
  ASSUME NEW q \in Seq(Batch)
  PROVE  /\ Documents(q) \in Seq(Doc) /\ Len(Documents(q)) = Len(q) /\ Len(q) \in Nat
         /\ \A i \in 1..Len(q) : Documents(q)[i] = q[i].doc
<1>1. \A i \in 1..Len(q) : q[i].doc \in Doc
  BY BatchFields
<1>2. Len(q) \in Nat
  OBVIOUS
<1> DEFINE d == Documents(q)
<1>3. d = [i \in 1..Len(q) |-> q[i].doc]
  BY DEF Documents
<1> HIDE DEF d
<1>4. d \in [1..Len(q) -> Doc]
  BY <1>1, <1>3
<1>5. d \in Seq(Doc)
  BY <1>2, <1>4, IsASeq
<1>6. Len(d) = Len(q)
  BY <1>2, <1>4, <1>5, LenProperties
<1> QED
  BY <1>2, <1>3, <1>5, <1>6 DEF d

\* A batch that joins a queue brings its document.
LEMMA DocumentsAdded ==
  ASSUME NEW q \in Seq(Batch), NEW b \in Batch
  PROVE  Documents(Append(q, b)) = Append(Documents(q), b.doc)
<1> DEFINE r == Append(q, b)
<1> DEFINE c == Documents(q)
<1> DEFINE d == Documents(r)
<1> DEFINE e == Append(c, b.doc)
<1>1. b.doc \in Doc
  BY DEF Batch
<1>2. /\ r \in Seq(Batch) /\ Len(q) \in Nat /\ Len(r) = Len(q) + 1
      /\ \A i \in 1..Len(q) : r[i] = q[i]
      /\ r[Len(q) + 1] = b
  BY Added
<1> HIDE DEF r
<1>3. /\ c \in Seq(Doc) /\ Len(c) = Len(q) /\ \A i \in 1..Len(q) : c[i] = q[i].doc
      /\ d \in Seq(Doc) /\ Len(d) = Len(r) /\ \A i \in 1..Len(r) : d[i] = r[i].doc
  BY <1>2, DocumentsOf
<1> HIDE DEF c, d
<1>4. /\ e \in Seq(Doc) /\ Len(e) = Len(c) + 1
      /\ \A i \in 1..Len(c) : e[i] = c[i]
      /\ e[Len(c) + 1] = b.doc
  BY <1>1, <1>3, Added
<1> HIDE DEF e
<1>5. \A i \in 1..Len(d) : d[i] = e[i]
  <2> TAKE i \in 1..Len(d)
  <2>1. CASE i \in 1..Len(q)
    <3>1. i \in 1..Len(r) /\ d[i] = r[i].doc /\ r[i] = q[i]
      BY <1>2, <1>3, <2>1
    <3>2. e[i] = c[i] /\ c[i] = q[i].doc
      BY <1>3, <1>4, <2>1
    <3> QED
      BY <3>1, <3>2
  <2>2. CASE i = Len(q) + 1
    BY <1>2, <1>3, <1>4, <2>2
  <2> QED
    BY <1>2, <1>3, <2>1, <2>2
<1>6. d = e
  BY <1>2, <1>3, <1>4, <1>5, Same
<1> QED
  BY <1>6 DEF d, e, c, r

\* The batch that leaves the front takes its document with it.
LEMMA DocumentsRest ==
  ASSUME NEW q \in Seq(Batch), q # <<>>
  PROVE  /\ Documents(q) # <<>> /\ Head(Documents(q)) = q[1].doc
         /\ Documents(Tail(q)) = Tail(Documents(q))
<1> DEFINE r == Tail(q)
<1> DEFINE c == Documents(q)
<1> DEFINE d == Documents(r)
<1> DEFINE e == Tail(c)
<1>1. /\ Len(q) \in Nat \ {0} /\ r \in Seq(Batch) /\ Len(r) = Len(q) - 1
      /\ \A i \in 1..Len(r) : r[i] = q[i + 1]
  BY Rest
<1> HIDE DEF r
<1>2. /\ c \in Seq(Doc) /\ Len(c) = Len(q) /\ \A i \in 1..Len(q) : c[i] = q[i].doc
      /\ d \in Seq(Doc) /\ Len(d) = Len(r) /\ \A i \in 1..Len(r) : d[i] = r[i].doc
  BY <1>1, DocumentsOf
<1> HIDE DEF c, d
<1>3. c # <<>>
  <2>1. c = <<>> => Len(c) = 0
    OBVIOUS
  <2> QED
    BY <1>1, <1>2, <2>1
<1>4. /\ Head(c) = c[1] /\ e \in Seq(Doc) /\ Len(e) = Len(c) - 1
      /\ \A i \in 1..Len(e) : e[i] = c[i + 1]
  BY <1>2, <1>3, Rest
<1>5. Head(c) = q[1].doc
  <2>1. 1 \in 1..Len(q)
    BY <1>1
  <2> QED
    BY <1>2, <1>4, <2>1
<1> HIDE DEF e
<1>6. \A i \in 1..Len(d) : d[i] = e[i]
  <2> TAKE i \in 1..Len(d)
  <2>1. i \in 1..Len(r) /\ i + 1 \in 1..Len(q) /\ i \in 1..Len(e)
    BY <1>1, <1>2, <1>4
  <2>2. d[i] = r[i].doc /\ r[i] = q[i + 1] /\ c[i + 1] = q[i + 1].doc /\ e[i] = c[i + 1]
    BY <1>1, <1>2, <1>4, <2>1
  <2> QED
    BY <2>2
<1>7. d = e
  BY <1>1, <1>2, <1>4, <1>6, Same
<1> QED
  BY <1>3, <1>5, <1>7 DEF d, e, c, r

-----------------------------------------------------------------------------
(* Steps.                                                                  *)

AbstractStep == [Abstract!WritesNext]_(Abstract!writeVars)

\* The writes that wait, as the abstract specification sees them.
Waiting == [u \in User |-> Documents(queue[u])]

\* Nothing it sees changes, but perhaps the user served.
LEMMA UserServed ==
  ASSUME UNCHANGED <<queue, committed, heard>>, currentUser' \in User
  PROVE  AbstractStep
<1>1. Abstract!Serve(currentUser')
  BY DEF Abstract!Serve
<1> QED
  BY <1>1 DEF AbstractStep, Abstract!WritesNext

\* WriteDocument is a Write of the abstract specification: nobody has been told
\* anything of a document that is new.
LEMMA WriteStep ==
  ASSUME IInv, ~WriteNoticesEnd, NEW d \in Doc, WriteDocument(d)
  PROVE  AbstractStep
<1> DEFINE b == [id |-> nextBatchId, doc |-> d]
<1>1. /\ d \in Unwritten /\ queue' = [queue EXCEPT ![currentUser] = Append(@, b)]
      /\ currentUser' = currentUser /\ heard' = heard /\ committed' = committed
  BY DEF WriteDocument, serverVars
<1>2. /\ currentUser \in User /\ b \in Batch /\ b.doc = d
      /\ \A u \in User : queue[u] \in Seq(Batch)
  BY DEF IInv, TokenInv, QueueInv, Batch
<1> HIDE DEF b
<1>3. Waiting' = [Waiting EXCEPT ![currentUser] = Append(@, d)]
  <2>1. queue \in [User -> Seq(Batch)]
    BY DEF IInv, QueueInv
  <2>2. \A u \in User : queue'[u] = IF u = currentUser THEN Append(queue[u], b) ELSE queue[u]
    BY <1>1, <1>2, <2>1
  <2>3. Documents(queue'[currentUser]) = Append(Documents(queue[currentUser]), d)
    BY <1>2, <2>2, DocumentsAdded
  <2>4. \A u \in User : Documents(queue'[u]) =
          IF u = currentUser THEN Append(Documents(queue[u]), d) ELSE Documents(queue[u])
    BY <2>2, <2>3
  <2> QED
    BY <1>2, <2>4 DEF Waiting
<1>4. heard[d] = "none"
  BY <1>1 DEF IInv, VerdictInv, SavedIsCommitted, FailedIsRefused, Unwritten
<1>5. d \notin Abstract!Known
  <2>1. ASSUME NEW u \in User, NEW i \in 1..Len(Documents(queue[u]))
        PROVE  Documents(queue[u])[i] # d
    <3>1. i \in 1..Len(queue[u]) /\ Documents(queue[u])[i] = queue[u][i].doc
      BY <1>2, DocumentsOf
    <3>2. queue[u][i] \in Queued
      BY <3>1 DEF Queued, Batches
    <3> QED
      BY <1>1, <3>1, <3>2 DEF Unwritten
  <2> QED
    BY <1>1, <2>1 DEF Abstract!Known, Abstract!Pending, Unwritten
<1>6. Abstract!Write(d)
  BY <1>1, <1>3, <1>4, <1>5 DEF Abstract!Write, Waiting
<1> QED
  BY <1>6 DEF AbstractStep, Abstract!WritesNext

\* The front of the queue leaves with the verdict on it.
LEMMA LeaveStep ==
  ASSUME IInv, NEW verdict \in {"saved", "failed"}, pipeline # <<>>,
         queue' = [queue EXCEPT ![currentUser] = Removed(@, Head(pipeline))],
         NotifyUser(Head(pipeline), verdict), UNCHANGED <<currentUser, committed>>,
         verdict = "saved" <=> Head(pipeline).doc \in committed
  PROVE  AbstractStep
<1> DEFINE q == queue[currentUser]
<1> DEFINE b == Head(pipeline)
<1>1. currentUser \in User /\ queue \in [User -> Seq(Batch)]
  BY DEF IInv, TokenInv, QueueInv
<1>2. q \in Seq(Batch) /\ q # <<>> /\ Ordered(q) /\ b = q[1]
  BY PipelineFacts, FrontFacts
<1>3. Documents(q) # <<>> /\ Head(Documents(q)) = b.doc /\ Documents(Tail(q)) = Tail(Documents(q))
  BY <1>2, DocumentsRest
<1>4. \A u \in User : queue'[u] = IF u = currentUser THEN Tail(q) ELSE queue[u]
  BY <1>1, <1>2, FrontRemoved
<1>5. Waiting' = [Waiting EXCEPT ![currentUser] = Tail(@)]
  <2>1. \A u \in User : Documents(queue'[u]) =
          IF u = currentUser THEN Tail(Documents(queue[u])) ELSE Documents(queue[u])
    <3> TAKE u \in User
    <3>1. CASE u = currentUser
      BY <1>3, <1>4, <3>1
    <3>2. CASE u # currentUser
      BY <1>4, <3>2
    <3> QED
      BY <3>1, <3>2
  <2> QED
    BY <1>1, <2>1 DEF Waiting
<1>6. Waiting[currentUser] = Documents(q)
  BY <1>1 DEF Waiting
<1>7. heard' \in {heard, [heard EXCEPT ![b.doc] = verdict]}
  BY DEF NotifyUser
<1> HIDE DEF b, q
<1>8. Abstract!Leave(verdict)
  BY <1>3, <1>5, <1>6, <1>7 DEF Abstract!Leave, Waiting
<1>9. Abstract!Acknowledge \/ Abstract!Refuse
  BY <1>3, <1>6, <1>8 DEF Abstract!Acknowledge, Abstract!Refuse, Waiting, b
<1> QED
  BY <1>9 DEF AbstractStep, Abstract!WritesNext

\* A stream that ends refuses the front of the queue, or nothing.
LEMMA VerdictStep ==
  ASSUME IInv, NEW status, StreamFinishes(status),
         /\ pipeline # <<>>
         /\ HandshakeComplete(stream)
         /\ status = "permanent"
         => pipeline[1].doc \in refused
  PROVE  AbstractStep
<1>1. currentUser' = currentUser /\ committed' = committed /\ currentUser \in User
  BY DEF StreamFinishes, serverVars, IInv, TokenInv
<1>2. CASE /\ pipeline # <<>> /\ HandshakeComplete(stream) /\ status = "permanent"
           /\ RejectFront
  <2>1. /\ queue' = [queue EXCEPT ![currentUser] = Removed(@, Head(pipeline))]
        /\ NotifyUser(Head(pipeline), "failed")
    BY <1>2 DEF RejectFront
  <2>2. Head(pipeline).doc \notin committed
    BY <1>2, FrontFacts DEF IInv, VerdictInv
  <2> QED
    BY <1>1, <1>2, <2>1, <2>2, LeaveStep
<1>3. ASSUME NEW forget \in BOOLEAN, KeepPipeline(forget) PROVE AbstractStep
  BY <1>1, <1>3, UserServed DEF KeepPipeline
<1> QED
  BY <1>2, <1>3 DEF StreamFinishes, IsPermanentWriteError

\* However the end of a call is noticed, its error is about the front.
LEMMA EndStep ==
  ASSUME IInv, ~WriteNoticesEnd, CredentialsFail \/ ReadNoticesEnd \/ WriteFindsEnd
  PROVE  AbstractStep
<1>1. Sound(stream, pipeline, currentUser) /\ Truthful(stream, pipeline, committed, refused)
  BY DEF IInv, StreamInv
<1>2. CASE CredentialsFail
  BY <1>2, VerdictStep DEF CredentialsFail
<1>3. CASE ReadNoticesEnd
  <2>1. IsOpen(stream) /\ stream.answers = <<>> /\ StreamFinishes(stream.ended)
    BY <1>3 DEF ReadNoticesEnd
  <2>2. HandshakeComplete(stream) /\ stream.ended = "permanent" => pipeline[1].doc \in refused
    <3>1. Len(stream.answers) = 0
      BY <2>1
    <3> QED
      BY <1>1, <2>1, <3>1 DEF Truthful, Talks
  <2> QED
    BY <2>1, <2>2, VerdictStep
<1>4. ~WriteFindsEnd
  BY <1>1 DEF WriteFindsEnd, Sound
<1> QED
  BY <1>2, <1>3, <1>4

\* An answer acknowledges the front of the queue.
LEMMA AcknowledgeStep ==
  ASSUME IInv, MutationResult
  PROVE  AbstractStep
<1>1. /\ stream.answers # <<>>
      /\ queue' = [queue EXCEPT ![currentUser] = Removed(@, Head(pipeline))]
      /\ NotifyUser(Head(pipeline), "saved")
      /\ UNCHANGED <<currentUser, committed>>
  BY DEF MutationResult, AnswerRead, serverVars
<1>2. pipeline # <<>> /\ Head(pipeline).doc \in committed
  BY <1>1, AnswerFacts, FrontFacts
<1> QED
  BY <1>1, <1>2, LeaveStep

\* The server commits the first write of the queue it lacks, or one that it
\* has already.
LEMMA CommitStep ==
  ASSUME IInv, ServerCommits
  PROVE  AbstractStep
<1> DEFINE a == stream.answers
<1> DEFINE b == Head(stream.wire)
<1> DEFINE n == Len(a) + 1
<1> DEFINE q == queue[currentUser]
<1>1. /\ stream.wire # <<>> /\ IsOpen(stream) /\ stream.ended = "no"
      /\ committed' = committed \cup {b.doc}
      /\ UNCHANGED <<currentUser, queue, heard>>
  BY DEF ServerCommits, OnCall, engineVars, localVars
<1>2. /\ Len(a) \in Nat /\ Begins(a, pipeline) /\ b = pipeline[Len(a) + 1]
      /\ Len(stream.wire) \in Nat \ {0} /\ Len(a) + Len(stream.wire) = Len(pipeline)
  BY <1>1, RequestFacts
<1>3. /\ pipeline \in Seq(Batch) /\ Len(pipeline) \in Nat /\ q \in Seq(Batch)
      /\ Begins(pipeline, q) /\ currentUser \in User
  BY PipelineFacts DEF IInv, TokenInv
<1>4. \A i \in 1..Len(a) : a[i].doc \in committed
  BY DEF IInv, StreamInv, Truthful
<1> HIDE DEF a, b, q
<1>5. n \in 1..Len(pipeline) /\ n \in 1..Len(q)
  <2> DEFINE k == Len(a)
  <2> DEFINE w == Len(stream.wire)
  <2> DEFINE p == Len(pipeline)
  <2>1. k \in Nat /\ w \in Nat \ {0} /\ p \in Nat /\ k + w = p /\ p <= Len(q) /\ Len(q) \in Nat
    BY <1>2, <1>3 DEF Begins
  <2> HIDE DEF k, w, p
  <2>2. k + 1 \in 1..p /\ k + 1 \in 1..Len(q)
    BY <2>1
  <2> QED
    BY <2>2 DEF k, p
<1>6. /\ Len(Documents(q)) = Len(q)
      /\ \A i \in 1..Len(q) : Documents(q)[i] = q[i].doc
  BY <1>3, DocumentsOf
<1>7. Documents(q)[n] = b.doc
  BY <1>2, <1>3, <1>5, <1>6 DEF Begins
<1>8. \A j \in 1..(n - 1) : Documents(q)[j] \in committed
  <2> TAKE j \in 1..(n - 1)
  <2>1. j \in 1..Len(a) /\ j \in 1..Len(pipeline) /\ j \in 1..Len(q)
    BY <1>2, <1>3, <1>5
  <2>2. a[j] = pipeline[j] /\ pipeline[j] = q[j]
    BY <1>2, <1>3, <2>1 DEF Begins
  <2> QED
    BY <1>4, <1>6, <2>1, <2>2
<1>9. Waiting[currentUser] = Documents(q) /\ Waiting' = Waiting
  BY <1>1, <1>3 DEF Waiting, q
<1> HIDE DEF n
<1>10. CASE b.doc \in committed
  BY <1>1, <1>3, <1>10, UserServed
<1>11. CASE b.doc \notin committed
  <2>1. Abstract!Commit(currentUser)
    BY <1>1, <1>5, <1>6, <1>7, <1>8, <1>9, <1>11 DEF Abstract!Commit, Waiting
  <2> QED
    BY <1>3, <2>1 DEF AbstractStep, Abstract!WritesNext
<1> QED
  BY <1>10, <1>11

\* The write path of the client implements the promise the upload chains rely
\* on: a write stays in its queue until the server has decided on it, leaves
\* from the front, with the right verdict, in the order of the app
\* (as long as only read operations notice the end of a call).
THEOREM FirestoreImplementsDurableWrites ==
  ASSUME ~WriteNoticesEnd
  PROVE  Spec => ImplementsDurableWrites
<1>1. Init => Abstract!WritesInit
  <2> SUFFICES ASSUME Init PROVE Abstract!WritesInit
    OBVIOUS
  <2>1. Documents(<<>>) = <<>>
    BY DEF Documents
  <2> QED
    BY <2>1 DEF Init, Abstract!WritesInit
<1>2. IInv /\ [Next]_vars => AbstractStep
  <2> SUFFICES ASSUME IInv, [Next]_vars PROVE AbstractStep
    OBVIOUS
  <2>1. currentUser \in User
    BY DEF IInv, TokenInv
  <2>2. ASSUME NEW d \in Doc, WriteDocument(d) PROVE AbstractStep
    BY <2>2, WriteStep
  <2>3. ASSUME NEW u \in User, HandleCredentialChange(u) \/ Relaunched(u) PROVE AbstractStep
    BY <2>3, UserServed DEF HandleCredentialChange, Relaunched, serverVars
  <2>4. CASE MutationResult
    BY <2>4, AcknowledgeStep
  <2>5. CASE CredentialsFail \/ ReadNoticesEnd \/ WriteFindsEnd
    BY <2>5, EndStep
  <2>6. CASE ServerCommits
    BY <2>6, CommitStep
  <2>7. CASE OpensWithCredentials \/ HandshakeResponse \/ BackoffElapsed \/ IdleTimeout
             \/ ConnectivityChanged
    BY <2>1, <2>7, UserServed DEF OpensWithCredentials, HandshakeResponse, BackoffElapsed,
         IdleTimeout, ConnectivityChanged, engineVars, localVars, serverVars
  <2>8. CASE ServerGreets \/ ServerRefuses \/ ServerRefusesHandshake
    BY <2>1, <2>8, UserServed DEF ServerGreets, ServerRefuses, ServerRefusesHandshake,
         OnCall, engineVars, localVars, serverVars
  <2>9. ASSUME NEW status, CallBreaks(status) PROVE AbstractStep
    BY <2>1, <2>9, UserServed DEF CallBreaks, OnCall, engineVars, localVars, serverVars
  <2>10. CASE UNCHANGED vars
    BY <2>1, <2>10, UserServed DEF vars, engineVars, localVars, serverVars
  <2> QED
    BY <2>2, <2>3, <2>4, <2>5, <2>6, <2>7, <2>8, <2>9, <2>10 DEF Next
<1> QED
  BY <1>1, <1>2, InvHolds, PTL DEF Spec, ImplementsDurableWrites, Abstract!WritesSpec, AbstractStep

-----------------------------------------------------------------------------
(* The credentials of the calls: a queue and the changes of user in it.    *)

\* Joining a queue says nothing new of those before.
LEMMA QueueGrows ==
  ASSUME NEW S, NEW q \in Seq(S), NEW x \in S
  PROVE  /\ Append(q, x) \in Seq(S) /\ Len(Append(q, x)) = Len(q) + 1
         /\ \A i \in 1..Len(q) : Append(q, x)[i] = q[i]
         /\ Append(q, x)[Len(q) + 1] = x
BY AppendProperties

\* Serving the head of a queue moves the others up.
LEMMA QueueShrinks ==
  ASSUME NEW S, NEW q \in Seq(S), q # <<>>
  PROVE  /\ Head(q) = q[1] /\ Head(q) \in S /\ Len(q) \in Nat \ {0}
         /\ Tail(q) \in Seq(S) /\ Len(Tail(q)) = Len(q) - 1
         /\ \A i \in 1..Len(Tail(q)) : Tail(q)[i] = q[i + 1] /\ i + 1 \in 1..Len(q)
<1>1. Len(q) # 0
  BY EmptySeq
<1> QED
  BY <1>1, HeadTailProperties, LenProperties

\* What a queue does to a user does not depend on who joins it later.
LEMMA UserAfterGrown ==
  ASSUME NEW S, NEW q \in Seq(S), NEW x \in S, NEW n \in Nat, n <= Len(q), NEW u, NEW v
  PROVE  /\ UserAfter(Append(q, x), n, u, v) <=> UserAfter(q, n, u, v)
         /\ NoChange(Append(q, x), n) <=> NoChange(q, n)
<1>1. \A j \in 1..n : Append(q, x)[j] = q[j]
  BY QueueGrows
<1> QED
  BY <1>1 DEF UserAfter, NoChange

\* One that changes no user adds nothing; one that does decides.
LEMMA UserAfterJoined ==
  ASSUME NEW S, NEW q \in Seq(S), NEW x \in S, NEW u, NEW v
  PROVE  /\ x.kind # "change" =>
              /\ UserAfter(Append(q, x), Len(q) + 1, u, v) <=> UserAfter(q, Len(q), u, v)
              /\ NoChange(Append(q, x), Len(q) + 1) <=> NoChange(q, Len(q))
         /\ x.kind = "change" =>
              /\ UserAfter(Append(q, x), Len(q) + 1, u, x.user)
              /\ ~NoChange(Append(q, x), Len(q) + 1)
<1> DEFINE r == Append(q, x)
<1> DEFINE n == Len(q)
<1>1. n \in Nat /\ r[n + 1] = x /\ \A j \in 1..n : r[j] = q[j]
  BY QueueGrows
<1>2. 1..(n + 1) = (1..n) \cup {n + 1}
  BY <1>1
<1> HIDE DEF r, n
<1>3. ASSUME x.kind # "change"
      PROVE  /\ UserAfter(r, n + 1, u, v) <=> UserAfter(q, n, u, v)
             /\ NoChange(r, n + 1) <=> NoChange(q, n)
  BY <1>1, <1>2, <1>3 DEF UserAfter, NoChange
<1>4. ASSUME x.kind = "change"
      PROVE  UserAfter(r, n + 1, u, x.user) /\ ~NoChange(r, n + 1)
  <2>1. ASSUME NEW j \in 1..(n + 1), r[j].kind = "change",
               \A k \in 1..(n + 1) : k > j => r[k].kind # "change"
        PROVE  x.user = r[j].user
    BY <1>1, <1>2, <1>4, <2>1
  <2>2. ~NoChange(r, n + 1)
    BY <1>1, <1>4 DEF NoChange
  <2> QED
    BY <2>1, <2>2 DEF UserAfter, NoChange
<1> QED
  BY <1>3, <1>4 DEF r, n

\* Serving the head of a queue: a change of user decides for those who follow
\* it at once, any other member for nobody.
LEMMA UserAfterServed ==
  ASSUME NEW S, NEW q \in Seq(S), q # <<>>, NEW n \in 1..Len(q), NEW u, NEW v
  PROVE  /\ Head(q).kind = "change" /\ UserAfter(q, n, u, v) =>
              UserAfter(Tail(q), n - 1, Head(q).user, v)
         /\ Head(q).kind # "change" /\ UserAfter(q, n, u, v) => UserAfter(Tail(q), n - 1, u, v)
         /\ Head(q).kind # "change" /\ NoChange(Tail(q), n - 1) => NoChange(q, n)
<1> DEFINE r == Tail(q)
<1>1. n \in Nat /\ q[1] = Head(q) /\ \A j \in 1..(n - 1) : r[j] = q[j + 1] /\ j + 1 \in 1..n
  BY QueueShrinks
<1>2. \A j \in 1..n : j # 1 => j - 1 \in 1..(n - 1) /\ q[j] = r[j - 1]
  <2> TAKE j \in 1..n
  <2>1. ASSUME j # 1 PROVE j - 1 \in 1..(n - 1) /\ (j - 1) + 1 = j
    BY <1>1, <2>1
  <2> QED
    BY <2>1, <1>1
<1> HIDE DEF r
<1>3. ASSUME UserAfter(q, n, u, v), NEW j \in 1..(n - 1), r[j].kind = "change",
             \A k \in 1..(n - 1) : k > j => r[k].kind # "change"
      PROVE  v = r[j].user
  <2>1. r[j] = q[j + 1] /\ j + 1 \in 1..n
    BY <1>1
  <2>2. ASSUME NEW k \in 1..n, k > j + 1 PROVE q[k].kind # "change"
    <3>1. k # 1 /\ k - 1 > j
      BY <1>1, <2>2
    <3> QED
      BY <3>1, <1>2, <1>3
  <2> QED
    BY <2>1, <2>2, <1>3 DEF UserAfter
<1>4. ASSUME NoChange(r, n - 1) PROVE \A j \in 1..n : j # 1 => q[j].kind # "change"
  BY <1>2, <1>4 DEF NoChange
<1>5. ASSUME Head(q).kind # "change", NoChange(r, n - 1) PROVE NoChange(q, n)
  BY <1>1, <1>4, <1>5 DEF NoChange
<1>6. ASSUME UserAfter(q, n, u, v), NoChange(r, n - 1)
      PROVE  v = IF Head(q).kind = "change" THEN Head(q).user ELSE u
  <2>1. CASE Head(q).kind = "change"
    <3>1. 1 \in 1..n /\ \A k \in 1..n : k > 1 => q[k].kind # "change"
      BY <1>1, <1>4, <1>6
    <3> QED
      BY <3>1, <2>1, <1>1, <1>6 DEF UserAfter
  <2>2. CASE Head(q).kind # "change"
    BY <2>2, <1>5, <1>6 DEF UserAfter, NoChange
  <2> QED
    BY <2>1, <2>2
<1>7. ASSUME UserAfter(q, n, u, v)
      PROVE  UserAfter(r, n - 1, IF Head(q).kind = "change" THEN Head(q).user ELSE u, v)
  BY <1>3, <1>6, <1>7 DEF UserAfter, NoChange
<1> QED
  BY <1>5, <1>7 DEF r
-----------------------------------------------------------------------------
(* What Auth knows and the provider is about to.                           *)

\* AuthInv of any user of Auth, main queue, requests, provider's user, counter.
AuthHolds(au, m, asks, fetches, pu, c) ==
  /\ UserAfter(m, Len(m), pu, au)
  /\ \A r \in asks : r.counter <= c
  /\ \A f \in fetches :
       /\ f.request.counter <= c
       /\ f.request.counter = c /\ NoChange(m, Len(m)) => f.user = au
  /\ \A i \in 1..Len(m) : m[i].kind = "answer" =>
       /\ m[i].request.counter <= c
       /\ m[i].request.counter = c /\ NoChange(m, i) => m[i].user = pu

LEMMA AuthInvHolds ==
  /\ AuthInv <=> AuthHolds(authUser, mainQueue, asked, fetching, providerUser, tokenCounter)
  /\ AuthInv' <=> AuthHolds(authUser', mainQueue', asked', fetching', providerUser', tokenCounter')
BY DEF AuthInv, AuthHolds, UpToDate

\* What a block of the main queue is.
LEMMA Blocks ==
  /\ \A u \in AnyUser : /\ Change(u) \in MainBlock /\ Change(u) \in WorkerTask
                        /\ Change(u).kind = "change" /\ Change(u).user = u
  /\ \A r \in Request, u \in AnyUser, ok \in BOOLEAN :
       /\ Answer(r, u, ok) \in MainBlock
       /\ Answer(r, u, ok).kind = "answer" /\ Answer(r, u, ok).kind # "change"
       /\ Answer(r, u, ok).request = r /\ Answer(r, u, ok).user = u
       /\ Token(r, u, ok) \in WorkerTask
       /\ Token(r, u, ok).kind = "token" /\ Token(r, u, ok).kind # "change"
       /\ Token(r, u, ok).user = u /\ Token(r, u, ok).closes = r.closes
       /\ Token(r, u, ok).stream = r.stream
  /\ \A b \in MainBlock : /\ b.kind \in {"change", "answer"}
                          /\ b.user \in AnyUser
                          /\ b.kind = "answer" => b.request \in Request /\ b.ok \in BOOLEAN
  /\ \A b \in WorkerTask : /\ b.kind \in {"change", "token"}
                           /\ b.user \in AnyUser
                           /\ b.kind = "token" => /\ b.stream \in Stream /\ b.closes \in Nat
                                                  /\ b.ok \in BOOLEAN
<1>1. \A u \in AnyUser : /\ Change(u) \in MainBlock /\ Change(u) \in WorkerTask
                         /\ Change(u).kind = "change" /\ Change(u).user = u
  BY DEF Change, MainBlock, WorkerTask
<1>2. \A r \in Request, u \in AnyUser, ok \in BOOLEAN :
        /\ Answer(r, u, ok) \in MainBlock
        /\ Answer(r, u, ok).kind = "answer" /\ Answer(r, u, ok).kind # "change"
        /\ Answer(r, u, ok).request = r /\ Answer(r, u, ok).user = u
  BY DEF Answer, MainBlock
<1>3. \A r \in Request, u \in AnyUser, ok \in BOOLEAN :
       /\ Token(r, u, ok) \in WorkerTask
       /\ Token(r, u, ok).kind = "token" /\ Token(r, u, ok).kind # "change"
       /\ Token(r, u, ok).user = u /\ Token(r, u, ok).closes = r.closes
       /\ Token(r, u, ok).stream = r.stream
  BY DEF Token, WorkerTask, Request
<1>4. \A b \in MainBlock : /\ b.kind \in {"change", "answer"}
                           /\ b.user \in AnyUser
                           /\ b.kind = "answer" => b.request \in Request /\ b.ok \in BOOLEAN
  BY DEF MainBlock
<1>5. \A b \in WorkerTask : /\ b.kind \in {"change", "token"}
                            /\ b.user \in AnyUser
                            /\ b.kind = "token" => /\ b.stream \in Stream /\ b.closes \in Nat
                                                   /\ b.ok \in BOOLEAN
  BY DEF WorkerTask
<1> QED
  BY <1>1, <1>2, <1>3, <1>4, <1>5

\* An answer joins the main queue: it is about Auth's user if no change is
\* before it and none has been posted since it was asked for.
LEMMA AnswerJoins ==
  ASSUME NEW m \in Seq(MainBlock), NEW au, NEW pu, NEW c, NEW asks, NEW fetches, NEW fewer,
         AuthHolds(au, m, asks, fetches, pu, c), fewer \in SUBSET fetches,
         NEW x \in MainBlock, x.kind = "answer", x.request.counter <= c,
         x.request.counter = c /\ NoChange(m, Len(m)) => x.user = au
  PROVE  AuthHolds(au, Append(m, x), asks, fewer, pu, c)
<1> DEFINE q == Append(m, x)
<1>1. Len(m) \in Nat /\ Len(q) = Len(m) + 1 /\ q[Len(q)] = x
  BY QueueGrows
<1>2. UserAfter(q, Len(q), pu, au) /\ (NoChange(q, Len(q)) <=> NoChange(m, Len(m)))
  BY <1>1, UserAfterJoined DEF AuthHolds
<1>3. \A f \in fewer : /\ f.request.counter <= c
                       /\ f.request.counter = c /\ NoChange(q, Len(q)) => f.user = au
  BY <1>2 DEF AuthHolds
<1>4. ASSUME NEW i \in 1..Len(m), q[i].kind = "answer"
      PROVE  /\ q[i].request.counter <= c
             /\ q[i].request.counter = c /\ NoChange(q, i) => q[i].user = pu
  <2>1. q[i] = m[i] /\ i \in Nat /\ i <= Len(m)
    BY QueueGrows, <1>1
  <2>2. NoChange(q, i) <=> NoChange(m, i)
    BY <2>1, UserAfterGrown
  <2> QED
    BY <2>1, <2>2, <1>4 DEF AuthHolds
<1>5. /\ q[Len(q)].request.counter <= c
      /\ q[Len(q)].request.counter = c /\ NoChange(q, Len(q)) => q[Len(q)].user = pu
  <2>1. NoChange(m, Len(m)) => au = pu
    BY DEF AuthHolds, UserAfter, NoChange
  <2> QED
    BY <1>1, <1>2, <2>1
<1>6. \A i \in 1..Len(q) : i \in 1..Len(m) \/ i = Len(q)
  BY <1>1
<1> HIDE DEF q
<1>7. \A i \in 1..Len(q) : q[i].kind = "answer" =>
        /\ q[i].request.counter <= c
        /\ q[i].request.counter = c /\ NoChange(q, i) => q[i].user = pu
  BY <1>4, <1>5, <1>6
<1>8. \A r \in asks : r.counter <= c
  BY DEF AuthHolds
<1>9. AuthHolds(au, q, asks, fewer, pu, c)
  BY <1>2, <1>3, <1>7, <1>8 DEF AuthHolds
<1> QED
  BY <1>9 DEF q

\* A change of user joins the main queue: until it is posted no token asked
\* for before is up to date when its answer comes.
LEMMA ChangeJoins ==
  ASSUME NEW m \in Seq(MainBlock), NEW au, NEW pu, NEW c, NEW asks, NEW fetches,
         AuthHolds(au, m, asks, fetches, pu, c), NEW u \in AnyUser
  PROVE  AuthHolds(u, Append(m, Change(u)), asks, fetches, pu, c)
<1> DEFINE x == Change(u)
<1> DEFINE q == Append(m, x)
<1>1. x \in MainBlock /\ x.kind = "change" /\ x.user = u
  BY Blocks
<1> HIDE DEF x
<1>2. Len(m) \in Nat /\ Len(q) = Len(m) + 1 /\ q[Len(q)] = x
  BY <1>1, QueueGrows
<1>3. UserAfter(q, Len(q), pu, u) /\ ~NoChange(q, Len(q))
  BY <1>1, <1>2, UserAfterJoined
<1>4. ASSUME NEW i \in 1..Len(m), q[i].kind = "answer"
      PROVE  /\ q[i].request.counter <= c
             /\ q[i].request.counter = c /\ NoChange(q, i) => q[i].user = pu
  <2>1. q[i] = m[i] /\ i \in Nat /\ i <= Len(m)
    BY QueueGrows, <1>1, <1>2
  <2>2. NoChange(q, i) <=> NoChange(m, i)
    BY <2>1, <1>1, UserAfterGrown
  <2> QED
    BY <2>1, <2>2, <1>4 DEF AuthHolds
<1>5. \A i \in 1..Len(q) : i \in 1..Len(m) \/ (i = Len(q) /\ q[i].kind # "answer")
  BY <1>1, <1>2
<1>6. /\ \A r \in asks : r.counter <= c
      /\ \A f \in fetches : f.request.counter <= c
  BY DEF AuthHolds
<1> HIDE DEF q
<1>7. AuthHolds(u, q, asks, fetches, pu, c)
  BY <1>3, <1>4, <1>5, <1>6 DEF AuthHolds
<1> QED
  BY <1>7 DEF q, x

\* The head of the main queue is served: a change makes the counter of every
\* request out of date, an answer changes nothing for those behind it.
LEMMA BlockServed ==
  ASSUME NEW m \in Seq(MainBlock), m # <<>>, NEW au, NEW pu, NEW c \in Nat,
         NEW asks \in SUBSET Request, NEW fetches \in SUBSET [request : Request, user : Account],
         AuthHolds(au, m, asks, fetches, pu, c)
  PROVE  /\ Head(m).kind = "change" =>
              AuthHolds(au, Tail(m), asks, fetches, Head(m).user, c + 1)
         /\ Head(m).kind # "change" => AuthHolds(au, Tail(m), asks, fetches, pu, c)
<1> DEFINE q == Tail(m)
<1>1. Len(m) \in Nat \ {0} /\ Len(q) = Len(m) - 1 /\ q \in Seq(MainBlock)
      /\ \A i \in 1..Len(q) : q[i] = m[i + 1] /\ i + 1 \in 1..Len(m)
  BY QueueShrinks
<1>2. \A r \in asks : r.counter \in Nat /\ r.counter <= c
  BY DEF AuthHolds, Request
<1>3. \A f \in fetches : f.request.counter \in Nat /\ f.request.counter <= c
  BY DEF AuthHolds, Request
<1>4. ASSUME NEW i \in 1..Len(q), q[i].kind = "answer"
      PROVE  q[i].request.counter \in Nat /\ q[i].request.counter <= c
  <2>1. m[i + 1] \in MainBlock /\ q[i] = m[i + 1] /\ i + 1 \in 1..Len(m)
    BY <1>1
  <2>2. q[i].request \in Request
    BY <2>1, <1>4, Blocks
  <2> QED
    BY <2>1, <2>2, <1>4 DEF AuthHolds, Request
<1>5. Len(m) \in 1..Len(m) /\ UserAfter(m, Len(m), pu, au)
  BY <1>1 DEF AuthHolds
<1>6. CASE Head(m).kind = "change"
  <2>1. UserAfter(q, Len(q), Head(m).user, au)
    BY <1>1, <1>5, <1>6, UserAfterServed
  <2>2. \A f \in fetches : f.request.counter # c + 1
    BY <1>3
  <2>3. \A r \in asks : r.counter <= c + 1
    BY <1>2
  <2>4. \A f \in fetches : f.request.counter <= c + 1
    BY <1>3
  <2>5. \A i \in 1..Len(q) : q[i].kind = "answer" =>
          q[i].request.counter <= c + 1 /\ q[i].request.counter # c + 1
    BY <1>4
  <2> HIDE DEF q
  <2>6. AuthHolds(au, q, asks, fetches, Head(m).user, c + 1)
    BY <2>1, <2>2, <2>3, <2>4, <2>5 DEF AuthHolds
  <2> QED
    BY <2>6, <1>6 DEF q
<1>7. CASE Head(m).kind # "change"
  <2>1. UserAfter(q, Len(q), pu, au)
    BY <1>1, <1>5, <1>7, UserAfterServed
  <2>2. NoChange(q, Len(q)) => NoChange(m, Len(m))
    BY <1>1, <1>5, <1>7, UserAfterServed
  <2>3. ASSUME NEW i \in 1..Len(q), q[i].kind = "answer", q[i].request.counter = c,
               NoChange(q, i)
        PROVE  q[i].user = pu
    <3>1. q[i] = m[i + 1] /\ i + 1 \in 1..Len(m) /\ (i + 1) - 1 = i
      BY <1>1
    <3>2. NoChange(m, i + 1)
      BY <3>1, <1>7, <2>3, UserAfterServed
    <3> QED
      BY <3>1, <3>2, <2>3 DEF AuthHolds
  <2>4. \A f \in fetches : f.request.counter = c /\ NoChange(q, Len(q)) => f.user = au
    BY <2>2 DEF AuthHolds
  <2> HIDE DEF q
  <2>5. AuthHolds(au, q, asks, fetches, pu, c)
    BY <2>1, <2>3, <2>4, <1>2, <1>3, <1>4 DEF AuthHolds
  <2> QED
    BY <2>5, <1>7 DEF q
<1> QED
  BY <1>6, <1>7

-----------------------------------------------------------------------------
(* What the provider knows and SyncEngine is about to.                     *)

\* ServedInv of any worker queue, user of SyncEngine and of the provider.
ServedHolds(w, su, pu) ==
  /\ UserAfter(w, Len(w), su, pu)
  /\ \A i \in 1..Len(w) : w[i].kind = "token" => UserAfter(w, i, su, w[i].user)

LEMMA ServedInvHolds ==
  /\ ServedInv <=> ServedHolds(workerQueue, servedUser, providerUser)
  /\ ServedInv' <=> ServedHolds(workerQueue', servedUser', providerUser')
BY DEF ServedInv, ServedHolds

\* A task joins the worker queue: a change of the provider's user, or a token
\* of that user.
LEMMA TaskJoins ==
  ASSUME NEW w \in Seq(WorkerTask), NEW su, NEW pu, ServedHolds(w, su, pu),
         NEW x \in WorkerTask, x.kind = "token" => x.user = pu
  PROVE  ServedHolds(Append(w, x), su, x.user)
<1> DEFINE q == Append(w, x)
<1>1. Len(w) \in Nat /\ Len(q) = Len(w) + 1 /\ q[Len(q)] = x
  BY QueueGrows
<1>2. UserAfter(w, Len(w), su, pu)
  BY DEF ServedHolds
<1>3. UserAfter(q, Len(q), su, x.user)
  <2>1. CASE x.kind = "change"
    BY <2>1, <1>1, UserAfterJoined
  <2>2. CASE x.kind # "change"
    <3>1. x.user = pu
      BY <2>2, Blocks
    <3> QED
      BY <3>1, <2>2, <1>1, <1>2, UserAfterJoined
  <2> QED
    BY <2>1, <2>2
<1>4. ASSUME NEW i \in 1..Len(w), q[i].kind = "token"
      PROVE  UserAfter(q, i, su, q[i].user)
  <2>1. q[i] = w[i] /\ i \in Nat /\ i <= Len(w)
    BY QueueGrows, <1>1
  <2>2. UserAfter(w, i, su, w[i].user)
    BY <2>1, <1>4 DEF ServedHolds
  <2> QED
    BY <2>1, <2>2, UserAfterGrown
<1>5. \A i \in 1..Len(q) : i \in 1..Len(w) \/ i = Len(q)
  BY <1>1
<1> HIDE DEF q
<1>6. ServedHolds(q, su, x.user)
  BY <1>1, <1>3, <1>4, <1>5 DEF ServedHolds
<1> QED
  BY <1>6 DEF q

\* The head of the worker queue is served: a change takes its user to
\* SyncEngine, and a token is that of the user SyncEngine serves.
LEMMA TaskServed ==
  ASSUME NEW w \in Seq(WorkerTask), w # <<>>, NEW su, NEW pu, ServedHolds(w, su, pu)
  PROVE  /\ Head(w).kind = "change" => ServedHolds(Tail(w), Head(w).user, pu)
         /\ Head(w).kind = "token" => ServedHolds(Tail(w), su, pu) /\ Head(w).user = su
<1> DEFINE q == Tail(w)
<1> DEFINE now == IF Head(w).kind = "change" THEN Head(w).user ELSE su
<1>1. Len(w) \in Nat \ {0} /\ Len(q) = Len(w) - 1 /\ Head(w) = w[1]
      /\ \A i \in 1..Len(q) : q[i] = w[i + 1] /\ i + 1 \in 1..Len(w)
  BY QueueShrinks
<1>2. Len(w) \in 1..Len(w) /\ 1 \in 1..Len(w)
  BY <1>1
<1>3. UserAfter(q, Len(q), now, pu)
  BY <1>1, <1>2, UserAfterServed DEF ServedHolds
<1>4. ASSUME NEW i \in 1..Len(q), q[i].kind = "token"
      PROVE  UserAfter(q, i, now, q[i].user)
  <2>1. q[i] = w[i + 1] /\ i + 1 \in 1..Len(w) /\ (i + 1) - 1 = i
    BY <1>1
  <2>2. UserAfter(w, i + 1, su, w[i + 1].user)
    BY <2>1, <1>4 DEF ServedHolds
  <2> QED
    BY <2>1, <2>2, UserAfterServed
<1>5. ASSUME Head(w).kind = "token" PROVE Head(w).user = su
  <2>1. UserAfter(w, 1, su, w[1].user)
    BY <1>1, <1>2, <1>5 DEF ServedHolds
  <2>2. \A j \in 1..1 : w[j].kind # "change"
    BY <1>1, <1>5
  <2> QED
    BY <2>1, <2>2, <1>1 DEF UserAfter
<1>6. ServedHolds(q, now, pu)
  <2> HIDE DEF q, now
  <2> QED
    BY <1>3, <1>4 DEF ServedHolds
<1> QED
  BY <1>5, <1>6 DEF q, now

-----------------------------------------------------------------------------
(* Steps.                                                                  *)

LEMMA CredentialsInitInv == CredentialsInit => CredentialsInv
<1> SUFFICES ASSUME CredentialsInit PROVE CredentialsInv
  OBVIOUS
<1> USE DEF CredentialsInit
<1>1. Nobody \in AnyUser
  BY DEF AnyUser
<1>2. streams \in [Stream -> StreamState]
  BY <1>1 DEF StreamState
<1>3. providerUser \in AnyUser
  BY <1>1
<1>4. Change(authUser) \in MainBlock /\ Change(authUser).kind = "change"
      /\ Change(authUser).user = authUser
  BY Blocks
<1>5. /\ mainQueue \in Seq(MainBlock)
      /\ Len(mainQueue) \in {0, 1}
      /\ \A i \in 1..Len(mainQueue) : mainQueue[i] = Change(authUser)
      /\ Len(mainQueue) = 0 => mainQueue = <<>>
  <2>1. CASE mainQueue = <<>>
    BY <2>1
  <2>2. CASE mainQueue = <<Change(authUser)>>
    <3> DEFINE b == Change(authUser)
    <3>1. b \in MainBlock /\ mainQueue = <<b>>
      BY <1>4, <2>2
    <3> HIDE DEF b
    <3>2. <<b>> \in Seq(MainBlock) /\ Len(<<b>>) = 1 /\ <<b>>[1] = b
      BY <3>1
    <3>3. \A i \in 1..Len(mainQueue) : mainQueue[i] = b
      BY <3>1, <3>2
    <3> QED
      BY <3>1, <3>2, <3>3 DEF b
  <2> QED
    BY <2>1, <2>2
<1>6. CredentialsTypeOK
  BY <1>2, <1>3, <1>5 DEF CredentialsTypeOK
<1>7. UserAfter(mainQueue, Len(mainQueue), providerUser, authUser)
  BY <1>4, <1>5 DEF UserAfter
<1>8. AuthInv
  BY <1>4, <1>5, <1>7 DEF AuthInv
<1>9. ServedInv
  BY DEF ServedInv, UserAfter
<1>10. CallsCarryTheServedUser
  BY DEF CallsCarryTheServedUser
<1> QED
  BY <1>6, <1>8, <1>9, <1>10 DEF CredentialsInv

\* A stream that is stopped, or asks for its token, keeps the types.
LEMMA ClosedType ==
  ASSUME NEW st \in StreamState
  PROVE  Closed(st) \in StreamState /\ Closed(st).state = "Stopped"
BY DEF Closed, StreamState, AnyUser

LEMMA RequestType ==
  ASSUME NEW s \in Stream, NEW st \in StreamState, tokenCounter \in Nat
  PROVE  RequestOf(s, st) \in Request /\ RequestOf(s, st).counter = tokenCounter
BY DEF RequestOf, Request, StreamState

\* Auth's tasks.
LEMMA AuthStep ==
  ASSUME CredentialsInv, (\E u \in AnyUser : AuthUserChanges(u)) \/ AuthQueue
  PROVE  CredentialsInv'
<1>1. /\ authUser \in AnyUser /\ asked \in SUBSET Request
      /\ fetching \in SUBSET [request : Request, user : Account]
      /\ mainQueue \in Seq(MainBlock) /\ tokenCounter \in Nat
      /\ AuthHolds(authUser, mainQueue, asked, fetching, providerUser, tokenCounter)
  BY AuthInvHolds DEF CredentialsInv, CredentialsTypeOK
<1>2. Nobody \in AnyUser /\ Account \subseteq AnyUser
  BY DEF AnyUser
<1>3. \A b \in MainBlock : Append(mainQueue, b) \in Seq(MainBlock)
  BY <1>1
\* None of them is Firestore's.
<1>4. ASSUME UNCHANGED <<providerVars, workerQueue, workerVars>>,
             authUser' \in AnyUser, asked' \in SUBSET Request,
             fetching' \in SUBSET [request : Request, user : Account],
             mainQueue' \in Seq(MainBlock),
             AuthHolds(authUser', mainQueue', asked', fetching', providerUser, tokenCounter)
      PROVE  CredentialsInv'
  <2>1. UNCHANGED <<providerUser, tokenCounter, workerQueue, servedUser, streams>>
    BY <1>4 DEF providerVars, workerVars
  <2>2. CredentialsTypeOK'
    BY <1>4, <2>1 DEF CredentialsInv, CredentialsTypeOK
  <2>3. AuthInv'
    BY <1>4, <2>1, AuthInvHolds
  <2>4. ServedInv' /\ CallsCarryTheServedUser'
    BY <2>1 DEF CredentialsInv, ServedInv, CallsCarryTheServedUser
  <2> QED
    BY <2>2, <2>3, <2>4 DEF CredentialsInv
\* An answer for the fetched token f.
<1>5. ASSUME NEW f \in fetching, NEW ok \in BOOLEAN
      PROVE  /\ Answer(f.request, f.user, ok) \in MainBlock
             /\ \A au, m : m \in Seq(MainBlock) /\
                  AuthHolds(au, m, asked, fetching, providerUser, tokenCounter) =>
                  AuthHolds(au, Append(m, Answer(f.request, f.user, ok)), asked,
                            fetching \ {f}, providerUser, tokenCounter)
  <2>1. f.request \in Request /\ f.user \in AnyUser
    BY <1>1, <1>2
  <2> DEFINE x == Answer(f.request, f.user, ok)
  <2>2. x \in MainBlock /\ x.kind = "answer" /\ x.request = f.request /\ x.user = f.user
    BY <2>1, Blocks
  <2> HIDE DEF x
  <2>3. ASSUME NEW au, NEW m \in Seq(MainBlock),
               AuthHolds(au, m, asked, fetching, providerUser, tokenCounter)
        PROVE  AuthHolds(au, Append(m, x), asked, fetching \ {f}, providerUser, tokenCounter)
    <3>1. x.request.counter <= tokenCounter
      BY <2>2, <2>3 DEF AuthHolds
    <3>2. x.request.counter = tokenCounter /\ NoChange(m, Len(m)) => x.user = au
      BY <2>2, <2>3 DEF AuthHolds
    <3>3. fetching \ {f} \in SUBSET fetching
      OBVIOUS
    <3> QED
      BY <2>2, <2>3, <3>1, <3>2, <3>3, AnswerJoins
  <2> QED
    BY <2>2, <2>3 DEF x
<1>6. ASSUME NEW u \in AnyUser, AuthUserChanges(u) PROVE CredentialsInv'
  <2>1. /\ mainQueue' = Append(mainQueue, Change(u)) /\ authUser' = u
        /\ UNCHANGED <<asked, fetching, providerVars, workerQueue, workerVars>>
    BY <1>6 DEF AuthUserChanges
  <2>2. AuthHolds(u, Append(mainQueue, Change(u)), asked, fetching, providerUser, tokenCounter)
    BY <1>1, ChangeJoins
  <2>3. Change(u) \in MainBlock
    BY Blocks
  <2> QED
    BY <2>1, <2>2, <2>3, <1>1, <1>3, <1>4
<1>7. ASSUME NEW r \in asked, NoUserToAsk(r) PROVE CredentialsInv'
  <2> DEFINE x == Answer(r, Nobody, TRUE)
  <2>1. x \in MainBlock /\ x.kind = "answer" /\ x.request = r /\ x.user = Nobody
    <3>1. r \in Request /\ TRUE \in BOOLEAN
      BY <1>1
    <3>2. \A u \in AnyUser, ok \in BOOLEAN :
            LET a == Answer(r, u, ok)
            IN  a \in MainBlock /\ a.kind = "answer" /\ a.request = r /\ a.user = u
      BY <3>1, Blocks
    <3> QED
      BY <3>1, <3>2, <1>2, ZenonT(30)
  <2>2. /\ mainQueue' = Append(mainQueue, x) /\ asked' = asked \ {r} /\ authUser = Nobody
        /\ UNCHANGED <<authUser, fetching, providerVars, workerQueue, workerVars>>
    BY <1>7 DEF NoUserToAsk
  <2> HIDE DEF x
  <2>3. AuthHolds(authUser, mainQueue, asked \ {r}, fetching, providerUser, tokenCounter)
    BY <1>1 DEF AuthHolds
  <2>4. x.request.counter <= tokenCounter /\ x.user = authUser
    BY <1>1, <2>1, <2>2 DEF AuthHolds
  <2>5. AuthHolds(authUser, Append(mainQueue, x), asked \ {r}, fetching, providerUser, tokenCounter)
    BY <1>1, <2>1, <2>3, <2>4, AnswerJoins
  <2> QED
    BY <2>1, <2>2, <2>5, <1>1, <1>3, <1>4
<1>8. ASSUME NEW r \in asked, UserAsked(r) PROVE CredentialsInv'
  <2> DEFINE g == [request |-> r, user |-> authUser]
  <2>1. /\ asked' = asked \ {r} /\ fetching' = fetching \cup {g} /\ authUser # Nobody
        /\ UNCHANGED <<authUser, mainQueue, providerVars, workerQueue, workerVars>>
    BY <1>8 DEF UserAsked
  <2>2. g \in [request : Request, user : Account] /\ g.request = r /\ g.user = authUser
    BY <1>1, <2>1 DEF AnyUser
  <2> HIDE DEF g
  <2>3. AuthHolds(authUser, mainQueue, asked \ {r}, fetching \cup {g}, providerUser, tokenCounter)
    BY <1>1, <2>2 DEF AuthHolds
  <2> QED
    BY <2>1, <2>2, <2>3, <1>1, <1>4
<1>9. ASSUME NEW f \in fetching, NEW ok \in BOOLEAN,
             fetching' = fetching \ {f}, mainQueue' = Append(mainQueue, Answer(f.request, f.user, ok)),
             UNCHANGED <<authUser, asked, providerVars, workerQueue, workerVars>>
      PROVE  CredentialsInv'
  <2>1. AuthHolds(authUser, mainQueue', asked, fetching', providerUser, tokenCounter)
    BY <1>1, <1>5, <1>9
  <2> QED
    BY <2>1, <1>1, <1>3, <1>4, <1>5, <1>9
<1>10. ASSUME NEW f \in fetching, NEW ok \in BOOLEAN, NEW u \in AnyUser,
              fetching' = fetching \ {f}, authUser' = u,
              mainQueue' = Append(Append(mainQueue, Change(u)), Answer(f.request, f.user, ok)),
              UNCHANGED <<asked, providerVars, workerQueue, workerVars>>
       PROVE  CredentialsInv'
  <2> DEFINE m == Append(mainQueue, Change(u))
  <2>1. Change(u) \in MainBlock
    BY Blocks
  <2>2. m \in Seq(MainBlock)
    BY <2>1, <1>3
  <2>3. AuthHolds(u, m, asked, fetching, providerUser, tokenCounter)
    BY <1>1, ChangeJoins
  <2> DEFINE x == Answer(f.request, f.user, ok)
  <2>4. x \in MainBlock /\ mainQueue' = Append(m, x)
    BY <1>5, <1>10
  <2>5. AuthHolds(u, Append(m, x), asked, fetching \ {f}, providerUser, tokenCounter)
    BY <2>2, <2>3, <1>5
  <2> HIDE DEF m, x
  <2>6. mainQueue' \in Seq(MainBlock)
    BY <2>2, <2>4
  <2> QED
    BY <2>4, <2>5, <2>6, <1>1, <1>4, <1>10
<1>11. ASSUME NEW f \in fetching, TokenFetched(f) \/ TokenFails(f) PROVE CredentialsInv'
  BY <1>9, <1>11 DEF TokenFetched, TokenFails, Fetched
<1>12. ASSUME NEW f \in fetching, TokenRefreshed(f) PROVE CredentialsInv'
  <2>1. /\ fetching' = fetching \ {f} /\ authUser' = authUser
        /\ mainQueue' = Append(Append(mainQueue, Change(authUser)), Answer(f.request, f.user, TRUE))
        /\ UNCHANGED <<asked, providerVars, workerQueue, workerVars>>
    BY <1>12 DEF TokenRefreshed, Fetched
  <2> QED
    BY <2>1, <1>1, <1>10
<1>13. ASSUME NEW f \in fetching, TokenInvalid(f) PROVE CredentialsInv'
  <2>1. /\ fetching' = fetching \ {f} /\ authUser' = Nobody
        /\ mainQueue' = Append(Append(mainQueue, Change(Nobody)), Answer(f.request, f.user, FALSE))
        /\ UNCHANGED <<asked, providerVars, workerQueue, workerVars>>
    BY <1>13 DEF TokenInvalid, Fetched
  <2> QED
    BY <2>1, <1>2, <1>10
<1> QED
  BY <1>6, <1>7, <1>8, <1>11, <1>12, <1>13 DEF AuthQueue

\* The provider's steps on the main queue.
LEMMA ProviderStep ==
  ASSUME CredentialsInv, MainQueue
  PROVE  CredentialsInv'
<1>1. /\ asked \in SUBSET Request /\ fetching \in SUBSET [request : Request, user : Account]
      /\ mainQueue \in Seq(MainBlock) /\ tokenCounter \in Nat
      /\ workerQueue \in Seq(WorkerTask)
      /\ AuthHolds(authUser, mainQueue, asked, fetching, providerUser, tokenCounter)
      /\ ServedHolds(workerQueue, servedUser, providerUser)
  BY AuthInvHolds, ServedInvHolds DEF CredentialsInv, CredentialsTypeOK
<1> DEFINE b == Head(mainQueue)
<1>2. /\ mainQueue # <<>> /\ mainQueue' = Tail(mainQueue)
      /\ UNCHANGED <<authUser, fetching, servedUser, streams>>
  BY DEF MainQueue, NoticePosted, TokenPassedOn, AskedAgain, NextBlock, authVars, workerVars
<1>3. /\ b \in MainBlock /\ b = mainQueue[1] /\ 1 \in 1..Len(mainQueue)
      /\ Tail(mainQueue) \in Seq(MainBlock)
  BY <1>1, <1>2, QueueShrinks
<1>4. ASSUME asked' \in SUBSET Request, providerUser' \in AnyUser, tokenCounter' \in Nat,
             workerQueue' \in Seq(WorkerTask),
             AuthHolds(authUser, Tail(mainQueue), asked', fetching, providerUser', tokenCounter'),
             ServedHolds(workerQueue', servedUser, providerUser')
      PROVE  CredentialsInv'
  <2>1. CredentialsTypeOK'
    BY <1>2, <1>3, <1>4 DEF CredentialsInv, CredentialsTypeOK
  <2>2. AuthInv' /\ ServedInv'
    BY <1>2, <1>4, AuthInvHolds, ServedInvHolds
  <2>3. CallsCarryTheServedUser'
    BY <1>2 DEF CredentialsInv, CallsCarryTheServedUser
  <2> QED
    BY <2>1, <2>2, <2>3 DEF CredentialsInv
<1>5. \A x \in WorkerTask : Append(workerQueue, x) \in Seq(WorkerTask)
  BY <1>1
<1>6. CASE NoticePosted
  <2>1. /\ b.kind = "change" /\ providerUser' = b.user /\ tokenCounter' = tokenCounter + 1
        /\ workerQueue' = Append(workerQueue, Change(b.user)) /\ asked' = asked
    BY <1>6 DEF NoticePosted, NextBlock, authVars
  <2>2. b.user \in AnyUser
    BY <1>3, Blocks
  <2> DEFINE x == Change(b.user)
  <2>3. x \in WorkerTask /\ x.kind = "change" /\ x.user = b.user
    BY <2>2, Blocks
  <2>4. AuthHolds(authUser, Tail(mainQueue), asked, fetching, b.user, tokenCounter + 1)
    BY <1>1, <1>2, <2>1, BlockServed
  <2> HIDE DEF x
  <2>5. ServedHolds(Append(workerQueue, x), servedUser, x.user)
    BY <1>1, <2>3, TaskJoins
  <2>6. tokenCounter + 1 \in Nat /\ x = Change(b.user)
    BY <1>1 DEF x
  <2> HIDE DEF b
  <2> QED
    BY <1>1, <1>4, <1>5, <2>1, <2>2, <2>3, <2>4, <2>5, <2>6
<1>7. CASE TokenPassedOn
  <2> DEFINE x == Token(b.request, b.user, b.ok)
  <2>1. /\ b.kind = "answer" /\ b.request.counter = tokenCounter
        /\ workerQueue' = Append(workerQueue, x)
        /\ UNCHANGED <<asked, providerUser, tokenCounter>>
    BY <1>7 DEF TokenPassedOn, NextBlock, UpToDate, authVars, providerVars
  <2>2. b.request \in Request /\ b.user \in AnyUser /\ b.ok \in BOOLEAN
    BY <1>3, <2>1, Blocks
  <2>3. x \in WorkerTask /\ x.kind = "token" /\ x.user = b.user
    BY <2>2, Blocks
  <2>4. b.user = providerUser
    <3>1. NoChange(mainQueue, 1)
      BY <1>3, <2>1 DEF NoChange
    <3> QED
      BY <1>1, <1>3, <2>1, <3>1 DEF AuthHolds
  <2>5. AuthHolds(authUser, Tail(mainQueue), asked, fetching, providerUser, tokenCounter)
    <3>1. b.kind # "change"
      BY <2>1
    <3> QED
      BY <1>1, <1>2, <3>1, BlockServed
  <2>6. providerUser \in AnyUser
    BY <2>2, <2>4
  <2> HIDE DEF x
  <2>7. ServedHolds(Append(workerQueue, x), servedUser, providerUser)
    BY <1>1, <2>3, <2>4, TaskJoins
  <2> HIDE DEF b
  <2> QED
    BY <1>1, <1>4, <1>5, <2>1, <2>3, <2>5, <2>6, <2>7
<1>8. CASE AskedAgain
  <2> DEFINE r == [b.request EXCEPT !.counter = tokenCounter]
  <2>1. /\ b.kind = "answer" /\ asked' = asked \cup {r}
        /\ UNCHANGED <<providerUser, tokenCounter, workerQueue>>
    BY <1>8 DEF AskedAgain, NextBlock, providerVars
  <2>2. b.request \in Request
    BY <1>3, <2>1, Blocks
  <2>3. r \in Request /\ r.counter = tokenCounter
    BY <1>1, <2>2 DEF Request
  <2>4. AuthHolds(authUser, Tail(mainQueue), asked, fetching, providerUser, tokenCounter)
    <3>1. b.kind # "change"
      BY <2>1
    <3> QED
      BY <1>1, <1>2, <3>1, BlockServed
  <2> HIDE DEF r
  <2>5. AuthHolds(authUser, Tail(mainQueue), asked \cup {r}, fetching, providerUser, tokenCounter)
    BY <1>1, <2>3, <2>4 DEF AuthHolds
  <2>6. providerUser \in AnyUser
    BY DEF CredentialsInv, CredentialsTypeOK
  <2> HIDE DEF b
  <2> QED
    BY <1>1, <1>4, <2>1, <2>3, <2>5, <2>6
<1> QED
  BY <1>6, <1>7, <1>8 DEF MainQueue

\* Firestore's tasks, and the streams that start and end between them.
LEMMA FirestoreStep ==
  ASSUME CredentialsInv, WorkerQueue \/ \E s \in Stream : StreamStarts(s) \/ StreamCloses(s)
  PROVE  CredentialsInv'
<1>1. /\ asked \in SUBSET Request /\ tokenCounter \in Nat
      /\ workerQueue \in Seq(WorkerTask) /\ streams \in [Stream -> StreamState]
      /\ AuthHolds(authUser, mainQueue, asked, fetching, providerUser, tokenCounter)
      /\ ServedHolds(workerQueue, servedUser, providerUser)
      /\ servedUser \in AnyUser
  BY AuthInvHolds, ServedInvHolds DEF CredentialsInv, CredentialsTypeOK
<1>2. ASSUME UNCHANGED <<authUser, fetching, mainQueue, providerUser, tokenCounter>>,
             NEW asks \in SUBSET Request, asked' = asked \cup asks,
             \A r \in asks : r.counter = tokenCounter,
             workerQueue' \in Seq(WorkerTask), servedUser' \in AnyUser,
             streams' \in [Stream -> StreamState],
             ServedHolds(workerQueue', servedUser', providerUser),
             \A s \in Stream : streams'[s].state = "Open" => streams'[s].user = servedUser'
      PROVE  CredentialsInv'
  <2>1. CredentialsTypeOK'
    BY <1>1, <1>2 DEF CredentialsInv, CredentialsTypeOK
  <2>2. AuthHolds(authUser, mainQueue, asked \cup asks, fetching, providerUser, tokenCounter)
    BY <1>1, <1>2 DEF AuthHolds
  <2>3. AuthInv' /\ ServedInv'
    BY <1>2, <2>2, AuthInvHolds, ServedInvHolds
  <2>4. CallsCarryTheServedUser'
    BY <1>2 DEF CallsCarryTheServedUser
  <2> QED
    BY <2>1, <2>3, <2>4 DEF CredentialsInv
\* ... without a request.
<1>3. ASSUME UNCHANGED <<authUser, asked, fetching, mainQueue, providerUser, tokenCounter>>,
              workerQueue' \in Seq(WorkerTask), servedUser' \in AnyUser,
              streams' \in [Stream -> StreamState],
              ServedHolds(workerQueue', servedUser', providerUser),
              \A s \in Stream : streams'[s].state = "Open" => streams'[s].user = servedUser'
       PROVE  CredentialsInv'
  <2> DEFINE none == {}
  <2>1. none \in SUBSET Request /\ asked' = asked \cup none /\ \A r \in none : r.counter = tokenCounter
    BY <1>3
  <2> HIDE DEF none
  <2> QED
    BY <1>2, <1>3, <2>1
<1>4. \A s \in Stream : streams[s] \in StreamState /\ Closed(streams[s]) \in StreamState
  BY <1>1, ClosedType
<1>5. \A s \in Stream : streams[s].state = "Open" => streams[s].user = servedUser
  BY DEF CredentialsInv, CallsCarryTheServedUser
<1>6. ASSUME NEW s \in Stream, StreamStarts(s) PROVE CredentialsInv'
  <2> DEFINE asks == {RequestOf(s, streams[s])}
  <2>1. asks \in SUBSET Request /\ \A r \in asks : r.counter = tokenCounter
    BY <1>1, <1>4, RequestType
  <2>2. /\ asked' = asked \cup asks /\ streams' = [streams EXCEPT ![s].state = "Starting"]
        /\ UNCHANGED <<authUser, fetching, mainQueue, providerUser, tokenCounter, workerQueue,
                       servedUser>>
    BY <1>6 DEF StreamStarts, Started, providerVars
  <2> HIDE DEF asks
  <2>3. /\ streams' \in [Stream -> StreamState]
        /\ \A t \in Stream : streams'[t].state = "Open" => streams'[t].user = servedUser
    BY <1>1, <1>4, <1>5, <2>2 DEF StreamState
  <2> QED
    BY <1>1, <1>2, <2>1, <2>2, <2>3
<1>7. ASSUME NEW s \in Stream, StreamCloses(s) PROVE CredentialsInv'
  <2>1. /\ streams' = [streams EXCEPT ![s] = Closed(streams[s])]
        /\ UNCHANGED <<authUser, asked, fetching, mainQueue, providerUser, tokenCounter,
                       workerQueue, servedUser>>
    BY <1>7 DEF StreamCloses, authVars, providerVars
  <2>2. Closed(streams[s]) \in StreamState /\ Closed(streams[s]).state = "Stopped"
    BY <1>4, ClosedType
  <2>3. /\ streams' \in [Stream -> StreamState]
        /\ \A t \in Stream : streams'[t].state = "Open" => streams'[t].user = servedUser
    BY <1>1, <1>5, <2>1, <2>2
  <2> QED
    BY <1>1, <1>3, <2>1, <2>3
<1> DEFINE b == Head(workerQueue)
<1>8. ASSUME workerQueue # <<>>
      PROVE  /\ b \in WorkerTask /\ Tail(workerQueue) \in Seq(WorkerTask)
             /\ b.kind = "change" =>
                  b.user \in AnyUser /\ ServedHolds(Tail(workerQueue), b.user, providerUser)
             /\ b.kind = "token" =>
                  /\ ServedHolds(Tail(workerQueue), servedUser, providerUser)
                  /\ b.user = servedUser /\ b.stream \in Stream
  <2>1. b \in WorkerTask /\ Tail(workerQueue) \in Seq(WorkerTask)
    BY <1>1, <1>8, QueueShrinks
  <2>2. b.user \in AnyUser /\ (b.kind = "token" => b.stream \in Stream)
    BY <2>1, Blocks
  <2> QED
    BY <1>1, <1>8, <2>1, <2>2, TaskServed
<1>9. ASSUME NEW needed \in SUBSET Stream, CredentialChangeHandled(needed) PROVE CredentialsInv'
  <2> DEFINE asks == {RequestOf(s, Closed(streams[s])) : s \in needed}
  <2>1. asks \in SUBSET Request /\ \A r \in asks : r.counter = tokenCounter
    BY <1>1, <1>4, RequestType
  <2>2. /\ workerQueue # <<>> /\ b.kind = "change" /\ asked' = asked \cup asks
        /\ workerQueue' = Tail(workerQueue) /\ servedUser' = b.user
        /\ streams' = [s \in Stream |-> IF s \in needed
                                          THEN [Closed(streams[s]) EXCEPT !.state = "Starting"]
                                          ELSE Closed(streams[s])]
        /\ UNCHANGED <<authUser, fetching, mainQueue, providerUser, tokenCounter>>
    BY <1>9 DEF CredentialChangeHandled, NextTask, providerVars
  <2> HIDE DEF asks, b
  <2>3. ASSUME NEW s \in Stream
        PROVE  streams'[s] \in StreamState /\ streams'[s].state # "Open"
    <3>1. Closed(streams[s]) \in StreamState /\ Closed(streams[s]).state = "Stopped"
      BY <1>4, ClosedType
    <3>2. [Closed(streams[s]) EXCEPT !.state = "Starting"] \in StreamState
          /\ [Closed(streams[s]) EXCEPT !.state = "Starting"].state = "Starting"
      BY <3>1 DEF StreamState
    <3> QED
      BY <2>2, <3>1, <3>2
  <2>4. streams' \in [Stream -> StreamState]
    BY <2>2, <2>3
  <2> QED
    BY <1>2, <1>8, <2>1, <2>2, <2>3, <2>4
<1>10. CASE TokenDropped
  <2>1. /\ workerQueue # <<>> /\ b.kind = "token" /\ workerQueue' = Tail(workerQueue)
        /\ UNCHANGED <<authUser, asked, fetching, mainQueue, providerUser, tokenCounter,
                       servedUser, streams>>
    BY <1>10 DEF TokenDropped, NextTask, authVars, providerVars, workerVars
  <2> HIDE DEF b
  <2> QED
    BY <1>1, <1>5, <1>8, <1>3, <2>1
<1>11. CASE ResumeStartWithCredentials
  <2> DEFINE new == IF b.ok THEN [streams[b.stream] EXCEPT !.state = "Open", !.user = b.user]
                            ELSE Closed(streams[b.stream])
  <2>1. /\ workerQueue # <<>> /\ b.kind = "token" /\ workerQueue' = Tail(workerQueue)
        /\ streams' = [streams EXCEPT ![b.stream] = new]
        /\ UNCHANGED <<authUser, asked, fetching, mainQueue, providerUser, tokenCounter,
                       servedUser>>
    BY <1>11 DEF ResumeStartWithCredentials, NextTask, authVars, providerVars
  <2>2. b.stream \in Stream /\ b.user = servedUser
    BY <1>8, <2>1
  <2> HIDE DEF b
  <2>3. new \in StreamState /\ (new.state = "Open" => new.user = servedUser)
    <3>1. streams[b.stream] \in StreamState
      BY <1>4, <2>2
    <3>2. Closed(streams[b.stream]) \in StreamState
          /\ Closed(streams[b.stream]).state = "Stopped"
      BY <3>1, ClosedType
    <3>3. CASE b.ok
      BY <1>1, <2>2, <3>1, <3>3 DEF StreamState
    <3>4. CASE ~b.ok
      BY <3>2, <3>4
    <3> QED
      BY <3>3, <3>4
  <2> HIDE DEF new
  <2>4. /\ streams' \in [Stream -> StreamState]
        /\ \A s \in Stream : streams'[s].state = "Open" => streams'[s].user = servedUser
    BY <1>1, <1>5, <2>1, <2>3
  <2> QED
    BY <1>1, <1>8, <1>3, <2>1, <2>4
<1> QED
  BY <1>6, <1>7, <1>9, <1>10, <1>11 DEF WorkerQueue

\* CredentialsInv is inductive.
LEMMA CredentialsNextInv ==
  CredentialsInv /\ [CredentialsNext]_credentialVars => CredentialsInv'
<1> SUFFICES ASSUME CredentialsInv, [CredentialsNext]_credentialVars PROVE CredentialsInv'
  OBVIOUS
<1>1. CASE CredentialsNext
  BY <1>1, AuthStep, ProviderStep, FirestoreStep DEF CredentialsNext
<1>2. CASE UNCHANGED credentialVars
  BY <1>2 DEF credentialVars, authVars, providerVars, workerVars, CredentialsInv,
              CredentialsTypeOK, AuthInv, ServedInv, CallsCarryTheServedUser, UpToDate
<1> QED
  BY <1>1, <1>2

\* Whatever Auth does, and however its notifications and answers fall between
\* the tasks of Firestore, a call carries the credentials of the user that
\* SyncEngine serves (firebase_credentials_provider_apple.mm 77-128).
THEOREM CallsCarryTheServedUserHolds == CredentialsSpec => []CallsCarryTheServedUser
<1>1. CredentialsInv => CallsCarryTheServedUser
  BY DEF CredentialsInv
<1> QED
  BY <1>1, CredentialsInitInv, CredentialsNextInv, PTL DEF CredentialsSpec
=============================================================================
