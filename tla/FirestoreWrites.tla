-------------------------- MODULE FirestoreWrites --------------------------
(***************************************************************************)
(* How the Firestore client brings addDocument's writes to the server:     *)
(* SyncEngine and LocalStore (the queue of mutations in LevelDB, one for   *)
(* each user), RemoteStore with its write pipeline, WriteStream and Stream *)
(* with their states, and GrpcStream with the call underneath (files of    *)
(* Pods/FirebaseFirestore/Firestore/core/src).  The server and the network *)
(* are the environment: requests are served in order, answers may be lost  *)
(* with the call, the call may end at any time.                            *)
(*                                                                         *)
(* Every task of the client's worker queue is one action, with all it      *)
(* calls: most end by refilling the pipeline and starting the stream.  The *)
(* network is always enabled between tasks (the app never disables it).    *)
(***************************************************************************)
EXTENDS Naturals, Sequences, FiniteSets

CONSTANTS
  User,               \* users the client can serve, the signed-out one included
  Doc,                \* documents, each under the automatic id of one addDocument
  NoToken,            \* the empty stream token
  MaxPendingWrites,   \* kMaxPendingWrites, 10 in the code
  WriteNoticesEnd     \* does a failed write operation notice the end of a call

ASSUME MaxPendingWritesAssumption == MaxPendingWrites \in Nat \ {0}
ASSUME NoTokenAssumption == NoToken \notin User
ASSUME WriteNoticesEndAssumption == WriteNoticesEnd \in BOOLEAN

VARIABLES
  currentUser,  \* SyncEngine::current_user_
  callbacks,    \* SyncEngine::mutation_callbacks_, in memory
  heard,        \* what the callback of each write has been told
  queue,        \* the mutation table of LevelDB: the batches of each user
  nextBatchId,  \* next_batch_id_ of the current user's LevelDbMutationQueue
  savedToken,   \* last_stream_token of each user's queue, in LevelDB
  token,        \* WriteStream::last_stream_token_
  pipeline,     \* RemoteStore::write_pipeline_
  stream,       \* the write stream and its call
  committed,    \* documents on the server
  refused       \* documents the server refuses for good

engineVars == <<currentUser, callbacks, heard>>
localVars  == <<queue, nextBatchId, savedToken>>
remoteVars == <<token, pipeline, stream>>
serverVars == <<committed, refused>>
vars       == <<engineVars, localVars, remoteVars, serverVars>>

Batch == [id : Nat \ {0}, doc : Doc]

\* The tags of the requests and answers under way on a call are ours: the
\* answers of the server do not say which write they are about.
Streams ==
  [state     : {"Initial", "Starting", "Open", "Error", "Backoff"},
   handshake : {"none", "sent", "answered", "complete"},
   idle      : BOOLEAN,     \* idleness_timer_ is running
   user      : User,        \* whose credentials the call carries
   wire      : Seq(Batch),  \* requests the server has not served yet
   answers   : Seq(Batch),  \* answers the client has not read yet
   ended     : {"no", "transient", "aborted", "permanent"},
   failing   : {"no", "later", "now"}]  \* a write operation on an ended call

TypeOK ==
  /\ currentUser \in User
  /\ callbacks \in SUBSET [user : User, batch : Batch]
  /\ heard \in [Doc -> {"none", "saved", "failed"}]
  /\ queue \in [User -> Seq(Batch)]
  /\ nextBatchId \in Nat \ {0}
  /\ savedToken \in [User -> User \cup {NoToken}]
  /\ token \in User \cup {NoToken}
  /\ pipeline \in Seq(Batch)
  /\ stream \in Streams
  /\ committed \in SUBSET Doc
  /\ refused \in SUBSET Doc

-----------------------------------------------------------------------------
(* LocalStore and the mutation queues.                                     *)

Batches(q) == {q[i] : i \in 1..Len(q)}
Queued == UNION {Batches(queue[u]) : u \in User}

\* Mutants of the next operator: one looks at the queue of one user only,
\* one returns the highest id instead of the one after it.
LoadNextBatchIdOfOne ==
  CHOOSE n \in {b.id + 1 : b \in Batches(queue[currentUser])} \cup {1} :
    \A b \in Batches(queue[currentUser]) : b.id < n

LoadHighestBatchId ==
  CHOOSE n \in {b.id : b \in Queued} \cup {0} : \A b \in Queued : b.id <= n

\* LoadNextBatchIdFromDb looks at the queues of all users.
LoadNextBatchId ==
  CHOOSE n \in {b.id + 1 : b \in Queued} \cup {1} : \A b \in Queued : b.id < n

Place(q, b) == CHOOSE i \in 1..Len(q) : q[i] = b

\* RemoveMutationBatch.
Removed(q, b) == SubSeq(q, 1, Place(q, b) - 1) \o SubSeq(q, Place(q, b) + 1, Len(q))

\* How many batches of q NextMutationBatchAfterBatchId(last) has to skip.
Skipped(q, last) ==
  CHOOSE k \in 0..Len(q) : \A i \in 1..Len(q) : i <= k <=> q[i].id <= last

-----------------------------------------------------------------------------
(* WriteStream, Stream and GrpcStream.                                     *)

IsOpen(s) == s.state = "Open"
IsStarted(s) == s.state \in {"Starting", "Backoff", "Open"}
HandshakeComplete(s) == s.handshake = "complete"

NoCall(state, u) ==
  [state |-> state, handshake |-> "none", idle |-> FALSE, user |-> u, wire |-> <<>>,
   answers |-> <<>>, ended |-> "no", failing |-> "no"]

\* Stream::Start: after an error it waits first.
Start(s) == [s EXCEPT !.state = IF @ = "Error" THEN "Backoff" ELSE "Starting"]

\* Mutant of the next operator: a write does not stop the idle timer.
WritesUnderTimer(s, batches) ==
  IF s.ended = "no" THEN [s EXCEPT !.wire = @ \o batches] ELSE s

\* WriteMutations for each of `batches`.  gRPC fails a write on a call that
\* has ended, after the read operation that was under way.
WriteMutations(s, batches) ==
  IF batches = <<>> THEN s
  ELSE IF s.ended = "no" THEN [s EXCEPT !.wire = @ \o batches, !.idle = FALSE]
  ELSE [s EXCEPT !.idle = FALSE,
                 !.failing = IF ~WriteNoticesEnd \/ @ # "no" THEN @
                             ELSE IF s.answers = <<>> THEN "now" ELSE "later"]

-----------------------------------------------------------------------------
(* RemoteStore::FillWritePipeline: it loads the batches after the last one *)
(* in the pipeline p, sends them if the stream is ready, arms the idle     *)
(* timer if there is nothing to do and starts the stream if there is.      *)

LastId(p) == IF p = <<>> THEN 0 ELSE p[Len(p)].id

NewBatches(p, q) ==
  LET k    == Skipped(q, LastId(p))
      room == MaxPendingWrites - Len(p)
  IN  SubSeq(q, k + 1, IF room < Len(q) - k THEN k + room ELSE Len(q))

FilledPipeline(p, q) == p \o NewBatches(p, q)

ShouldStart(s, p) == ~IsStarted(s) /\ p # <<>>

MarkedIdle(s, p) == IF p = <<>> /\ IsOpen(s) THEN [s EXCEPT !.idle = TRUE] ELSE s

FilledStream(s, p, q) ==
  LET sent == IF IsOpen(s) /\ HandshakeComplete(s)
                THEN WriteMutations(s, NewBatches(p, q)) ELSE s
      full == FilledPipeline(p, q)
      idle == MarkedIdle(sent, full)
  IN  IF ShouldStart(idle, full) THEN Start(idle) ELSE idle

FillWritePipeline(s, p, q) ==
  /\ pipeline' = FilledPipeline(p, q)
  /\ stream' = FilledStream(s, p, q)

\* RestartNetwork: both are emptied, the stream token comes from the queue.
RestartNetwork(u, q) ==
  /\ token' = savedToken[u]
  /\ FillWritePipeline(NoCall("Initial", u), <<>>, q)

-----------------------------------------------------------------------------
(* Tasks of SyncEngine.                                                    *)

Init ==
  /\ currentUser \in User
  /\ callbacks = {}
  /\ heard = [d \in Doc |-> "none"]
  /\ queue = [u \in User |-> <<>>]
  /\ nextBatchId = 1
  /\ savedToken = [u \in User |-> NoToken]
  /\ token = NoToken
  /\ pipeline = <<>>
  /\ stream = NoCall("Initial", currentUser)
  /\ committed = {}
  /\ refused = {}

Unwritten == Doc \ (committed \cup refused \cup {b.doc : b \in Queued})

\* SyncEngine::WriteMutations, which addDocument enqueues.
WriteDocument(d) ==
  LET b == [id |-> nextBatchId, doc |-> d] IN
  /\ d \in Unwritten
  /\ queue' = [queue EXCEPT ![currentUser] = Append(@, b)]
  /\ nextBatchId' = nextBatchId + 1
  /\ callbacks' = callbacks \cup {[user |-> currentUser, batch |-> b]}
  /\ FillWritePipeline(stream, pipeline, queue'[currentUser])
  /\ UNCHANGED <<currentUser, heard, savedToken, token, serverVars>>

\* The user changes, or has a new token: the queue is swapped if the user is
\* another one, the streams restart either way.
HandleCredentialChange(u) ==
  /\ currentUser' = u
  /\ nextBatchId' = IF u # currentUser THEN LoadNextBatchId ELSE nextBatchId
  /\ RestartNetwork(u, queue[u])
  /\ UNCHANGED <<callbacks, heard, queue, savedToken, serverVars>>

\* NotifyUser for the batch b: writes of an earlier run have no callback.
NotifyUser(b, verdict) ==
  LET entry == [user |-> currentUser, batch |-> b] IN
  /\ callbacks' = callbacks \ {entry}
  /\ heard' = IF entry \in callbacks THEN [heard EXCEPT ![b.doc] = verdict] ELSE heard

-----------------------------------------------------------------------------
(* Tasks of the write stream.                                              *)

\* ResumeStartWithCredentials: the call opens and sends the handshake.  Whose
\* token it gets is Auth's affair, and may be asked for while the user changes:
\* that it is the served user's is what FirestoreCredentials shows.
OpensWithCredentials ==
  /\ stream.state = "Starting"
  /\ stream' = [NoCall("Open", currentUser) EXCEPT !.handshake = "sent"]
  /\ UNCHANGED <<engineVars, localVars, token, pipeline, serverVars>>

\* Mutant of the next action: what waits in the pipeline is not sent.
SendsNothing ==
  /\ IsOpen(stream) /\ stream.handshake = "answered"
  /\ token' = stream.user
  /\ savedToken' = [savedToken EXCEPT ![currentUser] = stream.user]
  /\ stream' = [stream EXCEPT !.handshake = "complete"]
  /\ UNCHANGED <<engineVars, queue, nextBatchId, pipeline, serverVars>>

\* OnWriteStreamHandshakeComplete: the token is saved, the pipeline sent.
HandshakeResponse ==
  /\ IsOpen(stream) /\ stream.handshake = "answered"
  /\ token' = stream.user
  /\ savedToken' = [savedToken EXCEPT ![currentUser] = stream.user]
  /\ stream' = WriteMutations([stream EXCEPT !.handshake = "complete"], pipeline)
  /\ UNCHANGED <<engineVars, queue, nextBatchId, pipeline, serverVars>>

\* An answer about the batch b is read.
AnswerRead(b) ==
  /\ IsOpen(stream) /\ stream.answers # <<>> /\ stream.failing # "now"
  /\ token' = stream.user
  /\ savedToken' = [savedToken EXCEPT ![currentUser] = stream.user]
  /\ queue' = [queue EXCEPT ![currentUser] = Removed(@, b)]
  /\ NotifyUser(b, "saved")
  /\ UNCHANGED <<currentUser, nextBatchId, serverVars>>

WithoutAnswer(s) ==
  [s EXCEPT !.answers = Tail(@), !.failing = IF @ = "later" THEN "now" ELSE @]

\* Mutants of the next action: one does not refill the pipeline, one takes
\* the answer to be about the back of it.
ForgetsToRefill ==
  /\ AnswerRead(Head(pipeline))
  /\ pipeline' = Tail(pipeline)
  /\ stream' = WithoutAnswer(stream)

TakesBack ==
  LET n == Len(pipeline) IN
  /\ AnswerRead(pipeline[n])
  /\ FillWritePipeline(WithoutAnswer(stream), SubSeq(pipeline, 1, n - 1),
                       queue'[currentUser])

\* OnWriteStreamMutationResult: the answer is taken to be about the front of
\* the pipeline.
MutationResult ==
  /\ AnswerRead(Head(pipeline))
  /\ FillWritePipeline(WithoutAnswer(stream), Tail(pipeline), queue'[currentUser])

\* HandleWriteError, a permanent one: the front of the pipeline is rejected.
RejectFront ==
  LET b == Head(pipeline) IN
  /\ queue' = [queue EXCEPT ![currentUser] = Removed(@, b)]
  /\ NotifyUser(b, "failed")
  /\ FillWritePipeline(NoCall("Initial", currentUser), Tail(pipeline), queue'[currentUser])
  /\ UNCHANGED <<savedToken, token>>

\* Mutant of the next operator: the stream is not started again.
StaysClosed(forget) ==
  /\ token' = IF forget THEN NoToken ELSE token
  /\ savedToken' = IF forget THEN [savedToken EXCEPT ![currentUser] = NoToken]
                   ELSE savedToken
  /\ stream' = NoCall("Error", currentUser)
  /\ UNCHANGED <<callbacks, heard, queue, pipeline>>

\* HandleHandshakeError: a permanent error also forgets the stream token.
KeepPipeline(forget) ==
  /\ token' = IF forget THEN NoToken ELSE token
  /\ savedToken' = IF forget THEN [savedToken EXCEPT ![currentUser] = NoToken]
                   ELSE savedToken
  /\ stream' = IF pipeline = <<>> THEN NoCall("Error", currentUser)
               ELSE Start(NoCall("Error", currentUser))
  /\ UNCHANGED <<callbacks, heard, queue, pipeline>>

IsPermanentError(status) == status \in {"permanent", "aborted"}

\* Mutant of the next operator: an aborted commit counts as permanent.
AbortedIsPermanent(status) == status \in {"permanent", "aborted"}

IsPermanentWriteError(status) == status = "permanent"

\* OnStreamFinish with an error: Close and OnWriteStreamClose.
StreamFinishes(status) ==
  /\ IF pipeline # <<>> /\ HandshakeComplete(stream) /\ IsPermanentWriteError(status)
       THEN RejectFront
       ELSE KeepPipeline(/\ pipeline # <<>> /\ ~HandshakeComplete(stream)
                         /\ IsPermanentError(status))
  /\ UNCHANGED <<currentUser, nextBatchId, serverVars>>

\* No token: the call is not even made.
CredentialsFail ==
  /\ stream.state = "Starting"
  /\ StreamFinishes("transient")

\* The read operation that is always under way fails: all is read.
ReadNoticesEnd ==
  /\ IsOpen(stream) /\ stream.ended # "no" /\ stream.failing = "no"
  /\ stream.answers = <<>> /\ stream.handshake # "answered"
  /\ StreamFinishes(stream.ended)

\* A write operation fails first: OnOperationFailed drops what is unread.
WriteFindsEnd ==
  /\ IsOpen(stream) /\ stream.failing = "now"
  /\ StreamFinishes(stream.ended)

\* The wait after an error is over.
BackoffElapsed ==
  /\ stream.state = "Backoff"
  /\ stream' = NoCall("Starting", currentUser)
  /\ UNCHANGED <<engineVars, localVars, token, pipeline, serverVars>>

\* The idle timer stops the stream.
IdleTimeout ==
  /\ stream.idle
  /\ stream' = NoCall("Initial", currentUser)
  /\ UNCHANGED <<engineVars, localVars, token, pipeline, serverVars>>

\* The connectivity monitor reports a usable network.
ConnectivityChanged ==
  /\ RestartNetwork(currentUser, queue[currentUser])
  /\ UNCHANGED <<engineVars, localVars, serverVars>>

\* Mutant of the next action: the queues die with the process.
QueueLost(u) ==
  /\ currentUser' = u
  /\ callbacks' = {}
  /\ queue' = [v \in User |-> <<>>]
  /\ nextBatchId' = 1
  /\ RestartNetwork(u, <<>>)
  /\ UNCHANGED <<heard, savedToken, serverVars>>

\* The process dies and a new one starts, with the user Auth finds.
Relaunched(u) ==
  /\ currentUser' = u
  /\ callbacks' = {}
  /\ nextBatchId' = LoadNextBatchId
  /\ RestartNetwork(u, queue[u])
  /\ UNCHANGED <<heard, queue, savedToken, serverVars>>

-----------------------------------------------------------------------------
(* The server and the network.                                             *)

OnCall(s) ==
  /\ IsOpen(stream) /\ stream.ended = "no"
  /\ stream' = s
  /\ UNCHANGED <<engineVars, localVars, token, pipeline>>

ServerGreets ==
  /\ stream.handshake = "sent"
  /\ OnCall([stream EXCEPT !.handshake = "answered"])
  /\ UNCHANGED serverVars

ServerCommits ==
  /\ stream.wire # <<>> /\ Head(stream.wire).doc \notin refused
  /\ OnCall([stream EXCEPT !.wire = Tail(@), !.answers = Append(@, Head(stream.wire))])
  /\ committed' = committed \cup {Head(stream.wire).doc}
  /\ UNCHANGED refused

\* The same write gets the same verdict each time it is sent.  The refusal
\* ends the call; what was sent after it is not served.
ServerRefuses ==
  /\ stream.wire # <<>> /\ Head(stream.wire).doc \notin committed
  /\ OnCall([stream EXCEPT !.wire = <<>>, !.ended = "permanent"])
  /\ refused' = refused \cup {Head(stream.wire).doc}
  /\ UNCHANGED committed

ServerRefusesHandshake ==
  /\ stream.handshake = "sent"
  /\ OnCall([stream EXCEPT !.ended = "permanent"])
  /\ UNCHANGED serverVars

\* The call breaks: requests and the last answers are lost with it.
CallBreaks(status) ==
  /\ \E n \in 0..Len(stream.answers) :
       OnCall([stream EXCEPT !.wire = <<>>, !.answers = SubSeq(@, 1, n), !.ended = status])
  /\ UNCHANGED serverVars

-----------------------------------------------------------------------------
Next ==
  \/ \E d \in Doc : WriteDocument(d)
  \/ \E u \in User : HandleCredentialChange(u) \/ Relaunched(u)
  \/ OpensWithCredentials
  \/ HandshakeResponse
  \/ MutationResult
  \/ CredentialsFail
  \/ ReadNoticesEnd
  \/ WriteFindsEnd
  \/ BackoffElapsed
  \/ IdleTimeout
  \/ ConnectivityChanged
  \/ ServerGreets
  \/ ServerCommits
  \/ ServerRefuses
  \/ ServerRefusesHandshake
  \/ \E status \in {"transient", "aborted"} : CallBreaks(status)

Spec == Init /\ [][Next]_vars

EndNoticed == ReadNoticesEnd \/ WriteFindsEnd

\* The network may fail again and again, but not at every attempt: a step of
\* the protocol that becomes possible again and again is taken once: the
\* handshake on a call that is still alive, the news of a refusal.  Timers
\* and the worker queue run.
Fairness ==
  /\ SF_vars(OpensWithCredentials)
  /\ SF_vars(ServerGreets)
  /\ SF_vars(ServerCommits \/ ServerRefuses)
  /\ SF_vars(HandshakeResponse /\ stream.ended = "no")
  /\ SF_vars(MutationResult)
  /\ SF_vars(EndNoticed /\ HandshakeComplete(stream) /\ stream.ended = "permanent")
  /\ WF_vars(EndNoticed)
  /\ WF_vars(HandshakeResponse)
  /\ WF_vars(BackoffElapsed)

FairSpec == Spec /\ Fairness

-----------------------------------------------------------------------------
(* Properties.                                                             *)

\* Batch ids are drawn anew at every change of user (LoadNextBatchIdFromDb),
\* yet no two writes that wait, of whatever user, share one, so a callback
\* can only ever hear of its own write (NotifyUser looks it up by user and
\* id), and the queues stay in the order in which the app wrote.
IdsAreUnique ==
  /\ \A u, v \in User : \A i \in 1..Len(queue[u]), j \in 1..Len(queue[v]) :
       /\ queue[u][i].id = queue[v][j].id => u = v /\ i = j
       /\ u = v /\ i < j => queue[u][i].id < queue[v][j].id
  /\ \A u \in User : \A i \in 1..Len(queue[u]) : queue[u][i].id < nextBatchId
  /\ \A c \in callbacks : c.batch \in Batches(queue[c.user])

\* Every handler leaves the pipeline with the first writes of the queue of
\* the user the client serves, as many as fit, and a stream that is started
\* if there are any: no answer, error, change of user or restart leaves a
\* write behind that nothing will send (remote_store.cc 370-390).
PipelineIsFull ==
  LET q == queue[currentUser] IN
  /\ pipeline = SubSeq(q, 1, IF MaxPendingWrites < Len(q) THEN MaxPendingWrites ELSE Len(q))
  /\ pipeline # <<>> => IsStarted(stream)

\* "This is a response to a write containing mutations and should be
\* correlated to the first write in our write pipeline" (remote_store.cc
\* 435-436): the answers that can still arrive, and the requests behind them, are
\* those of the pipeline in its order, and there are as many.
AnswersFollowPipeline ==
  IF stream.ended = "no" /\ HandshakeComplete(stream)
    THEN stream.answers \o stream.wire = pipeline
    ELSE /\ Len(stream.answers) <= Len(pipeline)
         /\ stream.answers = SubSeq(pipeline, 1, Len(stream.answers))

\* The assertions of the write path: the idle timer only stops a stream that
\* nobody needs (remote_store.cc 453-458), mutations are only written on an
\* open stream after the handshake (write_stream.cc 77-81), a stream that is
\* stopped has nothing left of its call.
AssertionsHold ==
  /\ stream.idle => IsOpen(stream) /\ HandshakeComplete(stream) /\ pipeline = <<>>
  /\ stream.wire \o stream.answers # <<>> => IsOpen(stream) /\ HandshakeComplete(stream)
  /\ ~IsOpen(stream) => stream = NoCall(stream.state, currentUser)

\* A callback that reports success, or failure, is right: the document is on
\* the server, or the server has refused it.
SavedIsCommitted == \A d \in Doc : heard[d] = "saved" => d \in committed

\* "If this was a permanent error, the request itself was the problem so it's
\* not going to succeed if we resend it" (remote_store.cc 513-514).
FailedIsRefused == \A d \in Doc : heard[d] = "failed" => d \in refused

\* The client implements the promise the upload chains rely on.
Documents(q) == [i \in 1..Len(q) |-> q[i].doc]
Abstract == INSTANCE DurableWrites WITH
  served  <- currentUser,
  pending <- [u \in User |-> Documents(queue[u])]
ImplementsDurableWrites == Abstract!WritesSpec

\* The writes of a user who stays signed in are all answered in the end.
WritesAreAnswered ==
  \A u \in User : <>[](currentUser = u) => <>[](queue[u] = <<>>)
=============================================================================
