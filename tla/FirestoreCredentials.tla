------------------------ MODULE FirestoreCredentials ------------------------
(***************************************************************************)
(* How the calls of Firestore's streams come by the credentials of a user  *)
(* (files of Pods/FirebaseAuth and Pods/FirebaseFirestore).  Three serial  *)
(* queues take part: Auth's work queue, on which FIRAuth changes and reads *)
(* _currentUser; the main queue, which brings Auth's notifications and its *)
(* answers to FirebaseCredentialsProvider; and Firestore's worker queue,   *)
(* on which SyncEngine learns of a new user and the streams of theirs.  So *)
(* Auth, the provider and SyncEngine may each believe in another user, and *)
(* a token may be read for one of them while the next is signed in.        *)
(*                                                                         *)
(* What SyncEngine's change of user does to the queues of writes and to    *)
(* the targets is in FirestoreWrites and FirestoreListens; all of this     *)
(* dies with the process.                                                  *)
(***************************************************************************)
EXTENDS Naturals, Sequences

CONSTANTS
  Account,     \* Firebase accounts
  Nobody,      \* _currentUser is nil
  Stream,      \* the write stream and the watch stream
  MaxNotices,  \* bound: notifications of one run
  MaxCloses    \* bound: times a stream is closed

ASSUME NobodyAssumption == Nobody \notin Account

VARIABLES
  authUser,      \* FIRAuth's _currentUser
  asked,         \* getTokenForcingRefresh: blocks waiting on Auth's work queue
  fetching,      \* ... and those whose user's token is being fetched
  mainQueue,     \* notifications and answers on their way to the provider
  providerUser,  \* contents_->current_user
  tokenCounter,  \* contents_->token_counter
  workerQueue,   \* changes of user and tokens on their way to Firestore
  servedUser,    \* SyncEngine::current_user_
  streams        \* the two streams

authVars       == <<authUser, asked, fetching>>
providerVars   == <<providerUser, tokenCounter>>
workerVars     == <<servedUser, streams>>
credentialVars == <<authVars, mainQueue, providerVars, workerQueue, workerVars>>

AnyUser == Account \cup {Nobody}

\* One call of GetToken: the close_count_ of the stream and the token counter
\* it has captured.
Request == [stream : Stream, closes : Nat, counter : Nat]

\* Auth's notification and its answer are blocks of the main queue.
Change(u) == [kind |-> "change", user |-> u]
Answer(r, u, ok) == [kind |-> "answer", request |-> r, user |-> u, ok |-> ok]
MainBlock ==
  [kind : {"change"}, user : AnyUser]
  \cup [kind : {"answer"}, request : Request, user : AnyUser, ok : BOOLEAN]

\* HandleCredentialChange and the tokens are tasks of the worker queue.
Token(r, u, ok) == [kind |-> "token", stream |-> r.stream, closes |-> r.closes,
                    user |-> u, ok |-> ok]
WorkerTask ==
  [kind : {"change"}, user : AnyUser]
  \cup [kind : {"token"}, stream : Stream, closes : Nat, user : AnyUser, ok : BOOLEAN]

\* An open stream has its call, opened or opening, which carries the
\* credentials of `user`; a stopped one has none, and may be in backoff.
StreamState == [state : {"Stopped", "Starting", "Open"}, closes : Nat, user : AnyUser]

CredentialsTypeOK ==
  /\ authUser \in AnyUser
  /\ asked \in SUBSET Request
  /\ fetching \in SUBSET [request : Request, user : Account]
  /\ mainQueue \in Seq(MainBlock)
  /\ providerUser \in AnyUser
  /\ tokenCounter \in Nat
  /\ workerQueue \in Seq(WorkerTask)
  /\ servedUser \in AnyUser
  /\ streams \in [Stream -> StreamState]

\* The provider takes the user that Auth has loaded from the keychain so far.
CredentialsInit ==
  /\ authUser \in AnyUser
  /\ providerUser \in {authUser, Nobody}
  /\ servedUser = providerUser
  /\ mainQueue \in {<<>>, <<Change(authUser)>>}
  /\ mainQueue = <<>> => providerUser = authUser
  /\ asked = {} /\ fetching = {} /\ tokenCounter = 0 /\ workerQueue = <<>>
  /\ streams = [s \in Stream |-> [state |-> "Stopped", closes |-> 0, user |-> Nobody]]

-----------------------------------------------------------------------------
(* Auth's work queue.  It is serial: a change of user queues its           *)
(* notification before any later task reads the new user.                  *)

NoticesLeft ==
  tokenCounter + Len(SelectSeq(mainQueue, LAMBDA b : b.kind = "change")) < MaxNotices

\* updateCurrentUser: a user signs in or out, is loaded at launch, or has got
\* a new token; possiblyPostAuthStateChangeNotification.
AuthUserChanges(u) ==
  /\ NoticesLeft
  /\ authUser' = u
  /\ mainQueue' = Append(mainQueue, Change(u))
  /\ UNCHANGED <<asked, fetching, providerVars, workerQueue, workerVars>>

\* Mutant of the next action: without a user there is no callback.
NobodyAnswers(r) ==
  /\ r \in asked /\ authUser = Nobody
  /\ asked' = asked \ {r}
  /\ UNCHANGED <<authUser, fetching, mainQueue, providerVars, workerQueue, workerVars>>

\* getTokenForcingRefresh without a user.
NoUserToAsk(r) ==
  /\ r \in asked /\ authUser = Nobody
  /\ asked' = asked \ {r}
  /\ mainQueue' = Append(mainQueue, Answer(r, Nobody, TRUE))
  /\ UNCHANGED <<authUser, fetching, providerVars, workerQueue, workerVars>>

UserAsked(r) ==
  /\ r \in asked /\ authUser # Nobody
  /\ asked' = asked \ {r}
  /\ fetching' = fetching \cup {[request |-> r, user |-> authUser]}
  /\ UNCHANGED <<authUser, mainQueue, providerVars, workerQueue, workerVars>>

\* internalGetTokenForcingRefresh answers for the user it was asked about,
\* whoever is signed in by now.
Fetched(f) == f \in fetching /\ fetching' = fetching \ {f}

\* Mutant of the next action: the answer does not wait on the main queue.
AnsweredAtOnce(f) ==
  /\ Fetched(f)
  /\ f.request.counter = tokenCounter
  /\ workerQueue' = Append(workerQueue, Token(f.request, f.user, TRUE))
  /\ UNCHANGED <<authUser, asked, mainQueue, providerVars, workerVars>>

TokenFetched(f) ==
  /\ Fetched(f)
  /\ mainQueue' = Append(mainQueue, Answer(f.request, f.user, TRUE))
  /\ UNCHANGED <<authUser, asked, providerVars, workerQueue, workerVars>>

\* A refreshed token goes to the keychain, and Auth notifies of it first.
TokenRefreshed(f) ==
  /\ NoticesLeft
  /\ Fetched(f) /\ f.user = authUser
  /\ mainQueue' = Append(Append(mainQueue, Change(authUser)),
                          Answer(f.request, f.user, TRUE))
  /\ UNCHANGED <<authUser, asked, providerVars, workerQueue, workerVars>>

TokenFails(f) ==
  /\ Fetched(f)
  /\ mainQueue' = Append(mainQueue, Answer(f.request, f.user, FALSE))
  /\ UNCHANGED <<authUser, asked, providerVars, workerQueue, workerVars>>

\* signOutIfTokenIsInvalidWithError.
TokenInvalid(f) ==
  /\ NoticesLeft
  /\ Fetched(f) /\ f.user = authUser
  /\ authUser' = Nobody
  /\ mainQueue' = Append(Append(mainQueue, Change(Nobody)),
                          Answer(f.request, f.user, FALSE))
  /\ UNCHANGED <<asked, providerVars, workerQueue, workerVars>>

-----------------------------------------------------------------------------
(* The main queue, and the provider's mutex.                               *)

NextBlock(kind) == mainQueue # <<>> /\ Head(mainQueue).kind = kind

\* The observer of Auth's notification; the listener of FirestoreClient.
NoticePosted ==
  /\ NextBlock("change")
  /\ mainQueue' = Tail(mainQueue)
  /\ providerUser' = Head(mainQueue).user
  /\ tokenCounter' = tokenCounter + 1
  /\ workerQueue' = Append(workerQueue, Change(Head(mainQueue).user))
  /\ UNCHANGED <<authVars, workerVars>>

UpToDate(answer) == answer.request.counter = tokenCounter

TokenPassedOn ==
  /\ NextBlock("answer")
  /\ LET a == Head(mainQueue) IN
       /\ UpToDate(a)
       /\ workerQueue' = Append(workerQueue, Token(a.request, a.user, a.ok))
  /\ mainQueue' = Tail(mainQueue)
  /\ UNCHANGED <<authVars, providerVars, workerVars>>

\* "the user changed while the request was outstanding": GetToken again.
AskedAgain ==
  /\ NextBlock("answer")
  /\ LET a == Head(mainQueue) IN
       /\ ~UpToDate(a)
       /\ asked' = asked \cup {[a.request EXCEPT !.counter = tokenCounter]}
  /\ mainQueue' = Tail(mainQueue)
  /\ UNCHANGED <<authUser, fetching, providerVars, workerQueue, workerVars>>

-----------------------------------------------------------------------------
(* Firestore's worker queue.                                               *)

\* Mutant of the next operator: a stop that is no error is not counted.
StoppedQuietly(st) == [st EXCEPT !.state = "Stopped", !.user = Nobody]

\* Stream::Close, of a stream that is started.
Closed(st) ==
  IF st.state = "Stopped" THEN st
  ELSE [state |-> "Stopped", closes |-> st.closes + 1, user |-> Nobody]

\* Stream::RequestCredentials.
RequestOf(s, st) == [stream |-> s, closes |-> st.closes, counter |-> tokenCounter]

MayStart(st) == st.state = "Stopped" /\ st.closes < MaxCloses

Started(s) ==
  /\ streams' = [streams EXCEPT ![s].state = "Starting"]
  /\ asked' = asked \cup {RequestOf(s, streams[s])}

\* Stream::Start, when there are writes to send or targets to watch.
StreamStarts(s) ==
  /\ MayStart(streams[s])
  /\ Started(s)
  /\ UNCHANGED <<authUser, fetching, mainQueue, providerVars, workerQueue, servedUser>>

\* The call ends or has been idle, or the network is restarted.
StreamCloses(s) ==
  /\ streams[s].state # "Stopped"
  /\ streams' = [streams EXCEPT ![s] = Closed(@)]
  /\ UNCHANGED <<authVars, mainQueue, providerVars, workerQueue, servedUser>>

NextTask(kind) == workerQueue # <<>> /\ Head(workerQueue).kind = kind

\* SyncEngine::HandleCredentialChange and RestartNetwork: both streams stop,
\* and those still needed start again.
CredentialChangeHandled(needed) ==
  /\ NextTask("change")
  /\ servedUser' = Head(workerQueue).user
  /\ workerQueue' = Tail(workerQueue)
  /\ \A s \in needed : MayStart(Closed(streams[s]))
  /\ streams' = [s \in Stream |-> IF s \in needed
                                    THEN [Closed(streams[s]) EXCEPT !.state = "Starting"]
                                    ELSE Closed(streams[s])]
  /\ asked' = asked \cup {RequestOf(s, Closed(streams[s])) : s \in needed}
  /\ UNCHANGED <<authUser, fetching, mainQueue, providerVars>>

\* Has the stream not been closed since it asked for this token?
StillWanted(t) == streams[t.stream].closes = t.closes

TokenDropped ==
  /\ NextTask("token") /\ ~StillWanted(Head(workerQueue))
  /\ workerQueue' = Tail(workerQueue)
  /\ UNCHANGED <<authVars, mainQueue, providerVars, workerVars>>

\* Stream::ResumeStartWithCredentials; on an error OnStreamFinish.
ResumeStartWithCredentials ==
  /\ NextTask("token") /\ StillWanted(Head(workerQueue))
  /\ LET t == Head(workerQueue) IN
       streams' = [streams EXCEPT ![t.stream] =
                     IF t.ok THEN [@ EXCEPT !.state = "Open", !.user = t.user] ELSE Closed(@)]
  /\ workerQueue' = Tail(workerQueue)
  /\ UNCHANGED <<authVars, mainQueue, providerVars, servedUser>>

-----------------------------------------------------------------------------
AuthQueue ==
  \/ \E r \in asked : NoUserToAsk(r) \/ UserAsked(r)
  \/ \E f \in fetching : \/ TokenFetched(f)
                         \/ TokenRefreshed(f)
                         \/ TokenFails(f)
                         \/ TokenInvalid(f)

MainQueue == NoticePosted \/ TokenPassedOn \/ AskedAgain

WorkerQueue ==
  \/ \E needed \in SUBSET Stream : CredentialChangeHandled(needed)
  \/ TokenDropped
  \/ ResumeStartWithCredentials

CredentialsNext ==
  \/ \E u \in AnyUser : AuthUserChanges(u)
  \/ AuthQueue
  \/ MainQueue
  \/ WorkerQueue
  \/ \E s \in Stream : StreamStarts(s) \/ StreamCloses(s)

CredentialsSpec == CredentialsInit /\ [][CredentialsNext]_credentialVars

\* Auth's requests end or time out, and the three queues are drained.
CredentialsFairness ==
  /\ WF_credentialVars(AuthQueue)
  /\ WF_credentialVars(MainQueue)
  /\ WF_credentialVars(WorkerQueue)

FairCredentialsSpec == CredentialsSpec /\ CredentialsFairness

-----------------------------------------------------------------------------
(* Properties.                                                             *)

\* A call carries the credentials of the user whose writes and targets it
\* serves: though Auth has the new user before SyncEngine hears of it, no
\* token of the new user opens a stream of the former, nor the other way
\* round (the token is read at FIRAuth.m 2184, the user changed at 1979, the
\* streams restarted at remote_store.cc 559-567).
CallsCarryTheServedUser ==
  \A s \in Stream : streams[s].state = "Open" => streams[s].user = servedUser

\* HARD_ASSERT "State should still be 'Starting'" (stream.cc 128-130): a token
\* that comes after a close, a restart or a second request is dropped before
\* it meets a stream that has its call, or has none to open.
TokenFindsItsStreamStarting ==
  NextTask("token") /\ StillWanted(Head(workerQueue)) =>
    streams[Head(workerQueue).stream].state = "Starting"

\* A stream that waits for its token comes to an end of it, whether the user
\* changes meanwhile, the token has to be fetched again or there is no user
\* (the answer at FIRAuth.m 2178, the retry at the provider's line 99).
StartsComeToAnEnd ==
  \A s \in Stream : streams[s].state = "Starting" ~> streams[s].state # "Starting"

-----------------------------------------------------------------------------
(* What every step keeps true, of which the first property follows.        *)

\* The first n members of the queue q turn the user u into v.
UserAfter(q, n, u, v) ==
  /\ (\A j \in 1..n : q[j].kind # "change") => v = u
  /\ \A j \in 1..n :
       q[j].kind = "change" /\ (\A k \in 1..n : k > j => q[k].kind # "change") => v = q[j].user

NoChange(q, n) == \A j \in 1..n : q[j].kind # "change"

\* Every change of Auth's user is on its way to the provider, and an answer
\* that will be found up to date is about the user the provider has then.
AuthInv ==
  /\ UserAfter(mainQueue, Len(mainQueue), providerUser, authUser)
  /\ \A r \in asked : r.counter <= tokenCounter
  /\ \A f \in fetching :
       /\ f.request.counter <= tokenCounter
       /\ f.request.counter = tokenCounter /\ NoChange(mainQueue, Len(mainQueue)) =>
            f.user = authUser
  /\ \A i \in 1..Len(mainQueue) : mainQueue[i].kind = "answer" =>
       /\ mainQueue[i].request.counter <= tokenCounter
       /\ UpToDate(mainQueue[i]) /\ NoChange(mainQueue, i) => mainQueue[i].user = providerUser

\* Every change of the provider's user is on its way to SyncEngine, and a
\* token is that of the user SyncEngine serves when its turn comes.
ServedInv ==
  /\ UserAfter(workerQueue, Len(workerQueue), servedUser, providerUser)
  /\ \A i \in 1..Len(workerQueue) : workerQueue[i].kind = "token" =>
       UserAfter(workerQueue, i, servedUser, workerQueue[i].user)

CredentialsInv ==
  /\ CredentialsTypeOK
  /\ AuthInv
  /\ ServedInv
  /\ CallsCarryTheServedUser
=============================================================================
