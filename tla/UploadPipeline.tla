--------------------------- MODULE UploadPipeline ---------------------------
(***************************************************************************)
(* The chain of completion handlers behind both forms of BookSelf:         *)
(* CreateVC.shareBtnPressed (CreateVC.swift 70-109) and                    *)
(* UpdateProfileVC.updateProfile (UpdateProfileVC.swift 79-114) put an     *)
(* image in Firebase Storage (putData), ask for its URL (downloadURL) and  *)
(* add a Firestore document that carries it (addDocument), each step run   *)
(* by the handler of the one before.  Firebase is at the other end: Auth,  *)
(* the Storage server, the Firestore client with its durable queue of      *)
(* writes for each user, and the Firestore server.                         *)
(*                                                                         *)
(* The handlers capture `self`, so an upload belongs to the screen that    *)
(* started it, whatever became of that screen since.  What the screens     *)
(* show, and when their handlers run, is left to the modules that extend   *)
(* this one; here an upload may be started, answered or lost at any time.  *)
(***************************************************************************)
EXTENDS Sequences, Naturals

CONSTANTS
  Screen,     \* instances of the view controller, one for each presentation
  Upload,     \* taps of its button, each with the UUID it draws
  Account,    \* e-mail addresses of Firebase accounts
  NoAccount,  \* Auth.auth().currentUser is nil
  Picture,    \* images, as JPEG data
  NoBlob,     \* nothing in Storage at <uuid>.jpg
  Content,    \* what the form's text fields put into a document
  WriteNoticesEnd  \* may a failure be reported of a write the server has

ASSUME AccountAssumption == NoAccount \notin Account
ASSUME BlobAssumption == NoBlob \notin Picture
ASSUME NoticeAssumption == WriteNoticesEnd \in BOOLEAN

VARIABLES
  currentUser,  \* Auth.auth().currentUser
  client,       \* the user the Firestore client believes in
  stage,        \* how far each upload has come
  origin,       \* the `self` its handlers captured
  data,         \* the picture its handlers captured
  blob,         \* Firebase Storage: what is at <uuid>.jpg
  queue,        \* the device's Firestore write queues, one for each user
  collection    \* the server's collection, "Post" or "Users"

session      == <<currentUser, client>>
uploadVars   == <<stage, origin, data>>
storeVars    == <<blob, queue, collection>>
pipelineVars == <<session, uploadVars, storeVars>>

\* Users as Firebase knows them: an account, or nobody.
User == Account \cup {NoAccount}

\* `url` stands for the download URL of the upload's image.
Document == [url : Upload, content : Content, email : Account]

Stages == {"unused", "uploading", "resolving", "adding", "restored",
           "saved", "failed", "lost"}

PipelineTypeOK ==
  /\ currentUser \in User
  /\ client \in User
  /\ stage \in [Upload -> Stages]
  /\ origin \in [Upload -> Screen]
  /\ data \in [Upload -> Picture]
  /\ blob \in [Upload -> Picture \cup {NoBlob}]
  /\ queue \in [User -> Seq(Document)]
  /\ collection \in SUBSET Document

PipelineInit ==
  /\ currentUser \in User
  /\ client = currentUser
  /\ stage = [s \in Upload |-> "unused"]
  /\ origin \in [Upload -> Screen]
  /\ data \in [Upload -> Picture]
  /\ blob = [s \in Upload |-> NoBlob]
  /\ queue = [u \in User |-> <<>>]
  /\ collection = {}

-----------------------------------------------------------------------------
(* The image.                                                              *)

PutData(c, s, p) ==
  /\ stage[s] = "unused"
  /\ stage' = [stage EXCEPT ![s] = "uploading"]
  /\ origin' = [origin EXCEPT ![s] = c]
  /\ data' = [data EXCEPT ![s] = p]
  /\ UNCHANGED <<session, storeVars>>

\* The request may still arrive after the client has given it up.
StorageReceives(s) ==
  /\ stage[s] \in {"uploading", "failed", "lost"} /\ blob[s] = NoBlob
  /\ blob' = [blob EXCEPT ![s] = data[s]]
  /\ UNCHANGED <<session, uploadVars, queue, collection>>

\* Mutant of the next action: it does not wait for the upload.
AssumesUploaded(s) ==
  /\ stage[s] = "uploading"
  /\ stage' = [stage EXCEPT ![s] = "resolving"]
  /\ UNCHANGED <<session, origin, data, storeVars>>

PutDataSucceeds(s) ==
  /\ stage[s] = "uploading" /\ blob[s] # NoBlob
  /\ stage' = [stage EXCEPT ![s] = "resolving"]
  /\ UNCHANGED <<session, origin, data, storeVars>>

\* The error may hide an image that has reached the server, or will.
PutDataFails(s) ==
  /\ stage[s] = "uploading"
  /\ stage' = [stage EXCEPT ![s] = "failed"]
  /\ UNCHANGED <<session, origin, data, storeVars>>

\* Mutants of the next action: one uploads again, one comes too late.
UploadsAgain(s) ==
  /\ stage[s] = "resolving"
  /\ stage' = [stage EXCEPT ![s] = "uploading"]
  /\ UNCHANGED <<session, origin, data, storeVars>>

ReportsLateError(s) ==
  /\ stage[s] \in {"resolving", "adding"}
  /\ stage' = [stage EXCEPT ![s] = "failed"]
  /\ UNCHANGED <<session, origin, data, storeVars>>

\* downloadURL reports an error and the code has no else branch.
DownloadURLFails(s) ==
  /\ stage[s] = "resolving"
  /\ stage' = [stage EXCEPT ![s] = "failed"]
  /\ UNCHANGED <<session, origin, data, storeVars>>

-----------------------------------------------------------------------------
(* The document.  The Firestore client's write stream serves the queue of  *)
(* the client's user; several writes may be under way, applied and         *)
(* answered in the order of the queue.                                     *)

\* Mutant of the next operator: the author is the user Firestore knows.
WrittenAsClient(s, x) == [url |-> s, content |-> x, email |-> client]

\* The account is read here, not when the button was pressed.
Written(s, x) == [url |-> s, content |-> x, email |-> currentUser]

AddDocument(s, x) ==
  /\ stage[s] = "resolving"
  /\ currentUser # NoAccount
  /\ queue' = [queue EXCEPT ![client] = Append(@, Written(s, x))]
  /\ stage' = [stage EXCEPT ![s] = "adding"]
  /\ UNCHANGED <<session, origin, data, blob, collection>>

\* A write that was sent may be applied after the client has gone away.
ServerApplies(u) ==
  /\ \E i \in 1..Len(queue[u]) :
       /\ queue[u][i] \notin collection
       /\ \A j \in 1..(i - 1) : queue[u][j] \in collection
       /\ collection' = collection \cup {queue[u][i]}
  /\ UNCHANGED <<session, uploadVars, blob, queue>>

\* Mutant of the next operator: writes of an earlier run are not sent.
StreamOfThisRun(u) ==
  client = u /\ queue[u] # <<>> /\ stage[Head(queue[u]).url] # "restored"

StreamOpen(u) == client = u /\ queue[u] # <<>>

\* The answer to the first write of a queue; addDocument's handler runs if
\* the process that added the write still lives.
Answer(u, result) ==
  /\ queue' = [queue EXCEPT ![u] = Tail(@)]
  /\ stage' = [stage EXCEPT ![Head(queue[u]).url] = result]
  /\ UNCHANGED <<session, origin, data, blob, collection>>

HasHandler(u) == stage[Head(queue[u]).url] = "adding"

\* The screen whose handler that is.
FirstScreen(u) == origin[Head(queue[u]).url]

WriteAcknowledged(u) ==
  /\ StreamOpen(u)
  /\ Head(queue[u]) \in collection
  /\ Answer(u, "saved")

\* If a write operation can notice the end of a call, answers that have come
\* are dropped and the failure of a later write is reported of this one, which
\* the server has (FirestoreWrites, its constant of the same name).
WriteRejected(u) ==
  /\ StreamOpen(u)
  /\ WriteNoticesEnd \/ Head(queue[u]) \notin collection
  /\ Answer(u, "failed")

-----------------------------------------------------------------------------
(* The session and the process.                                            *)

\* A sign-in answer arrives, maybe late.
SignedIn(a) ==
  /\ currentUser # a
  /\ currentUser' = a
  /\ UNCHANGED <<client, uploadVars, storeVars>>

\* The user signs out, or Firebase Auth drops a user whose token the server
\* refuses; no screen listens for it.
SignedOut ==
  /\ currentUser # NoAccount
  /\ currentUser' = NoAccount
  /\ UNCHANGED <<client, uploadVars, storeVars>>

\* Mutant of the next action: the new user inherits the writes of the former.
QueueHandedOver ==
  /\ client # currentUser
  /\ client' = currentUser
  /\ queue' = [queue EXCEPT ![currentUser] = @ \o queue[client]]
  /\ UNCHANGED <<currentUser, uploadVars, blob, collection>>

\* Firebase Auth posts the change of user to the main queue; until its turn
\* there Firestore goes on with the former user's queue.
CredentialChanged ==
  /\ client # currentUser
  /\ client' = currentUser
  /\ UNCHANGED <<currentUser, uploadVars, storeVars>>

\* Mutant of the next action: the write queue dies with the process.
QueueLost ==
  /\ stage' = [s \in Upload |-> IF stage[s] \in {"uploading", "resolving", "adding"}
                                  THEN "lost" ELSE stage[s]]
  /\ queue' = [u \in User |-> <<>>]
  /\ UNCHANGED <<session, origin, data, blob, collection>>

\* The process dies and its handlers with it; the write queue survives.
ProcessDies ==
  /\ stage' = [s \in Upload |-> CASE stage[s] \in {"uploading", "resolving"} -> "lost"
                                  [] stage[s] = "adding" -> "restored"
                                  [] OTHER -> stage[s]]
  /\ UNCHANGED <<session, origin, data, storeVars>>

-----------------------------------------------------------------------------
PipelineNext ==
  \/ \E c \in Screen, s \in Upload, p \in Picture : PutData(c, s, p)
  \/ \E s \in Upload : \/ StorageReceives(s)
                       \/ PutDataSucceeds(s)
                       \/ PutDataFails(s)
                       \/ DownloadURLFails(s)
                       \/ \E x \in Content : AddDocument(s, x)
  \/ \E u \in User : ServerApplies(u) \/ WriteAcknowledged(u) \/ WriteRejected(u)
  \/ \E a \in Account : SignedIn(a)
  \/ SignedOut
  \/ CredentialChanged
  \/ ProcessDies

PipelineSpec == PipelineInit /\ [][PipelineNext]_pipelineVars

-----------------------------------------------------------------------------
(* Properties.                                                             *)

QueuedDocuments == UNION {{queue[u][i] : i \in 1..Len(queue[u])} : u \in User}
Documents == QueuedDocuments \cup collection

\* No document, queued or on the server, names an image that is missing or is
\* not the one the form showed when its button was pressed (CreateVC 74-93,
\* UpdateProfileVC 81-97): the document follows the upload through every
\* failure, death and restart.
DocumentsShowTheirPicture == \A d \in Documents : blob[d.url] = data[d.url]

\* No upload has two writes in the queues.
OneQueueEntry ==
  \A u, v \in User : \A i \in 1..Len(queue[u]), j \in 1..Len(queue[v]) :
    queue[u][i].url = queue[v][j].url => u = v /\ i = j

\* One tap makes at most one document, in one queue and under one account,
\* even when its write is sent again after a restart or a change of user.
OneDocumentPerUpload ==
  /\ \A d, e \in Documents : d.url = e.url => d = e
  /\ OneQueueEntry

\* An upload that failed has left no document behind and never will, if
\* Firestore reports failures only of writes the server has refused: then
\* "Please try again" (CreateVC 96) cannot make a duplicate of it.  With
\* WriteNoticesEnd it can, and this does not hold.
FailedUploadLeavesNoDocument ==
  \A s \in Upload : stage[s] = "failed" => \A d \in Documents : d.url # s

\* Once addDocument has been called the document survives the death of the
\* app and any change of user: it leaves its queue only for the server's
\* collection or by the server's refusal, and the collection only grows.
WritesAreDurable ==
  [][/\ collection \subseteq collection'
     /\ \A d \in QueuedDocuments :
          d \in QueuedDocuments' \cup collection' \/ stage'[d.url] = "failed"
    ]_pipelineVars

\* What every step keeps true, of which the invariants above follow: an image
\* is stored before its upload goes on, a write in a queue and a document on
\* the server belong to an upload that has come that far, whatever its user was
\* told, and what is queued and what is on the server under one URL is one
\* document.
BlobInv ==
  \A s \in Upload :
    /\ blob[s] \in {NoBlob, data[s]}
    /\ stage[s] = "unused" => blob[s] = NoBlob
    /\ stage[s] \in {"resolving", "adding", "restored", "saved"} => blob[s] # NoBlob

QueueInv ==
  \A u \in User : \A i \in 1..Len(queue[u]) :
    /\ stage[queue[u][i].url] \in {"adding", "restored"}
    /\ \A d \in collection : d.url = queue[u][i].url => d = queue[u][i]

CollectionInv ==
  \A d \in collection :
    /\ \/ stage[d.url] \in {"adding", "restored", "saved"}
       \/ stage[d.url] = "failed" /\ WriteNoticesEnd
    /\ blob[d.url] # NoBlob
    /\ \A e \in collection : e.url = d.url => e = d

PipelineInv ==
  /\ PipelineTypeOK
  /\ BlobInv
  /\ QueueInv
  /\ CollectionInv
  /\ OneQueueEntry

\* The pipeline implements its abstract promise, whatever the users are told:
\* an upload is dropped if it has failed and the server has no document of it.
Uploads(S) == {s \in Upload : stage[s] \in S}
Abstract == INSTANCE Publication WITH
  Attempt   <- Upload,
  stored    <- {s \in Upload : blob[s] # NoBlob},
  recorded  <- Uploads({"adding", "restored"}) \ {d.url : d \in collection},
  published <- {d.url : d \in collection},
  dropped   <- Uploads({"failed", "lost"}) \ {d.url : d \in collection}
ImplementsPublication == Abstract!PubSpec
=============================================================================
