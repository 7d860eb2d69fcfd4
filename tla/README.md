# BookSelf, modelled

A verification development of the BookSelf iOS app (`src/BookSelf/BookSelf`, some 1160
lines of Swift, and its storyboard) and of the part of the vendored Firestore client
(`src/BookSelf/Pods/FirebaseFirestore`) on which its data travels. The app has no tests, no
state of its own beyond its view controllers, and no threads of its own: its difficulty is in
completion handlers that run long after the screen that started them has changed, gone or
died, and in what Firebase does in the meantime. The client has one worker queue; its
difficulty is in calls that break, answers that are lost, users that change and processes
that die between two of its tasks.

## The system

| part | source | state | operations |
|---|---|---|---|
| Launch | `SceneDelegate.swift` | the root controller | tab bar if a user is signed in, else the storyboard's login screen |
| Sign-in flow | `LoginViewController`, `SignInViewController`, `SignUpVC` | two text fields, one alert | signIn; createUser then signIn; segues to the tab bar or the profile form |
| Compose sheet | `CreateVC.swift` | caption field and its prompt, image, what it presents | pick, type, Share, Cancel |
| Profile form | `UpdateProfileVC.swift` | two fields, image, `buttonID`, what it presents | pick, type, Done, Cancel, segue `toMain` |
| Feed | `FeedVC.swift`, `FeedCell` | `postArray`, listeners, reused cells | snapshots of "Post", one listener on "Users" for each row shown |
| Profile page | `ProfileVC.swift`, `postCell` | posts, count, name, bio | snapshots, Edit, sign out |
| Browser | `BrowserVC.swift` | web view, search text | search, bookmarks, back, forward, refresh |
| Firestore client, writes | `sync_engine.cc`, `local_store.cc`, `leveldb_mutation_queue.cc`, `remote_store.cc`, `write_stream.cc`, `stream.cc`, `grpc_stream.cc` | a queue of writes for each user on disk, a pipeline of 10, a stream | write, send, acknowledge, reject, restart |
| Firestore client, live queries | the same, `event_manager.cc`, `query_listener.cc`, `view.cc`, `remote_event.cc`, `online_state_tracker.cc` | documents, keys and resume tokens on disk, views, limbo documents, a stream | listen, take in a message, raise a snapshot, resolve a document in limbo |
| Credentials of the client's streams | `FIRAuth.m`, `firebase_credentials_provider_apple.mm`, `stream.cc` | Auth's user, the provider's, SyncEngine's; a token counter | a change of user, a request for a token and its answer, the start of a stream |
| Auth, Storage | used through their pods | current user; blobs | answers, errors, changes of user |

How they interact:

- Both forms run the same chain: `putData` (image), `downloadURL`, `addDocument`, each call
  in the completion handler of the one before (`CreateVC` 70-109, `UpdateProfileVC` 79-114).
  The closures capture `self`: they read the text fields and `Auth.auth().currentUser!` when
  they run, and present alerts, clear the form, dismiss or perform a segue on a screen that
  may have been cancelled, covered or replaced.
- The screens share `Auth.auth().currentUser`. It is set by whichever sign-in answer comes
  last and cleared by a refused token; only `SceneDelegate` and the unwraps look at it.
- Firestore follows the change of user a little later (Auth posts it to the main queue) and
  keeps one queue of writes for each user on disk: a write outlives its handler, its screen
  and the process, and waits for its user to come back.
- Screens are presented over one another full-screen and never dismissed, except the compose
  sheet and the profile form by Cancel (or success).
- Feed and profile page add listeners and never remove one; their snapshots come over the
  main queue in the order in which the client made them.
- In the client, every task of the worker queue ends in the same few operations: refill the
  pipeline, start the stream if it is needed, send what is new on it.

What is hard here: the order of late answers, double taps (no button is ever disabled),
state re-read in a callback, UIKit dropping a presentation from a covered or departed
screen, death of the process between two steps, writes that are sent again, answers that do
not say what they answer, cells that are written to by the listeners of former rows.

What makes each part correct:

- pipeline of an upload: a document names a stored picture, the right one; one tap makes at
  most one document; a failed upload none, if Firestore reports failures only of writes the
  server refused (which it does not always, see *Found*); an added write is not lost; every
  upload ends;
- compose sheet: the prompt is never posted; a sheet closes and a form is cleared only by
  a post of that sheet;
- profile form: the tab bar comes only over a profile that is on the server;
- sign-in flow: whoever is signed in behind a sign-in screen is there for a known reason;
  one tap opens one screen; every tap is answered;
- feed and profile page: what is shown is what the client holds; a row shows the name of its
  post's author;
- writes: none is lost or overtaken, and a callback tells the truth (its failures only under
  the condition just named);
- credentials: a call carries the token of the user whose writes and targets it serves, though
  Auth, the provider and `SyncEngine` learn of a new user one after the other; a stream that
  waits for its token does not wait for ever;
- live queries: a view that says it is in step is, whatever was lost before; views get there.

## Modules

```
Publication           promise of one upload        DurableWrites    promise of addDocument
  ^ refinement                                       ^ refinement
UploadPipeline        the chain of handlers        FirestoreWrites  the client's write path
                                                   FirestoreCredentials  how its calls get a user
  ^ EXTENDS + refinement                           FirestoreListens the client's live queries
CreateVC, UpdateProfileVC                          LiveQueries      what the screens see of them
AuthFlow              screens up to the tab bar      ^ EXTENDS
                                                   FeedVC, ProfileVC
                                                     ^ EXTENDS
                                                   TabBar           both over one client
```

**Publication.** Four sets of attempts: stored, recorded, published, dropped. An image is
stored at most once; a document is recorded only over a stored image; what is recorded ends
published or rejected; what is dropped never comes back, though its image may still arrive.

**UploadPipeline.** `stage` is the position of each upload in the chain of closures,
`origin` and `data` what they captured (`self` and the JPEG data), `blob` what Storage
holds, `queue` the write queues on the device, `collection` the server's documents,
`currentUser` what Auth says and `client` what Firestore believes.

| action | code |
|---|---|
| `PutData` | button handler up to `putData` |
| `PutDataSucceeds`, `PutDataFails` | `putData`'s handler, both branches |
| `DownloadURLFails` | `downloadURL`'s handler with an error: no else branch |
| `AddDocument` | `downloadURL`'s handler: `Written` reads `currentUser`, the write enters the queue of `client` |
| `WriteAcknowledged`, `WriteRejected` | `addDocument`'s handler, if its process still lives (`HasHandler`) |
| `StorageReceives`, `ServerApplies` | the servers; a request may take effect after the client has given up on it |
| `SignedIn`, `SignedOut`, `CredentialChanged` | Auth, and Firestore's delayed notice of it |
| `ProcessDies` | closures are lost, the queue is not: "adding" becomes "restored", earlier stages "lost" |

Here any upload may be started, answered or lost at any time. What it assumes of Firestore
(a queue per user that survives, verdicts from its front, in order) is `DurableWrites`. With
`WriteNoticesEnd` it takes from Firestore what `FirestoreWrites` shows can happen then: a
failure reported of a write that the server has (`WriteRejected`).

**CreateVC** adds the sheet: `sheet` (unopened, open, gone, or completed when it has closed
itself), `cover` (what it presents: nothing, the picker, an alert), `text`, `editing`,
`image`. `PostedCaption` and `DownloadURLDone` are lines 88-93, `ClearAndDismiss` 97-101,
whose `self.dismiss` closes what the sheet presents if it presents something.
`ShowErrorMessage` is dropped, as UIKit does, if the sheet has gone or is covered.
`UnwrapsNilUser` is the trap of `currentUser!`.

**UpdateProfileVC** adds the forms, piled up by `toMain` and `toUpdate`: `form`, `cover`
(nothing, the picker, the tab bar), `buttonID`, `fields`, `image`. Errors change nothing
on screen, as in the code, which prints them.

Both have `Die`, `Killed` and `Relaunched` (SceneDelegate 16-25) and take the sign-in
screens as an environment: `UserSignedIn` may happen at any moment, because an answer may
be late and lets its screen be covered meanwhile.

**AuthFlow** is those screens: `pile`, the screens presented over one another, each with what
its fields say; `alert` of the front screen; `taps`, how far the request of each tap on Log In
or Sign Up has come, from "signingIn" or "creating" by way of `SignInAgain` (the fields are
read again, `SignUpVC` 52) to a segue performed ("in"), dropped by UIKit ("swallowed"),
refused, or stopped half-way; `main`, the handlers Auth has posted to the main queue, which
run in order. `RootFor` and `Relaunched` are `SceneDelegate`; `SignedOutByForce` is a token
that the server refuses. A wrong password is one more reason for a failure, an entry with an
empty field is blank.

**DurableWrites** is the promise of `addDocument`: a queue of documents for each user, a
served user, verdicts from the front, commits in order.

**FirestoreWrites** is the client under it. One task of the worker queue is one action, with
everything it calls:

| action | code |
|---|---|
| `WriteDocument` | `SyncEngine::WriteMutations`, then `RemoteStore::FillWritePipeline` |
| `HandleCredentialChange`, `Relaunched`, `ConnectivityChanged` | `SyncEngine::HandleCredentialChange`, a new process, the connectivity monitor; each ends in `RestartNetwork` |
| `OpensWithCredentials`, `CredentialsFail` | `Stream::ResumeStartWithCredentials` and the handshake request |
| `HandshakeResponse`, `MutationResult` | `WriteStream::NotifyStreamResponse` and `RemoteStore`'s two handlers |
| `ReadNoticesEnd`, `WriteFindsEnd` | `GrpcStream::OnOperationFailed` from a read or a write operation, `Stream::OnStreamFinish`, `OnWriteStreamClose`; `RejectFront`, `KeepPipeline` are its branches |
| `BackoffElapsed`, `IdleTimeout` | the two timers of `Stream` |
| `ServerGreets`, `ServerCommits`, `ServerRefuses`, `ServerRefusesHandshake`, `CallBreaks` | server and network |

`stream` holds the stream's state and the call underneath: requests not yet served, answers
not yet read, how it ended, and whether a write operation has failed on it. The stream token
is reduced to the user it was given to. Batches on the wire carry a tag that the client
never looks at: it takes an answer to be about the front of the pipeline, and the model lets
TLC and the proofs decide whether it is. That a call opens with the credentials of
SyncEngine's user (`OpensWithCredentials`, and the same in `FirestoreListens`) is not obvious,
since the token is read from Auth; it is what the next module establishes.

**FirestoreCredentials** is the way from Auth's user to a call, over three serial queues.

| action | code |
|---|---|
| `AuthUserChanges` | `FIRAuth updateCurrentUser` and the notification that it posts to the main queue |
| `NoUserToAsk`, `UserAsked` | `getTokenForcingRefresh` on Auth's work queue reads `_currentUser` |
| `TokenFetched`, `TokenRefreshed`, `TokenFails`, `TokenInvalid` | the token's answer, posted to the main queue; a notification of its own before it; a forced sign-out |
| `NoticePosted` | `FirebaseCredentialsProvider`'s observer: user and token counter, `HandleCredentialChange` queued |
| `TokenPassedOn`, `AskedAgain` | the callback in `GetToken`: the counter it captured is the provider's, or it asks anew |
| `CredentialChangeHandled` | `SyncEngine::HandleCredentialChange`, `RestartNetwork` |
| `StreamStarts`, `StreamCloses`, `ResumeStartWithCredentials`, `TokenDropped` | `Stream`; a token is dropped if the stream was closed since it asked |

Auth does have the new user before Firestore hears of it, and a token asked for on behalf of
the old one may be the new one's. But Auth changes its user and posts the notification in one
task of its work queue, and the token is read in another and answered over the main queue too:
a token of the new user is behind the new user's notification there. So the provider's counter
has moved on and it asks again, or, if the request was made after the notification, the change
is already ahead of the token on the worker queue, where it closes the streams. A token of the
old user that comes later finds its counter or its stream's `close_count_` passed. Nothing of
this is kept on disk; a stream's backoff is part of "Stopped".

**FirestoreListens** is the read path: `history` (the database, version by version) and `call`
are the server; `disk` holds the cache, the keys and the resume token of each query; `views`
what `SyncEngine` and the listeners have of each; `limbo` its limbo documents; `remote` the
targets, the stream and `WatchChangeAggregator`; `online` the `OnlineStateTracker`. A message
of the server is made when it is read. `RaiseWatchSnapshot` is the long one: deletes
concluded from silence (`WithSynthesizedDeletes`), targets made anew after a mismatched filter
(`Rewatched`), then `LocalStore::ApplyRemoteEvent` (`DiskAt`), the views (`ViewsAt`) and the
limbo documents (`Emits`). What the code takes from a hash table comes in any order: the
requests of one task, the documents that wait for a limbo target. `asserted` remembers whether
every HARD_ASSERT on the way held.

**LiveQueries** is what the screens see of it: a worker queue that registers listeners in
their order, and snapshots on the main queue, for the queries of one task in any order.
**FeedVC** has `postArray`, and for each cell
its row, its post and the profile last written into it; **ProfileVC** the grid, the count
and the card; **TabBar** puts both over one client. An empty result is optional at
registration (it comes only when the client is in step or offline). `fresh` is a history
variable: the cells made ready since a profile last changed.

Abstractions. A picture, a caption, an account is a member of a small set; `url` stands for
the download URL of an upload's image. `serverTimestamp`, layout, animation and wording are
left out. A UUID is never drawn twice. A screen is a member of `Screen` and is used once.
The two forms are checked apart: they touch the same queues and session, but each leaves
the other's documents and screens alone, and the pipeline lets any other user of the session
act at any time.

Assumptions on the client's environment:

- writes: the network is enabled between tasks (the app never disables it); a permanent
  status after the handshake is the verdict on the first request not answered; a write gets
  the same verdict each time it is sent; requests not served by the end of a call are lost;
  the server never ends a write call with OK; how long a backoff takes does not matter.
  `WriteNoticesEnd` says whether an operation that sends may notice the end of a call before
  the last answers are read: both cases are checked, and one of them fails (below). In
  `UploadPipeline` the same constant lets a failure be reported of a committed write; the runs
  of the screens take it TRUE, `liveness`, which has `FailedUploadLeavesNoDocument`, FALSE.
- credentials: Auth's work queue, the main queue and the worker queue are serial and first-in
  first-out; every request for a token is answered in the end; a session has its first user
  when the provider is made, or a notification of it is on its way.
- live queries: existence filters are truthful; a target is refused only when it is watched;
  documents are created and deleted but never changed, as the app's are; the app never
  stops listening; local writes are left to `FirestoreWrites`. With `StaleReads` false, a call
  never begins with a version older than the last one the client has, which is the consistency
  Firestore promises; the run takes it so, and so do the two theorems of
  `FirestoreListens_resume` (see below); the other proofs do not need it.
- screens: one user throughout in `TabBar`, and documents as the app writes them.

## Runs

| run | question | instance |
|---|---|---|
| `forms` | `TypeOK`, `PromptIsNeverPosted`, `ClosedOnlyOverItsPost`, `FormClearedOnlyByOwnPost` | 2 sheets, 2 shares, 1 account |
| `liveness` | the pipeline's six safety properties, `UploadsSettle`, `QueueDrains` | 1 sheet, 2 shares, 2 accounts, 2 pictures, no symmetry, not `WriteNoticesEnd` |
| `profile_forms` | `TypeOK`, `MainOnlyOverItsProfile` | 2 forms, 2 uploads, 1 account |
| `profile_once` | `OneProfilePerAccount` is violated | 1 form, 2 uploads, 1 account |
| `auth_flow` | `TypeOK`, `NobodyIsStranded`, `EntrancesAreEarned`, `TapsAreAnswered` | 2 accounts, 2 taps, 4 screens |
| `firestore_writes` | `TypeOK`, `IdsAreUnique`, `PipelineIsFull`, `AnswersFollowPipeline`, `AssertionsHold`, `SavedIsCommitted`, `FailedIsRefused`, `ImplementsDurableWrites` | 3 writes, 2 users, a pipeline of 2 |
| `firestore_answered` | `WritesAreAnswered` | 2 writes, 2 users, a pipeline of 1 |
| `firestore_credentials` | `CallsCarryTheServedUser`, `TokenFindsItsStreamStarting`, `StartsComeToAnEnd` | 1 stream, 2 accounts, 3 notifications, 2 starts |
| `firestore_verdict` | `FailedIsRefused` is violated | 4 writes, `WriteNoticesEnd` |
| `firestore_listens` | `TypeOK`, `ResumeIsSafe`, `LimboIsResolved`, `WatchesInStep`, `AssertionsHold`, `SyncedUnlessFilterFails`, `ListenersConverge` | 1 query, 2 documents, 3 versions, room for 1 document in limbo |
| `firestore_resume` | `KeysFollowToken` is violated | the same with 2 versions |
| `tab_bar` | `TypeOK`, `ScreensFollowClient`, `RowsShowTheirAuthor` | 3 posts, 3 profiles, 2 accounts, 1 cell made ready three times |

All passing runs are exhaustive, the largest five million states. Nothing counts without end:
the bounds are the sizes of the sets and

- `MaxPile` 4: a root, the sign-in or sign-up screen over it, and two more, which is what two
  taps can open;
- `MaxVersion` 3: a document created and deleted, or two changes, so that a resume token, a
  cache and the database can name three different versions; `MaxLimboTargets` 2: a document
  leaves limbo and comes back before the old target is forgotten;
- `MaxListeners` 4: the feed and three rows on one cell, one of which may be its second time,
  or the profile page's two and one row; `MaxLate` 1 bounds only how many snapshots may be
  under way when a document changes;
- `MaxNotices` 3 and `MaxCloses` 2: a token asked for before, between and after two changes of
  user, and one that comes for a stream closed and started again.

Two uploads, taps or users are enough for every pair to race (two shares of one sheet, two
of two sheets, a tap and a retry; two users and their change). With three writes and a
pipeline of two, one waits for room while two are under way. One cell is enough because
cells share nothing but the queues, and one stream because streams meet only where a change of
user closes them all; the theorem is about any number. In `firestore_listens` one query stands alone: documents
that leave one query while another holds them, a `Listen` on an open stream and the refusal
of a limbo target do not occur in this instance, though the module has them. Symmetry is used
for screens, uploads, accounts, users and documents in safety runs and never with liveness.

**Fairness.** `CreateVC`: Firebase Storage gives up an upload after 600 s and other
operations after 120 s, so the handlers of `putData` and `downloadURL` run: weak fairness of
their answers, whichever they are. Firestore retries a write for as long as the app lives and
its user is signed in: weak fairness of the open stream. The main queue runs what is posted
to it: weak fairness of `ClientNotified`. Nothing is assumed of the user, the sign-in screens,
the images' arrival or the system, which may kill the app for ever; hence `QueueDrains`
speaks only of an account that stays signed in in a living app. `AuthFlow`: requests of Auth
time out, and the main queue runs. `FirestoreWrites` justifies that openness of the stream:
the network may fail again and again but not at every attempt, so a step of the protocol that
becomes possible again and again is taken once (strong fairness of opening, greeting,
serving, reading); timers and the worker queue run (weak fairness). `WritesAreAnswered` holds
though the process may die for ever. `FirestoreCredentials`: Auth's requests end or time out,
and the three queues are drained (weak fairness); nothing is assumed of the users, of when
streams are needed or of when they break. The run may stop where its bounds do. `FirestoreListens`: the stream opens and the server, while
it has a call, serves it (weak fairness); `ListenersConverge` is about executions whose
disturbances end, since a view may start over with each, and in which no existence filter fails
to match (see below).

**Found.**

- `profile_once`: `updateProfile` is headed "CREATE FIRST TIME" and calls `addDocument` for
  first profiles and for edits alike, so an account collects profiles, and the readers show
  the last of them in the order of their random ids.
- `firestore_verdict`: `HandleWriteError` takes a permanent error for the verdict on the front
  of the pipeline. If an operation that sends notices the end of the call, answers that have
  arrived are dropped unread, the front is a write the server has committed, and its callback
  hears that it failed. The share then asks the user to try again, and a second try
  makes a second post: with `WriteNoticesEnd`, `FailedUploadLeavesNoDocument` does not hold of
  the app's posts and profiles. Its run and its theorems are about the other case only.
- `firestore_resume`: after an existence filter that does not match, the keys of the query are
  dropped on disk and its resume token is kept. A process that dies before the full update
  resumes from a version whose documents it does not know; they come back only one by one,
  by way of limbo. The view is not in step until they have.

Four more things came up that contradict no line of the code or its docs, so no run is kept for
them. They can be seen by changing an instance of `MCFirestoreListens`:

- After an existence filter that does not match, `SyncedIsServerState` does not hold. With one
  document and four versions, TLC finds a state 23 steps away: the filter resets the target; the
  server reads on and sends the document, which has been created again, before the snapshot that
  carries the reset, so the view keeps it; the query is watched anew without a token, and the
  document is deleted before that watch is served. The server has nothing to say of it, the
  target becomes current, no document is in limbo, and the view shows the deleted document until
  the query is listened to again. Hence `SyncedUnlessFilterFails` and `ListenersConverge` are about
  executions in which every filter matches. With three versions nothing of the kind happens.

- With `StaleReads` true, TLC finds a violation of `ResumeIsSafe` in 25 states. After a
  reconnect, a limbo target is served first, at a version before the document was there; its
  existence filter of 0 puts a `NoDocument` into the pending updates; then the query is refused,
  the limbo target is stopped with it, and the document, when it comes, is no longer taken in.
  The next snapshot purges it from the cache, and the resume token on disk names a version that
  has it. With `StaleReads` true and nothing refused, all properties hold.
- With limbo targets among `Refusable`, TLC finds a violation of `LimboIsResolved` in 31 states:
  the document of a refused target is purged, a view that is not current keeps it among its limbo
  documents, and it comes back from the server before the view is current again. Nobody asks
  about it then, until the view's limbo documents are computed anew. With 3 numbers for limbo
  targets `ResumeIsSafe` fails too, in 18 states: the server may still have the purged document.
- With two queries that share documents, a view that says it is in step may differ from the
  server after a reconnect: the targets are served one by one and share one cache. So
  `SyncedIsServerState` speaks of queries that share no document with another (`Alone`). The
  feed's query and the profile page's do share posts: once both are listened to, nothing is
  claimed of what they show in step, only of the queries for profiles.

**What does not hold and is not claimed by the code**: that the caption posted is the one on
screen at the tap; that the author is the user who tapped, or the one whose queue holds the
write; that a sheet closes after its post; that the user sees an error; that a saved profile
leads to the tab bar (not with the picker open); that the user in the tab bar is the one whose
profile opened it, or has one;
that a row keeps its author's name when some profile changes; that listeners, tab bars and
forms stay few. These are in the models and listed as hazards.

## Proofs

Eight modules of proofs are checked by TLAPS, for any sets of screens, uploads, taps,
accounts, users, documents, queries, cells, pictures and contents and any limits of the write
pipeline and of limbo documents, under the named assumptions only: `NoAccount` is no account,
`Nobody` neither, `NoBlob` no picture, `NoToken` no user, `Blank` no account, `Everyone` no address, the
placeholder image can be encoded, the prompt differs from the empty text, a profile's content is
a username and a bio, queries are no limbo targets, cells are not the closures of whole screens,
there are finitely many documents and queries, the limits are positive.

- `UploadPipeline_proofs`. The invariants of the pipeline are not inductive by themselves:
  that a document shows its picture needs that an image is stored before its upload goes on
  (`BlobInv`); that there is one document per upload needs that queued writes belong to
  uploads that have come that far and agree with what the server already has under that URL
  (`QueueInv`, `CollectionInv`), and that no upload is queued twice (`OneQueueEntry`), across
  appends, removals and changes of user. `PipelineInv` is their conjunction with the types;
  TLC checks it as an invariant. `WritesAreDurable` and the refinement of `Publication` are
  proved step by step from it, `FailedUploadLeavesNoDocument` under the hypothesis that
  `WriteNoticesEnd` is false.
- `CreateVC_proofs`, `UpdateProfileVC_proofs`. Each screen is proved to refine the pipeline
  (`SharesFollowThePipelineHolds`, `ProfilesFollowThePipelineHolds`): every step of the app is
  a pipeline step or leaves its variables alone, which no run checks. So all the pipeline's
  theorems hold of posts and of profiles (`PipelineGuarantees`, that of failed uploads under its
  hypothesis), and `PipelineInv` is available to prove what is
  about the screens: the prompt, the closing and clearing of sheets, the tab bar over a form.
- `AuthFlow_proofs`. Types, `NobodyIsStranded` and `EntrancesAreEarned` lean on one another:
  a profile form never lies on the login screen itself, so cancelling one strands
  nobody without reason. The invariant (`PileInv`, `TapInv`, `MainInv`) says that a request
  under way belongs to a screen of its kind that is still there, that at most one handler per
  request is queued, and that a screen whose segue was performed is still covered.
- `FirestoreWrites_proofs`. The answers of the server do not say
  which write they are about, so `IInv` ties them down: what the call carries, answers first
  and requests behind, spells the pipeline (`Sound`); the pipeline is the front of the queue,
  as long as its limit allows (`PipelineInv`); the queue is ordered by ids, of which the next
  is above all (`QueueInv`); an answer is about a committed write and a permanent error about
  the first one after the answers (`Truthful`); and what callbacks were told agrees with the
  server (`VerdictInv`). `TokenInv`, that no stream token is kept from another user, stands apart
  and is proved first; it takes the user of a call from `OpensWithCredentials`. The lemmas say what
  removal from the front, refilling and sending do to sequences; that a next id exists is an
  argument by a least element. All safety invariants of `firestore_writes` follow,
  `FailedIsRefused` only if `WriteNoticesEnd` is false: the run `firestore_verdict` shows why.
  The client implements `DurableWrites`, under the same condition: a commit maps to `Commit`
  because all requests before it have been committed, a write that is sent again to a stutter.

  The same module proves `CallsCarryTheServedUser` of `FirestoreCredentials`. `CredentialsInv`
  says what is under way on the queues. Auth's user is the provider's after the notifications on
  the main queue, and the provider's is SyncEngine's after the changes on the worker queue
  (`UserAfter`). An answer whose counter will be found up to date has no notification before it,
  and is then about the provider's user (`AuthInv`); a token on the worker queue is that of the
  user SyncEngine will serve when its turn comes (`ServedInv`). Each task appends to or takes
  from these queues, for which there are lemmas.
- `TabBar_proofs`. What a screen shows lags behind what the client holds, by any number of
  snapshots. The invariant is about the last one on its way to a closure: it carries what the
  closure's query gives now, or, with none under way, that is what the closure wrote, or the
  result is empty and nobody need have heard (`ScreensInv`, `CellsInv`). It is kept because
  every change of a document reaches each listener of each query that matches it
  (`OneListenerInv`: the feed and the page listen once each; a cell as often as it was made
  ready, `KindsInv`). A row's name needs more, since listeners of former rows still write into
  its cell: all that is under way to a cell made ready since a profile last changed is, in the
  end, followed by a snapshot of its own author (`RowsInv`).
- `FirestoreListens_proofs`. The client counts the answers it waits for, and the server sees only
  requests. So the invariant is about the requests under way (`InStep`): the last one about a
  target says whether the client listens to it (`LastWord`), no target is watched by two of them
  (`OneWatch`) or again without an unwatch (`UnwatchedFirst`), and the count is their number
  (`Counted`), across reconnects, filters that do not match, refusals and limbo targets that are
  stopped and started. `Fits` says that the aggregator records a change or a removal only for a
  document that was there, which is what the asserts of `SyncEngine` demand; `QueueInv` and
  `Asked` that every document in limbo is asked about or waits for room. Each message and task
  has its lemma, `EmitsKeepsIInv` for the end that all snapshots share. `TypeOK`,
  `WatchesInStep`, `AssertionsHold` and `LimboIsResolved` follow, the last one if the server
  refuses only queries (see above); the finite sets and the lengths of arrangements in any order
  are the library's theorems.

- `FirestoreListens_resume`. That the disk can be resumed from (`ResumeIsSafe`) relates what is
  saved to what the server has sent and will not send again, so the invariant (`ResumeInv`) is about
  births: a document is born at a version if it is there and was not before. For each resume
  token, whether on disk, in a view, with a target or in a request under way, each document of that
  version is in the cache since its birth, or has been away since (`TokensInv`, `Known`). That is
  kept because what a query has been sent on the open call is in the cache or among the changes
  not handed over yet, or has been away since (`DeliveredInv`); the snapshot that raises the tokens
  hands them over (`HandsOver`), and it comes when all that is watched is complete
  (`AllSent`). What takes a document out of the cache must be true (`CacheInv`, `UpdatesInv`): a
  delete is concluded from the silence of a limbo target only if the target was not sent the
  document (`LimboInv`, `LimboTokens`, `ReceivedAt`), whether before or after a reconnect, and a
  filter purges only what has been away (`FiltersKeepResume`). The theorem has two hypotheses, and
  each is necessary (see *Found*): `StaleReads` is false, and only queries are refused.

  `SyncedIsServerStateHolds` proves `SyncedUnlessFilterFails` under the same hypotheses, from a
  second invariant, `ShowInv`, which is kept by every step between two states in which no filter
  has failed to match. The keys of a query, on disk and in its view, are its documents at the
  version of its resume token and of every watch under way (`KeysTrue`); what the server counts as
  sent on the call is what the changes will make of the keys (`Match`, `Keeps`), so that a full
  target's filter matches (`FilterMatches`) and a snapshot makes the keys those of its version
  (`SnapshotKeys`); that the cache has them is `ResumeInv`'s part (`KnownIsThere`). Where the view
  is current and its target waits for an answer, nothing may happen to its documents meanwhile
  (`Quiet`): no other target speaks of them, since the query shares none (`Alone`) and none of its
  keys is in limbo (`ViewsInv`, `NotFromOthers`). What a view shows besides its keys is in limbo;
  with none in limbo it shows the keys, and they are the server's.

Only model-checked: the liveness properties, since fairness is beyond the prover, and
`TokenFindsItsStreamStarting`. Every other invariant and safety property of the passing runs is
proved, `FailedUploadLeavesNoDocument`, `FailedIsRefused`, `LimboIsResolved`, `ResumeIsSafe` and
`SyncedUnlessFilterFails` under the hypotheses named above.

## Not modelled, and what is left

- Browser (`BrowserVC.swift`): a search field and three buttons that pass a URL, `goBack` and
  `goForward` to `WKWebView`, which keeps all the state.
- Sign-out by the user: its button is in a navigation bar that the page hides (`ProfileVC`
  32), so nobody reaches the alert of `showAlertWithDistructiveButton`; the session ends by
  force only.
- The trap of `currentUser!` in `ProfileVC` 43, and documents without the fields the app
  writes.
- Drawing code (`View/`), `AlertController.swift` (unused), the template `profilePost.swift`
  and the Core Data model (never loaded).
- Of the Firestore client: transactions, `disableNetwork`, bundles, garbage collection,
  limit queries and the removal of listeners, none of which the app uses.
- The other vendored pods (gRPC, BoringSSL, leveldb, abseil, SDWebImage, MessageKit): more
  than 650,000 lines of C and C++ of other projects, which the app does not know of. The
  models cover the app and the few thousand lines of the client that decide what becomes of
  its documents.

Left to do: a composition of the sign-in flow, the two forms and the readers over one session.
