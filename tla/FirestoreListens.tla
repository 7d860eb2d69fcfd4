-------------------------- MODULE FirestoreListens --------------------------
(***************************************************************************)
(* How the Firestore client keeps the results of the app's live queries:   *)
(* EventManager and QueryListener, SyncEngine with its views and limbo     *)
(* documents, LocalStore (documents, keys and resume tokens in LevelDB),   *)
(* RemoteStore with the watch stream, WatchChangeAggregator and            *)
(* OnlineStateTracker (Pods/FirebaseFirestore/Firestore/core/src).         *)
(*                                                                         *)
(* The server is the environment.  Its database goes through versions; on  *)
(* a call it serves the client's requests in order, sends the documents    *)
(* that differ between what a target has and what it should have, and      *)
(* announces a global snapshot whenever all its targets are complete at    *)
(* the version it reads.  A message is made when it is read: what is under *)
(* way is then a request not served yet or a version not read yet.         *)
(*                                                                         *)
(* Every task of the worker queue is one action, with all it calls.  Local *)
(* writes are left to FirestoreWrites; documents are never changed, only   *)
(* created and deleted, as the app's are.                                  *)
(***************************************************************************)
EXTENDS Naturals, Sequences, FiniteSets, SequencesExt

CONSTANTS
  Doc,      \* documents
  Query,    \* queries the app listens to, each with its own target
  Matches,  \* the documents each query can match
  MaxConcurrentLimboResolutions,  \* kMaxConcurrentLimboResolutions, 100 in the code
  MaxVersion,      \* bound on the versions of the database
  MaxLimboTargets, \* bound on the targets of one document in use at a time
  Refusable,       \* targets the server may refuse to serve
  StaleReads       \* may a call begin with a version older than the client's last?

\* Limbo targets get fresh ids; here they name their document.
LimboTarget == Doc \X (1..MaxLimboTargets)
Target == Query \cup LimboTarget
Version == 0..MaxVersion

ASSUME FiniteAssumption == IsFiniteSet(Doc) /\ IsFiniteSet(Query)
ASSUME NamesAssumption == Query \cap LimboTarget = {}
ASSUME MatchesAssumption == Matches \in [Query -> SUBSET Doc]
ASSUME BoundsAssumption ==
  {MaxConcurrentLimboResolutions, MaxVersion, MaxLimboTargets} \subseteq Nat \ {0}
ASSUME RefusableAssumption == Refusable \subseteq Target
ASSUME StaleReadsAssumption == StaleReads \in BOOLEAN

VARIABLES
  history,   \* the documents of the database at each version
  call,      \* the server's end of the watch stream
  disk,      \* LevelDB
  views,     \* SyncEngine's views and the listeners of the app
  limbo,     \* SyncEngine's limbo resolutions
  remote,    \* RemoteStore: targets, watch stream, aggregator
  online,    \* OnlineStateTracker
  asserted   \* every HARD_ASSERT so far held

vars == <<history, call, disk, views, limbo, remote, online, asserted>>

\* "purged" is the NoDocument of version None.
Update == [kind : {"none", "doc", "deleted", "purged"}, version : Version]
NoUpdate == [kind |-> "none", version |-> 0]

TargetState ==
  [outstanding : Nat, current : BOOLEAN, changed : BOOLEAN, token : Version,
   docs : [Doc -> {"none", "added", "modified", "removed"}]]

FreshState ==
  [outstanding |-> 0, current |-> FALSE, changed |-> TRUE, token |-> 0,
   docs |-> [d \in Doc |-> "none"]]

Request == [op : {"watch", "unwatch"}, target : Target, token : Version]

Call ==
  [requests : Seq(Request),
   version  : Version,                      \* the version it reads
   watched  : SUBSET Target,
   current  : SUBSET Target,                \* CURRENT was sent
   owed     : [Target -> {"none", "filter", "reset"}],
   have     : [Target -> [Doc -> Version]]] \* what was sent, by creation

Disk ==
  [cache       : [Doc -> Update],
   keys        : [Query -> SUBSET Doc],     \* TargetCache's matching keys
   token       : [Query -> Version],
   lastVersion : Version]                   \* LastRemoteSnapshotVersion

Views ==
  [listening : SUBSET Query,
   synced    : [Query -> SUBSET Doc],       \* synced_documents_
   current   : [Query -> BOOLEAN],          \* current_
   limbo     : [Query -> SUBSET Doc],       \* limbo_documents_
   token     : [Query -> Version],          \* LocalStore's target data
   raised    : SUBSET Query,                \* raised_initial_event_
   shown     : [Query -> SUBSET Doc]]       \* the last snapshot of the app

Limbo ==
  [active : SUBSET LimboTarget, received : SUBSET LimboTarget, enqueued : Seq(Doc)]

Remote ==
  [targets : SUBSET Target,                 \* listen_targets_
   resume  : [Target -> Version],           \* and their resume tokens
   stream  : {"off", "starting", "open"},
   idle    : BOOLEAN,                       \* idleness_timer_ is running
   tracked : SUBSET Target,                 \* target_states_
   state   : [Target -> TargetState],
   updates : [Doc -> Update],               \* pending_document_updates_
   resets  : SUBSET Query]                  \* pending_target_resets_

OnlineState == [state : {"Unknown", "Online", "Offline"}, failed : BOOLEAN, timer : BOOLEAN]

TypeOK ==
  /\ history \in Seq(SUBSET Doc) /\ Len(history) \in 1..MaxVersion
  /\ call \in Call
  /\ disk \in Disk
  /\ views \in Views
  /\ limbo \in Limbo
  /\ remote \in Remote
  /\ online \in OnlineState
  /\ asserted \in BOOLEAN

-----------------------------------------------------------------------------
(* The database.                                                           *)

Now == Len(history)
Result(q, v) == IF v = 0 THEN {} ELSE Matches[q] \cap history[v]

\* Since when the document has been there, or has not been there, at version v.
Since(d, v) ==
  CHOOSE w \in 1..v :
    /\ \A k \in w..v : (d \in history[k]) = (d \in history[v])
    /\ w = 1 \/ (d \in history[w - 1]) # (d \in history[v])

Created(d, v) == IF v = 0 \/ d \notin history[v] THEN 0 ELSE Since(d, v)

DocumentAt(d, v) ==
  [kind |-> IF d \in history[v] THEN "doc" ELSE "deleted", version |-> Since(d, v)]

Scope(t) == IF t \in Query THEN Matches[t] ELSE {t[1]}
Nothing == [d \in Doc |-> 0]
At(t, v) == [d \in Doc |-> IF d \in Scope(t) THEN Created(d, v) ELSE 0]

DatabaseChanges(d) ==
  /\ Now < MaxVersion
  /\ history' = Append(history, IF d \in history[Now] THEN history[Now] \ {d}
                                ELSE history[Now] \cup {d})
  /\ UNCHANGED <<call, disk, views, limbo, remote, online, asserted>>

-----------------------------------------------------------------------------
(* Views and listeners.                                                    *)

Docs(q, cache) == {d \in Matches[q] : cache[d].kind = "doc"}
Synced(vw, q) == vw.current[q] /\ vw.limbo[q] = {}

\* QueryListener: the first snapshot waits until it is synced, has documents
\* or the client is offline; from then on every change is passed on.
Raise(vw, cache, state) ==
  LET first  == {q \in vw.listening : \/ Synced(vw, q)
                                      \/ Docs(q, cache) # {}
                                      \/ state = "Offline"}
      raised == vw.raised \cup first
  IN  [vw EXCEPT
        !.raised = raised,
        !.shown = [q \in Query |-> IF q \in raised \cap vw.listening THEN Docs(q, cache)
                                   ELSE @[q]]]

\* HandleOnlineStateChange: a view is not current while the client is offline.
WithOnlineState(vw, state) ==
  IF state # "Offline" THEN vw
  ELSE [vw EXCEPT !.current = [q \in Query |-> FALSE]]

-----------------------------------------------------------------------------
(* WatchChangeAggregator.                                                  *)

RemoteKeys(t) ==
  IF t \in Query THEN IF t \in views.listening THEN views.synced[t] ELSE {}
  ELSE IF t \in limbo.received THEN {t[1]} ELSE {}

Pending(r, t) == t \in r.tracked /\ r.state[t].outstanding # 0
IsActive(r, t) == t \in r.targets /\ ~Pending(r, t)

WithState(r, t, s) == [r EXCEPT !.tracked = @ \cup {t}, !.state[t] = s]
WithoutState(r, t) == [r EXCEPT !.tracked = @ \ {t}, !.state[t] = FreshState]

\* Add- and RemoveDocumentFromTarget.
DocumentChange(t, s, d, isThere) ==
  [s EXCEPT !.changed = TRUE,
            !.docs[d] = IF isThere
                          THEN IF d \in RemoteKeys(t) THEN "modified" ELSE "added"
                          ELSE IF d \in RemoteKeys(t) THEN "removed" ELSE "none"]

HandleDocumentChange(r, T, d, update) ==
  LET A == {t \in T : IsActive(r, t)}
  IN  [r EXCEPT
        !.tracked = @ \cup A,
        !.state = [t \in Target |->
                     IF t \in A THEN DocumentChange(t, @[t], d, update.kind = "doc") ELSE @[t]],
        !.updates[d] = IF A = {} THEN @ ELSE update]

Responded(s) == [s EXCEPT !.outstanding = @ - 1]

TargetAdded(r, t) ==
  LET s == Responded(r.state[t])
  IN  WithState(r, t, IF s.outstanding # 0 THEN s
                      ELSE [s EXCEPT !.changed = FALSE, !.docs = FreshState.docs])

TargetRemoved(r, t) ==
  LET s == Responded(r.state[t])
  IN  IF s.outstanding # 0 THEN WithState(r, t, s) ELSE WithoutState(r, t)

TargetCurrent(r, t, token) ==
  IF ~IsActive(r, t) THEN r
  ELSE WithState(r, t, [r.state[t] EXCEPT !.changed = TRUE, !.current = TRUE, !.token = token])

\* ResetTarget.
Reset(r, t) ==
  WithState(r, t, [FreshState EXCEPT
                     !.docs = [d \in Doc |-> IF d \in RemoteKeys(t) THEN "removed" ELSE "none"]])

TargetReset(r, t) == IF IsActive(r, t) THEN Reset(r, t) ELSE r

DocsThat(s, change) == {d \in Doc : s.docs[d] = change}

CurrentSize(r, t) ==
  Cardinality(RemoteKeys(t)) + Cardinality(DocsThat(r.state[t], "added"))
    - Cardinality(DocsThat(r.state[t], "removed"))

\* Mutant of the next operator: the count of a query is not compared.
FilterOfDocumentsOnly(r, t, count) ==
  IF ~IsActive(r, t) \/ t \in Query \/ count # 0 THEN r
  ELSE HandleDocumentChange(r, {t}, t[1], [kind |-> "purged", version |-> 0])

HandleExistenceFilter(r, t, count) ==
  IF ~IsActive(r, t) THEN r
  ELSE IF t \in Query
    THEN IF CurrentSize(r, t) = count THEN r
         ELSE [Reset(r, t) EXCEPT !.resets = @ \cup {t}]
    ELSE IF count # 0 THEN r
         ELSE HandleDocumentChange(r, {t}, t[1], [kind |-> "purged", version |-> 0])

\* A target change without targets is for all active ones.
AllTargetsAt(r, token) ==
  [r EXCEPT !.state = [t \in Target |->
      IF t \in r.tracked /\ IsActive(r, t) THEN [@[t] EXCEPT !.changed = TRUE, !.token = token]
      ELSE @[t]]]

\* Mutant of the next operator: nothing is concluded from silence.
WithoutConclusion(r, v) == r

\* CreateRemoteEvent, first part: a limbo document that the server has not
\* sent by now does not exist.
WithSynthesizedDeletes(r, v) ==
  LET missing == {t \in LimboTarget \cap r.tracked :
                    /\ IsActive(r, t) /\ r.state[t].current
                    /\ r.updates[t[1]].kind = "none" /\ RemoteKeys(t) = {}}
  IN  IF missing = {} THEN r
      ELSE [r EXCEPT
             !.state = [t \in Target |->
                IF t \in missing THEN DocumentChange(t, @[t], t[1], FALSE) ELSE @[t]],
             !.updates = [d \in Doc |-> IF \E t \in missing : t[1] = d
                                          THEN [kind |-> "deleted", version |-> v] ELSE @[d]]]

-----------------------------------------------------------------------------
(* Requests of the client on an open stream.                               *)

Watch(t, token) == [op |-> "watch", target |-> t, token |-> token]
Unwatch(t) == [op |-> "unwatch", target |-> t, token |-> 0]

Expects(r, T, n) ==
  IF T = {} THEN r
  ELSE [r EXCEPT
         !.tracked = @ \cup T,
         !.state = [t \in Target |->
                      IF t \in T THEN [r.state[t] EXCEPT !.outstanding = @ + n]
                      ELSE r.state[t]]]

Sends(c, requests) == [c EXCEPT !.requests = @ \o requests]

-----------------------------------------------------------------------------
(* SyncEngine: limbo documents.                                            *)

\* The numbers that no target of the document has.
FreeNumbers(r, c, d) ==
  LET used == r.targets \cup r.tracked \cup c.watched
                \cup {c.requests[i].target : i \in 1..Len(c.requests)}
  IN  {n \in 1..MaxLimboTargets : <<d, n>> \notin used}

NewTarget(r, c, d) == <<d, CHOOSE n \in FreeNumbers(r, c, d) : TRUE>>

\* Mutant of the next operator: what waited is forgotten.
NewOnly(enqueued, before, after) == SetToSeqs(after \ before)

\* What enqueued_limbo_resolutions_ can be when `after` are in limbo instead of
\* `before`: what waited keeps its order and its place before what is new.
Queues(enqueued, before, after) ==
  LET waited == {enqueued[i] : i \in 1..Len(enqueued)}
  IN  {queue \in SetToSeqs((waited \cap after) \cup (after \ before)) :
         \A i, j \in 1..Len(queue) : \A n \in 1..Len(enqueued) :
           i < j /\ queue[j] = enqueued[n] => \E m \in 1..(n - 1) : queue[i] = enqueued[m]}

\* A document is in limbo if a current view has it and the server has not said so.
InLimbo(vw, cache) ==
  [q \in Query |-> IF q \in vw.listening /\ vw.current[q]
                     THEN Docs(q, cache) \ vw.synced[q] ELSE vw.limbo[q]]

\* RemoteStore::StopListening and Listen for limbo targets, on an open stream.
Relistened(r, stopped, started) ==
  LET targets == (r.targets \ stopped) \cup started
  IN  [Expects(r, stopped \cup started, 1) EXCEPT
        !.targets = targets,
        !.resume = [t \in Target |-> IF t \in stopped THEN 0 ELSE @[t]],
        !.idle = IF stopped # {} THEN targets = {} ELSE @ /\ started = {}]

\* EmitNewSnapshotsAndNotifyLocalStore, on an open stream: vw are the views
\* with their new keys, `fits` are the asserts of the task so far.  The limbo
\* documents of one view change in the order of their keys and the views come
\* in the order of a hash table: their requests are sent in any order.  A
\* resolution that would be started and stopped in the same task is left out.
Emits(vw, lb, r, c, cache, fits) ==
  LET inLimbo == InLimbo(vw, cache)
      before  == UNION {views.limbo[q] : q \in Query}
      after   == UNION {inLimbo[q] : q \in Query}
      stopped == {t \in lb.active : t[1] \notin after}
      active  == lb.active \ stopped
      room    == MaxConcurrentLimboResolutions - Cardinality(active)
  IN  \E queue \in Queues(lb.enqueued, before, after) :
        LET n       == IF room < Len(queue) THEN room ELSE Len(queue)
            started == {NewTarget(r, c, queue[i]) : i \in 1..n}
        IN  /\ \A i \in 1..n : FreeNumbers(r, c, queue[i]) # {}
            /\ views' = Raise([vw EXCEPT !.limbo = inLimbo], cache, "Online")
            /\ limbo' = [active   |-> active \cup started,
                         received |-> lb.received \ stopped,
                         enqueued |-> SubSeq(queue, n + 1, Len(queue))]
            /\ remote' = Relistened(r, stopped, started)
            /\ \E requests \in SetToSeqs({Unwatch(t) : t \in stopped}
                                           \cup {Watch(t, 0) : t \in started}) :
                 call' = Sends(c, requests)
            /\ asserted' = (asserted /\ fits /\ stopped \subseteq r.targets)

-----------------------------------------------------------------------------
(* RemoteStore::RaiseWatchSnapshot and LocalStore::ApplyRemoteEvent.       *)

\* Mutant of the next operator: what was deleted stays deleted.
NewerUnlessDeleted(old, update) ==
  IF update.kind = "none" \/ old.kind = "deleted" THEN old
  ELSE IF update.kind = "purged" THEN NoUpdate
  ELSE IF old.kind = "none" \/ update.version > old.version THEN update ELSE old

\* LocalStore::ApplyRemoteEvent keeps the newer of two versions.
Newer(old, update) ==
  IF update.kind = "none" THEN old
  ELSE IF update.kind = "purged" THEN NoUpdate
  ELSE IF old.kind = "none" \/ update.version > old.version THEN update ELSE old

NoUpdates == [d \in Doc |-> NoUpdate]

\* An unwatch and a watch for each target, in some order of the targets.
Rewatches(T) ==
  {requests \in SetToSeqs({Unwatch(t) : t \in T} \cup {Watch(t, 0) : t \in T}) :
     \A t \in T : \E i \in 1..(Len(requests) - 1) :
       requests[i] = Unwatch(t) /\ requests[i + 1] = Watch(t, 0)}

\* Mutant of the next operator: it waits for one answer instead of two.
RewatchedOnce(r, again) ==
  [Expects(r, again, 1) EXCEPT
    !.resets = {}, !.idle = @ /\ again = {},
    !.resume = [t \in Target |-> IF t \in again THEN 0 ELSE @[t]]]

\* Targets whose existence filter did not match are unwatched and watched
\* anew, without a resume token.
Rewatched(r, again) ==
  [Expects(r, again, 2) EXCEPT
    !.resets = {}, !.idle = @ /\ again = {},
    !.resume = [t \in Target |-> IF t \in again THEN 0 ELSE @[t]]]

\* ShouldPersistTargetData: a resume token is saved with changes of documents,
\* if there was none, or when enough time has passed (t \in late).
SavedToken(q, s, late) ==
  IF s.token # 0 /\ (views.token[q] = 0 \/ q \in late
                       \/ \E d \in Doc : s.docs[d] # "none")
    THEN s.token ELSE disk.token[q]

Takes(r, t) == t \in r.tracked /\ IsActive(r, t) /\ r.state[t].changed

\* CreateRemoteEvent, the rest of it: the changes are handed over.
HandedOver(r) ==
  [r EXCEPT
    !.state = [t \in Target |-> IF Takes(r, t) THEN [@[t] EXCEPT !.changed = FALSE,
                                                               !.docs = FreshState.docs]
                                ELSE @[t]],
    !.resume = [t \in Target |-> IF Takes(r, t) /\ r.state[t].token # 0
                                   THEN r.state[t].token ELSE @[t]],
    !.updates = NoUpdates]

Merged(old, r) ==
  [q \in Query |-> IF Takes(r, q)
                     THEN (old[q] \cup DocsThat(r.state[q], "added"))
                            \ DocsThat(r.state[q], "removed")
                     ELSE old[q]]

\* ApplyTargetChange of each view, and the token of its target data.
ViewsAt(r) ==
  [views EXCEPT
    !.synced = Merged(@, r),
    !.current = [q \in Query |-> IF Takes(r, q) THEN r.state[q].current ELSE @[q]],
    !.token = [q \in Query |-> IF Takes(r, q) /\ r.state[q].token # 0
                                 THEN r.state[q].token ELSE @[q]]]

\* SyncEngine::ApplyRemoteEvent: has the document of a limbo target been received?
LimboAt(r) ==
  LET Has(change) == {t \in limbo.active : Takes(r, t) /\ DocsThat(r.state[t], change) # {}}
  IN  [limbo EXCEPT !.received = (@ \cup Has("added")) \ Has("removed")]

\* LocalStore::ApplyRemoteEvent.
DiskAt(r, v, late) ==
  [cache |-> [d \in Doc |-> Newer(disk.cache[d], r.updates[d])], lastVersion |-> v,
   keys |-> Merged(disk.keys, r),
   token |-> [q \in Query |-> IF Takes(r, q) THEN SavedToken(q, r.state[q], late)
                              ELSE disk.token[q]]]

\* The asserts about what a change claims to have been there before.
ChangesFit(r) ==
  /\ \A q \in Query : Takes(r, q) =>
       DocsThat(r.state[q], "modified") \subseteq Merged(views.synced, r)[q]
  /\ \A t \in limbo.active : Takes(r, t) =>
       DocsThat(r.state[t], "modified") \cup DocsThat(r.state[t], "removed") = {}
         \/ t \in limbo.received

RaiseWatchSnapshot(r0, c, v) ==
  \E r \in {WithSynthesizedDeletes(r0, v)} :
    LET again == r.resets \cap r.targets IN
    \E h \in {Rewatched(HandedOver(r), again)}, requests \in Rewatches(again),
       late \in SUBSET {q \in Query : Takes(r, q)} :
      /\ disk' = DiskAt(r, v, late)
      /\ Emits(ViewsAt(r), LimboAt(r), h, Sends(c, requests), disk'.cache, ChangesFit(r))

-----------------------------------------------------------------------------
(* OnlineStateTracker: one failed attempt of the stream takes the client   *)
(* offline (kMaxWatchStreamFailures), and so does the timer.               *)

\* UpdateState.
Settled(state) == [state |-> state, failed |-> FALSE, timer |-> FALSE]

\* HandleWatchStreamStart.
Started(o) == IF o.failed THEN o ELSE [o EXCEPT !.state = "Unknown", !.timer = TRUE]

\* HandleWatchStreamFailure.
Failed(o) ==
  IF o.state = "Online" THEN [o EXCEPT !.state = "Unknown"]
  ELSE [state |-> "Offline", failed |-> TRUE, timer |-> FALSE]

-----------------------------------------------------------------------------
(* Tasks of the client.                                                    *)

NoCall ==
  [requests |-> <<>>, version |-> 0, watched |-> {}, current |-> {},
   owed |-> [t \in Target |-> "none"], have |-> [t \in Target |-> Nothing]]

\* No stream, and no aggregator.
Cleaned(r, stream) ==
  [r EXCEPT !.stream = stream, !.idle = FALSE, !.tracked = {}, !.updates = NoUpdates,
            !.resets = {}, !.state = [t \in Target |-> FreshState]]

NoViews ==
  [listening |-> {}, raised |-> {},
   synced |-> [q \in Query |-> {}], current |-> [q \in Query |-> FALSE],
   limbo |-> [q \in Query |-> {}], token |-> [q \in Query |-> 0],
   shown |-> [q \in Query |-> {}]]

NoLimbo == [active |-> {}, received |-> {}, enqueued |-> <<>>]

NoRemote ==
  [targets |-> {}, resume |-> [t \in Target |-> 0], stream |-> "off", idle |-> FALSE,
   tracked |-> {}, state |-> [t \in Target |-> FreshState], updates |-> NoUpdates,
   resets |-> {}]

Init ==
  /\ history \in {<<S>> : S \in SUBSET Doc}
  /\ call = NoCall
  /\ disk = [cache |-> NoUpdates, keys |-> [q \in Query |-> {}],
             token |-> [q \in Query |-> 0], lastVersion |-> 0]
  /\ views = NoViews
  /\ limbo = NoLimbo
  /\ remote = NoRemote
  /\ online = Settled("Unknown")
  /\ asserted = TRUE

\* addSnapshotListener: the view starts from the cache, the stream from the
\* saved resume token.
Listen(q) ==
  LET token == disk.token[q]
      vw == [views EXCEPT !.listening = @ \cup {q}, !.synced[q] = disk.keys[q],
                          !.token[q] = token]
      r  == [remote EXCEPT !.targets = @ \cup {q}, !.resume[q] = token]
  IN  /\ q \notin views.listening
      /\ remote' = CASE remote.stream = "off"      -> Cleaned(r, "starting")
                     [] remote.stream = "starting" -> r
                     [] remote.stream = "open"     -> [Expects(r, {q}, 1) EXCEPT !.idle = FALSE]
      /\ call' = IF remote.stream = "open" THEN Sends(call, <<Watch(q, token)>>) ELSE call
      /\ online' = IF remote.stream = "off" THEN Started(online) ELSE online
      /\ asserted' = (asserted /\ (remote.stream = "off" => ~online.timer))
      /\ views' = Raise(vw, disk.cache, online'.state)
      /\ UNCHANGED <<history, disk, limbo>>

\* Mutant of the next action: limbo targets are not watched again.
WatchesQueries ==
  /\ remote.stream = "starting"
  /\ remote' = Expects([remote EXCEPT !.stream = "open"], remote.targets \cap Query, 1)
  /\ \E v \in 1..Now :
     \E requests \in SetToSeqs({Watch(t, remote.resume[t]) : t \in remote.targets \cap Query}) :
       call' = [NoCall EXCEPT !.version = v, !.requests = requests]
  /\ UNCHANGED <<history, disk, views, limbo, online, asserted>>

\* OnWatchStreamOpen: the targets are watched in the order of a hash table.  The
\* call begins with some version the server has.
StreamOpens ==
  /\ remote.stream = "starting"
  /\ remote' = Expects([remote EXCEPT !.stream = "open"], remote.targets, 1)
  /\ \E v \in 1..Now :
     \E requests \in SetToSeqs({Watch(t, remote.resume[t]) : t \in remote.targets}) :
       /\ StaleReads \/ v >= disk.lastVersion
       /\ call' = [NoCall EXCEPT !.version = v, !.requests = requests]
  /\ UNCHANGED <<history, disk, views, limbo, online, asserted>>

GoesOnline(o) ==
  /\ online' = o
  /\ views' = Raise(WithOnlineState(views, o.state), disk.cache, o.state)

\* OnWatchStreamClose with an error: the stream starts again if it is needed.
CallBreaks ==
  /\ remote.stream \in {"starting", "open"}
  /\ call' = NoCall
  /\ IF remote.targets # {}
       THEN /\ remote' = Cleaned(remote, "starting")
            /\ GoesOnline(Started(Failed(online)))
            /\ asserted' = (asserted /\ ~(online.state = "Online" /\ online.timer))
       ELSE /\ remote' = Cleaned(remote, "off")
            /\ GoesOnline(Settled("Unknown"))
            /\ UNCHANGED asserted
  /\ UNCHANGED <<history, disk, limbo>>

\* RestartNetwork, after a change of credentials or connectivity.
RestartNetwork ==
  /\ call' = NoCall
  /\ remote' = Cleaned(remote, IF remote.targets # {} THEN "starting" ELSE "off")
  /\ GoesOnline(IF remote.targets # {} THEN Started(Settled("Unknown"))
                ELSE Settled("Unknown"))
  /\ UNCHANGED <<history, disk, limbo, asserted>>

OnlineTimeout ==
  /\ online.timer
  /\ asserted' = (asserted /\ online.state = "Unknown")
  /\ GoesOnline([online EXCEPT !.state = "Offline", !.timer = FALSE])
  /\ UNCHANGED <<history, call, disk, limbo, remote>>

\* The idle timer stops the stream; it must not be needed.
IdleTimeout ==
  /\ remote.idle
  /\ call' = NoCall
  /\ remote' = Cleaned(remote, "off")
  /\ GoesOnline(Settled("Unknown"))
  /\ asserted' = (asserted /\ remote.targets = {})
  /\ UNCHANGED <<history, disk, limbo>>

\* The process dies; LevelDB stays.
Relaunch ==
  /\ call' = NoCall
  /\ views' = NoViews
  /\ limbo' = NoLimbo
  /\ remote' = NoRemote
  /\ online' = Settled("Unknown")
  /\ UNCHANGED <<history, disk, asserted>>

-----------------------------------------------------------------------------
(* The server, and what the client does with each message.                 *)

\* The server reads a later version.
ServerReads ==
  /\ remote.stream = "open"
  /\ \E v \in (call.version + 1)..Now : call' = [call EXCEPT !.version = v]
  /\ UNCHANGED <<history, disk, views, limbo, remote, online, asserted>>

Serves(op, t) ==
  /\ remote.stream = "open" /\ call.requests # <<>>
  /\ Head(call.requests).op = op /\ Head(call.requests).target = t

Served(c) == [c EXCEPT !.requests = Tail(@)]

\* Mutant of the next operator: the timer goes on.
ReceivedUnderTimer(r, c) ==
  /\ remote' = r
  /\ call' = c
  /\ online' = [online EXCEPT !.state = "Online", !.failed = FALSE]
  /\ UNCHANGED <<history, disk, views, limbo, asserted>>

\* A message that makes no snapshot: the aggregator takes it in.
Received(r, c) ==
  /\ remote' = r
  /\ call' = c
  /\ online' = Settled("Online")
  /\ UNCHANGED <<history, disk, views, limbo, asserted>>

\* The server takes a watch and continues from its token: with every change
\* since, with an existence filter in place of the deletions, or not at all.
ServerAdds(t) ==
  LET token == Head(call.requests).token
      v     == IF call.version > token THEN call.version ELSE token
  IN  /\ Serves("watch", t)
      /\ \E owed \in IF token = 0 THEN {"none"} ELSE {"none", "filter", "reset"} :
           Received(TargetAdded(remote, t),
                    [Served(call) EXCEPT
                      !.version = v,
                      !.watched = @ \cup {t},
                      !.owed[t] = owed,
                      !.have[t] = [d \in Doc |->
                         IF owed = "filter" /\ At(t, v)[d] = 0 THEN 0 ELSE At(t, token)[d]]])

ServerRemoves(t) ==
  /\ Serves("unwatch", t)
  /\ Received(TargetRemoved(remote, t),
              [Served(call) EXCEPT !.watched = @ \ {t}, !.current = @ \ {t},
                                   !.owed[t] = "none", !.have[t] = Nothing])

ServerResets(t) ==
  /\ t \in call.watched /\ call.owed[t] = "reset"
  /\ Received(TargetReset(remote, t),
              [call EXCEPT !.owed[t] = "none", !.have[t] = Nothing, !.current = @ \ {t}])

Behind(t, d) ==
  t \in call.watched /\ call.owed[t] # "reset" /\ call.have[t][d] # At(t, call.version)[d]

ServerSends(d) ==
  LET T == {t \in call.watched : Behind(t, d)}
  IN  /\ T # {}
      /\ Received(HandleDocumentChange(remote, T, d, DocumentAt(d, call.version)),
                  [call EXCEPT !.have = [t \in Target |->
                     IF t \in T THEN [@[t] EXCEPT ![d] = At(t, call.version)[d]] ELSE @[t]]])

Complete(t) == t \in call.watched /\ call.have[t] = At(t, call.version)

\* Filters are truthful.
ServerFilters(t) ==
  /\ Complete(t)
  /\ \/ call.owed[t] = "filter"
     \/ t \in LimboTarget /\ t \notin call.current
  /\ Received(HandleExistenceFilter(remote, t,
                                    Cardinality({d \in Doc : call.have[t][d] # 0})),
              [call EXCEPT !.owed[t] = "none"])

ServerCurrent(t) ==
  /\ Complete(t) /\ call.owed[t] = "none" /\ t \notin call.current
  /\ Received(TargetCurrent(remote, t, call.version), [call EXCEPT !.current = @ \cup {t}])

\* A snapshot older than the last one is not raised.
ServerSnapshot ==
  LET r == AllTargetsAt(remote, call.version)
  IN  /\ call.watched # {}
      /\ \A t \in call.watched : Complete(t) /\ call.owed[t] = "none" /\ t \in call.current
      /\ IF call.version < disk.lastVersion THEN Received(r, call)
         ELSE /\ RaiseWatchSnapshot(r, call, call.version)
              /\ online' = Settled("Online")
              /\ UNCHANGED history

\* ProcessTargetError and HandleRejectedListen.  A limbo document is purged, a
\* query is forgotten with its view; what the app shows stays.
RejectedLimbo(t, r, c) ==
  LET cache == [disk.cache EXCEPT ![t[1]] = NoUpdate]
      lb    == [limbo EXCEPT !.active = @ \ {t}, !.received = @ \ {t}]
  IN  /\ disk' = [disk EXCEPT !.cache = cache]
      /\ Emits(views, lb, r, c, cache, TRUE)

RejectedQuery(q, r, c) ==
  LET vw == [views EXCEPT !.listening = @ \ {q}, !.raised = @ \ {q}, !.synced[q] = {},
                          !.current[q] = FALSE, !.limbo[q] = {}, !.token[q] = 0]
  IN  /\ disk' = [disk EXCEPT !.token[q] = views.token[q]]
      /\ Emits(vw, limbo, r, c, disk.cache, TRUE)

ServerRefuses(t) ==
  LET c == Served(call)
      r == [WithoutState(remote, t) EXCEPT !.targets = @ \ {t}, !.resume[t] = 0]
  IN  /\ t \in Refusable /\ Serves("watch", t)
      /\ online' = Settled("Online")
      /\ IF t \notin remote.targets
           THEN remote' = remote /\ call' = c /\ UNCHANGED <<disk, views, limbo, asserted>>
         ELSE IF t \in limbo.active THEN RejectedLimbo(t, r, c)
         ELSE RejectedQuery(t, r, c)
      /\ UNCHANGED history

-----------------------------------------------------------------------------
ServerStep ==
  \/ ServerReads
  \/ \E d \in Doc : ServerSends(d)
  \/ \E t \in Target :
       \/ ServerAdds(t)
       \/ ServerRemoves(t)
       \/ ServerResets(t)
       \/ ServerFilters(t)
       \/ ServerCurrent(t)
  \/ ServerSnapshot

Disturbance ==
  \/ CallBreaks
  \/ RestartNetwork
  \/ Relaunch

Next ==
  \/ \E d \in Doc : DatabaseChanges(d)
  \/ \E q \in Query : Listen(q)
  \/ StreamOpens
  \/ OnlineTimeout
  \/ IdleTimeout
  \/ ServerStep
  \/ \E t \in Refusable : ServerRefuses(t)
  \/ Disturbance

Spec == Init /\ [][Next]_vars

\* The stream opens in the end and the server, while it has a call, serves it.
FairSpec == Spec /\ WF_vars(StreamOpens) /\ WF_vars(ServerStep)

-----------------------------------------------------------------------------
(* Properties.                                                             *)

\* Targets are served one after the other and share one cache: what one of them
\* brings is seen at once by every view that has the document.  The feed shares
\* posts with the profile page, so of those two the next property says nothing
\* once both are listened to; it is about the profiles' queries, and a feed alone.
Alone(q) == \A p \in Query \ {q} : Matches[p] \cap Matches[q] = {}

\* A view that says it is in step with the server has the documents of one
\* version of the database, and not one older than its resume token.
SyncedIsServerState ==
  \A q \in views.listening :
    Synced(views, q) /\ Alone(q) =>
      \E v \in views.token[q]..disk.lastVersion : Docs(q, disk.cache) = Result(q, v)

\* Whatever calls broke, tokens were refused and targets were reset before it, a
\* view that says it is in step shows what the server has, as long as no
\* existence filter fails to match.
SyncedUnlessFilterFails == [](remote.resets = {}) => []SyncedIsServerState

\* What the disk remembers of a query holds together at any moment the process
\* may die: the documents of the version the resume token names, which the
\* server will not send again, are in the cache.  One that is not has been
\* deleted since, and the server will say so.
ResumeIsSafe ==
  \A q \in Query : \A d \in Result(q, disk.token[q]) :
    \/ disk.cache[d].version >= Created(d, disk.token[q])
    \/ \E v \in disk.token[q]..disk.lastVersion : d \notin Result(q, v)

\* No document of a view is left in doubt with nobody asking about it: its
\* limbo target is listened to, or it waits in the queue because there is no
\* room.
LimboIsResolved ==
  /\ \A q \in views.listening : \A d \in views.limbo[q] \cap Docs(q, disk.cache) :
       \/ \E t \in limbo.active : t[1] = d /\ t \in remote.targets
       \/ /\ \E i \in 1..Len(limbo.enqueued) : limbo.enqueued[i] = d
          /\ Cardinality(limbo.active) = MaxConcurrentLimboResolutions
  /\ limbo.active = remote.targets \cap LimboTarget

\* The client takes every message of a target for what the server means by it:
\* it waits for exactly the answers to its requests under way, and otherwise
\* the server watches exactly what it listens to.
WatchesInStep ==
  remote.stream = "open" =>
    \A t \in Target :
      LET waiting == {i \in 1..Len(call.requests) : call.requests[i].target = t} IN
      /\ t \in remote.targets => remote.state[t].outstanding = Cardinality(waiting)
      /\ waiting = {} => (t \in call.watched) = (t \in remote.targets)

\* The resume token of a query on the disk names the version of its keys there:
\* the server, given the token, sends what changed since, and the keys are what
\* the changes are applied to.
KeysFollowToken ==
  \A q \in Query : disk.token[q] # 0 => disk.keys[q] = Result(q, disk.token[q])

\* The HARD_ASSERTs on the way of a snapshot, of limbo documents and of the
\* online state hold.
AssertionsHold == asserted

\* Once calls stop breaking, a listener of a query gets the documents of the
\* database as it is; unless an existence filter failed to match, or documents
\* have to wait for a limbo target for ever.
ListenersConverge ==
  \A q \in Query :
    /\ [](remote.resets = {})
    /\ <>[][~Disturbance]_vars
    /\ <>[](q \in views.listening)
    /\ []<>(limbo.enqueued = <<>>)
    => <>[](q \in views.raised /\ views.shown[q] = Result(q, Now))
=============================================================================
