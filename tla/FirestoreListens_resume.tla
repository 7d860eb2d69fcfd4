----------------------- MODULE FirestoreListens_resume -----------------------
(***************************************************************************)
(* What the client knows of the database, proved for every instance of     *)
(* FirestoreListens: the disk can be resumed from at any moment, and a     *)
(* view that says it is in step has what the server has, as long as        *)
(* existence filters match.                                                *)
(*                                                                         *)
(* A document is born at a version if it is there and was not before.  The *)
(* invariant says of every resume token and of everything the server has   *)
(* sent which births the cache, or the changes not handed over yet, have;  *)
(* or that the document was away since, so that the server has to speak of *)
(* it again.  The predicates take the parts of the state as parameters: h  *)
(* the history, dk the disk, vw the views, lb the limbo resolutions, r and *)
(* c the two ends of the stream.                                           *)
(*                                                                         *)
(* The second invariant says of a query's keys that they are its documents *)
(* at the version of its resume token, and what the server counts as sent  *)
(* is what the aggregator will make of the keys.                           *)
(***************************************************************************)
EXTENDS FirestoreListens_proofs

-----------------------------------------------------------------------------
(* The inductive invariant of the resume tokens.                           *)

Birth(h, d, b) == b \in 1..Len(h) /\ d \in h[b] /\ (b = 1 \/ d \notin h[b - 1])

\* The document was away at one of the versions a to b.
Away(h, d, a, b) == \E k \in 1..Len(h) : a <= k /\ k <= b /\ d \notin h[k]

\* The cache has no purged document, and what it has as deleted was deleted.
CacheInv(h, dk) ==
  \A d \in Doc :
    /\ dk.cache[d].kind # "purged"
    /\ dk.cache[d].kind = "none" => dk.cache[d].version = 0
    /\ dk.cache[d].kind = "deleted" =>
         dk.cache[d].version \in 1..dk.lastVersion /\ d \notin h[dk.cache[d].version]

\* A call reads no version older than the last snapshot.
VersionInv(h, dk, r, c) ==
  /\ dk.lastVersion <= Len(h)
  /\ r.stream = "open" => c.version \in 1..Len(h) /\ dk.lastVersion <= c.version

\* A change not handed over yet that takes a document away is true.
UpdatesInv(h, dk, r, c) ==
  \A d \in Doc :
    /\ r.updates[d].kind = "deleted" =>
         r.updates[d].version \in 1..c.version /\ d \notin h[r.updates[d].version]
    /\ r.updates[d].kind = "purged" => Away(h, d, dk.lastVersion, c.version)

\* The server counts a document as sent that has been there since.
HaveInv(h, c) ==
  \A t \in Target : \A d \in Doc : c.have[t][d] # 0 =>
    /\ t \in c.watched /\ d \in Scope(t)
    /\ Birth(h, d, c.have[t][d]) /\ c.have[t][d] <= c.version

\* No resume token is newer than the last snapshot.
OldTokens(dk, vw, r, c) ==
  /\ \A q \in Query : dk.token[q] <= dk.lastVersion /\ vw.token[q] <= dk.lastVersion
  /\ \A t \in Target : r.resume[t] <= dk.lastVersion
  /\ \A i \in 1..Len(c.requests) : c.requests[i].token <= dk.lastVersion

\* The documents a query had at version w are known, or have been away since.
Known(h, dk, q, w) ==
  \A d \in Matches[q] : w # 0 /\ d \in h[w] =>
    \/ Away(h, d, w, dk.lastVersion)
    \/ \E b \in 1..w : Birth(h, d, b) /\ ~Away(h, d, b, w) /\ b <= dk.cache[d].version

\* So it is for every token that a query has, or that is under way.
TokensInv(h, dk, vw, r, c) ==
  \A q \in Query :
    /\ Known(h, dk, q, dk.token[q])
    /\ Known(h, dk, q, vw.token[q])
    /\ Known(h, dk, q, r.resume[q])
    /\ \A i \in 1..Len(c.requests) :
         c.requests[i].target = q => Known(h, dk, q, c.requests[i].token)

\* The client takes what is sent to this target.
Live(r, t) == t \in r.targets /\ r.state[t].outstanding = 0

\* The version of the document after the next snapshot.
Newest(dk, r, d) == Newer(dk.cache[d], r.updates[d]).version

\* What a query was sent is known, or has been away since.
Delivered(h, dk, r, c, q) ==
  Live(r, q) => \A d \in Matches[q] : c.have[q][d] # 0 =>
    Newest(dk, r, d) >= c.have[q][d] \/ Away(h, d, c.have[q][d], c.version)
DeliveredInv(h, dk, r, c) == \A q \in Query : Delivered(h, dk, r, c, q)

\* A limbo document that was there at version w has been received.
ReceivedAt(h, lb, t, w) == w # 0 /\ t[1] \in h[w] => t \in lb.received

LimboTokens(h, lb, r, c) ==
  \A t \in LimboTarget :
    /\ ReceivedAt(h, lb, t, r.resume[t])
    /\ t \in r.targets => \A i \in 1..Len(c.requests) :
         c.requests[i].target = t => ReceivedAt(h, lb, t, c.requests[i].token)

\* A limbo document that was sent has been received or is about to be.
LimboSent(lb, r, c, t) ==
  Live(r, t) /\ c.have[t][t[1]] # 0 =>
    r.state[t].docs[t[1]] \in
      IF t \in lb.received THEN {"none", "added", "modified"} ELSE {"added"}
LimboInv(lb, r, c) == \A t \in LimboTarget : LimboSent(lb, r, c, t)

\* A document recorded as there comes with a change of it.
Explained(r, t) ==
  Live(r, t) => \A d \in Doc :
    r.state[t].docs[d] \in {"added", "modified"} => r.updates[d].kind # "none"
ChangesInv(r) == \A t \in Target : Explained(r, t)

\* The aggregator knows all targets of an open stream; there is none without.
TrackedInv(r) ==
  IF r.stream = "open" THEN r.targets \subseteq r.tracked ELSE r.updates = NoUpdates

Resumable(h, dk, vw, lb, r, c) ==
  /\ CacheInv(h, dk)
  /\ VersionInv(h, dk, r, c)
  /\ UpdatesInv(h, dk, r, c)
  /\ HaveInv(h, c)
  /\ OldTokens(dk, vw, r, c)
  /\ TokensInv(h, dk, vw, r, c)
  /\ DeliveredInv(h, dk, r, c)
  /\ LimboTokens(h, lb, r, c)
  /\ LimboInv(lb, r, c)
  /\ ChangesInv(r)
  /\ TrackedInv(r)

ResumeInv == Resumable(history, disk, views, limbo, remote, call)

-----------------------------------------------------------------------------
(* Lemmas about births and absences.                                       *)

\* A document that is there was born at one version and not away since.
LEMMA CreatedIs ==
  ASSUME history \in Seq(SUBSET Doc), NEW d, NEW v \in 1..Now
  PROVE  IF d \in history[v]
           THEN /\ Created(d, v) \in 1..v /\ Created(d, v) = Since(d, v)
                /\ Birth(history, d, Created(d, v)) /\ ~Away(history, d, Created(d, v), v)
           ELSE Created(d, v) = 0
<1>1. v \in Nat \ {0} /\ Now \in Nat /\ v <= Now
  BY DEF Now
<1>2. CASE d \notin history[v]
  BY <1>2 DEF Created
<1>3. CASE d \in history[v]
  <2> DEFINE w == Since(d, v)
  <2>1. /\ w \in 1..v
        /\ \A k \in w..v : (d \in history[k]) = (d \in history[v])
        /\ w = 1 \/ (d \in history[w - 1]) # (d \in history[v])
    BY <1>1, SinceIs
  <2>2. Created(d, v) = w
    BY <1>1, <1>3 DEF Created
  <2> HIDE DEF w
  <2>3. w \in 1..Now /\ w \in w..v
    BY <1>1, <2>1
  <2>4. Birth(history, d, w)
    BY <1>3, <2>1, <2>3 DEF Birth, Now
  <2>5. ~Away(history, d, w, v)
    BY <1>1, <1>3, <2>1 DEF Away
  <2> QED
    BY <1>3, <2>1, <2>2, <2>4, <2>5 DEF w
<1> QED
  BY <1>2, <1>3

\* A document that is there has been born once since it was away.
LEMMA OneBirth ==
  ASSUME NEW h \in Seq(SUBSET Doc), NEW d, NEW v \in Nat,
         NEW b \in 1..v, Birth(h, d, b), ~Away(h, d, b, v),
         NEW c \in 1..v, Birth(h, d, c), ~Away(h, d, c, v)
  PROVE  b = c
<1>1. Len(h) \in Nat
  OBVIOUS
<1>2. ~ (b < c)
  <2> SUFFICES ASSUME b < c
               PROVE  FALSE
    OBVIOUS
  <2>1. c - 1 \in 1..Len(h) /\ b <= c - 1 /\ c - 1 <= v /\ d \notin h[c - 1]
    BY <1>1 DEF Birth
  <2> QED
    BY <2>1 DEF Away
<1>3. ~ (c < b)
  <2> SUFFICES ASSUME c < b
               PROVE  FALSE
    OBVIOUS
  <2>1. b - 1 \in 1..Len(h) /\ c <= b - 1 /\ b - 1 <= v /\ d \notin h[b - 1]
    BY <1>1 DEF Birth
  <2> QED
    BY <2>1 DEF Away
<1> QED
  BY <1>2, <1>3

LEMMA AwayLonger ==
  ASSUME NEW h \in Seq(SUBSET Doc), NEW d
  PROVE  \A a, b, a2, b2 \in Nat :
           Away(h, d, a, b) /\ a2 <= a /\ b <= b2 => Away(h, d, a2, b2)
<1>1. Len(h) \in Nat
  OBVIOUS
<1> QED
  BY <1>1 DEF Away

-----------------------------------------------------------------------------
(* Lemmas about the parts of the invariant.                                *)

LEMMA Types ==
  ASSUME TypeOK
  PROVE  /\ history \in Seq(SUBSET Doc) /\ Now \in Nat /\ Now >= 1 /\ Now <= MaxVersion
         /\ disk.cache \in [Doc -> Update] /\ disk.keys \in [Query -> SUBSET Doc]
         /\ disk.token \in [Query -> Version] /\ disk.lastVersion \in Version
         /\ views.listening \subseteq Query /\ views.synced \in [Query -> SUBSET Doc]
         /\ views.current \in [Query -> BOOLEAN] /\ views.limbo \in [Query -> SUBSET Doc]
         /\ views.token \in [Query -> Version]
         /\ limbo.active \subseteq LimboTarget /\ limbo.received \subseteq LimboTarget
         /\ views \in Views /\ limbo \in Limbo /\ remote \in Remote /\ call \in Call
         /\ disk \in Disk
  BY BoundsAssumption DEF TypeOK, Disk, Views, Limbo, Now

LEMMA VersionIs ==
  ASSUME NEW v \in Version
  PROVE  v \in Nat /\ v <= MaxVersion
  BY BoundsAssumption DEF Version

LEMMA UpdateIs ==
  ASSUME NEW u \in Update
  PROVE  u.kind \in {"none", "doc", "deleted", "purged"} /\ u.version \in Nat
  BY BoundsAssumption DEF Update, Version

LEMMA TargetIs ==
  /\ \A q \in Query : q \in Target /\ q \notin LimboTarget /\ Scope(q) = Matches[q]
                      /\ Matches[q] \subseteq Doc
  /\ \A t \in LimboTarget : t \in Target /\ t \notin Query /\ t[1] \in Doc /\ Scope(t) = {t[1]}
  /\ \A t \in Target : t \in Query \/ t \in LimboTarget
<1>1. \A t \in LimboTarget : t[1] \in Doc
  BY DEF LimboTarget
<1> QED
  BY <1>1, NamesAssumption, MatchesAssumption DEF Target, Scope

\* What the next snapshot does to a document.
LEMMA NewestIs ==
  ASSUME NEW dk, NEW r, NEW d, dk.cache[d] \in Update, r.updates[d] \in Update,
         dk.cache[d].kind = "none" => dk.cache[d].version = 0
  PROVE  /\ Newest(dk, r, d) \in Nat
         /\ r.updates[d].kind # "purged" => Newest(dk, r, d) >= dk.cache[d].version
         /\ r.updates[d].kind \in {"doc", "deleted"} => Newest(dk, r, d) >= r.updates[d].version
<1>1. /\ dk.cache[d].version \in Nat /\ r.updates[d].version \in Nat
      /\ r.updates[d].kind \in {"none", "doc", "deleted", "purged"}
  BY UpdateIs
<1>2. NoUpdate.version = 0
  BY DEF NoUpdate
<1> QED
  BY <1>1, <1>2 DEF Newest, Newer

\* On an open stream, the client takes what is sent to its active targets.
LEMMA LiveIsActive ==
  ASSUME NEW r, r.stream = "open", TrackedInv(r), NEW t
  PROVE  IsActive(r, t) <=> Live(r, t)
  BY DEF IsActive, Pending, Live, TrackedInv

\* The server watches the targets for which nothing is under way.
LEMMA LiveIsWatched ==
  ASSUME NEW r \in Remote, NEW c \in Call, InStep(r, c), NEW t \in Target, Live(r, t)
  PROVE  t \in c.watched /\ Waiting(c.requests, t) = {}
<1>1. c.requests \in Seq(Request)
  BY CallFields
<1>2. Cardinality(Waiting(c.requests, t)) = 0
  BY DEF InStep, Counted, Live
<1>3. Waiting(c.requests, t) = {}
  BY <1>1, <1>2, WaitingType
<1> QED
  BY <1>3 DEF InStep, Agreed, Live

\* A version of the database stays what it was.
Extends(h, h2) ==
  /\ h \in Seq(SUBSET Doc) /\ h2 \in Seq(SUBSET Doc)
  /\ Len(h) <= Len(h2) /\ \A k \in 1..Len(h) : h2[k] = h[k]

LEMMA BirthStays ==
  ASSUME NEW h, NEW h2, Extends(h, h2), NEW d
  PROVE  /\ \A b : Birth(h, d, b) => Birth(h2, d, b)
         /\ \A a \in Nat : \A b \in Nat : b <= Len(h) => Away(h2, d, a, b) = Away(h, d, a, b)
<1>1. Len(h) \in Nat /\ Len(h2) \in Nat
  BY DEF Extends
<1>2. \A b : Birth(h, d, b) => Birth(h2, d, b)
  <2> SUFFICES ASSUME NEW b, Birth(h, d, b)
               PROVE  Birth(h2, d, b)
    OBVIOUS
  <2>1. b \in 1..Len(h) /\ b \in 1..Len(h2) /\ h2[b] = h[b]
    BY <1>1 DEF Birth, Extends
  <2>2. b # 1 => b - 1 \in 1..Len(h) /\ h2[b - 1] = h[b - 1]
    BY <1>1, <2>1 DEF Extends
  <2> QED
    BY <2>1, <2>2 DEF Birth
<1>3. ASSUME NEW a \in Nat, NEW b \in Nat, b <= Len(h)
      PROVE  Away(h2, d, a, b) = Away(h, d, a, b)
  <2>1. \A k \in 1..Len(h2) : k <= b => k \in 1..Len(h)
    BY <1>1, <1>3
  <2>2. \A k \in 1..Len(h) : k \in 1..Len(h2) /\ h2[k] = h[k]
    BY <1>1 DEF Extends
  <2> QED
    BY <2>1, <2>2 DEF Away
<1> QED
  BY <1>2, <1>3

\* The invariant says nothing of versions still to come.
LEMMA ExtendsKeeps ==
  ASSUME NEW h, NEW h2, Extends(h, h2), NEW dk \in Disk, NEW vw \in Views, NEW lb,
         NEW r \in Remote, NEW c \in Call, c.version <= Len(h), Resumable(h, dk, vw, lb, r, c)
  PROVE  Resumable(h2, dk, vw, lb, r, c)
<1>1. /\ Len(h) \in Nat /\ Len(h2) \in Nat /\ Len(h) <= Len(h2)
      /\ \A k \in 1..Len(h) : k \in 1..Len(h2) /\ h2[k] = h[k]
  BY DEF Extends
<1>2. /\ dk.token \in [Query -> Version] /\ dk.lastVersion \in Version
      /\ vw.token \in [Query -> Version] /\ r.resume \in [Target -> Version]
      /\ c.version \in Version /\ c.have \in [Target -> [Doc -> Version]]
      /\ c.requests \in Seq(Request)
  BY RemoteFields, CallFields DEF Disk, Views
<1>3. dk.lastVersion \in Nat /\ c.version \in Nat /\ dk.lastVersion <= Len(h)
  BY <1>2, VersionIs DEF Resumable, VersionInv
<1>4. /\ \A d : \A b : Birth(h, d, b) => Birth(h2, d, b)
      /\ \A d : \A a \in Nat : \A b \in Nat :
           b <= Len(h) => Away(h2, d, a, b) = Away(h, d, a, b)
  BY BirthStays
<1>5. CacheInv(h2, dk)
  <2>1. CacheInv(h, dk)
    BY DEF Resumable
  <2>2. \A w \in 1..dk.lastVersion : h2[w] = h[w]
    BY <1>1, <1>3
  <2> QED
    BY <2>1, <2>2 DEF CacheInv
<1>6. VersionInv(h2, dk, r, c)
  BY <1>1, <1>3, <1>2 DEF Resumable, VersionInv
<1>7. UpdatesInv(h2, dk, r, c)
  <2>1. UpdatesInv(h, dk, r, c)
    BY DEF Resumable
  <2>2. \A w \in 1..c.version : h2[w] = h[w]
    BY <1>1, <1>3
  <2>3. \A d : Away(h2, d, dk.lastVersion, c.version) = Away(h, d, dk.lastVersion, c.version)
    BY <1>3, <1>4
  <2> QED
    BY <2>1, <2>2, <2>3 DEF UpdatesInv
<1>8. HaveInv(h2, c)
  BY <1>4 DEF Resumable, HaveInv
<1>9. \A q \in Query : \A w \in Nat :
        w <= dk.lastVersion /\ Known(h, dk, q, w) => Known(h2, dk, q, w)
  <2> SUFFICES ASSUME NEW q \in Query, NEW w \in Nat, w <= dk.lastVersion, Known(h, dk, q, w),
                      NEW d \in Matches[q], w # 0, d \in h2[w]
               PROVE  \/ Away(h2, d, w, dk.lastVersion)
                      \/ \E b \in 1..w : Birth(h2, d, b) /\ ~Away(h2, d, b, w)
                                           /\ b <= dk.cache[d].version
    BY DEF Known
  <2>1. d \in h[w]
    BY <1>1, <1>3
  <2>2. CASE Away(h, d, w, dk.lastVersion)
    BY <1>3, <1>4, <2>2
  <2>3. CASE \E b \in 1..w : Birth(h, d, b) /\ ~Away(h, d, b, w) /\ b <= dk.cache[d].version
    <3>1. PICK b \in 1..w : Birth(h, d, b) /\ ~Away(h, d, b, w) /\ b <= dk.cache[d].version
      BY <2>3
    <3>2. b \in Nat /\ w <= Len(h)
      BY <1>1, <1>3
    <3> QED
      BY <1>4, <3>1, <3>2
  <2> QED
    BY <2>1, <2>2, <2>3 DEF Known
<1>10. \A i \in 1..Len(c.requests) : c.requests[i].token \in Nat
  BY <1>2, RequestFields, VersionIs
<1>11. OldTokens(dk, vw, r, c)
  BY DEF Resumable
<1>12. TokensInv(h2, dk, vw, r, c)
  <2>1. TokensInv(h, dk, vw, r, c)
    BY DEF Resumable
  <2>2. \A q \in Query : q \in Target
    BY TargetIs
  <2>3. \A q \in Query : dk.token[q] \in Nat /\ vw.token[q] \in Nat /\ r.resume[q] \in Nat
    BY <1>2, <2>2, VersionIs
  <2> QED
    BY <1>9, <1>10, <1>11, <2>1, <2>2, <2>3 DEF TokensInv, OldTokens
<1>13. DeliveredInv(h2, dk, r, c)
  <2>1. \A q \in Query : \A d \in Matches[q] : c.have[q][d] \in Nat
    BY <1>2, VersionIs, TargetIs
  <2> QED
    BY <1>3, <1>4, <2>1 DEF Resumable, DeliveredInv, Delivered
<1>14. LimboTokens(h2, lb, r, c)
  <2>1. LimboTokens(h, lb, r, c)
    BY DEF Resumable
  <2>2. \A t : \A w \in Nat :
          w <= dk.lastVersion /\ ReceivedAt(h, lb, t, w) => ReceivedAt(h2, lb, t, w)
    BY <1>1, <1>3 DEF ReceivedAt
  <2>3. \A t \in LimboTarget : t \in Target /\ r.resume[t] \in Nat /\ r.resume[t] <= dk.lastVersion
    BY <1>2, <1>11, VersionIs, TargetIs DEF OldTokens
  <2>4. \A i \in 1..Len(c.requests) : c.requests[i].token <= dk.lastVersion
    BY <1>11 DEF OldTokens
  <2> QED
    BY <1>10, <2>1, <2>2, <2>3, <2>4 DEF LimboTokens
<1> QED
  BY <1>5, <1>6, <1>7, <1>8, <1>11, <1>12, <1>13, <1>14 DEF Resumable

\* What a message that records no change of a document leaves to show.
LEMMA Quietly ==
  ASSUME TypeOK, ResumeInv, remote.stream = "open", NEW r \in Remote, NEW c \in Call,
         r.targets = remote.targets, r.stream = remote.stream, r.resume = remote.resume,
         r.updates = remote.updates,
         c.version >= call.version, c.version <= Now,
         \A i \in 1..Len(c.requests) : \E j \in 1..Len(call.requests) :
           c.requests[i] = call.requests[j],
         HaveInv(history, c), DeliveredInv(history, disk, r, c),
         LimboInv(limbo, r, c), ChangesInv(r), TrackedInv(r)
  PROVE  Resumable(history, disk, views, limbo, r, c)
<1>1. /\ history \in Seq(SUBSET Doc) /\ disk.lastVersion \in Nat
      /\ call.version \in Nat /\ c.version \in Nat /\ Now = Len(history)
  BY Types, CallFields, VersionIs DEF Now
<1>2. Resumable(history, disk, views, limbo, remote, call)
  BY DEF ResumeInv
<1>3. CacheInv(history, disk)
  BY <1>2 DEF Resumable
<1>4. VersionInv(history, disk, r, c)
  BY <1>1, <1>2 DEF Resumable, VersionInv
<1>5. UpdatesInv(history, disk, r, c)
  <2>1. UpdatesInv(history, disk, remote, call)
    BY <1>2 DEF Resumable
  <2>2. \A d : Away(history, d, disk.lastVersion, call.version)
                 => Away(history, d, disk.lastVersion, c.version)
    <3>1. Len(history) \in Nat
      BY <1>1
    <3> QED
      BY <1>1, <3>1 DEF Away
  <2>3. 1..call.version \subseteq 1..c.version
    BY <1>1
  <2> QED
    BY <2>1, <2>2, <2>3 DEF UpdatesInv
<1>6. OldTokens(disk, views, r, c)
  <2>1. OldTokens(disk, views, remote, call)
    BY <1>2 DEF Resumable
  <2> QED
    BY <2>1 DEF OldTokens
<1>7. TokensInv(history, disk, views, r, c)
  <2>1. TokensInv(history, disk, views, remote, call)
    BY <1>2 DEF Resumable
  <2> QED
    BY <2>1 DEF TokensInv
<1>8. LimboTokens(history, limbo, r, c)
  <2>1. LimboTokens(history, limbo, remote, call)
    BY <1>2 DEF Resumable
  <2> QED
    BY <2>1 DEF LimboTokens
<1> QED
  BY <1>3, <1>4, <1>5, <1>6, <1>7, <1>8 DEF Resumable

\* A query whose documents nothing happened to.
LEMMA StaysDelivered ==
  ASSUME TypeOK, ResumeInv, NEW r, NEW c \in Call, c.version >= call.version,
         NEW q \in Query, Live(r, q) => Live(remote, q), r.updates = remote.updates,
         c.have[q] = call.have[q]
  PROVE  Delivered(history, disk, r, c, q)
<1>1. Delivered(history, disk, remote, call, q)
  BY DEF ResumeInv, Resumable, DeliveredInv
<1>2. /\ history \in Seq(SUBSET Doc) /\ call.version \in Nat /\ c.version \in Nat
      /\ \A d \in Doc : call.have[q][d] \in Nat
      /\ Matches[q] \subseteq Doc
  BY Types, CallFields, VersionIs, TargetIs
<1>3. \A d \in Doc : Away(history, d, call.have[q][d], call.version)
                       => Away(history, d, c.have[q][d], c.version)
  BY <1>2, AwayLonger
<1>4. \A d : Newest(disk, r, d) = Newest(disk, remote, d)
  BY DEF Newest
<1> QED
  BY <1>1, <1>2, <1>3, <1>4 DEF Delivered

LEMMA NothingSent ==
  ASSUME NEW r, NEW c, NEW t, c.have[t] = Nothing
  PROVE  /\ t \in Query => \A h, dk : Delivered(h, dk, r, c, t)
         /\ t \in LimboTarget => \A lb : LimboSent(lb, r, c, t)
<1>1. \A d \in Doc : c.have[t][d] = 0
  BY DEF Nothing
<1> QED
  BY <1>1, TargetIs DEF Delivered, LimboSent

LEMMA Carried ==
  ASSUME NEW r, NEW c, Received(r, c), Resumable(history, disk, views, limbo, r, c)
  PROVE  ResumeInv'
<1>1. /\ remote' = r /\ call' = c /\ history' = history /\ disk' = disk /\ views' = views
      /\ limbo' = limbo
  BY DEF Received
<1> QED
  BY <1>1 DEF ResumeInv

-----------------------------------------------------------------------------
(* The database and the messages that make no snapshot.                    *)

LEMMA ChangesKeepResume ==
  ASSUME IInv, ResumeInv, NEW d \in Doc, DatabaseChanges(d)
  PROVE  ResumeInv'
<1>1. TypeOK /\ StreamInv
  BY DEF IInv
<1>2. /\ history \in Seq(SUBSET Doc) /\ Now \in Nat /\ Now >= 1 /\ disk \in Disk /\ views \in Views
      /\ remote \in Remote /\ call \in Call
  BY <1>1, Types
<1>3. /\ UNCHANGED <<call, disk, views, limbo, remote>>
      /\ \E S : history' = Append(history, S) /\ S \in {history[Now] \ {d}, history[Now] \cup {d}}
  BY DEF DatabaseChanges
<1>4. PICK S : history' = Append(history, S) /\ S \in {history[Now] \ {d}, history[Now] \cup {d}}
  BY <1>3
<1>5. S \in SUBSET Doc
  <2>1. Now \in 1..Len(history)
    BY <1>2 DEF Now
  <2>2. history[Now] \in SUBSET Doc
    BY <1>2, <2>1
  <2> QED
    BY <1>4, <2>2
<1>6. Extends(history, history')
  BY <1>2, <1>4, <1>5 DEF Extends
<1>7. call.version <= Len(history)
  <2>1. call = NoCall \/ call.version \in 1..Now
    BY <1>1 DEF ResumeInv, Resumable, VersionInv, StreamInv, Now
  <2>2. NoCall.version = 0
    BY NoCallType
  <2> QED
    BY <1>2, <2>1, <2>2 DEF Now
<1>8. Resumable(history', disk, views, limbo, remote, call)
  BY <1>2, <1>6, <1>7, ExtendsKeeps DEF ResumeInv
<1> QED
  BY <1>3, <1>8 DEF ResumeInv

LEMMA ReadsKeepResume ==
  ASSUME IInv, ResumeInv, ServerReads
  PROVE  ResumeInv'
<1>1. TypeOK
  BY DEF IInv
<1>2. /\ remote.stream = "open"
      /\ \E v \in (call.version + 1)..Now : call' = [call EXCEPT !.version = v]
      /\ UNCHANGED <<history, disk, views, limbo, remote>>
  BY DEF ServerReads
<1>3. PICK v \in (call.version + 1)..Now : call' = [call EXCEPT !.version = v]
  BY <1>2
<1>4. /\ call \in Call /\ call.version \in Nat /\ Now \in Nat /\ Now <= MaxVersion /\ remote \in Remote
      /\ call.have \in [Target -> [Doc -> Version]]
  BY <1>1, Types, CallFields, VersionIs
<1> DEFINE c == [call EXCEPT !.version = v]
<1>5. /\ c \in Call /\ c.version = v /\ c.requests = call.requests /\ c.watched = call.watched
      /\ c.have = call.have
  <2>1. v \in Version
    BY <1>4, BoundsAssumption DEF Version
  <2> QED
    BY <1>4, <2>1 DEF Call
<1> HIDE DEF c
<1>6. v \in Nat /\ v >= call.version /\ v <= Now
  BY <1>4
<1>7. HaveInv(history, c)
  <2>1. \A t \in Target : \A d \in Doc : call.have[t][d] \in Nat
    BY <1>4, VersionIs
  <2> QED
    BY <1>4, <1>5, <1>6, <2>1 DEF ResumeInv, Resumable, HaveInv
<1>8. DeliveredInv(history, disk, remote, c)
  BY <1>1, <1>5, <1>6, StaysDelivered DEF DeliveredInv
<1>9. LimboInv(limbo, remote, c)
  BY <1>5 DEF ResumeInv, Resumable, LimboInv, LimboSent
<1>10. ChangesInv(remote) /\ TrackedInv(remote)
  BY DEF ResumeInv, Resumable
<1>11. Resumable(history, disk, views, limbo, remote, c)
  BY <1>1, <1>2, <1>4, <1>5, <1>6, <1>7, <1>8, <1>9, <1>10, Quietly
<1> QED
  BY <1>2, <1>3, <1>11 DEF ResumeInv, c

\* A target that the server starts over with.
LEMMA ResetsKeepResume ==
  ASSUME IInv, ResumeInv, NEW t \in Target, ServerResets(t)
  PROVE  ResumeInv'
<1> DEFINE c == [call EXCEPT !.owed[t] = "none", !.have[t] = Nothing, !.current = @ \ {t}]
           r == TargetReset(remote, t)
<1>1. Received(r, c) /\ t \in call.watched
  BY DEF ServerResets
<1>2. /\ remote.stream = "open" /\ call \in Call /\ remote \in Remote /\ Sound(remote)
      /\ Kept(remote, r) /\ TypeOK
  BY <1>1, StateOfIInv, ResetsTarget DEF IInv
<1>3. /\ call.version \in Nat /\ Now \in Nat /\ call.have \in [Target -> [Doc -> Version]]
      /\ call.version <= Now
  BY <1>2, Types, CallFields, VersionIs DEF ResumeInv, Resumable, VersionInv, Now
<1>4. Nothing \in [Doc -> Version]
  BY BoundsAssumption DEF Nothing, Version
<1> HIDE DEF Nothing
<1>5. /\ c \in Call /\ c.version = call.version /\ c.requests = call.requests
      /\ c.watched = call.watched
      /\ c.have[t] = Nothing /\ \A u \in Target \ {t} : c.have[u] = call.have[u]
  BY <1>2, <1>4 DEF Call
<1> HIDE DEF c
<1>6. /\ r.targets = remote.targets /\ r.stream = "open" /\ r.resume = remote.resume
      /\ r.updates = remote.updates /\ remote.tracked \subseteq r.tracked
      /\ \A u \in Target \ {t} : r.state[u] = remote.state[u]
      /\ r.state[t] = remote.state[t] \/ \A d \in Doc : r.state[t].docs[d] \notin {"added", "modified"}
  BY <1>2, RemoteFields DEF TargetReset, Reset, WithState, FreshState
<1>7. \A u \in Target : Live(r, u) => Live(remote, u)
  BY <1>2 DEF Kept, Live
<1> HIDE DEF r
<1>8. r \in Remote
  BY <1>2 DEF Kept
<1>9. HaveInv(history, c)
  <2>1. \A d \in Doc : c.have[t][d] = 0
    BY <1>5 DEF Nothing
  <2> QED
    BY <1>5, <2>1 DEF ResumeInv, Resumable, HaveInv
<1>10. DeliveredInv(history, disk, r, c)
  <2> SUFFICES ASSUME NEW q \in Query
               PROVE  Delivered(history, disk, r, c, q)
    BY DEF DeliveredInv
  <2>1. CASE q = t
    BY <1>5, <2>1, NothingSent
  <2>2. CASE q # t
    BY <1>2, <1>3, <1>5, <1>6, <1>7, <2>2, StaysDelivered, TargetIs
  <2> QED
    BY <2>1, <2>2
<1>11. LimboInv(limbo, r, c)
  <2> SUFFICES ASSUME NEW u \in LimboTarget
               PROVE  LimboSent(limbo, r, c, u)
    BY DEF LimboInv
  <2>1. CASE u = t
    BY <1>5, <2>1, NothingSent
  <2>2. CASE u # t
    BY <1>5, <1>6, <1>7, <2>2, TargetIs DEF ResumeInv, Resumable, LimboInv, LimboSent
  <2> QED
    BY <2>1, <2>2
<1>12. ChangesInv(r)
  BY <1>6, <1>7 DEF ResumeInv, Resumable, ChangesInv, Explained
<1>13. TrackedInv(r)
  BY <1>2, <1>6 DEF ResumeInv, Resumable, TrackedInv
<1>14. Resumable(history, disk, views, limbo, r, c)
  BY <1>2, <1>3, <1>5, <1>6, <1>8, <1>9, <1>10, <1>11, <1>12, <1>13, Quietly
<1> QED
  BY <1>1, <1>14, Carried

\* What a target had at version w.
LEMMA AtIs ==
  ASSUME history \in Seq(SUBSET Doc), NEW t \in Target, NEW w \in Nat, w <= Now, NEW d \in Doc
  PROVE  /\ At(t, w)[d] # 0 =>
              /\ d \in Scope(t) /\ w # 0 /\ d \in history[w] /\ At(t, w)[d] = Since(d, w)
              /\ At(t, w)[d] \in 1..w /\ Birth(history, d, At(t, w)[d])
              /\ ~Away(history, d, At(t, w)[d], w)
         /\ w # 0 /\ d \in history[w] /\ d \in Scope(t) => At(t, w)[d] # 0
<1>1. At(t, w)[d] = IF d \in Scope(t) THEN Created(d, w) ELSE 0
  BY DEF At
<1>2. CASE w = 0 \/ d \notin Scope(t)
  BY <1>1, <1>2 DEF Created
<1>3. CASE w # 0 /\ d \in Scope(t)
  <2>1. w \in 1..Now
    BY <1>3 DEF Now
  <2>2. IF d \in history[w]
          THEN /\ Created(d, w) \in 1..w /\ Created(d, w) = Since(d, w)
               /\ Birth(history, d, Created(d, w)) /\ ~Away(history, d, Created(d, w), w)
          ELSE Created(d, w) = 0
    BY <2>1, CreatedIs
  <2> QED
    BY <1>1, <1>3, <2>2
<1> QED
  BY <1>2, <1>3

\* A document that a token promises is known when the server continues from it.
LEMMA PromiseKept ==
  ASSUME TypeOK, ResumeInv, remote.stream = "open", NEW q \in Query, NEW w \in Nat,
         Known(history, disk, q, w), w <= disk.lastVersion,
         NEW d \in Matches[q], NEW b \in 1..w, d \in history[w], Birth(history, d, b),
         ~Away(history, d, b, w)
  PROVE  Newest(disk, remote, d) >= b \/ Away(history, d, b, call.version)
<1>1. /\ history \in Seq(SUBSET Doc) /\ disk.lastVersion \in Nat /\ Now \in Nat /\ call.version \in Nat
      /\ d \in Doc /\ disk.cache[d] \in Update /\ remote.updates[d] \in Update /\ b \in Nat
  BY Types, CallFields, RemoteFields, VersionIs, TargetIs
<1>2. /\ CacheInv(history, disk) /\ UpdatesInv(history, disk, remote, call)
      /\ disk.lastVersion <= call.version
  BY DEF ResumeInv, Resumable, VersionInv
<1>3. ASSUME Away(history, d, disk.lastVersion, call.version)
      PROVE  Away(history, d, b, call.version)
  BY <1>1, <1>3 DEF Away
<1>4. CASE Away(history, d, w, disk.lastVersion)
  <2>1. Away(history, d, b, call.version)
    BY <1>1, <1>2, <1>4 DEF Away
  <2> QED
    BY <2>1
<1>5. CASE \E b2 \in 1..w : /\ Birth(history, d, b2) /\ ~Away(history, d, b2, w)
                            /\ b2 <= disk.cache[d].version
  <2>1. PICK b2 \in 1..w : /\ Birth(history, d, b2) /\ ~Away(history, d, b2, w)
                           /\ b2 <= disk.cache[d].version
    BY <1>5
  <2>2. b2 = b
    BY <1>1, <2>1, OneBirth
  <2>3. CASE remote.updates[d].kind = "purged"
    BY <1>1, <1>2, <1>3, <2>3 DEF UpdatesInv
  <2>4. CASE remote.updates[d].kind # "purged"
    <3>1. Newest(disk, remote, d) \in Nat /\ Newest(disk, remote, d) >= disk.cache[d].version
      BY <1>1, <1>2, <2>4, NewestIs DEF CacheInv
    <3>2. disk.cache[d].version \in Nat
      BY <1>1, UpdateIs
    <3> QED
      BY <1>1, <2>1, <2>2, <3>1, <3>2
  <2> QED
    BY <2>3, <2>4
<1>6. w # 0
  OBVIOUS
<1> QED
  BY <1>4, <1>5, <1>6 DEF Known

\* The answer to a watch.
LEMMA AddedIs ==
  ASSUME NEW r \in Remote, NEW t \in Target, r.state[t].outstanding \in Nat \ {0}
  PROVE  LET r2 == TargetAdded(r, t) IN
         /\ r2.targets = r.targets /\ r2.stream = r.stream /\ r2.resume = r.resume
         /\ r2.updates = r.updates /\ r2.tracked = r.tracked \cup {t}
         /\ \A u \in Target \ {t} : r2.state[u] = r.state[u]
         /\ r2.state[t].outstanding = r.state[t].outstanding - 1
         /\ r2.state[t].outstanding = 0 => \A d \in Doc : r2.state[t].docs[d] = "none"
<1>1. r.state[t] \in TargetState /\ r.state \in [Target -> TargetState]
  BY RemoteFields
<1> DEFINE s == Responded(r.state[t])
           x == IF s.outstanding # 0 THEN s ELSE [s EXCEPT !.changed = FALSE, !.docs = FreshState.docs]
<1>2. s \in TargetState /\ s.outstanding = r.state[t].outstanding - 1
  BY <1>1, RespondedType
<1> HIDE DEF s
<1>3. x.outstanding = s.outstanding /\ (s.outstanding = 0 => x.docs = FreshState.docs)
  BY <1>2 DEF TargetState
<1>4. TargetAdded(r, t) = WithState(r, t, x)
  BY DEF TargetAdded, s
<1> HIDE DEF x
<1>5. /\ WithState(r, t, x).targets = r.targets /\ WithState(r, t, x).stream = r.stream
      /\ WithState(r, t, x).resume = r.resume /\ WithState(r, t, x).updates = r.updates
      /\ WithState(r, t, x).tracked = r.tracked \cup {t}
      /\ WithState(r, t, x).state = [r.state EXCEPT ![t] = x]
  BY DEF WithState, Remote
<1>6. WithState(r, t, x).state[t] = x /\ \A u \in Target \ {t} : WithState(r, t, x).state[u] = r.state[u]
  BY <1>1, <1>5
<1> QED
  BY <1>2, <1>3, <1>4, <1>5, <1>6, FreshType

LEMMA AddsKeepResume ==
  ASSUME IInv, ResumeInv, NEW t \in Target, ServerAdds(t)
  PROVE  ResumeInv'
<1> DEFINE token == Head(call.requests).token
           v     == IF call.version > token THEN call.version ELSE token
           r     == TargetAdded(remote, t)
           has(owed) == [d \in Doc |-> IF owed = "filter" /\ At(t, v)[d] = 0 THEN 0
                                       ELSE At(t, token)[d]]
           next(owed) == [Served(call) EXCEPT !.version = v, !.watched = @ \cup {t},
                                              !.owed[t] = owed, !.have[t] = has(owed)]
<1>1. Serves("watch", t)
  BY DEF ServerAdds
<1>2. PICK owed \in {"none", "filter", "reset"} : Received(r, next(owed))
  BY DEF ServerAdds
<1>3. /\ remote.stream = "open" /\ call.requests # <<>> /\ Head(call.requests) \in Request
      /\ Head(call.requests).op = "watch" /\ Head(call.requests).target = t
      /\ call \in Call /\ remote \in Remote /\ InStep(remote, call)
      /\ remote.state[t].outstanding \in Nat \ {0}
      /\ Served(call) \in Call /\ Served(call) = [call EXCEPT !.requests = Tail(@)]
  BY <1>1, HeadIsWaitedFor
<1>4. TypeOK /\ Sound(remote)
  BY StateOfIInv DEF IInv
<1>5. /\ call.version \in 1..Now /\ Now \in Nat /\ disk.lastVersion \in Nat /\ call.version \in Nat
      /\ history \in Seq(SUBSET Doc)
      /\ disk.lastVersion <= call.version /\ call.have \in [Target -> [Doc -> Version]]
  BY <1>3, <1>4, Types, CallFields, VersionIs DEF ResumeInv, Resumable, VersionInv, Now
<1>6. /\ 1 \in 1..Len(call.requests) /\ call.requests[1] = Head(call.requests)
      /\ \A i \in 1..Len(Tail(call.requests)) :
           i + 1 \in 1..Len(call.requests) /\ Tail(call.requests)[i] = call.requests[i + 1]
  BY <1>3, HeadOf
<1>7. token \in Nat /\ token <= disk.lastVersion /\ token \in Version
  BY <1>3, <1>6, RequestFields, VersionIs DEF ResumeInv, Resumable, OldTokens
<1>8. v = call.version
  BY <1>5, <1>7
<1>9. /\ r \in Remote /\ r.targets = remote.targets /\ r.stream = "open"
      /\ r.resume = remote.resume /\ r.updates = remote.updates
      /\ r.tracked = remote.tracked \cup {t}
      /\ \A u \in Target \ {t} : r.state[u] = remote.state[u]
      /\ r.state[t].outstanding = 0 => \A d \in Doc : r.state[t].docs[d] = "none"
  <2>1. r \in Remote
    BY <1>3, <1>4, Adds DEF Sound
  <2> QED
    BY <1>3, <2>1, AddedIs
<1> HIDE DEF r
<1>10. has(owed) \in [Doc -> Version] /\ \A d \in Doc : has(owed)[d] \in {0, At(t, token)[d]}
  <2>1. 0 \in Version /\ \A d \in Doc : At(t, token)[d] \in Version
    BY <1>7, AtType, BoundsAssumption DEF Version
  <2> QED
    BY <2>1
<1> DEFINE given == has(owed)
           c == next(owed)
<1>11. given \in [Doc -> Version] /\ \A d \in Doc : given[d] \in {0, At(t, token)[d]}
  BY <1>10
<1>12. /\ c = [Served(call) EXCEPT !.version = v, !.watched = @ \cup {t},
                                   !.owed[t] = owed, !.have[t] = given]
       /\ has(owed) = given
  OBVIOUS
<1> HIDE DEF given, has
<1>13. /\ c \in Call /\ c.version = call.version /\ c.watched = call.watched \cup {t}
       /\ c.requests = Tail(call.requests)
       /\ c.have[t] = given /\ \A u \in Target \ {t} : c.have[u] = call.have[u]
  <2>1. v \in Version
    BY <1>3, <1>8, CallFields
  <2> HIDE DEF v
  <2>2. [Served(call) EXCEPT !.version = v, !.watched = @ \cup {t}, !.owed[t] = owed,
                             !.have[t] = given] \in Call
    <3>1. Served(call) \in Call /\ given \in [Doc -> Version]
      BY <1>3, <1>11
    <3> QED
      BY <2>1, <3>1 DEF Call
  <2>3. c \in Call
    BY <1>12, <2>2
  <2>4. c.version = v /\ c.watched = call.watched \cup {t} /\ c.requests = Tail(call.requests)
    BY <1>3, <1>12, <2>2 DEF Call
  <2>5. c.have[t] = given
    BY <1>3, <1>5, <1>12, <2>2 DEF Call
  <2>6. \A u \in Target \ {t} : c.have[u] = call.have[u]
    BY <1>3, <1>5, <1>12, <2>2 DEF Call
  <2> QED
    BY <1>8, <2>3, <2>4, <2>5, <2>6
<1> HIDE DEF c, next
<1>14. \A d \in Doc : given[d] # 0 =>
         /\ d \in Scope(t) /\ token # 0 /\ d \in history[token] /\ given[d] \in 1..token
         /\ Birth(history, d, given[d]) /\ ~Away(history, d, given[d], token)
  <2>1. token <= Now
    BY <1>5, <1>7
  <2> QED
    BY <1>5, <1>7, <1>11, <2>1, AtIs
<1>15. HaveInv(history, c)
  <2> SUFFICES ASSUME NEW u \in Target, NEW d \in Doc, c.have[u][d] # 0
               PROVE  /\ u \in c.watched /\ d \in Scope(u)
                      /\ Birth(history, d, c.have[u][d]) /\ c.have[u][d] <= c.version
    BY DEF HaveInv
  <2>1. CASE u = t
    <3>1. given[d] <= call.version
      BY <1>5, <1>7, <1>13, <1>14, <2>1
    <3> QED
      BY <1>13, <1>14, <2>1, <3>1
  <2>2. CASE u # t
    BY <1>13, <2>2 DEF ResumeInv, Resumable, HaveInv
  <2> QED
    BY <2>1, <2>2
<1>16. DeliveredInv(history, disk, r, c)
  <2> SUFFICES ASSUME NEW q \in Query
               PROVE  Delivered(history, disk, r, c, q)
    BY DEF DeliveredInv
  <2>1. CASE q = t
    <3> SUFFICES ASSUME NEW d \in Matches[q], c.have[q][d] # 0
                 PROVE  Newest(disk, r, d) >= c.have[q][d] \/ Away(history, d, c.have[q][d], c.version)
      BY DEF Delivered
    <3>1. Known(history, disk, q, token)
      BY <1>3, <1>6, <2>1 DEF ResumeInv, Resumable, TokensInv
    <3>2. d \in Doc
      BY TargetIs
    <3>3. /\ given[d] \in 1..token /\ d \in history[token]
          /\ Birth(history, d, given[d]) /\ ~Away(history, d, given[d], token)
      BY <1>13, <1>14, <2>1, <3>2
    <3>4. Newest(disk, remote, d) >= given[d] \/ Away(history, d, given[d], call.version)
      BY <1>3, <1>4, <1>7, <3>1, <3>3, PromiseKept
    <3>5. Newest(disk, r, d) = Newest(disk, remote, d)
      BY <1>9 DEF Newest
    <3> QED
      BY <1>13, <2>1, <3>4, <3>5
  <2>2. CASE q # t
    <3>1. Live(r, q) => Live(remote, q)
      BY <1>9, <2>2, TargetIs DEF Live
    <3> QED
      BY <1>4, <1>5, <1>9, <1>13, <2>2, <3>1, StaysDelivered, TargetIs
  <2> QED
    BY <2>1, <2>2
<1>17. LimboInv(limbo, r, c)
  <2> SUFFICES ASSUME NEW u \in LimboTarget, Live(r, u), c.have[u][u[1]] # 0
               PROVE  r.state[u].docs[u[1]] \in
                        IF u \in limbo.received THEN {"none", "added", "modified"} ELSE {"added"}
    BY DEF LimboInv, LimboSent
  <2>1. u \in Target /\ u[1] \in Doc
    BY TargetIs
  <2>2. CASE u = t
    <3>1. r.state[u].docs[u[1]] = "none" /\ u \in remote.targets
      BY <1>9, <2>1, <2>2 DEF Live
    <3>2. ReceivedAt(history, limbo, u, token)
      BY <1>3, <1>6, <2>2, <3>1 DEF ResumeInv, Resumable, LimboTokens
    <3>3. u \in limbo.received
      BY <1>13, <1>14, <2>1, <2>2, <3>2 DEF ReceivedAt
    <3> QED
      BY <3>1, <3>3
  <2>3. CASE u # t
    BY <1>9, <1>13, <2>1, <2>3 DEF Live, ResumeInv, Resumable, LimboInv, LimboSent
  <2> QED
    BY <2>2, <2>3
<1>18. ChangesInv(r)
  BY <1>9 DEF Live, ResumeInv, Resumable, ChangesInv, Explained
<1>19. TrackedInv(r)
  BY <1>3, <1>9 DEF ResumeInv, Resumable, TrackedInv
<1>20. Resumable(history, disk, views, limbo, r, c)
  <2>1. \A i \in 1..Len(c.requests) : \E j \in 1..Len(call.requests) :
          c.requests[i] = call.requests[j]
    BY <1>6, <1>13
  <2>2. c.version >= call.version /\ c.version <= Now /\ r.stream = remote.stream /\ c \in Call
    BY <1>3, <1>5, <1>9, <1>13
  <2> QED
    BY <1>3, <1>4, <1>9, <1>15, <1>16, <1>17, <1>18, <1>19, <2>1, <2>2, Quietly
<1> QED
  BY <1>2, <1>20, Carried DEF c

\* The answer to an unwatch.
LEMMA RemovedIs ==
  ASSUME NEW r \in Remote, NEW t \in Target, r.state[t].outstanding \in Nat \ {0}
  PROVE  LET r2 == TargetRemoved(r, t) IN
         /\ r2.targets = r.targets /\ r2.stream = r.stream /\ r2.resume = r.resume
         /\ r2.updates = r.updates /\ r.tracked \ {t} \subseteq r2.tracked
         /\ \A u \in Target \ {t} : r2.state[u] = r.state[u]
         /\ r2.state[t].outstanding = r.state[t].outstanding - 1
         /\ r2.state[t].outstanding # 0 => t \in r2.tracked
<1>1. r.state[t] \in TargetState /\ r.state \in [Target -> TargetState]
  BY RemoteFields
<1> DEFINE s == Responded(r.state[t])
<1>2. s \in TargetState /\ s.outstanding = r.state[t].outstanding - 1
  BY <1>1, RespondedType
<1>3. TargetRemoved(r, t) = IF s.outstanding # 0 THEN WithState(r, t, s) ELSE WithoutState(r, t)
  BY DEF TargetRemoved
<1> HIDE DEF s
<1>4. CASE s.outstanding # 0
  <2>1. /\ WithState(r, t, s).targets = r.targets /\ WithState(r, t, s).stream = r.stream
        /\ WithState(r, t, s).resume = r.resume /\ WithState(r, t, s).updates = r.updates
        /\ WithState(r, t, s).tracked = r.tracked \cup {t}
        /\ WithState(r, t, s).state = [r.state EXCEPT ![t] = s]
    BY DEF WithState, Remote
  <2>2. WithState(r, t, s).state[t] = s
        /\ \A u \in Target \ {t} : WithState(r, t, s).state[u] = r.state[u]
    BY <1>1, <2>1
  <2> QED
    BY <1>2, <1>3, <1>4, <2>1, <2>2
<1>5. CASE s.outstanding = 0
  <2> DEFINE r2 == WithoutState(r, t)
  <2>1. /\ r2.targets = r.targets /\ r2.stream = r.stream
        /\ r2.resume = r.resume /\ r2.updates = r.updates
        /\ r2.tracked = r.tracked \ {t} /\ r2.state = [r.state EXCEPT ![t] = FreshState]
    BY DEF WithoutState, Remote
  <2>2. r2.state[t] = FreshState /\ \A u \in Target \ {t} : r2.state[u] = r.state[u]
    BY <1>1, <2>1
  <2> HIDE DEF r2
  <2>3. TargetRemoved(r, t) = r2
    BY <1>3, <1>5 DEF r2
  <2> QED
    BY <1>2, <1>5, <2>1, <2>2, <2>3, FreshType
<1> QED
  BY <1>4, <1>5

LEMMA RemovesKeepResume ==
  ASSUME IInv, IInv', ResumeInv, NEW t \in Target, ServerRemoves(t)
  PROVE  ResumeInv'
<1> DEFINE c == [Served(call) EXCEPT !.watched = @ \ {t}, !.current = @ \ {t},
                                     !.owed[t] = "none", !.have[t] = Nothing]
           r == TargetRemoved(remote, t)
<1>1. Serves("unwatch", t) /\ Received(r, c)
  BY DEF ServerRemoves
<1>2. /\ remote.stream = "open" /\ call.requests # <<>> /\ call \in Call /\ remote \in Remote
      /\ remote.state[t].outstanding \in Nat \ {0}
      /\ Served(call) \in Call /\ Served(call) = [call EXCEPT !.requests = Tail(@)]
  BY <1>1, HeadIsWaitedFor
<1>3. TypeOK /\ Sound(remote)
  BY StateOfIInv DEF IInv
<1>4. /\ call.version \in Nat /\ Now \in Nat /\ call.version <= Now
      /\ call.have \in [Target -> [Doc -> Version]] /\ call.watched \subseteq Target
  BY <1>2, <1>3, Types, CallFields, VersionIs DEF ResumeInv, Resumable, VersionInv, Now
<1>5. Nothing \in [Doc -> Version]
  BY BoundsAssumption DEF Nothing, Version
<1> HIDE DEF Nothing
<1>6. /\ c \in Call /\ c.version = call.version /\ c.watched = call.watched \ {t}
      /\ c.requests = Tail(call.requests)
      /\ c.have[t] = Nothing /\ \A u \in Target \ {t} : c.have[u] = call.have[u]
  <2>1. c \in Call
    BY <1>2, <1>5 DEF Call
  <2>2. c.version = call.version /\ c.watched = call.watched \ {t} /\ c.requests = Tail(call.requests)
    BY <1>2, <2>1 DEF Call
  <2>3. c.have[t] = Nothing
    BY <1>2, <1>4, <2>1 DEF Call
  <2>4. \A u \in Target \ {t} : c.have[u] = call.have[u]
    BY <1>2, <1>4, <2>1 DEF Call
  <2> QED
    BY <2>1, <2>2, <2>3, <2>4
<1> HIDE DEF c
<1>7. /\ r \in Remote /\ r.targets = remote.targets /\ r.stream = remote.stream
      /\ r.resume = remote.resume /\ r.updates = remote.updates
      /\ remote.tracked \ {t} \subseteq r.tracked
      /\ \A u \in Target \ {t} : r.state[u] = remote.state[u]
      /\ r.state[t].outstanding # 0 => t \in r.tracked
  <2>1. r \in Remote
    BY <1>2, <1>3, Removes DEF Sound
  <2> QED
    BY <1>2, <2>1, RemovedIs
<1> HIDE DEF r
<1>8. remote' = r /\ call' = c
  BY <1>1 DEF Received
\* The last unwatch leaves a target that the client does not listen to.
<1>9. ~Live(r, t)
  <2> SUFFICES ASSUME Live(r, t)
               PROVE  FALSE
    OBVIOUS
  <2>1. InStep(r, c)
    BY <1>2, <1>7, <1>8 DEF IInv, StreamInv
  <2>2. t \in c.watched
    BY <1>6, <1>7, <2>1, LiveIsWatched
  <2> QED
    BY <1>6, <2>2
<1>10. \A u \in Target : Live(r, u) => u # t /\ Live(remote, u)
  BY <1>7, <1>9 DEF Live
<1>11. HaveInv(history, c)
  <2>1. \A d \in Doc : c.have[t][d] = 0
    BY <1>6 DEF Nothing
  <2> QED
    BY <1>6, <2>1 DEF ResumeInv, Resumable, HaveInv
<1>12. DeliveredInv(history, disk, r, c)
  <2> SUFFICES ASSUME NEW q \in Query
               PROVE  Delivered(history, disk, r, c, q)
    BY DEF DeliveredInv
  <2>1. CASE q = t
    BY <1>9, <2>1 DEF Delivered
  <2>2. CASE q # t
    BY <1>3, <1>4, <1>6, <1>7, <1>10, <2>2, StaysDelivered, TargetIs
  <2> QED
    BY <2>1, <2>2
<1>13. LimboInv(limbo, r, c)
  BY <1>6, <1>7, <1>10, TargetIs DEF ResumeInv, Resumable, LimboInv, LimboSent
<1>14. ChangesInv(r)
  BY <1>7, <1>10 DEF ResumeInv, Resumable, ChangesInv, Explained
<1>15. TrackedInv(r)
  <2>1. t \in r.targets => t \in r.tracked
    BY <1>7, <1>9 DEF Live
  <2> QED
    BY <1>2, <1>7, <2>1 DEF ResumeInv, Resumable, TrackedInv
<1>16. Resumable(history, disk, views, limbo, r, c)
  <2>1. \A i \in 1..Len(c.requests) : \E j \in 1..Len(call.requests) :
          c.requests[i] = call.requests[j]
    BY <1>2, <1>6, HeadOf
  <2>2. c.version >= call.version /\ c.version <= Now
    BY <1>4, <1>6
  <2> QED
    BY <1>2, <1>3, <1>6, <1>7, <1>11, <1>12, <1>13, <1>14, <1>15, <2>1, <2>2, Quietly
<1> QED
  BY <1>1, <1>16, Carried

LEMMA CurrentKeepsResume ==
  ASSUME IInv, ResumeInv, NEW t \in Target, ServerCurrent(t)
  PROVE  ResumeInv'
<1> DEFINE c == [call EXCEPT !.current = @ \cup {t}]
           r == TargetCurrent(remote, t, call.version)
<1>1. Received(r, c) /\ t \in call.watched
  BY DEF ServerCurrent, Complete
<1>2. /\ remote.stream = "open" /\ call \in Call /\ remote \in Remote /\ Sound(remote) /\ TypeOK
      /\ call.version \in Version
  BY <1>1, StateOfIInv, CallFields DEF IInv
<1>3. Kept(remote, r)
  BY <1>2, MarksCurrent
<1>4. /\ call.version \in Nat /\ Now \in Nat /\ call.version <= Now
  BY <1>2, Types, VersionIs DEF ResumeInv, Resumable, VersionInv, Now
<1>5. /\ c \in Call /\ c.version = call.version /\ c.requests = call.requests
      /\ c.watched = call.watched /\ c.have = call.have
  BY <1>2 DEF Call
<1> HIDE DEF c
<1>6. /\ r \in Remote /\ r.targets = remote.targets /\ r.stream = remote.stream
      /\ r.resume = remote.resume /\ r.updates = remote.updates
      /\ remote.tracked \subseteq r.tracked
      /\ \A u \in Target : r.state[u].outstanding = remote.state[u].outstanding
                           /\ r.state[u].docs = remote.state[u].docs
  <2>1. r \in Remote /\ \A u \in Target : r.state[u].outstanding = remote.state[u].outstanding
    BY <1>3 DEF Kept
  <2>2. CASE ~IsActive(remote, t)
    BY <1>2, <2>2 DEF TargetCurrent
  <2>3. CASE IsActive(remote, t)
    <3> DEFINE s == [remote.state[t] EXCEPT !.changed = TRUE, !.current = TRUE, !.token = call.version]
    <3>1. r = WithState(remote, t, s)
      BY <2>3 DEF TargetCurrent
    <3>2. remote.state[t] \in TargetState /\ remote.state \in [Target -> TargetState]
      BY <1>2, RemoteFields
    <3>3. s.docs = remote.state[t].docs
      BY <3>2 DEF TargetState
    <3> HIDE DEF s, r
    <3>4. /\ r.targets = remote.targets /\ r.stream = remote.stream /\ r.resume = remote.resume
          /\ r.updates = remote.updates /\ r.tracked = remote.tracked \cup {t}
          /\ r.state = [remote.state EXCEPT ![t] = s]
      BY <1>2, <3>1 DEF WithState, Remote
    <3>5. \A u \in Target : r.state[u] = IF u = t THEN s ELSE remote.state[u]
      BY <3>2, <3>4
    <3> QED
      BY <2>1, <3>3, <3>4, <3>5
  <2> QED
    BY <2>2, <2>3
<1> HIDE DEF r
<1>7. \A u \in Target : Live(r, u) = Live(remote, u)
  BY <1>6 DEF Live
<1>8. HaveInv(history, c)
  BY <1>5 DEF ResumeInv, Resumable, HaveInv
<1>9. DeliveredInv(history, disk, r, c)
  BY <1>2, <1>4, <1>5, <1>6, <1>7, StaysDelivered, TargetIs DEF DeliveredInv
<1>10. LimboInv(limbo, r, c)
  BY <1>5, <1>6, <1>7, TargetIs DEF ResumeInv, Resumable, LimboInv, LimboSent
<1>11. ChangesInv(r)
  BY <1>6, <1>7 DEF ResumeInv, Resumable, ChangesInv, Explained
<1>12. TrackedInv(r)
  BY <1>2, <1>6 DEF ResumeInv, Resumable, TrackedInv
<1>13. Resumable(history, disk, views, limbo, r, c)
  <2>1. c.version >= call.version /\ c.version <= Now
    BY <1>4, <1>5
  <2> QED
    BY <1>2, <1>5, <1>6, <1>8, <1>9, <1>10, <1>11, <1>12, <2>1, Quietly
<1> QED
  BY <1>1, <1>13, Carried

\* A change of a document is recorded for the targets that are active.
Recorded(r, T, d, update, r2) ==
  /\ r2 \in Remote /\ r2.targets = r.targets /\ r2.stream = r.stream
  /\ r2.resume = r.resume /\ r.tracked \subseteq r2.tracked
  /\ \A e \in Doc \ {d} : r2.updates[e] = r.updates[e]
  /\ r2.updates[d] = IF \E t \in T : Live(r, t) THEN update ELSE r.updates[d]
  /\ \A t \in Target :
       IF t \in T /\ Live(r, t)
       THEN /\ r2.state[t].outstanding = r.state[t].outstanding
            /\ \A e \in Doc \ {d} : r2.state[t].docs[e] = r.state[t].docs[e]
            /\ r2.state[t].docs[d] =
                 IF update.kind = "doc"
                   THEN IF d \in RemoteKeys(t) THEN "modified" ELSE "added"
                   ELSE IF d \in RemoteKeys(t) THEN "removed" ELSE "none"
       ELSE r2.state[t] = r.state[t]

LEMMA ChangedDocument ==
  ASSUME NEW r, Sound(r), r.stream = "open", TrackedInv(r),
         NEW T \in SUBSET Target, NEW d \in Doc, NEW update \in Update
  PROVE  Recorded(r, T, d, update, HandleDocumentChange(r, T, d, update))
<1> DEFINE A == {t \in T : IsActive(r, t)}
           r2 == HandleDocumentChange(r, T, d, update)
           state == [t \in Target |->
                       IF t \in A THEN DocumentChange(t, r.state[t], d, update.kind = "doc")
                       ELSE r.state[t]]
           updates == [r.updates EXCEPT ![d] = IF A = {} THEN @ ELSE update]
<1>1. r \in Remote
  BY DEF Sound
<1>2. \A t \in T : t \in A <=> Live(r, t)
  BY LiveIsActive
<1>3. r2 = [r EXCEPT !.tracked = @ \cup A, !.state = state, !.updates = updates]
  BY <1>1 DEF HandleDocumentChange, Remote
<1>4. r2 \in Remote
  BY HandlesDocumentChange DEF Kept
<1> HIDE DEF state, updates, A
<1>5. /\ r2.targets = r.targets /\ r2.stream = r.stream /\ r2.resume = r.resume
      /\ r2.tracked = r.tracked \cup A /\ r2.state = state /\ r2.updates = updates
  BY <1>1, <1>3 DEF Remote
<1> HIDE DEF r2
<1>6. r.updates \in [Doc -> Update] /\ r.state \in [Target -> TargetState]
  BY <1>1, RemoteFields
<1>7. /\ \A e \in Doc \ {d} : updates[e] = r.updates[e]
      /\ updates[d] = IF A = {} THEN r.updates[d] ELSE update
  BY <1>6 DEF updates
<1>8. (A = {}) = ~ \E t \in T : Live(r, t)
  BY <1>2 DEF A
<1>9. ASSUME NEW t \in Target, t \in T, Live(r, t)
      PROVE  /\ state[t].outstanding = r.state[t].outstanding
             /\ \A e \in Doc \ {d} : state[t].docs[e] = r.state[t].docs[e]
             /\ state[t].docs[d] =
                  IF update.kind = "doc"
                    THEN IF d \in RemoteKeys(t) THEN "modified" ELSE "added"
                    ELSE IF d \in RemoteKeys(t) THEN "removed" ELSE "none"
  <2> DEFINE x == IF update.kind = "doc"
                    THEN IF d \in RemoteKeys(t) THEN "modified" ELSE "added"
                    ELSE IF d \in RemoteKeys(t) THEN "removed" ELSE "none"
  <2>1. t \in A /\ r.state[t] \in TargetState
    BY <1>2, <1>6, <1>9
  <2>2. state[t] = [r.state[t] EXCEPT !.changed = TRUE, !.docs[d] = x]
    BY <2>1 DEF state, DocumentChange
  <2> HIDE DEF x
  <2>3. state[t].docs = [r.state[t].docs EXCEPT ![d] = x]
        /\ state[t].outstanding = r.state[t].outstanding
    BY <2>1, <2>2 DEF TargetState
  <2>4. r.state[t].docs \in [Doc -> {"none", "added", "modified", "removed"}]
    BY <2>1, StateFields
  <2>5. state[t].docs[d] = x /\ \A e \in Doc \ {d} : state[t].docs[e] = r.state[t].docs[e]
    BY <2>3, <2>4
  <2> QED
    BY <2>3, <2>5 DEF x
<1>10. ASSUME NEW t \in Target, ~(t \in T /\ Live(r, t))
       PROVE  state[t] = r.state[t]
  BY <1>2, <1>10 DEF state, A
<1> QED
  BY <1>4, <1>5, <1>7, <1>8, <1>9, <1>10 DEF r2, Recorded

\* A document that has been there since version b is sent with that version.
LEMMA DocumentSince ==
  ASSUME history \in Seq(SUBSET Doc), NEW v \in 1..Now, NEW d,
         NEW b \in 1..v, Birth(history, d, b), ~Away(history, d, b, v)
  PROVE  DocumentAt(d, v) = [kind |-> "doc", version |-> b]
<1>1. d \in history[v] /\ v \in Nat /\ Now \in Nat
  BY DEF Away, Now
<1>2. /\ Created(d, v) \in 1..v /\ Created(d, v) = Since(d, v)
      /\ Birth(history, d, Created(d, v)) /\ ~Away(history, d, Created(d, v), v)
  BY <1>1, CreatedIs
<1>3. Created(d, v) = b
  BY <1>1, <1>2, OneBirth
<1> QED
  BY <1>1, <1>2, <1>3 DEF DocumentAt

\* What is sent of a document that is away is true.
LEMMA DeletedSince ==
  ASSUME TypeOK, NEW v \in 1..Now, NEW d \in Doc
  PROVE  /\ DocumentAt(d, v) \in Update /\ DocumentAt(d, v).kind \in {"doc", "deleted"}
         /\ DocumentAt(d, v).kind = "doc" <=> d \in history[v]
         /\ DocumentAt(d, v).version \in 1..v
         /\ DocumentAt(d, v).kind = "deleted" => d \notin history[DocumentAt(d, v).version]
<1>1. v \in Nat \ {0} /\ Now \in Nat /\ v \in Version
  BY Types, BoundsAssumption DEF Version
<1>2. /\ Since(d, v) \in 1..v
      /\ \A k \in Since(d, v)..v : (d \in history[k]) = (d \in history[v])
  BY <1>1, SinceIs
<1>3. /\ DocumentAt(d, v).kind = IF d \in history[v] THEN "doc" ELSE "deleted"
      /\ DocumentAt(d, v).version = Since(d, v)
  BY DEF DocumentAt
<1>4. Since(d, v) \in Since(d, v)..v
  BY <1>1, <1>2
<1>5. DocumentAt(d, v).kind = "deleted" => d \notin history[Since(d, v)]
  BY <1>2, <1>3, <1>4
<1>6. DocumentAt(d, v) \in Update
  BY <1>1, DocumentAtType
<1> QED
  BY <1>2, <1>3, <1>5, <1>6

LEMMA TokensStay ==
  ASSUME ResumeInv, NEW r, NEW c, r.resume = remote.resume, r.targets = remote.targets,
         c.requests = call.requests
  PROVE  /\ OldTokens(disk, views, r, c) /\ TokensInv(history, disk, views, r, c)
         /\ LimboTokens(history, limbo, r, c) /\ CacheInv(history, disk)
<1>1. /\ OldTokens(disk, views, remote, call) /\ TokensInv(history, disk, views, remote, call)
      /\ LimboTokens(history, limbo, remote, call) /\ CacheInv(history, disk)
  BY DEF ResumeInv, Resumable
<1>2. OldTokens(disk, views, r, c)
  BY <1>1 DEF OldTokens
<1>3. TokensInv(history, disk, views, r, c)
  BY <1>1 DEF TokensInv
<1>4. LimboTokens(history, limbo, r, c)
  BY <1>1 DEF LimboTokens
<1> QED
  BY <1>1, <1>2, <1>3, <1>4

LEMMA SendsKeepResume ==
  ASSUME IInv, ResumeInv, NEW d \in Doc, ServerSends(d)
  PROVE  ResumeInv'
<1> DEFINE T == {t \in call.watched : Behind(t, d)}
           v == call.version
           update == DocumentAt(d, v)
           r == HandleDocumentChange(remote, T, d, update)
           have == [t \in Target |-> IF t \in T THEN [call.have[t] EXCEPT ![d] = At(t, v)[d]]
                                     ELSE call.have[t]]
           c == [call EXCEPT !.have = have]
<1>1. T # {} /\ Received(r, c)
  BY DEF ServerSends
<1>2. /\ remote.stream = "open" /\ call \in Call /\ remote \in Remote /\ Sound(remote) /\ TypeOK
      /\ T \in SUBSET Target
  BY <1>1, StateOfIInv, CallFields DEF IInv
<1>3. /\ history \in Seq(SUBSET Doc) /\ v \in 1..Now /\ v \in Nat /\ Now \in Nat /\ v \in Version
      /\ call.have \in [Target -> [Doc -> Version]] /\ disk.lastVersion \in Nat
      /\ disk.cache \in [Doc -> Update]
  BY <1>2, Types, CallFields, VersionIs DEF ResumeInv, Resumable, VersionInv, Now
<1>4. TrackedInv(remote)
  BY DEF ResumeInv, Resumable
<1>5. /\ update \in Update /\ update.kind \in {"doc", "deleted"}
      /\ update.kind = "doc" <=> d \in history[v]
      /\ update.version \in 1..v
      /\ update.kind = "deleted" => d \notin history[update.version]
  BY <1>2, <1>3, DeletedSince
<1>6. /\ have \in [Target -> [Doc -> Version]]
      /\ \A u \in Target : /\ \A e \in Doc \ {d} : have[u][e] = call.have[u][e]
                           /\ have[u][d] = IF u \in T THEN At(u, v)[d] ELSE call.have[u][d]
  <2>1. \A u \in Target : At(u, v)[d] \in Version
    BY <1>3, AtType
  <2> QED
    BY <1>3, <2>1
<1> HIDE DEF have, T, update
<1>7. /\ c \in Call /\ c.version = v /\ c.requests = call.requests /\ c.watched = call.watched
      /\ c.have = have
  BY <1>2, <1>6 DEF Call
<1> HIDE DEF c
<1>8. /\ r \in Remote /\ r.targets = remote.targets /\ r.stream = remote.stream
      /\ r.resume = remote.resume /\ remote.tracked \subseteq r.tracked
      /\ \A e \in Doc \ {d} : r.updates[e] = remote.updates[e]
      /\ r.updates[d] = IF \E t \in T : Live(remote, t) THEN update ELSE remote.updates[d]
      /\ \A t \in Target :
           IF t \in T /\ Live(remote, t)
           THEN /\ r.state[t].outstanding = remote.state[t].outstanding
                /\ \A e \in Doc \ {d} : r.state[t].docs[e] = remote.state[t].docs[e]
                /\ r.state[t].docs[d] =
                     IF update.kind = "doc"
                       THEN IF d \in RemoteKeys(t) THEN "modified" ELSE "added"
                       ELSE IF d \in RemoteKeys(t) THEN "removed" ELSE "none"
           ELSE r.state[t] = remote.state[t]
  <2>1. Recorded(remote, T, d, update, r)
    BY <1>2, <1>4, <1>5, ChangedDocument
  <2> QED
    BY <2>1 DEF Recorded
<1> HIDE DEF r
<1>9. \A t \in Target : Live(r, t) <=> Live(remote, t)
  BY <1>8 DEF Live
<1>10. VersionInv(history, disk, r, c)
  BY <1>7, <1>8 DEF ResumeInv, Resumable, VersionInv
<1>11. UpdatesInv(history, disk, r, c)
  <2>1. UpdatesInv(history, disk, remote, call)
    BY DEF ResumeInv, Resumable
  <2>2. \A e \in Doc : r.updates[e] = remote.updates[e] \/ (e = d /\ r.updates[e] = update)
    BY <1>8
  <2> QED
    BY <1>5, <1>7, <2>1, <2>2 DEF UpdatesInv
<1>12. HaveInv(history, c)
  <2> SUFFICES ASSUME NEW u \in Target, NEW e \in Doc, have[u][e] # 0
               PROVE  /\ u \in call.watched /\ e \in Scope(u)
                      /\ Birth(history, e, have[u][e]) /\ have[u][e] <= v
    BY <1>7 DEF HaveInv
  <2>1. CASE e = d /\ u \in T
    <3>1. /\ have[u][e] = At(u, v)[d] /\ u \in call.watched
      BY <1>6, <2>1 DEF T
    <3>2. /\ d \in Scope(u) /\ At(u, v)[d] \in 1..v /\ Birth(history, d, At(u, v)[d])
      BY <1>3, <2>1, <3>1, AtIs
    <3> QED
      BY <1>3, <2>1, <3>1, <3>2
  <2>2. CASE ~(e = d /\ u \in T)
    <3>1. have[u][e] = call.have[u][e]
      BY <1>6, <2>2
    <3> QED
      BY <3>1 DEF ResumeInv, Resumable, HaveInv
  <2> QED
    BY <2>1, <2>2
<1>13. DeliveredInv(history, disk, r, c)
  <2> SUFFICES ASSUME NEW q \in Query, Live(r, q), NEW e \in Matches[q], have[q][e] # 0
               PROVE  Newest(disk, r, e) >= have[q][e] \/ Away(history, e, have[q][e], v)
    BY <1>7 DEF DeliveredInv, Delivered
  <2>1. q \in Target /\ e \in Doc /\ Live(remote, q)
    BY <1>9, TargetIs
  <2>2. CASE have[q][e] = call.have[q][e] /\ r.updates[e] = remote.updates[e]
    <3>1. Newest(disk, remote, e) >= have[q][e] \/ Away(history, e, have[q][e], v)
      BY <2>1, <2>2 DEF ResumeInv, Resumable, DeliveredInv, Delivered
    <3>2. Newest(disk, r, e) = Newest(disk, remote, e)
      BY <2>2 DEF Newest
    <3> QED
      BY <3>1, <3>2
  <2>3. CASE ~(have[q][e] = call.have[q][e] /\ r.updates[e] = remote.updates[e])
    <3>1. e = d /\ r.updates[d] = update
      BY <1>6, <1>8, <2>1, <2>3
    <3> SUFFICES ASSUME ~Away(history, d, have[q][d], v)
                 PROVE  Newest(disk, r, d) >= have[q][d]
      BY <3>1
    <3>2. Birth(history, d, have[q][d]) /\ have[q][d] \in 1..v
      <4>1. Birth(history, d, have[q][d]) /\ have[q][d] <= v
        BY <1>7, <1>12, <2>1, <3>1 DEF HaveInv
      <4> QED
        BY <1>3, <4>1 DEF Birth
    <3>3. update = [kind |-> "doc", version |-> have[q][d]]
      BY <1>3, <3>2, DocumentSince DEF update
    <3>4. update.version = have[q][d]
      BY <3>3
    <3>5. Newest(disk, r, d) >= update.version
      <4>1. disk.cache[d] \in Update /\ (disk.cache[d].kind = "none" => disk.cache[d].version = 0)
        BY <1>3 DEF ResumeInv, Resumable, CacheInv
      <4> QED
        BY <1>5, <3>1, <4>1, NewestIs
    <3> QED
      BY <3>4, <3>5
  <2> QED
    BY <2>2, <2>3
<1>14. LimboInv(limbo, r, c)
  <2> SUFFICES ASSUME NEW u \in LimboTarget, Live(r, u), have[u][u[1]] # 0
               PROVE  r.state[u].docs[u[1]] \in
                        IF u \in limbo.received THEN {"none", "added", "modified"} ELSE {"added"}
    BY <1>7 DEF LimboInv, LimboSent
  <2>1. u \in Target /\ u \notin Query /\ u[1] \in Doc /\ Live(remote, u)
    BY <1>9, TargetIs
  <2>2. CASE u \in T /\ u[1] = d
    <3>1. d \in history[v]
      BY <1>3, <1>6, <2>1, <2>2, AtIs
    <3>2. r.state[u].docs[d] = IF d \in RemoteKeys(u) THEN "modified" ELSE "added"
      BY <1>5, <1>8, <2>1, <2>2, <3>1
    <3>3. RemoteKeys(u) = IF u \in limbo.received THEN {d} ELSE {}
      BY <2>1, <2>2 DEF RemoteKeys
    <3> QED
      BY <2>2, <3>2, <3>3
  <2>3. CASE ~(u \in T /\ u[1] = d)
    <3>1. have[u][u[1]] = call.have[u][u[1]]
      BY <1>6, <2>1, <2>3
    <3>2. r.state[u].docs[u[1]] = remote.state[u].docs[u[1]]
      BY <1>8, <2>1, <2>3
    <3> QED
      BY <2>1, <3>1, <3>2 DEF ResumeInv, Resumable, LimboInv, LimboSent
  <2> QED
    BY <2>2, <2>3
<1>15. ChangesInv(r)
  <2> SUFFICES ASSUME NEW u \in Target, Live(r, u), NEW e \in Doc,
                      r.state[u].docs[e] \in {"added", "modified"}
               PROVE  r.updates[e].kind # "none"
    BY DEF ChangesInv, Explained
  <2>1. Live(remote, u)
    BY <1>9
  <2>2. CASE r.updates[e] = update
    BY <1>5, <2>2
  <2>3. CASE r.updates[e] # update
    <3>1. r.updates[e] = remote.updates[e] /\ ~(u \in T /\ e = d)
      BY <1>8, <2>1, <2>3
    <3>2. r.state[u].docs[e] = remote.state[u].docs[e]
      BY <1>8, <3>1
    <3> QED
      BY <2>1, <3>1, <3>2 DEF ResumeInv, Resumable, ChangesInv, Explained
  <2> QED
    BY <2>2, <2>3
<1>16. TrackedInv(r)
  BY <1>2, <1>4, <1>8 DEF TrackedInv
<1>17. Resumable(history, disk, views, limbo, r, c)
  <2>1. /\ OldTokens(disk, views, r, c) /\ TokensInv(history, disk, views, r, c)
        /\ LimboTokens(history, limbo, r, c) /\ CacheInv(history, disk)
    BY <1>7, <1>8, TokensStay
  <2> QED
    BY <1>10, <1>11, <1>12, <1>13, <1>14, <1>15, <1>16, <2>1 DEF Resumable
<1> QED
  BY <1>1, <1>17, Carried

\* An existence filter that takes no document away.
LEMMA QuietFilter ==
  ASSUME IInv, ResumeInv, remote.stream = "open",
         NEW r, Kept(remote, r), r.resume = remote.resume, r.updates = remote.updates,
         remote.tracked \subseteq r.tracked,
         \A u \in Target : r.state[u] = remote.state[u]
                           \/ \A d \in Doc : r.state[u].docs[d] \notin {"added", "modified"}
                                             /\ u \notin LimboTarget,
         NEW c \in Call, c.version = call.version, c.requests = call.requests,
         c.watched = call.watched, c.have = call.have
  PROVE  Resumable(history, disk, views, limbo, r, c)
<1>1. TypeOK
  BY DEF IInv
<1>2. /\ call.version \in Nat /\ Now \in Nat /\ call.version <= Now
  BY <1>1, Types, CallFields, VersionIs DEF ResumeInv, Resumable, VersionInv, Now
<1>3. /\ r \in Remote /\ r.targets = remote.targets /\ r.stream = remote.stream
      /\ \A u \in Target : r.state[u].outstanding = remote.state[u].outstanding
  BY DEF Kept
<1>4. \A u \in Target : Live(r, u) <=> Live(remote, u)
  BY <1>3 DEF Live
<1>5. HaveInv(history, c)
  BY DEF ResumeInv, Resumable, HaveInv
<1>6. DeliveredInv(history, disk, r, c)
  BY <1>1, <1>2, <1>3, <1>4, StaysDelivered, TargetIs DEF DeliveredInv
<1>7. LimboInv(limbo, r, c)
  <2>1. \A u \in LimboTarget : u \in Target /\ u[1] \in Doc /\ r.state[u] = remote.state[u]
    BY TargetIs
  <2> QED
    BY <1>4, <2>1 DEF ResumeInv, Resumable, LimboInv, LimboSent
<1>8. ChangesInv(r)
  <2> SUFFICES ASSUME NEW u \in Target, Live(r, u), NEW d \in Doc,
                      r.state[u].docs[d] \in {"added", "modified"}
               PROVE  r.updates[d].kind # "none"
    BY DEF ChangesInv, Explained
  <2>1. r.state[u] = remote.state[u]
    OBVIOUS
  <2> QED
    BY <1>4, <2>1 DEF ResumeInv, Resumable, ChangesInv, Explained
<1>9. TrackedInv(r)
  BY <1>3 DEF ResumeInv, Resumable, TrackedInv
<1>10. c.version >= call.version /\ c.version <= Now
  BY <1>2
<1> QED
  BY <1>1, <1>3, <1>5, <1>6, <1>7, <1>8, <1>9, <1>10, Quietly

\* A limbo document that the server counts as not there is purged.
LEMMA PurgeKeepsResume ==
  ASSUME IInv, ResumeInv, remote.stream = "open", NEW t \in LimboTarget,
         t[1] \notin history[call.version],
         NEW r, r = HandleDocumentChange(remote, {t}, t[1], [kind |-> "purged", version |-> 0]),
         call.have[t][t[1]] = 0,
         NEW c \in Call, c.version = call.version, c.requests = call.requests,
         c.watched = call.watched, c.have = call.have
  PROVE  Resumable(history, disk, views, limbo, r, c)
<1> DEFINE d == t[1]
           update == [kind |-> "purged", version |-> 0]
           v == call.version
<1>1. /\ TypeOK /\ Sound(remote) /\ TrackedInv(remote) /\ remote \in Remote /\ call \in Call
  BY StateOfIInv DEF IInv, ResumeInv, Resumable
<1>2. t \in Target /\ t \notin Query /\ d \in Doc
  BY TargetIs
<1>3. /\ history \in Seq(SUBSET Doc) /\ v \in 1..Now /\ v \in Nat /\ Now = Len(history)
      /\ call.have \in [Target -> [Doc -> Version]] /\ disk.lastVersion \in Nat
      /\ disk.lastVersion <= v
  BY <1>1, Types, CallFields, VersionIs DEF ResumeInv, Resumable, VersionInv, Now
<1>4. update \in Update /\ update.kind = "purged"
  BY BoundsAssumption DEF Update, Version
<1> HIDE DEF update, d
<1>5. Recorded(remote, {t}, d, update, r)
  <2>1. {t} \in SUBSET Target /\ r = HandleDocumentChange(remote, {t}, d, update)
    BY <1>2 DEF update, d
  <2> QED
    BY <1>1, <1>2, <1>4, <2>1, ChangedDocument
<1>6. \A a \in Nat : a <= v => Away(history, d, a, v)
  BY <1>3 DEF Away, d
<1>7. /\ r \in Remote /\ r.targets = remote.targets /\ r.stream = remote.stream
      /\ r.resume = remote.resume /\ remote.tracked \subseteq r.tracked
      /\ \A e \in Doc \ {d} : r.updates[e] = remote.updates[e]
      /\ r.updates[d] \in {update, remote.updates[d]}
      /\ \A u \in Target \ {t} : r.state[u] = remote.state[u]
      /\ \A e \in Doc : r.state[t].docs[e] = remote.state[t].docs[e]
                        \/ (e = d /\ r.updates[d] = update)
      /\ r.state[t].outstanding = remote.state[t].outstanding
  BY <1>2, <1>5 DEF Recorded
<1>8. \A u \in Target : Live(r, u) <=> Live(remote, u)
  BY <1>7 DEF Live
<1>9. VersionInv(history, disk, r, c)
  BY <1>7 DEF ResumeInv, Resumable, VersionInv
<1>10. UpdatesInv(history, disk, r, c)
  <2>1. UpdatesInv(history, disk, remote, call)
    BY DEF ResumeInv, Resumable
  <2>2. \A e \in Doc : r.updates[e] = remote.updates[e] \/ (e = d /\ r.updates[e] = update)
    BY <1>7
  <2>3. Away(history, d, disk.lastVersion, v)
    BY <1>3, <1>6
  <2> QED
    BY <1>4, <2>1, <2>2, <2>3 DEF UpdatesInv
<1>11. HaveInv(history, c)
  BY DEF ResumeInv, Resumable, HaveInv
<1>12. DeliveredInv(history, disk, r, c)
  <2> SUFFICES ASSUME NEW q \in Query, Live(r, q), NEW e \in Matches[q], call.have[q][e] # 0
               PROVE  Newest(disk, r, e) >= call.have[q][e] \/ Away(history, e, call.have[q][e], v)
    BY DEF DeliveredInv, Delivered
  <2>1. q \in Target /\ e \in Doc /\ Live(remote, q)
    BY <1>8, TargetIs
  <2>2. CASE e = d
    <3>1. call.have[q][e] <= v
      BY <2>1 DEF ResumeInv, Resumable, HaveInv
    <3>2. call.have[q][e] \in Nat
      BY <1>3, <2>1, VersionIs
    <3> QED
      BY <1>6, <2>2, <3>1, <3>2
  <2>3. CASE e # d
    <3>1. Newest(disk, r, e) = Newest(disk, remote, e)
      BY <1>7, <2>1, <2>3 DEF Newest
    <3> QED
      BY <2>1, <3>1 DEF ResumeInv, Resumable, DeliveredInv, Delivered
  <2> QED
    BY <2>2, <2>3
<1>13. LimboInv(limbo, r, c)
  <2> SUFFICES ASSUME NEW u \in LimboTarget, Live(r, u), call.have[u][u[1]] # 0
               PROVE  r.state[u].docs[u[1]] \in
                        IF u \in limbo.received THEN {"none", "added", "modified"} ELSE {"added"}
    BY DEF LimboInv, LimboSent
  <2>1. u # t /\ u \in Target
    BY TargetIs
  <2>2. r.state[u] = remote.state[u] /\ Live(remote, u)
    BY <1>7, <1>8, <2>1
  <2> QED
    BY <2>2 DEF ResumeInv, Resumable, LimboInv, LimboSent
<1>14. ChangesInv(r)
  <2> SUFFICES ASSUME NEW u \in Target, Live(r, u), NEW e \in Doc,
                      r.state[u].docs[e] \in {"added", "modified"}
               PROVE  r.updates[e].kind # "none"
    BY DEF ChangesInv, Explained
  <2>1. CASE r.updates[e] = update
    BY <1>4, <2>1
  <2>2. CASE r.updates[e] # update
    <3>1. r.updates[e] = remote.updates[e]
      BY <1>7, <2>2
    <3>2. r.state[u].docs[e] = remote.state[u].docs[e]
      BY <1>7, <2>2
    <3> QED
      BY <1>8, <3>1, <3>2 DEF ResumeInv, Resumable, ChangesInv, Explained
  <2> QED
    BY <2>1, <2>2
<1>15. TrackedInv(r)
  BY <1>1, <1>7 DEF TrackedInv
<1>16. /\ OldTokens(disk, views, r, c) /\ TokensInv(history, disk, views, r, c)
       /\ LimboTokens(history, limbo, r, c) /\ CacheInv(history, disk)
  BY <1>7, TokensStay
<1> QED
  BY <1>9, <1>10, <1>11, <1>12, <1>13, <1>14, <1>15, <1>16 DEF Resumable

LEMMA FiltersKeepResume ==
  ASSUME IInv, ResumeInv, NEW t \in Target, ServerFilters(t)
  PROVE  ResumeInv'
<1> DEFINE c == [call EXCEPT !.owed[t] = "none"]
           count == Cardinality({d \in Doc : call.have[t][d] # 0})
           r == HandleExistenceFilter(remote, t, count)
<1>1. Received(r, c) /\ t \in call.watched /\ call.have[t] = At(t, call.version)
  BY DEF ServerFilters, Complete
<1>2. /\ remote.stream = "open" /\ call \in Call /\ remote \in Remote /\ Sound(remote) /\ TypeOK
  BY <1>1, StateOfIInv DEF IInv
<1>3. /\ c \in Call /\ c.version = call.version /\ c.requests = call.requests
      /\ c.watched = call.watched /\ c.have = call.have
  BY <1>2 DEF Call
<1>4. /\ history \in Seq(SUBSET Doc) /\ call.version \in 1..Now /\ call.version \in Nat
      /\ call.version <= Now /\ call.have \in [Target -> [Doc -> Version]]
  BY <1>2, Types, CallFields, VersionIs DEF ResumeInv, Resumable, VersionInv, Now
<1>5. Kept(remote, r)
  BY <1>2, ComparesFilter
<1> HIDE DEF c
<1>6. CASE r = remote
  <2>1. Kept(remote, remote)
    BY <1>2, KeptSame
  <2>2. Resumable(history, disk, views, limbo, remote, c)
    BY <1>2, <1>3, <2>1, QuietFilter
  <2> QED
    BY <1>1, <1>6, <2>2, Carried
<1>7. CASE t \in Query /\ r # remote
  <2>1. r = [Reset(remote, t) EXCEPT !.resets = @ \cup {t}]
    BY <1>7 DEF HandleExistenceFilter
  <2>2. /\ r.resume = remote.resume /\ r.updates = remote.updates
        /\ remote.tracked \subseteq r.tracked
        /\ \A u \in Target : r.state[u] = remote.state[u]
                             \/ (u = t /\ \A d \in Doc : r.state[u].docs[d] \notin {"added", "modified"})
    <3> DEFINE docs == [d \in Doc |-> IF d \in RemoteKeys(t) THEN "removed" ELSE "none"]
               s == [FreshState EXCEPT !.docs = docs]
    <3>1. s.docs = docs
      BY DEF FreshState
    <3>2. \A d \in Doc : s.docs[d] \notin {"added", "modified"}
      BY <3>1
    <3> HIDE DEF s
    <3>3. /\ r.resume = remote.resume /\ r.updates = remote.updates
          /\ r.tracked = remote.tracked \cup {t} /\ r.state = [remote.state EXCEPT ![t] = s]
      BY <1>2, <2>1 DEF Reset, WithState, Remote, s
    <3>4. remote.state \in [Target -> TargetState]
      BY <1>2, RemoteFields
    <3>5. \A u \in Target : r.state[u] = IF u = t THEN s ELSE remote.state[u]
      BY <3>3, <3>4
    <3> HIDE DEF r
    <3> QED
      BY <3>2, <3>3, <3>5
  <2>3. t \notin LimboTarget
    BY <1>7, TargetIs
  <2> HIDE DEF r
  <2>4. Resumable(history, disk, views, limbo, r, c)
    BY <1>2, <1>3, <1>5, <2>2, <2>3, QuietFilter
  <2> QED
    BY <1>1, <2>4, Carried
<1>8. CASE t \notin Query /\ r # remote
  <2>1. t \in LimboTarget /\ t[1] \in Doc /\ Scope(t) = {t[1]}
    BY <1>8, TargetIs
  <2>2. count = 0 /\ r = HandleDocumentChange(remote, {t}, t[1], [kind |-> "purged", version |-> 0])
    BY <1>8 DEF HandleExistenceFilter
  <2>3. call.have[t][t[1]] = 0
    <3>1. \A d \in Doc : call.have[t][d] # 0 => d \in {t[1]}
      BY <2>1 DEF ResumeInv, Resumable, HaveInv
    <3>2. {d \in Doc : call.have[t][d] # 0} \subseteq {t[1]}
      BY <3>1
    <3>3. IsFiniteSet({d \in Doc : call.have[t][d] # 0})
      BY <3>2, FS_Singleton, FS_Subset
    <3>4. {d \in Doc : call.have[t][d] # 0} = {}
      BY <2>2, <3>3, FS_EmptySet
    <3> QED
      BY <2>1, <3>4
  <2>4. t[1] \notin history[call.version]
    <3>1. At(t, call.version)[t[1]] = 0
      BY <1>1, <2>3
    <3>2. call.version # 0
      BY <1>4
    <3> QED
      BY <1>4, <2>1, <3>1, <3>2, AtIs
  <2> HIDE DEF r, count
  <2>5. Resumable(history, disk, views, limbo, r, c)
    BY <1>2, <1>3, <2>1, <2>2, <2>3, <2>4, PurgeKeepsResume
  <2> QED
    BY <1>1, <2>5, Carried
<1> QED
  BY <1>6, <1>7, <1>8

-----------------------------------------------------------------------------
(* The client on its own.                                                  *)

LEMMA RaisesToken ==
  ASSUME NEW vw \in Views, NEW cache, NEW state
  PROVE  Raise(vw, cache, state).token = vw.token
  BY DEF Raise, Views

LEMMA GoesOnlineKeepsToken ==
  ASSUME views \in Views, NEW o, GoesOnline(o)
  PROVE  views'.token = views.token
<1> DEFINE vw == WithOnlineState(views, o.state)
<1>1. vw \in Views /\ vw.token = views.token
  BY DEF WithOnlineState, Views
<1>2. views' = Raise(vw, disk.cache, o.state)
  BY DEF GoesOnline
<1> HIDE DEF vw
<1> QED
  BY <1>1, <1>2, RaisesToken

\* Without a call, only what the disk, the views and the targets have counts.
LEMMA WithoutCall ==
  ASSUME NEW h, NEW dk, NEW vw, NEW lb, NEW r \in Remote,
         CacheInv(h, dk), dk.lastVersion <= Len(h),
         r.stream # "open", r.updates = NoUpdates,
         \A t \in Target : \A d \in Doc : r.state[t].docs[d] \notin {"added", "modified"},
         \A q \in Query : /\ dk.token[q] <= dk.lastVersion /\ vw.token[q] <= dk.lastVersion
                          /\ Known(h, dk, q, dk.token[q]) /\ Known(h, dk, q, vw.token[q])
                          /\ Known(h, dk, q, r.resume[q]),
         \A t \in Target : r.resume[t] <= dk.lastVersion,
         \A t \in LimboTarget : ReceivedAt(h, lb, t, r.resume[t])
  PROVE  Resumable(h, dk, vw, lb, r, NoCall)
<1>1. /\ NoCall.requests = <<>> /\ NoCall.watched = {} /\ NoCall.version = 0
      /\ \A t \in Target : \A d \in Doc : NoCall.have[t][d] = 0
  BY NoCallType DEF NoCall, Nothing
<1>2. \A i \in 1..Len(NoCall.requests) : FALSE
  BY <1>1
<1>3. \A d \in Doc : r.updates[d].kind = "none"
  BY DEF NoUpdates, NoUpdate
<1>4. VersionInv(h, dk, r, NoCall)
  BY DEF VersionInv
<1>5. UpdatesInv(h, dk, r, NoCall)
  BY <1>3 DEF UpdatesInv
<1>6. HaveInv(h, NoCall)
  BY <1>1 DEF HaveInv
<1>7. OldTokens(dk, vw, r, NoCall)
  BY <1>2 DEF OldTokens
<1>8. TokensInv(h, dk, vw, r, NoCall)
  BY <1>2 DEF TokensInv
<1>9. DeliveredInv(h, dk, r, NoCall)
  BY <1>1, TargetIs DEF DeliveredInv, Delivered
<1>10. LimboTokens(h, lb, r, NoCall)
  BY <1>2 DEF LimboTokens
<1>11. LimboInv(lb, r, NoCall)
  BY <1>1, TargetIs DEF LimboInv, LimboSent
<1>12. ChangesInv(r)
  BY DEF ChangesInv, Explained
<1>13. TrackedInv(r)
  BY DEF TrackedInv
<1> QED
  BY <1>4, <1>5, <1>6, <1>7, <1>8, <1>9, <1>10, <1>11, <1>12, <1>13 DEF Resumable

\* The call ends, whatever comes next.
LEMMA ClosesKeepResume ==
  ASSUME TypeOK, ResumeInv, NEW stream \in {"off", "starting"},
         call' = NoCall, remote' = Cleaned(remote, stream), views'.token = views.token,
         UNCHANGED <<history, disk, limbo>>
  PROVE  ResumeInv'
<1>1. /\ remote \in Remote /\ remote' \in Remote /\ remote'.stream = stream
      /\ \A t \in Target : remote'.state[t] = FreshState
  BY Types, CleanedIs
<1>2. remote'.resume = remote.resume /\ remote'.updates = NoUpdates
  BY <1>1 DEF Cleaned, Remote
<1>3. \A t \in Target : \A d \in Doc : remote'.state[t].docs[d] \notin {"added", "modified"}
  BY <1>1, FreshType
<1>4. /\ CacheInv(history, disk) /\ VersionInv(history, disk, remote, call)
      /\ OldTokens(disk, views, remote, call) /\ TokensInv(history, disk, views, remote, call)
      /\ LimboTokens(history, limbo, remote, call)
  BY DEF ResumeInv, Resumable
<1>5. CacheInv(history', disk') /\ disk'.lastVersion <= Len(history')
  BY <1>4 DEF VersionInv
<1>6. \A q \in Query :
        /\ disk'.token[q] <= disk'.lastVersion /\ views'.token[q] <= disk'.lastVersion
        /\ Known(history', disk', q, disk'.token[q]) /\ Known(history', disk', q, views'.token[q])
        /\ Known(history', disk', q, remote'.resume[q])
  BY <1>2, <1>4 DEF OldTokens, TokensInv
<1>7. \A t \in Target : remote'.resume[t] <= disk'.lastVersion
  BY <1>2, <1>4 DEF OldTokens
<1>8. \A t \in LimboTarget : ReceivedAt(history', limbo', t, remote'.resume[t])
  BY <1>2, <1>4 DEF LimboTokens
<1>9. Resumable(history', disk', views', limbo', remote', NoCall)
  BY <1>1, <1>2, <1>3, <1>5, <1>6, <1>7, <1>8, WithoutCall
<1> QED
  BY <1>9 DEF ResumeInv

LEMMA BreaksKeepResume ==
  ASSUME IInv, ResumeInv, CallBreaks \/ RestartNetwork \/ IdleTimeout
  PROVE  ResumeInv'
<1>1. TypeOK /\ views \in Views
  BY Types DEF IInv
<1>2. /\ \E stream \in {"off", "starting"} : remote' = Cleaned(remote, stream)
      /\ \E o : GoesOnline(o)
  BY DEF CallBreaks, RestartNetwork, IdleTimeout
<1>3. views'.token = views.token
  BY <1>1, <1>2, GoesOnlineKeepsToken
<1>4. call' = NoCall /\ UNCHANGED <<history, disk, limbo>>
  BY DEF CallBreaks, RestartNetwork, IdleTimeout
<1> QED
  BY <1>1, <1>2, <1>3, <1>4, ClosesKeepResume

LEMMA TimeoutKeepsResume ==
  ASSUME IInv, ResumeInv, OnlineTimeout
  PROVE  ResumeInv'
<1>1. views \in Views
  BY Types DEF IInv
<1>2. views'.token = views.token
  BY <1>1, GoesOnlineKeepsToken DEF OnlineTimeout
<1>3. UNCHANGED <<history, call, disk, limbo, remote>>
  BY DEF OnlineTimeout
<1>4. Resumable(history, disk, views', limbo, remote, call)
  BY <1>2 DEF ResumeInv, Resumable, OldTokens, TokensInv
<1> QED
  BY <1>3, <1>4 DEF ResumeInv

\* A client that has nothing but its disk.
LEMMA NothingToResume ==
  ASSUME NEW h, NEW dk, CacheInv(h, dk), dk.lastVersion <= Len(h), dk.lastVersion \in Nat,
         \A q \in Query : dk.token[q] <= dk.lastVersion /\ Known(h, dk, q, dk.token[q])
  PROVE  Resumable(h, dk, NoViews, NoLimbo, NoRemote, NoCall)
<1>1. /\ NoRemote \in Remote /\ NoRemote.stream = "off" /\ NoRemote.updates = NoUpdates
      /\ \A t \in Target : NoRemote.resume[t] = 0 /\ NoRemote.state[t] = FreshState
      /\ \A q \in Query : NoViews.token[q] = 0
  BY NothingThere DEF NoRemote, NoViews
<1>2. \A t \in Target : \A d \in Doc : NoRemote.state[t].docs[d] \notin {"added", "modified"}
  BY <1>1, FreshType
<1>3. \A q \in Query : Known(h, dk, q, 0)
  BY DEF Known
<1>4. \A t : ReceivedAt(h, NoLimbo, t, 0)
  BY DEF ReceivedAt
<1>5. \A q \in Query :
        /\ dk.token[q] <= dk.lastVersion /\ NoViews.token[q] <= dk.lastVersion
        /\ Known(h, dk, q, dk.token[q]) /\ Known(h, dk, q, NoViews.token[q])
        /\ Known(h, dk, q, NoRemote.resume[q])
  BY <1>1, <1>3, TargetIs
<1>6. \A t \in Target : NoRemote.resume[t] <= dk.lastVersion
  BY <1>1
<1>7. \A t \in LimboTarget : ReceivedAt(h, NoLimbo, t, NoRemote.resume[t])
  BY <1>1, <1>4, TargetIs
<1> QED
  BY <1>1, <1>2, <1>5, <1>6, <1>7, WithoutCall

LEMMA RelaunchKeepsResume ==
  ASSUME IInv, ResumeInv, Relaunch
  PROVE  ResumeInv'
<1>1. /\ CacheInv(history, disk) /\ disk.lastVersion <= Len(history)
      /\ \A q \in Query : disk.token[q] <= disk.lastVersion /\ Known(history, disk, q, disk.token[q])
  BY DEF ResumeInv, Resumable, VersionInv, OldTokens, TokensInv
<1>2. disk.lastVersion \in Nat
  BY Types, VersionIs DEF IInv
<1>3. Resumable(history, disk, NoViews, NoLimbo, NoRemote, NoCall)
  BY <1>1, <1>2, NothingToResume
<1> QED
  BY <1>3 DEF ResumeInv, Relaunch

LEMMA InitResume ==
  ASSUME Init
  PROVE  ResumeInv
<1>1. /\ \A d \in Doc : disk.cache[d].kind = "none" /\ disk.cache[d].version = 0
      /\ \A q \in Query : disk.token[q] = 0
      /\ disk.lastVersion = 0
  BY DEF Init, NoUpdates, NoUpdate
<1>2. \E S \in SUBSET Doc : history = <<S>>
  BY DEF Init
<1>3. Len(history) = 1
  BY <1>2
<1>4. CacheInv(history, disk)
  BY <1>1 DEF CacheInv
<1>5. \A q \in Query : Known(history, disk, q, disk.token[q])
  BY <1>1 DEF Known
<1>6. Resumable(history, disk, NoViews, NoLimbo, NoRemote, NoCall)
  BY <1>1, <1>3, <1>4, <1>5, NothingToResume
<1> QED
  BY <1>6 DEF ResumeInv, Init

LEMMA ElementsOf ==
  ASSUME NEW S, NEW s \in SetToSeqs(S), NEW R, s \in Seq(R)
  PROVE  \A i \in 1..Len(s) : s[i] \in S
<1>1. s \in [1..Cardinality(S) -> S]
  BY DEF SetToSeqs
<1>2. DOMAIN s = 1..Len(s)
  OBVIOUS
<1> QED
  BY <1>1, <1>2

\* What is under way after a task was so before or is new.
LEMMA OfBoth ==
  ASSUME NEW s \in Seq(Request), NEW b \in Seq(Request)
  PROVE  \A i \in 1..Len(s \o b) : \/ \E j \in 1..Len(s) : (s \o b)[i] = s[j]
                                   \/ \E j \in 1..Len(b) : (s \o b)[i] = b[j]
<1> SUFFICES ASSUME NEW i \in 1..Len(s \o b)
             PROVE  \/ \E j \in 1..Len(s) : (s \o b)[i] = s[j]
                    \/ \E j \in 1..Len(b) : (s \o b)[i] = b[j]
  OBVIOUS
<1>1. Len(s) \in Nat /\ Len(b) \in Nat /\ Len(s \o b) = Len(s) + Len(b)
  OBVIOUS
<1>2. CASE i <= Len(s)
  BY <1>1, <1>2
<1>3. CASE i > Len(s)
  <2>1. i - Len(s) \in 1..Len(b) /\ (s \o b)[i] = b[i - Len(s)]
    BY <1>1, <1>3
  <2> QED
    BY <2>1
<1> QED
  BY <1>1, <1>2, <1>3

\* The call starts with the tokens that the targets have.
LEMMA OpensKeepResume ==
  ASSUME IInv, ResumeInv, StreamOpens, StaleReads = FALSE
  PROVE  ResumeInv'
<1> DEFINE T == remote.targets
           r1 == [remote EXCEPT !.stream = "open"]
           r2 == Expects(r1, T, 1)
<1>1. /\ remote.stream = "starting" /\ remote' = r2
      /\ UNCHANGED <<history, disk, views, limbo>>
  BY DEF StreamOpens
<1>2. PICK v \in 1..Now : \E requests \in SetToSeqs({Watch(t, remote.resume[t]) : t \in T}) :
        /\ StaleReads \/ v >= disk.lastVersion
        /\ call' = [NoCall EXCEPT !.version = v, !.requests = requests]
  BY Zenon DEF StreamOpens
<1>3. PICK b \in SetToSeqs({Watch(t, remote.resume[t]) : t \in T}) :
        /\ StaleReads \/ v >= disk.lastVersion
        /\ call' = [NoCall EXCEPT !.version = v, !.requests = b]
  BY <1>2, Zenon
<1>4. /\ TypeOK /\ TypeOK' /\ remote \in Remote /\ Fresh(remote) /\ remote.tracked = {}
  BY <1>1, Types, OpensKeepIInv DEF IInv, StreamInv
<1>5. /\ remote.resume \in [Target -> Version] /\ T \subseteq Target /\ Now \in Nat
  BY <1>4, RemoteFields, Types
<1> DEFINE c2 == [NoCall EXCEPT !.version = v, !.requests = b]
<1>6. /\ c2.requests = b /\ c2.version = v /\ c2.have = [t \in Target |-> Nothing]
  BY DEF NoCall
<1>7. c2 \in Call /\ call' = c2
  BY <1>3, <1>4 DEF TypeOK
<1> HIDE DEF c2
<1>8. \A i \in 1..Len(b) : b[i].target \in T /\ b[i].token = remote.resume[b[i].target]
  <2>1. b \in Seq(Request)
    BY <1>6, <1>7, CallFields
  <2> DEFINE S == {Watch(t, remote.resume[t]) : t \in T}
  <2>2. \A x \in S : x.target \in T /\ x.token = remote.resume[x.target]
    BY DEF Watch
  <2>3. b \in SetToSeqs(S)
    OBVIOUS
  <2> HIDE DEF S
  <2>4. \A i \in 1..Len(b) : b[i] \in S
    BY <2>1, <2>3, ElementsOf
  <2> QED
    BY <2>2, <2>4
<1>9. \A t \in Target : \A d \in Doc : c2.have[t][d] = 0
  BY <1>6 DEF Nothing
<1>10. r1 \in Remote /\ r1.targets = T /\ r1.resume = remote.resume /\ r1.updates = remote.updates
      /\ r1.tracked = {} /\ r1.stream = "open" /\ \A t \in Target : r1.state[t] = FreshState
  BY <1>4 DEF Remote, Fresh
<1> HIDE DEF r1
<1>11. Expected(r1, T, 1, r2)
  BY <1>5, <1>10, ExpectsIs
<1> HIDE DEF r2
<1>12. /\ r2 \in Remote /\ r2.targets = T /\ r2.resume = remote.resume /\ r2.stream = "open"
       /\ r2.updates = remote.updates /\ r2.tracked = T
       /\ \A t \in Target : \A d \in Doc : r2.state[t].docs[d] = "none"
  BY <1>10, <1>11, FreshType DEF Expected
<1>13. /\ CacheInv(history, disk) /\ VersionInv(history, disk, remote, call)
       /\ OldTokens(disk, views, remote, call) /\ TokensInv(history, disk, views, remote, call)
       /\ LimboTokens(history, limbo, remote, call) /\ remote.updates = NoUpdates
  BY <1>1 DEF ResumeInv, Resumable, TrackedInv
<1>14. VersionInv(history, disk, r2, c2)
  BY <1>3, <1>5, <1>6, <1>13 DEF VersionInv, Now
<1>15. UpdatesInv(history, disk, r2, c2)
  BY <1>12, <1>13 DEF UpdatesInv, NoUpdates, NoUpdate
<1>16. HaveInv(history, c2)
  BY <1>9 DEF HaveInv
<1>17. OldTokens(disk, views, r2, c2)
  BY <1>5, <1>6, <1>8, <1>12, <1>13 DEF OldTokens
<1>18. TokensInv(history, disk, views, r2, c2)
  BY <1>6, <1>8, <1>12, <1>13 DEF TokensInv
<1>19. DeliveredInv(history, disk, r2, c2)
  BY <1>9, TargetIs DEF DeliveredInv, Delivered
<1>20. LimboTokens(history, limbo, r2, c2)
  BY <1>6, <1>8, <1>12, <1>13 DEF LimboTokens
<1>21. LimboInv(limbo, r2, c2)
  BY <1>9, TargetIs DEF LimboInv, LimboSent
<1>22. ChangesInv(r2)
  BY <1>12 DEF ChangesInv, Explained
<1>23. TrackedInv(r2)
  BY <1>12 DEF TrackedInv
<1>24. Resumable(history, disk, views, limbo, r2, c2)
  BY <1>13, <1>14, <1>15, <1>16, <1>17, <1>18, <1>19, <1>20, <1>21, <1>22, <1>23 DEF Resumable
<1> QED
  BY <1>1, <1>7, <1>24 DEF ResumeInv

LEMMA StutterKeepsResume ==
  ASSUME ResumeInv, UNCHANGED vars
  PROVE  ResumeInv'
  BY DEF vars, ResumeInv

\* A query starts from the token that the disk has.
LEMMA ListensKeepResume ==
  ASSUME IInv, ResumeInv, NEW q \in Query, Listen(q)
  PROVE  ResumeInv'
<1> DEFINE token == disk.token[q]
           vw == [views EXCEPT !.listening = @ \cup {q}, !.synced[q] = disk.keys[q],
                               !.token[q] = token]
           r == [remote EXCEPT !.targets = @ \cup {q}, !.resume[q] = token]
           r1 == Expects(r, {q}, 1)
           r2 == [r1 EXCEPT !.idle = FALSE]
           b == <<Watch(q, token)>>
           c2 == Sends(call, b)
<1>1. /\ q \notin views.listening
      /\ remote' = CASE remote.stream = "off"      -> Cleaned(r, "starting")
                     [] remote.stream = "starting" -> r
                     [] remote.stream = "open"     -> r2
      /\ call' = IF remote.stream = "open" THEN c2 ELSE call
      /\ views' = Raise(vw, disk.cache, online'.state)
      /\ UNCHANGED <<history, disk, limbo>>
  BY DEF Listen
<1>2. /\ TypeOK /\ StreamInv /\ TargetsInv /\ remote \in Remote /\ call \in Call /\ views \in Views
      /\ disk.token \in [Query -> Version] /\ disk.keys \in [Query -> SUBSET Doc]
  BY Types DEF IInv
<1>3. token \in Version /\ q \in Target
  BY <1>2, TargetIs
<1>4. vw \in Views /\ \A p \in Query : vw.token[p] = IF p = q THEN token ELSE views.token[p]
  BY <1>2, <1>3 DEF Views
<1> HIDE DEF vw
<1>5. \A p \in Query : views'.token[p] = IF p = q THEN token ELSE views.token[p]
  BY <1>1, <1>4, RaisesToken
<1>6. /\ r \in Remote /\ r.targets = remote.targets \cup {q} /\ r.stream = remote.stream
      /\ r.tracked = remote.tracked /\ r.state = remote.state /\ r.updates = remote.updates
  BY <1>2, <1>3 DEF Remote
<1>7. \A t \in Target : r.resume[t] = IF t = q THEN token ELSE remote.resume[t]
  BY <1>2, <1>3, RemoteFields
<1> HIDE DEF r
<1>8. /\ CacheInv(history, disk) /\ VersionInv(history, disk, remote, call)
      /\ UpdatesInv(history, disk, remote, call) /\ HaveInv(history, call)
      /\ OldTokens(disk, views, remote, call) /\ TokensInv(history, disk, views, remote, call)
      /\ DeliveredInv(history, disk, remote, call) /\ LimboTokens(history, limbo, remote, call)
      /\ LimboInv(limbo, remote, call) /\ ChangesInv(remote) /\ TrackedInv(remote)
  BY DEF ResumeInv, Resumable
<1>9. /\ \A p \in Query : /\ disk.token[p] <= disk.lastVersion /\ views'.token[p] <= disk.lastVersion
                          /\ Known(history, disk, p, disk.token[p])
                          /\ Known(history, disk, p, views'.token[p])
                          /\ Known(history, disk, p, r.resume[p])
      /\ \A t \in Target : r.resume[t] <= disk.lastVersion
      /\ \A t \in LimboTarget : r.resume[t] = remote.resume[t]
      /\ \A t \in LimboTarget : ReceivedAt(history, limbo, t, r.resume[t])
  BY <1>5, <1>7, <1>8, TargetIs DEF OldTokens, TokensInv, LimboTokens
<1> HIDE DEF token
<1>10. CASE remote.stream # "open"
  <2>1. /\ remote' \in Remote /\ remote'.stream # "open" /\ remote'.updates = NoUpdates
        /\ remote'.resume = r.resume /\ \A t \in Target : remote'.state[t] = FreshState
    <3>1. CASE remote.stream = "off"
      <4>1. remote' = Cleaned(r, "starting")
        BY <1>1, <3>1
      <4>2. /\ Cleaned(r, "starting") \in Remote /\ Cleaned(r, "starting").stream = "starting"
            /\ \A t \in Target : Cleaned(r, "starting").state[t] = FreshState
        BY <1>6, CleanedIs
      <4>3. Cleaned(r, "starting").resume = r.resume /\ Cleaned(r, "starting").updates = NoUpdates
        BY <1>6 DEF Cleaned, Remote
      <4> QED
        BY <4>1, <4>2, <4>3
    <3>2. CASE remote.stream = "starting"
      BY <1>1, <1>2, <1>6, <1>8, <3>2 DEF StreamInv, Fresh, TrackedInv
    <3> QED
      BY <1>2, <1>10, <3>1, <3>2, RemoteFields
  <2>2. call' = NoCall
    BY <1>1, <1>2, <1>10 DEF StreamInv
  <2>3. \A t \in Target : \A d \in Doc : remote'.state[t].docs[d] \notin {"added", "modified"}
    BY <2>1, FreshType
  <2>4. disk.lastVersion <= Len(history)
    BY <1>8 DEF VersionInv
  <2>5. Resumable(history, disk, views', limbo, remote', NoCall)
    BY <1>8, <1>9, <2>1, <2>3, <2>4, WithoutCall
  <2> QED
    BY <1>1, <2>2, <2>5 DEF ResumeInv
<1>11. CASE remote.stream = "open"
  <2>1. q \notin remote.targets /\ InStep(remote, call)
    BY <1>1, <1>2, <1>11, TargetIs DEF TargetsInv, StreamInv
  <2>2. q \notin remote.tracked /\ remote.state[q].outstanding = 0
    BY <1>2, <1>3, <2>1, FreshType DEF InStep, Settling, StreamInv, Fresh
  <2>3. Expected(r, {q}, 1, r1)
    BY <1>3, <1>6, ExpectsIs
  <2> HIDE DEF r1
  <2>4. /\ r2.targets = remote.targets \cup {q} /\ r2.stream = "open" /\ r2.resume = r.resume
        /\ r2.updates = remote.updates /\ r2.tracked = remote.tracked \cup {q}
        /\ r2.state[q].outstanding = 1
        /\ \A t \in Target : r2.state[t].docs = remote.state[t].docs
        /\ \A t \in Target : t # q => r2.state[t] = remote.state[t]
    BY <1>3, <1>6, <1>11, <2>2, <2>3 DEF Expected, Remote
  <2> HIDE DEF r2
  <2>5. b \in Seq(Request) /\ Len(b) = 1 /\ b[1].target = q /\ b[1].token = token
    <3>1. Watch(q, token) \in Request
      BY <1>3 DEF Watch, Request
    <3> QED
      BY <3>1 DEF Watch
  <2> HIDE DEF b
  <2>6. /\ c2 \in Call /\ c2.requests = call.requests \o b /\ c2.watched = call.watched
        /\ c2.version = call.version
    BY <1>2, <2>5, SendsIs
  <2>7. c2.have = call.have
    BY <1>2 DEF Sends, Call
  <2> HIDE DEF c2
  <2>8. \A i \in 1..Len(c2.requests) :
          \/ \E j \in 1..Len(call.requests) : c2.requests[i] = call.requests[j]
          \/ c2.requests[i].target = q /\ c2.requests[i].token = token
    <3>1. call.requests \in Seq(Request)
      BY <1>2, CallFields
    <3>2. \A j \in 1..Len(b) : b[j].target = q /\ b[j].token = token
      BY <2>5
    <3> DEFINE all == call.requests \o b
    <3>3. \A i \in 1..Len(all) : \/ \E j \in 1..Len(call.requests) : all[i] = call.requests[j]
                                \/ \E j \in 1..Len(b) : all[i] = b[j]
      BY <2>5, <3>1, OfBoth
    <3>4. c2.requests = all
      BY <2>6
    <3> HIDE DEF all
    <3> QED
      BY <3>2, <3>3, <3>4
  <2>9. \A t \in Target : Live(r2, t) <=> Live(remote, t)
    BY <2>1, <2>2, <2>4 DEF Live
  <2>10. ~Live(r2, q)
    BY <2>4 DEF Live
  <2>11. VersionInv(history, disk, r2, c2) /\ UpdatesInv(history, disk, r2, c2) /\ HaveInv(history, c2)
    BY <1>8, <1>11, <2>4, <2>6, <2>7 DEF VersionInv, UpdatesInv, HaveInv
  <2>12. token <= disk.lastVersion /\ Known(history, disk, q, token)
    BY <1>9 DEF token
  <2>13. OldTokens(disk, views', r2, c2)
    BY <1>8, <1>9, <2>4, <2>8, <2>12 DEF OldTokens
  <2>14. TokensInv(history, disk, views', r2, c2)
    BY <1>8, <1>9, <2>4, <2>8, <2>12 DEF TokensInv
  <2>15. DeliveredInv(history, disk, r2, c2)
    BY <1>8, <2>4, <2>6, <2>7, <2>9, TargetIs DEF DeliveredInv, Delivered, Newest
  <2>16. LimboTokens(history, limbo, r2, c2)
    BY <1>8, <1>9, <2>4, <2>8, TargetIs DEF LimboTokens
  <2>17. LimboInv(limbo, r2, c2)
    BY <1>8, <2>4, <2>7, <2>9, TargetIs DEF LimboInv, LimboSent
  <2>18. ChangesInv(r2)
    BY <1>8, <2>4, <2>9 DEF ChangesInv, Explained
  <2>19. TrackedInv(r2)
    BY <1>8, <1>11, <2>4 DEF TrackedInv
  <2>20. Resumable(history, disk, views', limbo, r2, c2)
    BY <1>8, <2>11, <2>13, <2>14, <2>15, <2>16, <2>17, <2>18, <2>19 DEF Resumable
  <2> QED
    BY <1>1, <1>11, <2>20 DEF ResumeInv
<1> QED
  BY <1>10, <1>11

-----------------------------------------------------------------------------
(* Limbo documents.                                                        *)

\* Raise changes only what the app has been shown.
LEMMA RaiseKeeps ==
  ASSUME NEW vw \in Views, NEW cache, NEW state
  PROVE  LET vw2 == Raise(vw, cache, state) IN
         /\ vw2.listening = vw.listening /\ vw2.synced = vw.synced /\ vw2.limbo = vw.limbo
         /\ vw2.token = vw.token /\ vw2.current = vw.current
  BY DEF Raise, Views

\* What a task that ends with limbo documents does.
Emitted(vw, lb, r, c, cache, stopped, started) ==
  /\ stopped \subseteq lb.active /\ started \subseteq LimboTarget
  /\ \A t \in started : /\ t \notin r.targets /\ t \notin r.tracked /\ t \notin c.watched
                        /\ Waiting(c.requests, t) = {}
  /\ views'.token = vw.token /\ views'.listening = vw.listening
  /\ views'.synced = vw.synced /\ views'.current = vw.current
  /\ views'.limbo = InLimbo(vw, cache)
  /\ \A t \in limbo'.active : t[1] \in InDoubt(views')
  /\ limbo'.received = lb.received \ stopped
  /\ remote' = Relistened(r, stopped, started)
  /\ \E b \in SetToSeqs({Unwatch(t) : t \in stopped} \cup {Watch(t, 0) : t \in started}) :
       call' = Sends(c, b)

LEMMA EmitsDoes ==
  ASSUME views \in Views, NEW vw \in Views, NEW lb \in Limbo, NEW r \in Remote, NEW c \in Call,
         NEW cache, NEW fits, Emits(vw, lb, r, c, cache, fits)
  PROVE  \E stopped, started : Emitted(vw, lb, r, c, cache, stopped, started)
<1> DEFINE inLimbo == InLimbo(vw, cache)
           before == UNION {views.limbo[q] : q \in Query}
           after == UNION {inLimbo[q] : q \in Query}
           stopped == {t \in lb.active : t[1] \notin after}
           active == lb.active \ stopped
           room == MaxConcurrentLimboResolutions - Cardinality(active)
<1>1. PICK queue \in Queues(lb.enqueued, before, after) :
        LET n       == IF room < Len(queue) THEN room ELSE Len(queue)
            started == {NewTarget(r, c, queue[i]) : i \in 1..n}
        IN  /\ \A i \in 1..n : FreeNumbers(r, c, queue[i]) # {}
            /\ views' = Raise([vw EXCEPT !.limbo = inLimbo], cache, "Online")
            /\ limbo' = [active   |-> active \cup started,
                         received |-> lb.received \ stopped,
                         enqueued |-> SubSeq(queue, n + 1, Len(queue))]
            /\ remote' = Relistened(r, stopped, started)
            /\ \E requests \in SetToSeqs({Unwatch(t) : t \in stopped}
                                           \cup {Watch(t, 0) : t \in started}) :
                 call' = Sends(c, requests)
            /\ asserted' = (asserted /\ fits /\ stopped \subseteq r.targets)
  BY DEF Emits
<1> DEFINE n == IF room < Len(queue) THEN room ELSE Len(queue)
           started == {NewTarget(r, c, queue[i]) : i \in 1..n}
<1>2. /\ \A i \in 1..n : FreeNumbers(r, c, queue[i]) # {}
      /\ views' = Raise([vw EXCEPT !.limbo = inLimbo], cache, "Online")
      /\ limbo' = [active   |-> active \cup started,
                   received |-> lb.received \ stopped,
                   enqueued |-> SubSeq(queue, n + 1, Len(queue))]
      /\ remote' = Relistened(r, stopped, started)
      /\ \E requests \in SetToSeqs({Unwatch(t) : t \in stopped}
                                     \cup {Watch(t, 0) : t \in started}) :
           call' = Sends(c, requests)
  BY <1>1, Zenon
<1>3. inLimbo \in [Query -> SUBSET Doc]
  BY InLimboType
<1> HIDE DEF inLimbo
<1>4. after \in SUBSET Doc /\ before \in SUBSET Doc
  BY <1>3 DEF Views
<1>5. lb.active \subseteq LimboTarget /\ lb.enqueued \in Seq(Doc)
  BY LimboFields
<1>6. queue \in Seq(Doc) /\ Len(queue) \in Nat /\ \A i \in 1..Len(queue) : queue[i] \in after
  <2>1. queue \in Queues(lb.enqueued, before, after)
    OBVIOUS
  <2> HIDE DEF before, after
  <2>2. NewQueue(lb.enqueued, before, after, queue)
    BY <1>4, <1>5, <2>1, QueueIs
  <2> QED
    BY <2>2 DEF NewQueue
<1>7. /\ views'.token = vw.token /\ views'.listening = vw.listening
      /\ views'.synced = vw.synced /\ views'.current = vw.current /\ views'.limbo = inLimbo
  <2> DEFINE w == [vw EXCEPT !.limbo = inLimbo]
  <2>1. /\ w \in Views /\ w.token = vw.token /\ w.listening = vw.listening
        /\ w.synced = vw.synced /\ w.current = vw.current /\ w.limbo = inLimbo
    BY <1>3 DEF Views
  <2>2. views' = Raise(w, cache, "Online")
    BY <1>2, Zenon DEF w
  <2> HIDE DEF w
  <2> QED
    BY <2>1, <2>2, RaiseKeeps
<1>8. InDoubt(views') = after
  BY <1>7 DEF InDoubt
<1> HIDE DEF before, after
<1>9. /\ stopped \subseteq lb.active /\ active \subseteq lb.active
      /\ \A t \in active : t[1] \in after
  OBVIOUS
<1> HIDE DEF stopped, active
<1>10. Cardinality(active) \in Nat
  <2>1. IsFiniteSet(active)
    BY <1>5, <1>9, TargetsFinite, FS_Subset
  <2> QED
    BY <2>1, FS_CardinalityType
<1>11. \A i \in 1..n : queue[i] \in Doc /\ queue[i] \in after
  <2>1. n <= Len(queue) /\ room \in Int
    BY <1>6, <1>10, BoundsAssumption
  <2> HIDE DEF room
  <2>2. n \in Int
    BY <1>6, <2>1
  <2> HIDE DEF n
  <2>3. \A i \in 1..n : i \in 1..Len(queue)
    BY <1>6, <2>1, <2>2
  <2> QED
    BY <1>6, <2>3
<1> HIDE DEF room, n
<1>12. \A t \in started :
         /\ t \in LimboTarget /\ t \notin r.targets /\ t \notin r.tracked /\ t \notin c.watched
         /\ Waiting(c.requests, t) = {} /\ t[1] \in after
  <2> SUFFICES ASSUME NEW i \in 1..n
               PROVE  /\ NewTarget(r, c, queue[i]) \in LimboTarget
                      /\ NewTarget(r, c, queue[i])[1] \in after
                      /\ NewTarget(r, c, queue[i]) \notin r.targets
                      /\ NewTarget(r, c, queue[i]) \notin r.tracked
                      /\ NewTarget(r, c, queue[i]) \notin c.watched
                      /\ Waiting(c.requests, NewTarget(r, c, queue[i])) = {}
    OBVIOUS
  <2> DEFINE d == queue[i]
             new == NewTarget(r, c, d)
  <2>1. FreeNumbers(r, c, d) # {}
    BY <1>2 DEF n
  <2>2. d \in Doc /\ d \in after
    BY <1>11
  <2> HIDE DEF d
  <2>3. /\ new \in LimboTarget /\ new[1] = d /\ new \notin r.targets
        /\ new \notin r.tracked /\ new \notin c.watched /\ Waiting(c.requests, new) = {}
    BY <2>1, <2>2, NewTargetIs
  <2> HIDE DEF new
  <2>4. new[1] \in after
    BY <2>2, <2>3
  <2> QED
    BY <2>3, <2>4 DEF new, d
<1>13. limbo'.received = lb.received \ stopped /\ limbo'.active = active \cup started
  BY <1>2 DEF started, n
<1>14. /\ remote' = Relistened(r, stopped, started)
       /\ \E b \in SetToSeqs({Unwatch(t) : t \in stopped} \cup {Watch(t, 0) : t \in started}) :
            call' = Sends(c, b)
  BY <1>2, Zenon DEF n, started
<1> HIDE DEF started
<1>15. views'.limbo = InLimbo(vw, cache) /\ \A t \in limbo'.active : t[1] \in InDoubt(views')
  BY <1>7, <1>9, <1>12, <1>13, <1>8 DEF inLimbo
<1>16. Emitted(vw, lb, r, c, cache, stopped, started)
  BY <1>7, <1>9, <1>12, <1>13, <1>14, <1>15, Zenon DEF Emitted
<1> QED
  BY <1>16

LEMMA RelistensTokens ==
  ASSUME NEW r \in Remote, NEW stopped, NEW started,
         stopped \subseteq Target, started \subseteq Target
  PROVE  LET r2 == Relistened(r, stopped, started) IN
         /\ r2.updates = r.updates
         /\ \A t \in Target : r2.resume[t] = IF t \in stopped THEN 0 ELSE r.resume[t]
<1> DEFINE T == stopped \cup started
           targets == (r.targets \ stopped) \cup started
           r1 == Expects(r, T, 1)
           resume == [t \in Target |-> IF t \in stopped THEN 0 ELSE r1.resume[t]]
           idle == IF stopped # {} THEN targets = {} ELSE r1.idle /\ started = {}
           r2 == [r1 EXCEPT !.targets = targets, !.resume = resume, !.idle = idle]
<1>1. T \subseteq Target
  OBVIOUS
<1>2. Relistened(r, stopped, started) = r2
  BY DEF Relistened
<1> HIDE DEF T
<1>3. Expected(r, T, 1, r1)
  BY <1>1, ExpectsIs
<1> HIDE DEF r1
<1>4. r1 \in Remote /\ r1.resume = r.resume /\ r1.updates = r.updates
  BY <1>3 DEF Expected
<1> HIDE DEF targets, idle
<1>5. \A t \in Target : resume[t] = IF t \in stopped THEN 0 ELSE r.resume[t]
  BY <1>4
<1> HIDE DEF resume
<1>6. r2.updates = r1.updates /\ r2.resume = resume
  BY <1>4 DEF Remote
<1> HIDE DEF r2
<1> QED
  BY <1>2, <1>4, <1>5, <1>6

\* What stopping and starting limbo targets does to the two ends of the stream.
OnTheWire(r, c, stopped, started) ==
  /\ stopped \subseteq LimboTarget /\ started \subseteq LimboTarget
  /\ stopped \cap started = {}
  /\ remote'.targets = (r.targets \ stopped) \cup started /\ remote'.stream = "open"
  /\ remote'.tracked = r.tracked \cup stopped \cup started
  /\ remote'.updates = r.updates
  /\ \A t \in Target :
       /\ remote'.resume[t] = IF t \in stopped THEN 0 ELSE r.resume[t]
       /\ t \notin stopped \cup started => remote'.state[t] = r.state[t]
       /\ remote'.state[t].docs = r.state[t].docs
       /\ Live(remote', t) => t \notin stopped \cup started /\ Live(r, t)
  /\ call'.watched = c.watched /\ call'.version = c.version
  /\ call'.have = c.have /\ call'.owed = c.owed
  /\ \A i \in 1..Len(call'.requests) :
       \/ \E j \in 1..Len(c.requests) : call'.requests[i] = c.requests[j]
       \/ call'.requests[i].target \in LimboTarget /\ call'.requests[i].token = 0

\* An emission leaves the queries' targets and the messages under way alone.
LEMMA EmittedIs ==
  ASSUME NEW vw, NEW lb, NEW r \in Remote, NEW c \in Call, NEW cache, r.stream = "open",
         lb.active \subseteq r.targets, lb.active \subseteq LimboTarget,
         NEW stopped, NEW started, Emitted(vw, lb, r, c, cache, stopped, started)
  PROVE  OnTheWire(r, c, stopped, started)
<1>1. /\ stopped \subseteq lb.active /\ started \subseteq LimboTarget
      /\ \A t \in started : t \notin r.targets
      /\ remote' = Relistened(r, stopped, started)
  BY DEF Emitted
<1>2. PICK b \in SetToSeqs({Unwatch(t) : t \in stopped} \cup {Watch(t, 0) : t \in started}) :
        call' = Sends(c, b)
  BY Zenon DEF Emitted
<1>3. /\ stopped \subseteq Target /\ started \subseteq Target /\ stopped \subseteq LimboTarget
      /\ stopped \cap started = {}
  BY <1>1, TargetIs
<1>4. /\ Turned(r, stopped, started, remote')
      /\ remote'.updates = r.updates
      /\ \A t \in Target : remote'.resume[t] = IF t \in stopped THEN 0 ELSE r.resume[t]
  BY <1>1, <1>3, Relistens, RelistensTokens
<1>5. /\ remote'.targets = (r.targets \ stopped) \cup started /\ remote'.stream = "open"
      /\ remote'.tracked = r.tracked \cup stopped \cup started
      /\ \A t \in Target :
           /\ t \notin stopped \cup started => remote'.state[t] = r.state[t]
           /\ t \in stopped \cup started =>
                remote'.state[t].outstanding = r.state[t].outstanding + 1
           /\ remote'.state[t].docs = r.state[t].docs
  BY <1>4 DEF Turned
<1>6. \A t \in Target : r.state[t].outstanding \in Nat
  BY RemoteFields, StateFields
<1>7. \A t \in Target : Live(remote', t) => t \notin stopped \cup started /\ Live(r, t)
  BY <1>3, <1>5, <1>6 DEF Live
<1>8. b \in Seq(Request)
  <2> DEFINE token == [t \in Target |-> 0]
             R == {Unwatch(t) : t \in stopped} \cup {Watch(t, token[t]) : t \in started}
  <2>1. {Watch(t, token[t]) : t \in started} = {Watch(t, 0) : t \in started}
    BY <1>3
  <2>2. b \in SetToSeqs(R)
    BY <2>1, Zenon
  <2>3. token \in [Target -> Version]
    BY BoundsAssumption DEF Version
  <2> HIDE DEF token
  <2>4. Asks(b, stopped, started)
    BY <1>3, <2>2, <2>3, AsksOfArrangement
  <2> QED
    BY <2>4 DEF Asks
<1>9. \A i \in 1..Len(b) : b[i].target \in LimboTarget /\ b[i].token = 0
  <2> DEFINE S == {Unwatch(t) : t \in stopped} \cup {Watch(t, 0) : t \in started}
  <2>1. \A x \in S : x.target \in stopped \cup started /\ x.token = 0
    BY DEF Watch, Unwatch
  <2>2. b \in SetToSeqs(S)
    OBVIOUS
  <2> HIDE DEF S
  <2>3. \A i \in 1..Len(b) : b[i] \in S
    BY <1>8, <2>2, ElementsOf
  <2> QED
    BY <1>1, <1>3, <2>1, <2>3
<1> DEFINE c2 == Sends(c, b)
           all == c.requests \o b
<1>10. /\ c2 \in Call /\ c2.requests = all /\ c2.watched = c.watched /\ c2.version = c.version
  BY <1>8, SendsIs
<1>11. c2.have = c.have /\ c2.owed = c.owed
  BY DEF Sends, Call
<1>12. \A i \in 1..Len(all) : \/ \E j \in 1..Len(c.requests) : all[i] = c.requests[j]
                              \/ \E j \in 1..Len(b) : all[i] = b[j]
  BY <1>8, CallFields, OfBoth
<1> HIDE DEF c2, all
<1>13. \A i \in 1..Len(c2.requests) :
         \/ \E j \in 1..Len(c.requests) : c2.requests[i] = c.requests[j]
         \/ c2.requests[i].target \in LimboTarget /\ c2.requests[i].token = 0
  BY <1>9, <1>10, <1>12
<1> QED
  BY <1>1, <1>2, <1>3, <1>4, <1>5, <1>7, <1>10, <1>11, <1>13 DEF c2, OnTheWire

\* Starting and stopping limbo targets leaves what is known of the others.
LEMMA EmitsKeepResume ==
  ASSUME views \in Views, NEW vw, NEW lb, NEW r, NEW c, Ready(vw, lb, r, c),
         NEW cache, NEW fits, Emits(vw, lb, r, c, cache, fits),
         NEW h, NEW dk, dk.lastVersion \in Nat, Resumable(h, dk, vw, lb, r, c)
  PROVE  Resumable(h, dk, views', limbo', remote', call')
<1>1. /\ vw \in Views /\ lb \in Limbo /\ r \in Remote /\ c \in Call /\ r.stream = "open"
      /\ lb.active \subseteq r.targets /\ lb.active \subseteq LimboTarget
  BY LimboFields DEF Ready
<1>2. PICK stopped, started : Emitted(vw, lb, r, c, cache, stopped, started)
  BY <1>1, EmitsDoes
<1>3. /\ \A t \in started : t \notin r.targets /\ Waiting(c.requests, t) = {}
      /\ views'.token = vw.token /\ limbo'.received = lb.received \ stopped
  BY <1>2 DEF Emitted
<1>wire. OnTheWire(r, c, stopped, started)
  BY <1>1, <1>2, EmittedIs
<1>4. /\ stopped \subseteq LimboTarget /\ started \subseteq LimboTarget
      /\ stopped \cap started = {}
      /\ remote'.targets = (r.targets \ stopped) \cup started /\ remote'.stream = "open"
      /\ remote'.tracked = r.tracked \cup stopped \cup started
      /\ remote'.updates = r.updates
  BY <1>wire DEF OnTheWire
<1>5. \A t \in Target :
        /\ remote'.resume[t] = IF t \in stopped THEN 0 ELSE r.resume[t]
        /\ t \notin stopped \cup started => remote'.state[t] = r.state[t]
        /\ remote'.state[t].docs = r.state[t].docs
        /\ Live(remote', t) => t \notin stopped \cup started /\ Live(r, t)
  BY <1>wire DEF OnTheWire
<1>6. call'.watched = c.watched /\ call'.version = c.version /\ call'.have = c.have
  BY <1>wire DEF OnTheWire
<1>7. \A i \in 1..Len(call'.requests) :
         \/ \E j \in 1..Len(c.requests) : call'.requests[i] = c.requests[j]
         \/ call'.requests[i].target \in LimboTarget /\ call'.requests[i].token = 0
  BY <1>wire DEF OnTheWire
<1>8. /\ CacheInv(h, dk) /\ VersionInv(h, dk, r, c) /\ UpdatesInv(h, dk, r, c) /\ HaveInv(h, c)
       /\ OldTokens(dk, vw, r, c) /\ TokensInv(h, dk, vw, r, c) /\ DeliveredInv(h, dk, r, c)
       /\ LimboTokens(h, lb, r, c) /\ LimboInv(lb, r, c) /\ ChangesInv(r) /\ TrackedInv(r)
  BY DEF Resumable
<1>9. VersionInv(h, dk, remote', call') /\ UpdatesInv(h, dk, remote', call') /\ HaveInv(h, call')
  BY <1>1, <1>4, <1>5, <1>6, <1>8 DEF VersionInv, UpdatesInv, HaveInv
<1>10. OldTokens(dk, views', remote', call')
  <2>1. \A t \in Target : remote'.resume[t] <= dk.lastVersion
    BY <1>4, <1>5, <1>8 DEF OldTokens
  <2>2. \A i \in 1..Len(call'.requests) : call'.requests[i].token <= dk.lastVersion
    BY <1>7, <1>8 DEF OldTokens
  <2> QED
    BY <1>3, <1>8, <2>1, <2>2 DEF OldTokens
<1>11. TokensInv(h, dk, views', remote', call')
  <2>1. \A q \in Query : remote'.resume[q] = r.resume[q]
    BY <1>4, <1>5, TargetIs
  <2>2. \A q \in Query : \A i \in 1..Len(call'.requests) :
          call'.requests[i].target = q => \E j \in 1..Len(c.requests) : call'.requests[i] = c.requests[j]
    BY <1>7, TargetIs
  <2> QED
    BY <1>3, <1>8, <2>1, <2>2 DEF TokensInv
<1>12. DeliveredInv(h, dk, remote', call')
  BY <1>4, <1>5, <1>6, <1>8, TargetIs DEF DeliveredInv, Delivered, Newest
<1>13. LimboTokens(h, limbo', remote', call')
  <2> SUFFICES ASSUME NEW t \in LimboTarget
               PROVE  /\ ReceivedAt(h, limbo', t, remote'.resume[t])
                      /\ t \in remote'.targets => \A i \in 1..Len(call'.requests) :
                           call'.requests[i].target = t => ReceivedAt(h, limbo', t, call'.requests[i].token)
    BY DEF LimboTokens
  <2>1. t \in Target
    BY TargetIs
  <2>2. ReceivedAt(h, limbo', t, remote'.resume[t])
    <3>1. t \notin stopped => ReceivedAt(h, lb, t, r.resume[t])
      BY <1>8 DEF LimboTokens
    <3> QED
      BY <1>3, <1>4, <1>5, <2>1, <3>1 DEF ReceivedAt
  <2>3. ASSUME t \in remote'.targets, NEW i \in 1..Len(call'.requests), call'.requests[i].target = t
        PROVE  ReceivedAt(h, limbo', t, call'.requests[i].token)
    <3>1. CASE call'.requests[i].token = 0
      BY <3>1 DEF ReceivedAt
    <3>2. CASE \E j \in 1..Len(c.requests) : call'.requests[i] = c.requests[j]
      <4>1. PICK j \in 1..Len(c.requests) : call'.requests[i] = c.requests[j]
        BY <3>2
      <4>2. t \notin started
        BY <1>3, <2>3, <4>1 DEF Waiting
      <4>3. t \in r.targets /\ t \notin stopped
        BY <1>4, <1>5, <2>3, <4>2
      <4>4. ReceivedAt(h, lb, t, call'.requests[i].token)
        BY <1>8, <2>3, <4>1, <4>3 DEF LimboTokens
      <4> QED
        BY <1>3, <4>3, <4>4 DEF ReceivedAt
    <3> QED
      BY <1>7, <3>1, <3>2
  <2> QED
    BY <2>2, <2>3
<1>14. LimboInv(limbo', remote', call')
  <2> SUFFICES ASSUME NEW t \in LimboTarget, Live(remote', t), call'.have[t][t[1]] # 0
               PROVE  remote'.state[t].docs[t[1]] \in
                        IF t \in limbo'.received THEN {"none", "added", "modified"} ELSE {"added"}
    BY DEF LimboInv, LimboSent
  <2>1. t \in Target /\ t \notin stopped \cup started /\ Live(r, t)
    BY <1>5, TargetIs
  <2>2. LimboSent(lb, r, c, t)
    BY <1>8 DEF LimboInv
  <2> QED
    BY <1>3, <1>4, <1>5, <1>6, <2>1, <2>2 DEF LimboSent
<1>15. ChangesInv(remote')
  BY <1>4, <1>5, <1>8 DEF ChangesInv, Explained
<1>16. TrackedInv(remote')
  BY <1>1, <1>4, <1>5, <1>8 DEF TrackedInv
<1>17. Resumable(h, dk, views', limbo', remote', call')
  BY <1>8, <1>9, <1>10, <1>11, <1>12, <1>13, <1>14, <1>15, <1>16 DEF Resumable
<1> QED
  BY <1>17

-----------------------------------------------------------------------------
(* Snapshots.                                                              *)

\* Every target that the client takes messages for is part of the snapshot.
Marked(r, v) == \A t \in Target : Live(r, t) => Takes(r, t) /\ r.state[t].token = v

LEMMA AllAtIs ==
  ASSUME NEW r \in Remote, NEW v \in Version
  PROVE  LET r2 == AllTargetsAt(r, v) IN
         /\ r2.targets = r.targets /\ r2.stream = r.stream /\ r2.resume = r.resume
         /\ r2.updates = r.updates /\ r2.tracked = r.tracked
         /\ \A t \in Target :
              /\ r2.state[t].outstanding = r.state[t].outstanding
              /\ r2.state[t].docs = r.state[t].docs
              /\ t \in r.tracked /\ IsActive(r, t) => r2.state[t].changed /\ r2.state[t].token = v
<1> DEFINE g == [t \in Target |-> [r.state[t] EXCEPT !.changed = TRUE, !.token = v]]
           f == [t \in Target |-> IF t \in r.tracked /\ IsActive(r, t)
                                    THEN [r.state[t] EXCEPT !.changed = TRUE, !.token = v]
                                    ELSE r.state[t]]
           r2 == [r EXCEPT !.state = f]
<1>1. r.state \in [Target -> TargetState]
  BY RemoteFields
<1>2. \A t \in Target : /\ g[t].outstanding = r.state[t].outstanding
                        /\ g[t].docs = r.state[t].docs /\ g[t].changed /\ g[t].token = v
  BY <1>1 DEF TargetState
<1>3. AllTargetsAt(r, v) = r2
  BY DEF AllTargetsAt
<1>4. \A t \in Target : f[t] = IF t \in r.tracked /\ IsActive(r, t) THEN g[t] ELSE r.state[t]
  OBVIOUS
<1> HIDE DEF f, g
<1>5. /\ r2.targets = r.targets /\ r2.stream = r.stream /\ r2.resume = r.resume
      /\ r2.updates = r.updates /\ r2.tracked = r.tracked /\ r2.state = f
  BY DEF Remote
<1> HIDE DEF r2
<1> QED
  BY <1>2, <1>3, <1>4, <1>5

LEMMA MarksKeepResume ==
  ASSUME IInv, ResumeInv, remote.stream = "open"
  PROVE  LET r == AllTargetsAt(remote, call.version) IN
         Resumable(history, disk, views, limbo, r, call) /\ Marked(r, call.version)
<1> DEFINE r == AllTargetsAt(remote, call.version)
<1>1. /\ call \in Call /\ remote \in Remote /\ Sound(remote) /\ TypeOK /\ call.version \in Version
      /\ TrackedInv(remote)
  BY StateOfIInv, CallFields DEF IInv, ResumeInv, Resumable
<1>2. /\ call.version \in Nat /\ Now \in Nat /\ call.version <= Now
  BY <1>1, Types, VersionIs DEF ResumeInv, Resumable, VersionInv, Now
<1>3. r \in Remote
  BY <1>1, MarksAll DEF Kept
<1>4. /\ r.targets = remote.targets /\ r.stream = remote.stream /\ r.resume = remote.resume
      /\ r.updates = remote.updates /\ r.tracked = remote.tracked
      /\ \A t \in Target :
           /\ r.state[t].outstanding = remote.state[t].outstanding
           /\ r.state[t].docs = remote.state[t].docs
           /\ t \in remote.tracked /\ IsActive(remote, t) =>
                r.state[t].changed /\ r.state[t].token = call.version
  BY <1>1, AllAtIs
<1> HIDE DEF r
<1>5. \A t \in Target : Live(r, t) = Live(remote, t)
  BY <1>4 DEF Live
<1>6. TrackedInv(r)
  BY <1>1, <1>4 DEF TrackedInv
<1>7. Resumable(history, disk, views, limbo, r, call)
  <2>1. HaveInv(history, call)
    BY DEF ResumeInv, Resumable
  <2>2. DeliveredInv(history, disk, r, call)
    BY <1>1, <1>2, <1>4, <1>5, StaysDelivered, TargetIs DEF DeliveredInv
  <2>3. LimboInv(limbo, r, call)
    BY <1>4, <1>5, TargetIs DEF ResumeInv, Resumable, LimboInv, LimboSent
  <2>4. ChangesInv(r)
    BY <1>4, <1>5 DEF ResumeInv, Resumable, ChangesInv, Explained
  <2>5. \A i \in 1..Len(call.requests) : \E j \in 1..Len(call.requests) :
          call.requests[i] = call.requests[j]
    OBVIOUS
  <2> QED
    BY <1>1, <1>2, <1>3, <1>4, <1>6, <2>1, <2>2, <2>3, <2>4, <2>5, Quietly
<1>8. Marked(r, call.version)
  <2> SUFFICES ASSUME NEW t \in Target, Live(r, t)
               PROVE  Takes(r, t) /\ r.state[t].token = call.version
    BY DEF Marked
  <2>1. IsActive(remote, t) /\ t \in remote.tracked
    BY <1>1, <1>5, LiveIsActive DEF TrackedInv, Live
  <2>2. IsActive(r, t)
    BY <1>4, <1>6, LiveIsActive
  <2> QED
    BY <1>4, <2>1, <2>2 DEF Takes
<1> QED
  BY <1>7, <1>8 DEF r

\* Limbo documents that the server should have sent by now.
Missing(r) ==
  {t \in LimboTarget \cap r.tracked :
     /\ IsActive(r, t) /\ r.state[t].current
     /\ r.updates[t[1]].kind = "none" /\ RemoteKeys(t) = {}}

LEMMA SynthesizedIs ==
  ASSUME NEW r, Sound(r), NEW v \in Version
  PROVE  LET r2 == WithSynthesizedDeletes(r, v) IN
         /\ r2.targets = r.targets /\ r2.stream = r.stream /\ r2.resume = r.resume
         /\ r2.tracked = r.tracked
         /\ \A t \in Target :
              /\ r2.state[t].outstanding = r.state[t].outstanding
              /\ r2.state[t].token = r.state[t].token
              /\ r.state[t].changed => r2.state[t].changed
              /\ \A d \in Doc : r2.state[t].docs[d] = IF t \in Missing(r) /\ d = t[1] THEN "none"
                                                      ELSE r.state[t].docs[d]
         /\ \A d \in Doc : r2.updates[d] = IF \E t \in Missing(r) : t[1] = d
                                             THEN [kind |-> "deleted", version |-> v]
                                             ELSE r.updates[d]
<1> DEFINE missing == Missing(r)
           g == [t \in LimboTarget |-> DocumentChange(t, r.state[t], t[1], FALSE)]
           f == [t \in Target |-> IF t \in missing THEN DocumentChange(t, r.state[t], t[1], FALSE)
                                  ELSE r.state[t]]
           x == [kind |-> "deleted", version |-> v]
           w == [d \in Doc |-> IF \E t \in missing : t[1] = d THEN x ELSE r.updates[d]]
           r2 == [r EXCEPT !.state = f, !.updates = w]
<1>1. r \in Remote /\ r.state \in [Target -> TargetState]
  BY RemoteFields DEF Sound
<1>2. WithSynthesizedDeletes(r, v) = IF missing = {} THEN r ELSE r2
  BY DEF WithSynthesizedDeletes, Missing
<1>3. \A t \in missing : t \in LimboTarget /\ t \in Target /\ RemoteKeys(t) = {}
  BY TargetIs DEF Missing
<1>4. ASSUME NEW t \in missing
      PROVE  /\ g[t].outstanding = r.state[t].outstanding /\ g[t].token = r.state[t].token
             /\ g[t].changed
             /\ \A d \in Doc : g[t].docs[d] = IF d = t[1] THEN "none" ELSE r.state[t].docs[d]
  <2>1. g[t] = DocumentChange(t, r.state[t], t[1], FALSE)
    BY <1>3
  <2>2. r.state[t] \in TargetState /\ t[1] \in Doc /\ t[1] \notin RemoteKeys(t)
    BY <1>1, <1>3, TargetIs
  <2>3. r.state[t].docs \in [Doc -> {"none", "added", "modified", "removed"}]
    BY <2>2, StateFields
  <2> HIDE DEF g
  <2> QED
    BY <2>1, <2>2, <2>3 DEF DocumentChange, TargetState
<1>5. \A t \in Target : f[t] = IF t \in missing THEN g[t] ELSE r.state[t]
  BY <1>3
<1>6. \A d \in Doc : w[d] = IF \E t \in missing : t[1] = d THEN x ELSE r.updates[d]
  OBVIOUS
<1> HIDE DEF missing, g, f, w, x
<1>7. /\ r2.targets = r.targets /\ r2.stream = r.stream /\ r2.resume = r.resume
      /\ r2.updates = w /\ r2.tracked = r.tracked /\ r2.state = f
  BY <1>1 DEF Remote
<1> HIDE DEF r2
<1> QED
  BY <1>2, <1>4, <1>5, <1>6, <1>7 DEF missing, x

\* All that a target has sent by the time of a snapshot.
AllSent(c) == \A t \in c.watched : c.have[t] = At(t, c.version)

LEMMA SynthesizesKeepsResume ==
  ASSUME TypeOK, NEW r, Sound(r), r.stream = "open", InStep(r, call), AllSent(call),
         Resumable(history, disk, views, limbo, r, call), Marked(r, call.version)
  PROVE  LET r2 == WithSynthesizedDeletes(r, call.version) IN
         Resumable(history, disk, views, limbo, r2, call) /\ Marked(r2, call.version)
<1> DEFINE v == call.version
           r2 == WithSynthesizedDeletes(r, v)
<1>1. /\ history \in Seq(SUBSET Doc) /\ call \in Call /\ disk.cache \in [Doc -> Update]
      /\ r \in Remote /\ v \in Version /\ v \in Nat /\ Now \in Nat
      /\ r.updates \in [Doc -> Update]
  BY Types, CallFields, RemoteFields, VersionIs DEF Sound
<1>2. /\ CacheInv(history, disk) /\ VersionInv(history, disk, r, call)
      /\ UpdatesInv(history, disk, r, call) /\ HaveInv(history, call)
      /\ OldTokens(disk, views, r, call) /\ TokensInv(history, disk, views, r, call)
      /\ DeliveredInv(history, disk, r, call) /\ LimboTokens(history, limbo, r, call)
      /\ LimboInv(limbo, r, call) /\ ChangesInv(r) /\ TrackedInv(r)
  BY DEF Resumable
<1>3. v \in 1..Now /\ v # 0 /\ v <= Now
  BY <1>1, <1>2 DEF VersionInv, Now
<1>4. Kept(r, r2)
  BY <1>1, Synthesizes
<1>5. /\ r2.targets = r.targets /\ r2.stream = r.stream /\ r2.resume = r.resume
      /\ r2.tracked = r.tracked
      /\ \A t \in Target :
           /\ r2.state[t].outstanding = r.state[t].outstanding
           /\ r2.state[t].token = r.state[t].token
           /\ r.state[t].changed => r2.state[t].changed
           /\ \A d \in Doc : r2.state[t].docs[d] = IF t \in Missing(r) /\ d = t[1] THEN "none"
                                                   ELSE r.state[t].docs[d]
      /\ \A d \in Doc : r2.updates[d] = IF \E t \in Missing(r) : t[1] = d
                                          THEN [kind |-> "deleted", version |-> v]
                                          ELSE r.updates[d]
  BY <1>1, SynthesizedIs
<1>6. r2.updates \in [Doc -> Update]
  BY <1>4, RemoteFields DEF Kept
<1> HIDE DEF r2, v
<1>7. ASSUME NEW t \in Missing(r)
      PROVE  /\ t \in LimboTarget /\ t[1] \in Doc /\ r.updates[t[1]].kind = "none"
             /\ t[1] \notin history[v] /\ call.have[t][t[1]] = 0
  <2>1. /\ t \in LimboTarget /\ t \in Target /\ t \notin Query /\ t[1] \in Doc /\ Scope(t) = {t[1]}
        /\ IsActive(r, t) /\ r.updates[t[1]].kind = "none" /\ RemoteKeys(t) = {}
    BY TargetIs DEF Missing
  <2>2. Live(r, t)
    BY <1>2, <2>1, LiveIsActive
  <2>3. call.have[t] = At(t, v)
    BY <1>1, <2>1, <2>2, LiveIsWatched DEF AllSent, v
  <2>4. t \notin limbo.received
    BY <2>1 DEF RemoteKeys
  <2>5. call.have[t][t[1]] = 0
    <3> SUFFICES ASSUME call.have[t][t[1]] # 0
                 PROVE  FALSE
      OBVIOUS
    <3>1. r.state[t].docs[t[1]] = "added"
      BY <1>2, <2>1, <2>2, <2>4 DEF LimboInv, LimboSent
    <3>2. r.updates[t[1]].kind # "none"
      BY <1>2, <2>1, <2>2, <3>1 DEF ChangesInv, Explained
    <3> QED
      BY <2>1, <3>2
  <2>6. t[1] \notin history[v]
    BY <1>1, <1>3, <2>1, <2>3, <2>5, AtIs
  <2> QED
    BY <2>1, <2>5, <2>6
<1>8. \A t \in Target : Live(r2, t) = Live(r, t)
  BY <1>5 DEF Live
<1>9. \A d \in Doc : \/ r2.updates[d] = r.updates[d]
                       \/ /\ r.updates[d].kind = "none" /\ d \notin history[v]
                          /\ r2.updates[d].kind = "deleted" /\ r2.updates[d].version = v
  BY <1>5, <1>7
<1>10. VersionInv(history, disk, r2, call)
  BY <1>2, <1>5 DEF VersionInv
<1>11. UpdatesInv(history, disk, r2, call)
  <2>1. v = call.version /\ v \in 1..v
    BY <1>1, <1>3 DEF v
  <2> QED
    BY <1>2, <1>9, <2>1 DEF UpdatesInv
<1>12. OldTokens(disk, views, r2, call) /\ TokensInv(history, disk, views, r2, call)
  BY <1>2, <1>5 DEF OldTokens, TokensInv
<1>13. DeliveredInv(history, disk, r2, call)
  <2>1. ASSUME NEW d \in Doc
        PROVE  Newest(disk, r, d) \in Nat /\ Newest(disk, r2, d) \in Nat
               /\ Newest(disk, r2, d) >= Newest(disk, r, d)
    <3>1. /\ disk.cache[d] \in Update /\ r.updates[d] \in Update /\ r2.updates[d] \in Update
          /\ disk.cache[d].kind = "none" => disk.cache[d].version = 0
      BY <1>1, <1>2, <1>6 DEF CacheInv
    <3>2. Newest(disk, r, d) \in Nat /\ Newest(disk, r2, d) \in Nat
      BY <3>1, NewestIs
    <3>3. CASE r2.updates[d] = r.updates[d]
      BY <3>2, <3>3 DEF Newest
    <3>4. CASE r.updates[d].kind = "none" /\ r2.updates[d].kind = "deleted"
      <4>1. Newest(disk, r, d) = disk.cache[d].version
        BY <3>4 DEF Newest, Newer
      <4> QED
        BY <3>1, <3>2, <3>4, <4>1, NewestIs
    <3> QED
      BY <1>9, <3>2, <3>3, <3>4
  <2>2. \A q \in Query : q \in Target /\ Matches[q] \subseteq Doc
    BY TargetIs
  <2>3. call.have \in [Target -> [Doc -> Version]]
    BY <1>1, CallFields
  <2>4. \A q \in Query : \A d \in Matches[q] : call.have[q][d] \in Nat
    BY <2>2, <2>3, VersionIs
  <2> QED
    BY <1>2, <1>8, <2>1, <2>2, <2>4 DEF DeliveredInv, Delivered
<1>14. LimboTokens(history, limbo, r2, call)
  BY <1>2, <1>5 DEF LimboTokens
<1>15. LimboInv(limbo, r2, call)
  BY <1>2, <1>5, <1>7, <1>8, TargetIs DEF LimboInv, LimboSent
<1>16. ChangesInv(r2)
  BY <1>2, <1>5, <1>8, <1>9 DEF ChangesInv, Explained
<1>17. TrackedInv(r2)
  BY <1>2, <1>5 DEF TrackedInv
<1>18. Resumable(history, disk, views, limbo, r2, call)
  BY <1>2, <1>10, <1>11, <1>12, <1>13, <1>14, <1>15, <1>16, <1>17 DEF Resumable
<1>19. Marked(r2, v)
  <2> SUFFICES ASSUME NEW t \in Target, Live(r2, t)
               PROVE  Takes(r2, t) /\ r2.state[t].token = v
    BY DEF Marked
  <2>1. Takes(r, t) /\ r.state[t].token = v
    BY <1>8 DEF Marked, v
  <2>2. IsActive(r2, t)
    BY <1>5, <1>17, LiveIsActive
  <2> QED
    BY <1>5, <2>1, <2>2 DEF Takes
<1> QED
  BY <1>18, <1>19 DEF r2, v

\* Nothing that is known gets lost in a snapshot, and what the server has sent
\* by its version becomes known.
LEMMA SnapshotIsKnown ==
  ASSUME TypeOK, NEW r, Sound(r), r.stream = "open", InStep(r, call), AllSent(call),
         Resumable(history, disk, views, limbo, r, call),
         NEW dk, dk.lastVersion = call.version,
         \A d \in Doc : dk.cache[d] = Newer(disk.cache[d], r.updates[d])
  PROVE  /\ CacheInv(history, dk)
         /\ \A q \in Query : \A w \in Nat :
              w <= disk.lastVersion /\ Known(history, disk, q, w) => Known(history, dk, q, w)
         /\ \A q \in Query : Live(r, q) => Known(history, dk, q, call.version)
<1> DEFINE v == call.version
<1>1. /\ history \in Seq(SUBSET Doc) /\ call \in Call /\ disk.cache \in [Doc -> Update]
      /\ r \in Remote /\ v \in Nat /\ Now \in Nat /\ r.updates \in [Doc -> Update]
      /\ disk.lastVersion \in Nat
  BY Types, CallFields, RemoteFields, VersionIs DEF Sound
<1>2. /\ CacheInv(history, disk) /\ VersionInv(history, disk, r, call)
      /\ UpdatesInv(history, disk, r, call) /\ DeliveredInv(history, disk, r, call)
  BY DEF Resumable
<1>3. /\ v \in 1..Now /\ v # 0 /\ v <= Now /\ disk.lastVersion <= v
  BY <1>1, <1>2 DEF VersionInv, Now
<1>4. \A d \in Doc : dk.cache[d].version = Newest(disk, r, d)
  BY DEF Newest
<1>5. ASSUME NEW d \in Doc
      PROVE  /\ Newest(disk, r, d) \in Nat
             /\ r.updates[d].kind # "purged" => Newest(disk, r, d) >= disk.cache[d].version
  <2>1. /\ disk.cache[d] \in Update /\ r.updates[d] \in Update
        /\ disk.cache[d].kind = "none" => disk.cache[d].version = 0
    BY <1>1, <1>2 DEF CacheInv
  <2> QED
    BY <2>1, NewestIs
<1>6. CacheInv(history, dk)
  <2> SUFFICES ASSUME NEW d \in Doc
               PROVE  /\ dk.cache[d].kind # "purged"
                      /\ dk.cache[d].kind = "none" => dk.cache[d].version = 0
                      /\ dk.cache[d].kind = "deleted" =>
                           /\ dk.cache[d].version \in 1..dk.lastVersion
                           /\ d \notin history[dk.cache[d].version]
    BY DEF CacheInv
  <2>1. /\ disk.cache[d].kind # "purged"
        /\ disk.cache[d].kind = "none" => disk.cache[d].version = 0
        /\ disk.cache[d].kind = "deleted" =>
             /\ disk.cache[d].version \in 1..disk.lastVersion
             /\ d \notin history[disk.cache[d].version]
    BY <1>2 DEF CacheInv
  <2>2. /\ r.updates[d].kind = "deleted" =>
             r.updates[d].version \in 1..v /\ d \notin history[r.updates[d].version]
        /\ r.updates[d].kind \in {"none", "doc", "deleted", "purged"}
    BY <1>1, <1>2, UpdateIs DEF UpdatesInv
  <2>3. dk.cache[d] = NoUpdate \/ dk.cache[d] = disk.cache[d]
          \/ (dk.cache[d] = r.updates[d] /\ r.updates[d].kind \in {"doc", "deleted"})
    BY <2>2 DEF Newer
  <2>4. CASE dk.cache[d] = NoUpdate
    BY <2>4 DEF NoUpdate
  <2>5. CASE dk.cache[d] = disk.cache[d]
    BY <1>1, <1>3, <2>1, <2>5
  <2>6. CASE dk.cache[d] = r.updates[d] /\ r.updates[d].kind \in {"doc", "deleted"}
    BY <2>2, <2>6
  <2> QED
    BY <2>3, <2>4, <2>5, <2>6
<1>7. ASSUME NEW q \in Query, NEW w \in Nat, w <= disk.lastVersion, Known(history, disk, q, w)
      PROVE  Known(history, dk, q, w)
  <2> SUFFICES ASSUME NEW d \in Matches[q], w # 0, d \in history[w]
               PROVE  \/ Away(history, d, w, dk.lastVersion)
                      \/ \E b \in 1..w : Birth(history, d, b) /\ ~Away(history, d, b, w)
                                           /\ b <= dk.cache[d].version
    BY DEF Known
  <2>1. d \in Doc
    BY TargetIs
  <2>2. ASSUME NEW a \in Nat, a >= w, Away(history, d, a, disk.lastVersion) \/ Away(history, d, a, v)
        PROVE  Away(history, d, w, dk.lastVersion)
    BY <1>1, <1>3, <2>2 DEF Away
  <2>3. CASE Away(history, d, w, disk.lastVersion)
    BY <2>2, <2>3
  <2>4. CASE r.updates[d].kind = "purged"
    BY <1>1, <1>2, <1>7, <2>1, <2>2, <2>4 DEF UpdatesInv
  <2>5. CASE /\ ~Away(history, d, w, disk.lastVersion)
             /\ r.updates[d].kind # "purged"
    <3>1. PICK b \in 1..w : Birth(history, d, b) /\ ~Away(history, d, b, w)
                              /\ b <= disk.cache[d].version
      BY <1>7, <2>5 DEF Known
    <3>2. disk.cache[d].version \in Nat
      BY <1>1, <2>1, UpdateIs
    <3>3. b <= dk.cache[d].version
      BY <1>4, <1>5, <2>1, <2>5, <3>1, <3>2
    <3> QED
      BY <3>1, <3>3
  <2> QED
    BY <2>3, <2>4, <2>5
<1>8. ASSUME NEW q \in Query, Live(r, q)
      PROVE  Known(history, dk, q, v)
  <2> SUFFICES ASSUME NEW d \in Matches[q], v # 0, d \in history[v]
               PROVE  \E b \in 1..v : Birth(history, d, b) /\ ~Away(history, d, b, v)
                                        /\ b <= dk.cache[d].version
    BY DEF Known
  <2>1. d \in Doc /\ q \in Target /\ d \in Scope(q)
    BY TargetIs
  <2>2. q \in call.watched
    BY <1>1, <1>8, <2>1, LiveIsWatched
  <2>3. call.have[q] = At(q, v)
    BY <2>2 DEF AllSent
  <2> DEFINE b == At(q, v)[d]
  <2>4. b # 0 /\ b \in 1..v /\ Birth(history, d, b) /\ ~Away(history, d, b, v)
    BY <1>1, <1>3, <2>1, AtIs
  <2>5. Newest(disk, r, d) >= b \/ Away(history, d, b, v)
    <3>1. Delivered(history, disk, r, call, q)
      BY <1>2 DEF DeliveredInv
    <3> QED
      BY <1>8, <2>3, <2>4, <3>1 DEF Delivered
  <2> HIDE DEF b
  <2>6. b <= dk.cache[d].version
    BY <1>1, <1>4, <1>5, <2>1, <2>4, <2>5
  <2> QED
    BY <2>4, <2>6
<1> QED
  BY <1>6, <1>7, <1>8

\* What a limbo target has been sent is received with the snapshot.
LEMMA SnapshotReceives ==
  ASSUME TypeOK, TargetsInv, NEW r, Sound(r), r.stream = "open", InStep(r, call), AllSent(call),
         r.targets = remote.targets, Marked(r, call.version),
         Resumable(history, disk, views, limbo, r, call), NEW t \in LimboTarget, Live(r, t)
  PROVE  /\ call.have[t][t[1]] # 0 => t \in LimboAt(r).received
         /\ ReceivedAt(history, LimboAt(r), t, call.version)
<1>1. /\ history \in Seq(SUBSET Doc) /\ call \in Call /\ limbo \in Limbo /\ r \in Remote
      /\ call.version \in Nat /\ Now \in Nat
      /\ t \in Target /\ t \notin Query /\ t[1] \in Doc /\ Scope(t) = {t[1]}
  BY Types, CallFields, VersionIs, TargetIs DEF Sound
<1>2. /\ call.version <= Now /\ call.version # 0
      /\ LimboInv(limbo, r, call)
  BY <1>1 DEF Resumable, VersionInv, Now
<1>3. t \in limbo.active /\ Takes(r, t) /\ t \in r.targets
  BY <1>1 DEF TargetsInv, Marked, Live
<1>4. call.have[t] = At(t, call.version)
  BY <1>1, LiveIsWatched DEF AllSent
<1>5. ASSUME call.have[t][t[1]] # 0
      PROVE  t \in LimboAt(r).received
  <2>1. r.state[t].docs[t[1]] \in
          IF t \in limbo.received THEN {"none", "added", "modified"} ELSE {"added"}
    BY <1>2, <1>5 DEF LimboInv, LimboSent
  <2>2. DocsThat(r.state[t], "removed") = {}
    <3> SUFFICES ASSUME NEW d \in Doc, r.state[t].docs[d] = "removed"
                 PROVE  FALSE
      BY DEF DocsThat
    <3>1. d \in Keys(views, limbo, t)
      BY <1>3 DEF Sound, Fits
    <3>2. d = t[1]
      BY <1>1, <3>1 DEF Keys
    <3> QED
      BY <2>1, <3>2
  <2>3. t \in limbo.received \/ t[1] \in DocsThat(r.state[t], "added")
    BY <1>1, <2>1 DEF DocsThat
  <2> DEFINE Has(change) == {u \in limbo.active : Takes(r, u) /\ DocsThat(r.state[u], change) # {}}
             received == (limbo.received \cup Has("added")) \ Has("removed")
  <2>4. t \in received
    BY <1>3, <2>2, <2>3
  <2>5. LimboAt(r).received = received
    BY <1>1 DEF LimboAt, Limbo
  <2> QED
    BY <2>4, <2>5
<1>6. ReceivedAt(history, LimboAt(r), t, call.version)
  <2>1. t[1] \in history[call.version] => call.have[t][t[1]] # 0
    BY <1>1, <1>2, <1>4, AtIs
  <2> QED
    BY <1>5, <2>1 DEF ReceivedAt
<1> QED
  BY <1>5, <1>6

LEMMA HandedTokens ==
  ASSUME NEW r \in Remote
  PROVE  LET r2 == HandedOver(r) IN
         /\ r2.updates = NoUpdates
         /\ \A t \in Target : r2.resume[t] = IF Takes(r, t) /\ r.state[t].token # 0
                                               THEN r.state[t].token ELSE r.resume[t]
<1> DEFINE f == [t \in Target |-> IF Takes(r, t) THEN [r.state[t] EXCEPT !.changed = FALSE,
                                                                      !.docs = FreshState.docs]
                                  ELSE r.state[t]]
           resume == [t \in Target |-> IF Takes(r, t) /\ r.state[t].token # 0
                                         THEN r.state[t].token ELSE r.resume[t]]
           r2 == [r EXCEPT !.state = f, !.resume = resume, !.updates = NoUpdates]
<1>1. HandedOver(r) = r2
  BY DEF HandedOver
<1>2. \A t \in Target : resume[t] = IF Takes(r, t) /\ r.state[t].token # 0
                                      THEN r.state[t].token ELSE r.resume[t]
  OBVIOUS
<1> HIDE DEF f, resume
<1>3. r2.updates = NoUpdates /\ r2.resume = resume
  BY DEF Remote
<1> QED
  BY <1>1, <1>2, <1>3

LEMMA RewatchedTokens ==
  ASSUME NEW r \in Remote, NEW again, again \subseteq Target
  PROVE  LET r2 == Rewatched(r, again) IN
         /\ r2.updates = r.updates
         /\ \A t \in Target : r2.resume[t] = IF t \in again THEN 0 ELSE r.resume[t]
<1> DEFINE r1 == Expects(r, again, 2)
           resume == [t \in Target |-> IF t \in again THEN 0 ELSE r1.resume[t]]
           idle == r1.idle /\ again = {}
           r2 == [r1 EXCEPT !.resets = {}, !.idle = idle, !.resume = resume]
<1>1. Rewatched(r, again) = r2
  BY DEF Rewatched
<1>2. Expected(r, again, 2, r1)
  BY ExpectsIs
<1> HIDE DEF r1
<1>3. r1 \in Remote /\ r1.resume = r.resume /\ r1.updates = r.updates
  BY <1>2 DEF Expected
<1>4. \A t \in Target : resume[t] = IF t \in again THEN 0 ELSE r.resume[t]
  BY <1>3
<1> HIDE DEF resume, idle
<1>5. r2.updates = r1.updates /\ r2.resume = resume
  BY <1>3 DEF Remote
<1> HIDE DEF r2
<1> QED
  BY <1>1, <1>3, <1>4, <1>5

\* The requests of a snapshot to watch queries anew.
LEMMA RewatchesAre ==
  ASSUME NEW T \in SUBSET Target, NEW b \in Rewatches(T)
  PROVE  b \in Seq(Request) /\ \A i \in 1..Len(b) : b[i].target \in T /\ b[i].token = 0
<1> DEFINE S == {Unwatch(t) : t \in T} \cup {Watch(t, 0) : t \in T}
<1>1. b \in Seq(Request)
  BY AsksToRewatch DEF Asks
<1>2. \A x \in S : x.target \in T /\ x.token = 0
  BY DEF Watch, Unwatch
<1>3. b \in SetToSeqs(S)
  BY DEF Rewatches
<1> HIDE DEF S
<1>4. \A i \in 1..Len(b) : b[i] \in S
  BY <1>1, <1>3, ElementsOf
<1> QED
  BY <1>1, <1>2, <1>4

\* What the disk, the views and the targets have after a snapshot.
LEMMA SnapshotTokens ==
  ASSUME disk \in Disk, views \in Views, NEW r, Sound(r), NEW v \in Version, v # 0, Marked(r, v),
         \A t \in Target : Takes(r, t) => Live(r, t), NEW late
  PROVE  /\ DiskAt(r, v, late).lastVersion = v
         /\ \A d \in Doc : DiskAt(r, v, late).cache[d] = Newer(disk.cache[d], r.updates[d])
         /\ \A q \in Query :
              /\ DiskAt(r, v, late).token[q] = disk.token[q]
                   \/ (Live(r, q) /\ DiskAt(r, v, late).token[q] = v)
              /\ ViewsAt(r).token[q] = IF Live(r, q) THEN v ELSE views.token[q]
         /\ \A t \in Target : HandedOver(r).resume[t] = IF Live(r, t) THEN v ELSE r.resume[t]
<1>1. r \in Remote /\ \A q \in Query : q \in Target
  BY TargetIs DEF Sound
<1>2. \A t \in Target : /\ Takes(r, t) <=> Live(r, t)
                        /\ Live(r, t) => r.state[t].token = v
  BY DEF Marked
<1>3. /\ DiskAt(r, v, late).lastVersion = v
      /\ \A d \in Doc : DiskAt(r, v, late).cache[d] = Newer(disk.cache[d], r.updates[d])
      /\ \A q \in Query : DiskAt(r, v, late).token[q] =
           IF Takes(r, q) THEN SavedToken(q, r.state[q], late) ELSE disk.token[q]
  BY DEF DiskAt
<1>4. \A q \in Query : SavedToken(q, r.state[q], late) \in {disk.token[q], r.state[q].token}
  BY DEF SavedToken
<1>5. \A q \in Query : ViewsAt(r).token[q] = IF Takes(r, q) /\ r.state[q].token # 0
                                               THEN r.state[q].token ELSE views.token[q]
  <2> DEFINE token == [q \in Query |-> IF Takes(r, q) /\ r.state[q].token # 0
                                         THEN r.state[q].token ELSE views.token[q]]
  <2>1. ViewsAt(r).token = token
    BY DEF ViewsAt, Views
  <2> QED
    BY <2>1
<1>6. \A t \in Target : HandedOver(r).resume[t] =
        IF Takes(r, t) /\ r.state[t].token # 0 THEN r.state[t].token ELSE r.resume[t]
  BY <1>1, HandedTokens
<1> QED
  BY <1>1, <1>2, <1>3, <1>4, <1>5, <1>6

\* The changes are handed over, and targets are watched anew.
LEMMA HandsOver ==
  ASSUME TypeOK, TargetsInv, NEW r, Sound(r), r.stream = "open", InStep(r, call), AllSent(call),
         r.targets = remote.targets, Marked(r, call.version),
         Resumable(history, disk, views, limbo, r, call),
         NEW again, again = r.resets \cap r.targets, NEW b \in Rewatches(again), NEW late
  PROVE  Resumable(history, DiskAt(r, call.version, late), ViewsAt(r), LimboAt(r),
                   Rewatched(HandedOver(r), again), Sends(call, b))
<1> DEFINE v == call.version
           dk == DiskAt(r, v, late)
           vw == ViewsAt(r)
           lb == LimboAt(r)
           h == HandedOver(r)
           h2 == Rewatched(h, again)
           c2 == Sends(call, b)
           all == call.requests \o b
<1>1. /\ history \in Seq(SUBSET Doc) /\ call \in Call /\ disk \in Disk /\ views \in Views
      /\ limbo \in Limbo /\ r \in Remote /\ v \in Version /\ v \in Nat /\ Now \in Nat
      /\ disk.lastVersion \in Nat
  BY Types, CallFields, VersionIs DEF Sound
<1>2. /\ CacheInv(history, disk) /\ VersionInv(history, disk, r, call)
      /\ UpdatesInv(history, disk, r, call) /\ HaveInv(history, call)
      /\ OldTokens(disk, views, r, call) /\ TokensInv(history, disk, views, r, call)
      /\ DeliveredInv(history, disk, r, call) /\ LimboTokens(history, limbo, r, call)
      /\ TrackedInv(r)
  BY DEF Resumable
<1>3. v \in 1..Len(history) /\ v # 0 /\ disk.lastVersion <= v
  BY <1>1, <1>2 DEF VersionInv
<1>4. \A t \in Target : Takes(r, t) <=> Live(r, t)
  <2>1. \A t \in Target : Takes(r, t) => Live(r, t)
    BY <1>2, LiveIsActive DEF Takes
  <2> QED
    BY <2>1 DEF Marked
<1>5. /\ dk.lastVersion = v
      /\ \A d \in Doc : dk.cache[d] = Newer(disk.cache[d], r.updates[d])
      /\ \A q \in Query : /\ dk.token[q] = disk.token[q] \/ (Live(r, q) /\ dk.token[q] = v)
                          /\ vw.token[q] = IF Live(r, q) THEN v ELSE views.token[q]
      /\ \A t \in Target : h.resume[t] = IF Live(r, t) THEN v ELSE r.resume[t]
  BY <1>1, <1>3, <1>4, SnapshotTokens
<1>6. h.updates = NoUpdates
  BY <1>1, HandedTokens
<1>7. Handed(r, h)
  BY HandedOverIs
<1>8. again \subseteq Target /\ again \subseteq Query
  BY <1>1, RemoteFields
<1> HIDE DEF h
<1>9. Anew(h, again, h2) /\ h2.updates = NoUpdates
      /\ \A t \in Target : h2.resume[t] = IF t \in again THEN 0 ELSE h.resume[t]
  BY <1>6, <1>7, <1>8, RewatchedIs, RewatchedTokens DEF Handed
<1> HIDE DEF h2, dk, vw
<1>10. /\ h2.targets = r.targets /\ h2.stream = "open" /\ r.tracked \subseteq h2.tracked
       /\ \A t \in Target :
            /\ t \notin again => h2.state[t].outstanding = r.state[t].outstanding
            /\ t \in again => h2.state[t].outstanding = r.state[t].outstanding + 2
            /\ h2.state[t].docs = IF Live(r, t) THEN FreshState.docs ELSE r.state[t].docs
  BY <1>4, <1>7, <1>9 DEF Handed, Anew
<1>11. \A t \in Target : r.state[t].outstanding \in Nat
  BY <1>1, RemoteFields, StateFields
<1>12. \A t \in Target : Live(h2, t) => t \notin again /\ Live(r, t)
  BY <1>10, <1>11 DEF Live
<1>13. b \in Seq(Request) /\ \A i \in 1..Len(b) : b[i].target \in again /\ b[i].token = 0
  BY <1>8, RewatchesAre
<1>14. /\ c2 \in Call /\ c2.requests = all /\ c2.watched = call.watched /\ c2.version = v
  BY <1>1, <1>13, SendsIs
<1>15. c2.have = call.have
  BY <1>1 DEF Sends, Call
<1>16. \A i \in 1..Len(all) : \/ \E j \in 1..Len(call.requests) : all[i] = call.requests[j]
                              \/ \E j \in 1..Len(b) : all[i] = b[j]
  BY <1>1, <1>13, CallFields, OfBoth
<1> HIDE DEF c2, all
<1>17. \A i \in 1..Len(c2.requests) :
         \/ \E j \in 1..Len(call.requests) : c2.requests[i] = call.requests[j]
         \/ c2.requests[i].target \in Query /\ c2.requests[i].token = 0
  BY <1>8, <1>13, <1>14, <1>16
<1>18. /\ CacheInv(history, dk)
       /\ \A q \in Query : \A w \in Nat :
            w <= disk.lastVersion /\ Known(history, disk, q, w) => Known(history, dk, q, w)
       /\ \A q \in Query : Live(r, q) => Known(history, dk, q, v)
  BY <1>5, SnapshotIsKnown
<1>19. \A q \in Query : Known(history, dk, q, 0)
  BY DEF Known
<1>20. VersionInv(history, dk, h2, c2)
  BY <1>3, <1>5, <1>14 DEF VersionInv
<1>21. \A d \in Doc : h2.updates[d].kind = "none"
  BY <1>9 DEF NoUpdates, NoUpdate
<1>22. UpdatesInv(history, dk, h2, c2)
  BY <1>21 DEF UpdatesInv
<1>23. HaveInv(history, c2)
  BY <1>2, <1>14, <1>15 DEF HaveInv, v
<1>24. OldTokens(dk, vw, h2, c2)
  <2>1. /\ \A q \in Query : q \in Target /\ disk.token[q] \in Nat /\ views.token[q] \in Nat
        /\ \A t \in Target : r.resume[t] \in Nat
        /\ \A i \in 1..Len(call.requests) : call.requests[i].token \in Nat
    BY <1>1, RemoteFields, CallFields, RequestFields, VersionIs, TargetIs DEF Disk, Views
  <2>2. \A i \in 1..Len(c2.requests) : c2.requests[i].token <= v
    <3> SUFFICES ASSUME NEW i \in 1..Len(c2.requests)
                 PROVE  c2.requests[i].token <= v
      OBVIOUS
    <3>1. CASE \E j \in 1..Len(call.requests) : c2.requests[i] = call.requests[j]
      <4>1. PICK j \in 1..Len(call.requests) : c2.requests[i] = call.requests[j]
        BY <3>1
      <4>2. call.requests[j].token <= disk.lastVersion /\ call.requests[j].token \in Nat
        BY <1>2, <2>1 DEF OldTokens
      <4> HIDE DEF v
      <4> QED
        BY <1>1, <1>3, <4>1, <4>2
    <3>2. CASE c2.requests[i].token = 0
      <4> HIDE DEF v
      <4> QED
        BY <1>1, <3>2
    <3> QED
      BY <1>17, <3>1, <3>2
  <2>3. \A t \in Target : h2.resume[t] <= v
    BY <1>1, <1>2, <1>3, <1>5, <1>9, <2>1 DEF OldTokens
  <2>4. \A q \in Query : dk.token[q] <= v /\ vw.token[q] <= v
    BY <1>1, <1>2, <1>3, <1>5, <2>1 DEF OldTokens
  <2> QED
    BY <1>5, <2>2, <2>3, <2>4 DEF OldTokens
<1>25. TokensInv(history, dk, vw, h2, c2)
  <2>1. /\ \A q \in Query : q \in Target /\ disk.token[q] \in Nat /\ views.token[q] \in Nat
                            /\ r.resume[q] \in Nat
        /\ \A i \in 1..Len(call.requests) : call.requests[i].token \in Nat
    BY <1>1, RemoteFields, CallFields, RequestFields, VersionIs, TargetIs DEF Disk, Views
  <2> SUFFICES ASSUME NEW q \in Query
               PROVE  /\ Known(history, dk, q, dk.token[q])
                      /\ Known(history, dk, q, vw.token[q])
                      /\ Known(history, dk, q, h2.resume[q])
                      /\ \A i \in 1..Len(c2.requests) :
                           c2.requests[i].target = q => Known(history, dk, q, c2.requests[i].token)
    BY DEF TokensInv
  <2>2. /\ Known(history, dk, q, disk.token[q]) /\ Known(history, dk, q, views.token[q])
        /\ Known(history, dk, q, r.resume[q])
    BY <1>2, <1>18, <2>1 DEF OldTokens, TokensInv
  <2>3. \A i \in 1..Len(call.requests) :
          call.requests[i].target = q => Known(history, dk, q, call.requests[i].token)
    BY <1>2, <1>18, <2>1 DEF OldTokens, TokensInv
  <2>4. Known(history, dk, q, dk.token[q]) /\ Known(history, dk, q, vw.token[q])
    BY <1>5, <1>18, <2>2
  <2>5. Known(history, dk, q, h2.resume[q])
    BY <1>5, <1>9, <1>18, <1>19, <2>1, <2>2
  <2>6. \A i \in 1..Len(c2.requests) :
          c2.requests[i].target = q => Known(history, dk, q, c2.requests[i].token)
    BY <1>17, <1>19, <2>3
  <2> QED
    BY <2>4, <2>5, <2>6
<1>26. DeliveredInv(history, dk, h2, c2)
  <2>1. \A d \in Doc : Newest(dk, h2, d) = Newest(disk, r, d)
    <3> SUFFICES ASSUME NEW d \in Doc
                 PROVE  Newest(dk, h2, d) = Newest(disk, r, d)
      OBVIOUS
    <3>1. Newer(dk.cache[d], h2.updates[d]) = dk.cache[d]
      BY <1>21 DEF Newer
    <3> QED
      BY <1>5, <3>1 DEF Newest
  <2>2. \A q \in Query : q \in Target /\ Matches[q] \subseteq Doc
    BY TargetIs
  <2> QED
    BY <1>2, <1>12, <1>14, <1>15, <2>1, <2>2 DEF DeliveredInv, Delivered, v
<1>27. \A t \in LimboTarget : Live(r, t) =>
         (call.have[t][t[1]] # 0 => t \in lb.received) /\ ReceivedAt(history, lb, t, v)
  BY SnapshotReceives
<1>28. \A t \in LimboTarget : ~Live(r, t) => (t \in lb.received <=> t \in limbo.received)
  BY <1>1, <1>4, LimboAtIs, TargetIs
<1> HIDE DEF lb
<1>29. LimboTokens(history, lb, h2, c2)
  <2> SUFFICES ASSUME NEW t \in LimboTarget
               PROVE  /\ ReceivedAt(history, lb, t, h2.resume[t])
                      /\ t \in h2.targets => \A i \in 1..Len(c2.requests) :
                           c2.requests[i].target = t =>
                             ReceivedAt(history, lb, t, c2.requests[i].token)
    BY DEF LimboTokens
  <2>1. t \in Target /\ t \notin Query /\ t \notin again
    BY <1>8, TargetIs
  <2>2. ReceivedAt(history, lb, t, h2.resume[t])
    <3>1. CASE Live(r, t)
      BY <1>5, <1>9, <1>27, <2>1, <3>1
    <3>2. CASE ~Live(r, t)
      <4>1. ReceivedAt(history, limbo, t, r.resume[t])
        BY <1>2 DEF LimboTokens
      <4> QED
        BY <1>5, <1>9, <1>28, <2>1, <3>2, <4>1 DEF ReceivedAt
    <3> QED
      BY <3>1, <3>2
  <2>3. ASSUME t \in h2.targets, NEW i \in 1..Len(c2.requests), c2.requests[i].target = t
        PROVE  ReceivedAt(history, lb, t, c2.requests[i].token)
    <3>1. PICK j \in 1..Len(call.requests) : c2.requests[i] = call.requests[j]
      BY <1>17, <2>1, <2>3
    <3>2. ReceivedAt(history, limbo, t, c2.requests[i].token)
      BY <1>2, <1>10, <2>3, <3>1 DEF LimboTokens
    <3>3. ~Live(r, t)
      BY <1>1, <2>1, <2>3, <3>1, LiveIsWatched DEF Waiting
    <3> QED
      BY <1>28, <3>2, <3>3 DEF ReceivedAt
  <2> QED
    BY <2>2, <2>3
<1>30. LimboInv(lb, h2, c2)
  <2> SUFFICES ASSUME NEW t \in LimboTarget, Live(h2, t), c2.have[t][t[1]] # 0
               PROVE  h2.state[t].docs[t[1]] \in
                        IF t \in lb.received THEN {"none", "added", "modified"} ELSE {"added"}
    BY DEF LimboInv, LimboSent
  <2>1. t \in Target /\ t[1] \in Doc /\ Live(r, t)
    BY <1>12, TargetIs
  <2>2. t \in lb.received
    BY <1>15, <1>27, <2>1
  <2>3. h2.state[t].docs[t[1]] = "none"
    BY <1>10, <2>1, FreshType
  <2> QED
    BY <2>2, <2>3
<1>31. ChangesInv(h2)
  BY <1>10, <1>12, FreshType DEF ChangesInv, Explained
<1>32. TrackedInv(h2)
  BY <1>2, <1>10 DEF TrackedInv
<1>33. Resumable(history, dk, vw, lb, h2, c2)
  BY <1>18, <1>20, <1>22, <1>23, <1>24, <1>25, <1>26, <1>29, <1>30, <1>31, <1>32 DEF Resumable
<1> QED
  BY <1>33 DEF dk, vw, lb, h2, h, c2, v

LEMMA SnapshotKeepsResume ==
  ASSUME IInv, ResumeInv, ServerSnapshot
  PROVE  ResumeInv'
<1> DEFINE v == call.version
           r0 == AllTargetsAt(remote, v)
           r == WithSynthesizedDeletes(r0, v)
           again == r.resets \cap r.targets
           h2 == Rewatched(HandedOver(r), again)
<1>1. /\ call.watched # {}
      /\ \A t \in call.watched : Complete(t)
      /\ IF v < disk.lastVersion THEN Received(r0, call)
         ELSE /\ RaiseWatchSnapshot(r0, call, v)
              /\ online' = Settled("Online")
              /\ UNCHANGED history
  BY DEF ServerSnapshot
<1>2. /\ remote.stream = "open" /\ v # 0 /\ v \in Version /\ v \in Nat /\ call \in Call
      /\ Sound(remote) /\ InStep(remote, call)
  BY <1>1, StateOfIInv, CallFields, VersionIs
<1>3. TypeOK /\ TargetsInv /\ disk \in Disk /\ views \in Views /\ disk.lastVersion \in Nat
  BY Types, VersionIs DEF IInv
<1>4. disk.lastVersion <= v
  BY <1>2 DEF ResumeInv, Resumable, VersionInv
<1>5. AllSent(call)
  BY <1>1 DEF AllSent, Complete
<1>6. Kept(remote, r0)
  BY <1>2, MarksAll
<1>7. Resumable(history, disk, views, limbo, r0, call) /\ Marked(r0, v)
  BY <1>2, MarksKeepResume
<1>8. RaiseWatchSnapshot(r0, call, v) /\ history' = history
  BY <1>1, <1>2, <1>3, <1>4
<1> HIDE DEF r0
<1>9. PICK b \in Rewatches(again), late \in SUBSET {q \in Query : Takes(r, q)} :
        /\ disk' = DiskAt(r, v, late)
        /\ Emits(ViewsAt(r), LimboAt(r), h2, Sends(call, b), disk'.cache, ChangesFit(r))
  BY <1>8, Zenon DEF RaiseWatchSnapshot
<1>10. Sound(r0) /\ r0.stream = "open" /\ r0.targets = remote.targets /\ InStep(r0, call)
  BY <1>2, <1>6, KeptKeepsInStep DEF Kept, Sound
<1>11. Kept(remote, r)
  BY <1>2, <1>6, <1>10, Synthesizes, KeptAgain
<1>12. Resumable(history, disk, views, limbo, r, call) /\ Marked(r, v)
  BY <1>3, <1>5, <1>7, <1>10, SynthesizesKeepsResume
<1> HIDE DEF r
<1>13. Sound(r) /\ r.stream = "open" /\ r.targets = remote.targets /\ InStep(r, call)
  BY <1>2, <1>11, KeptKeepsInStep DEF Kept, Sound
<1>14. Ready(ViewsAt(r), LimboAt(r), h2, Sends(call, b))
  BY <1>2, <1>11, SnapshotIsReady
<1>15. Resumable(history, disk', ViewsAt(r), LimboAt(r), h2, Sends(call, b))
  BY <1>3, <1>5, <1>9, <1>12, <1>13, HandsOver
<1>16. disk'.lastVersion \in Nat
  BY <1>2, <1>9 DEF DiskAt
<1> HIDE DEF h2
<1>17. Resumable(history, disk', views', limbo', remote', call')
  BY <1>3, <1>9, <1>14, <1>15, <1>16, EmitsKeepResume
<1> QED
  BY <1>8, <1>17 DEF ResumeInv

-----------------------------------------------------------------------------
(* Rejected targets.                                                       *)

LEMMA WithoutTargetTokens ==
  ASSUME NEW r \in Remote, NEW t \in Target
  PROVE  /\ WithoutTarget(r, t).updates = r.updates
         /\ \A u \in Target : WithoutTarget(r, t).resume[u] = IF u = t THEN 0 ELSE r.resume[u]
<1> DEFINE r1 == WithoutState(r, t)
           r2 == [r1 EXCEPT !.targets = @ \ {t}, !.resume[t] = 0]
<1>1. r \in Remote /\ r.resume \in [Target -> Version]
  BY RemoteFields
<1>2. r1.updates = r.updates /\ r1.resume = r.resume
      /\ r1 = [r EXCEPT !.tracked = @ \ {t}, !.state[t] = FreshState]
  BY DEF WithoutState, Remote
<1>3. r1 \in [targets : {r1.targets}, stream : {r1.stream}, state : {r1.state},
              resume : {r1.resume}, updates : {r1.updates}, tracked : {r1.tracked},
              resets : {r1.resets}, idle : {r1.idle}]
  BY <1>2 DEF Remote
<1> HIDE DEF r1
<1>4. r2.updates = r1.updates /\ r2.resume = [r1.resume EXCEPT ![t] = 0]
  BY <1>3
<1> HIDE DEF r2
<1>5. \A u \in Target : r2.resume[u] = IF u = t THEN 0 ELSE r.resume[u]
  BY <1>1, <1>2, <1>4
<1> QED
  BY <1>2, <1>4, <1>5 DEF r1, r2, WithoutTarget

\* The server takes a request from the queue.
LEMMA AnsweredKeepsResume ==
  ASSUME IInv, ResumeInv, NEW t \in Target, Serves("watch", t)
  PROVE  Resumable(history, disk, views, limbo, remote, Served(call))
<1> DEFINE c == Served(call)
<1>1. /\ remote.stream = "open" /\ call.requests # <<>> /\ call \in Call /\ remote \in Remote
      /\ c \in Call /\ c = [call EXCEPT !.requests = Tail(@)]
  BY HeadIsWaitedFor
<1>2. /\ c.requests = Tail(call.requests) /\ c.watched = call.watched /\ c.have = call.have
      /\ c.version = call.version
  BY <1>1 DEF Call
<1>3. call.requests \in Seq(Request)
  BY <1>1, CallFields
<1> HIDE DEF c
<1>4. TypeOK /\ call.version \in Nat /\ Now \in Nat /\ call.version <= Now
  BY <1>1, Types, CallFields, VersionIs DEF IInv, ResumeInv, Resumable, VersionInv, Now
<1>5. \A i \in 1..Len(c.requests) : \E j \in 1..Len(call.requests) :
        c.requests[i] = call.requests[j]
  <2> SUFFICES ASSUME NEW i \in 1..Len(c.requests)
               PROVE  \E j \in 1..Len(call.requests) : c.requests[i] = call.requests[j]
    OBVIOUS
  <2>1. i + 1 \in 1..Len(call.requests) /\ c.requests[i] = call.requests[i + 1]
    BY <1>1, <1>2, <1>3
  <2> QED
    BY <2>1
<1>6. HaveInv(history, c) /\ DeliveredInv(history, disk, remote, c)
      /\ LimboInv(limbo, remote, c) /\ ChangesInv(remote) /\ TrackedInv(remote)
  BY <1>2 DEF ResumeInv, Resumable, HaveInv, DeliveredInv, Delivered, LimboInv, LimboSent
<1>7. c.version >= call.version /\ c.version <= Now
  BY <1>2, <1>4
<1>8. Resumable(history, disk, views, limbo, remote, c)
  BY <1>1, <1>4, <1>5, <1>6, <1>7, Quietly
<1> QED
  BY <1>8 DEF c

\* The refused query is forgotten; what its view had resumed from is saved.
LEMMA RejectsKeepResume ==
  ASSUME IInv, ResumeInv, NEW t \in Query, t \in remote.targets, Serves("watch", t)
  PROVE  Resumable(history, [disk EXCEPT !.token[t] = views.token[t]], WithoutView(views, t),
                   limbo, WithoutTarget(remote, t), Served(call))
<1> DEFINE c == Served(call)
           r == WithoutTarget(remote, t)
           vw == WithoutView(views, t)
           dk == [disk EXCEPT !.token[t] = views.token[t]]
<1>1. t \in Target /\ t \notin LimboTarget
  BY TargetIs
<1>2. /\ remote \in Remote /\ remote.stream = "open" /\ disk \in Disk /\ views \in Views
  BY <1>1, HeadIsWaitedFor DEF IInv, TypeOK
<1>3. Resumable(history, disk, views, limbo, remote, c)
  BY <1>1, AnsweredKeepsResume
<1>4. Forgotten(remote, t, r)
  BY <1>1, <1>2, ForgottenIs
<1>5. r.updates = remote.updates
      /\ \A u \in Target : r.resume[u] = IF u = t THEN 0 ELSE remote.resume[u]
  BY <1>1, <1>2, WithoutTargetTokens
<1>6. /\ dk.lastVersion = disk.lastVersion /\ dk.cache = disk.cache
      /\ \A q \in Query : dk.token[q] = IF q = t THEN views.token[q] ELSE disk.token[q]
  BY <1>2 DEF Disk
<1>7. \A q \in Query : vw.token[q] = IF q = t THEN 0 ELSE views.token[q]
  <2>1. views.token \in [Query -> Version]
    BY <1>2 DEF Views
  <2>2. vw.token = [views.token EXCEPT ![t] = 0]
    BY <1>2 DEF WithoutView, Views
  <2> QED
    BY <2>1, <2>2
<1>8. disk.lastVersion \in Nat
  BY <1>2, VersionIs DEF Disk
<1> HIDE DEF c, r, vw, dk
<1>9. /\ CacheInv(history, disk) /\ VersionInv(history, disk, remote, c)
      /\ UpdatesInv(history, disk, remote, c) /\ HaveInv(history, c)
      /\ OldTokens(disk, views, remote, c) /\ TokensInv(history, disk, views, remote, c)
      /\ DeliveredInv(history, disk, remote, c) /\ LimboTokens(history, limbo, remote, c)
      /\ LimboInv(limbo, remote, c) /\ ChangesInv(remote) /\ TrackedInv(remote)
  BY <1>3 DEF Resumable
<1>10. /\ r.stream = "open" /\ r.targets = remote.targets \ {t} /\ r.tracked = remote.tracked \ {t}
       /\ \A u \in Target : Live(r, u) => Live(remote, u) /\ r.state[u] = remote.state[u]
  BY <1>2, <1>4 DEF Forgotten, Live
<1>11. CacheInv(history, dk) /\ VersionInv(history, dk, r, c) /\ UpdatesInv(history, dk, r, c)
  BY <1>2, <1>5, <1>6, <1>9, <1>10 DEF CacheInv, VersionInv, UpdatesInv
<1>12. OldTokens(dk, vw, r, c)
  BY <1>5, <1>6, <1>7, <1>8, <1>9 DEF OldTokens
<1>13. TokensInv(history, dk, vw, r, c)
  <2>1. /\ \A q \in Query : q \in Target /\ Known(history, dk, q, 0)
        /\ \A q \in Query : \A w : Known(history, disk, q, w) = Known(history, dk, q, w)
    BY <1>6, TargetIs DEF Known
  <2> QED
    BY <1>5, <1>6, <1>7, <1>9, <2>1 DEF TokensInv
<1>14. DeliveredInv(history, dk, r, c)
  BY <1>5, <1>6, <1>9, <1>10, TargetIs DEF DeliveredInv, Delivered, Newest
<1>15. LimboTokens(history, limbo, r, c) /\ LimboInv(limbo, r, c)
  BY <1>1, <1>5, <1>9, <1>10, TargetIs DEF LimboTokens, LimboInv, LimboSent
<1>16. ChangesInv(r) /\ TrackedInv(r)
  BY <1>2, <1>5, <1>9, <1>10 DEF ChangesInv, Explained, TrackedInv
<1>17. Resumable(history, dk, vw, limbo, r, c)
  BY <1>9, <1>11, <1>12, <1>13, <1>14, <1>15, <1>16 DEF Resumable
<1> QED
  BY <1>17 DEF c, r, vw, dk

LEMMA RefusesKeepResume ==
  ASSUME Refusable \subseteq Query, IInv, ResumeInv, NEW t \in Refusable, ServerRefuses(t)
  PROVE  ResumeInv'
<1> DEFINE r == WithoutTarget(remote, t)
           vw == WithoutView(views, t)
           dk == [disk EXCEPT !.token[t] = views.token[t]]
<1>1. /\ Serves("watch", t) /\ history' = history
      /\ IF t \notin remote.targets
           THEN remote' = remote /\ call' = Served(call) /\ UNCHANGED <<disk, views, limbo, asserted>>
         ELSE IF t \in limbo.active THEN RejectedLimbo(t, r, Served(call))
         ELSE RejectedQuery(t, r, Served(call))
  BY DEF ServerRefuses, WithoutTarget
<1>2. t \in Query /\ t \in Target /\ t \notin LimboTarget
  BY TargetIs
<1>3. /\ views \in Views /\ disk \in Disk /\ t \notin limbo.active
  BY <1>2, LimboFields DEF IInv, TypeOK
<1>4. CASE t \notin remote.targets
  <2>1. Resumable(history, disk, views, limbo, remote, Served(call))
    BY <1>1, <1>2, AnsweredKeepsResume
  <2> QED
    BY <1>1, <1>4, <2>1 DEF ResumeInv
<1>5. CASE t \in remote.targets
  <2>1. disk' = dk /\ Emits(vw, limbo, r, Served(call), disk.cache, TRUE)
    BY <1>1, <1>3, <1>5 DEF RejectedQuery, WithoutView
  <2>2. Ready(vw, limbo, r, Served(call))
    BY <1>1, <1>2, <1>3, <1>5, RefusedQueryIsReady
  <2>3. Resumable(history, dk, vw, limbo, r, Served(call))
    BY <1>1, <1>2, <1>5, RejectsKeepResume
  <2>4. dk.lastVersion \in Nat
    BY <1>3, VersionIs DEF Disk
  <2> HIDE DEF r, vw, dk
  <2>5. Resumable(history, dk, views', limbo', remote', call')
    BY <1>3, <2>1, <2>2, <2>3, <2>4, EmitsKeepResume
  <2> QED
    BY <1>1, <2>1, <2>5 DEF ResumeInv
<1> QED
  BY <1>4, <1>5

-----------------------------------------------------------------------------
(* The theorem.                                                            *)

LEMMA ServerStepKeepsResume ==
  ASSUME IInv, IInv', ResumeInv, ServerStep
  PROVE  ResumeInv'
<1>1. CASE ServerReads
  BY <1>1, ReadsKeepResume
<1>2. CASE \E d \in Doc : ServerSends(d)
  BY <1>2, SendsKeepResume
<1>3. ASSUME NEW t \in Target, ServerAdds(t)
      PROVE  ResumeInv'
  BY <1>3, AddsKeepResume
<1>4. ASSUME NEW t \in Target, ServerRemoves(t)
      PROVE  ResumeInv'
  BY <1>4, RemovesKeepResume
<1>5. ASSUME NEW t \in Target, ServerResets(t)
      PROVE  ResumeInv'
  BY <1>5, ResetsKeepResume
<1>6. ASSUME NEW t \in Target, ServerFilters(t)
      PROVE  ResumeInv'
  BY <1>6, FiltersKeepResume
<1>7. ASSUME NEW t \in Target, ServerCurrent(t)
      PROVE  ResumeInv'
  BY <1>7, CurrentKeepsResume
<1>8. CASE ServerSnapshot
  BY <1>8, SnapshotKeepsResume
<1> QED
  BY <1>1, <1>2, <1>3, <1>4, <1>5, <1>6, <1>7, <1>8 DEF ServerStep

\* Every action keeps what can be resumed from.
LEMMA NextKeepsResume ==
  ASSUME StaleReads = FALSE, Refusable \subseteq Query, IInv, ResumeInv, [Next]_vars
  PROVE  ResumeInv'
<1> IInv'
  BY NextKeepsIInv
<1>1. CASE \E d \in Doc : DatabaseChanges(d)
  BY <1>1, ChangesKeepResume
<1>2. CASE \E q \in Query : Listen(q)
  BY <1>2, ListensKeepResume
<1>3. CASE StreamOpens
  BY <1>3, OpensKeepResume
<1>4. CASE OnlineTimeout
  BY <1>4, TimeoutKeepsResume
<1>5. CASE IdleTimeout
  BY <1>5, BreaksKeepResume
<1>6. CASE ServerStep
  BY <1>6, ServerStepKeepsResume
<1>7. CASE \E t \in Refusable : ServerRefuses(t)
  BY <1>7, RefusesKeepResume
<1>8. CASE Disturbance
  BY <1>8, BreaksKeepResume, RelaunchKeepsResume DEF Disturbance
<1>9. CASE UNCHANGED vars
  BY <1>9, StutterKeepsResume
<1> QED
  BY <1>1, <1>2, <1>3, <1>4, <1>5, <1>6, <1>7, <1>8, <1>9 DEF Next

\* The disk can be resumed from at any moment the process may die: LocalStore
\* saves with a snapshot the documents that the resume token it saves stands
\* for, however calls break, requests are answered late and targets are refused
\* in between.  That is for a server that never answers from an older version
\* than the client has seen, which SyncEngine would take for the newest, and
\* that refuses no limbo target, for which SyncEngine purges a document that
\* the server may still have.
THEOREM ResumeIsSafeHolds ==
  ASSUME StaleReads = FALSE, Refusable \subseteq Query
  PROVE  Spec => []ResumeIsSafe
<1>1. Init => IInv /\ ResumeInv
  BY InitIInv, InitResume
<1>2. IInv /\ ResumeInv /\ [Next]_vars => (IInv /\ ResumeInv)'
  BY NextKeepsIInv, NextKeepsResume
<1>3. IInv /\ ResumeInv => ResumeIsSafe
  <2> SUFFICES ASSUME IInv, ResumeInv, NEW q \in Query,
                      NEW d \in Result(q, disk.token[q])
               PROVE  \/ disk.cache[d].version >= Created(d, disk.token[q])
                      \/ \E v \in disk.token[q]..disk.lastVersion : d \notin Result(q, v)
    BY DEF ResumeIsSafe
  <2> DEFINE w == disk.token[q]
  <2>1. /\ history \in Seq(SUBSET Doc) /\ disk \in Disk /\ w \in Nat /\ Now \in Nat
        /\ disk.lastVersion \in Nat
    BY Types, VersionIs DEF IInv, Disk
  <2>2. w <= disk.lastVersion /\ disk.lastVersion <= Now /\ Known(history, disk, q, w)
    BY DEF ResumeInv, Resumable, VersionInv, OldTokens, TokensInv, Now
  <2>3. w # 0 /\ d \in Matches[q] /\ d \in history[w] /\ d \in Doc
    BY TargetIs DEF Result
  <2> HIDE DEF w
  <2>4. w \in 1..Now
    BY <2>1, <2>2, <2>3
  <2>5. CASE Away(history, d, w, disk.lastVersion)
    <3>1. PICK k \in 1..Len(history) : w <= k /\ k <= disk.lastVersion /\ d \notin history[k]
      BY <2>5 DEF Away
    <3>2. k \in w..disk.lastVersion /\ d \notin Result(q, k)
      BY <2>1, <3>1 DEF Result, Now
    <3> QED
      BY <3>2 DEF w
  <2>6. CASE \E b \in 1..w : /\ Birth(history, d, b) /\ ~Away(history, d, b, w)
                              /\ b <= disk.cache[d].version
    <3>1. PICK b \in 1..w : /\ Birth(history, d, b) /\ ~Away(history, d, b, w)
                            /\ b <= disk.cache[d].version
      BY <2>6
    <3>2. /\ Created(d, w) \in 1..w /\ Birth(history, d, Created(d, w))
          /\ ~Away(history, d, Created(d, w), w)
      BY <2>1, <2>3, <2>4, CreatedIs
    <3>3. Created(d, w) = b
      BY <2>1, <2>4, <3>1, <3>2, OneBirth
    <3>4. disk.cache[d].version \in Nat
      BY <2>1, <2>3, UpdateIs DEF Disk
    <3>5. disk.cache[d].version >= Created(d, w)
      BY <3>1, <3>3, <3>4
    <3> QED
      BY <3>5 DEF w
  <2> QED
    BY <2>2, <2>3, <2>5, <2>6 DEF Known
<1> QED
  BY <1>1, <1>2, <1>3, PTL DEF Spec

-----------------------------------------------------------------------------
(* The inductive invariant of the views, while every existence filter       *)
(* matches.                                                                *)

\* The documents of a query at version w.
Of(h, q, w) == IF w = 0 THEN {} ELSE Matches[q] \cap h[w]

\* The keys of a query are those of its resume token, here and under way.
KeysTrue(h, dk, vw, r, c) ==
  \A q \in Query :
    /\ dk.keys[q] = Of(h, q, dk.token[q])
    /\ q \in vw.listening =>
         /\ vw.synced[q] = dk.keys[q]
         /\ vw.synced[q] = Of(h, q, vw.token[q])
         /\ vw.token[q] = r.resume[q]
         /\ \A i \in 1..Len(c.requests) :
              c.requests[i].target = q /\ c.requests[i].op = "watch" =>
                vw.synced[q] = Of(h, q, c.requests[i].token)

\* The document is a key of the query after the next snapshot.
Keeps(vw, r, q, d) ==
  r.state[q].docs[d] = "added" \/ (d \in vw.synced[q] /\ r.state[q].docs[d] # "removed")

\* What the server counts as sent is what the aggregator makes of the keys.
Match(vw, r, c, q) ==
  Live(r, q) => \A d \in Doc :
    /\ r.state[q].docs[d] = "added" => d \notin vw.synced[q]
    /\ c.owed[q] # "reset" /\ c.have[q][d] # 0 => Keeps(vw, r, q, d)
    /\ c.owed[q] = "none" /\ Keeps(vw, r, q, d) => c.have[q][d] # 0
MatchInv(vw, r, c) == r.stream = "open" => \A q \in Query : Match(vw, r, c, q)

\* A current view has its keys in the cache; what it has besides is in limbo.
ViewIs(dk, vw, q) ==
  /\ vw.limbo[q] \subseteq Matches[q]
  /\ vw.current[q] => /\ q \in vw.listening
                      /\ vw.limbo[q] = Docs(q, dk.cache) \ vw.synced[q]
  /\ vw.current[q] /\ Alone(q) => vw.synced[q] \subseteq Docs(q, dk.cache)
ViewsInv(dk, vw, lb) ==
  /\ \A q \in Query : ViewIs(dk, vw, q)
  /\ \A t \in lb.active : t[1] \in InDoubt(vw)

\* Nothing happens to the documents of a current view that waits to be served.
Quiet(vw, r, q) ==
  vw.current[q] /\ Alone(q) /\ ~Live(r, q) =>
    \A d \in vw.synced[q] : r.updates[d].kind = "none"
QuietInv(vw, r) == \A q \in Query : Quiet(vw, r, q)

Showing(h, dk, vw, lb, r, c) ==
  /\ KeysTrue(h, dk, vw, r, c)
  /\ MatchInv(vw, r, c)
  /\ ViewsInv(dk, vw, lb)
  /\ QuietInv(vw, r)

ShowInv == Showing(history, disk, views, limbo, remote, call)

-----------------------------------------------------------------------------
(* The invariant of the views: what brings no message.                     *)

\* A view may lose being current.
LEMMA GoesOnlineIs ==
  ASSUME views \in Views, NEW o, GoesOnline(o)
  PROVE  /\ views'.listening = views.listening /\ views'.synced = views.synced
         /\ views'.limbo = views.limbo /\ views'.token = views.token
         /\ \A q \in Query : views'.current[q] => views.current[q]
<1> DEFINE vw == WithOnlineState(views, o.state)
<1>1. /\ vw \in Views /\ vw.listening = views.listening /\ vw.synced = views.synced
      /\ vw.limbo = views.limbo /\ vw.token = views.token
      /\ vw.current = views.current \/ vw.current = [q \in Query |-> FALSE]
  BY DEF WithOnlineState, Views
<1>2. \A q \in Query : vw.current[q] => views.current[q]
  BY <1>1
<1>3. views' = Raise(vw, disk.cache, o.state)
  BY DEF GoesOnline
<1> HIDE DEF vw
<1> QED
  BY <1>1, <1>2, <1>3, RaiseKeeps

LEMMA LosesCurrentOnly ==
  ASSUME views \in Views, NEW o, GoesOnline(o), NEW dk, NEW lb, ViewsInv(dk, views, lb)
  PROVE  ViewsInv(dk, views', lb)
<1>1. /\ views'.listening = views.listening /\ views'.synced = views.synced
      /\ views'.limbo = views.limbo
      /\ \A q \in Query : views'.current[q] => views.current[q]
  BY GoesOnlineIs
<1> QED
  BY <1>1 DEF ViewsInv, ViewIs, InDoubt

\* The versions the tokens name stay what they are.
LEMMA ChangesKeepShow ==
  ASSUME IInv, ResumeInv, ShowInv, NEW d \in Doc, DatabaseChanges(d)
  PROVE  ShowInv'
<1>1. /\ history \in Seq(SUBSET Doc) /\ Now \in Nat /\ Now >= 1 /\ disk \in Disk /\ views \in Views
      /\ call \in Call /\ disk.lastVersion \in Nat
  BY Types, VersionIs DEF IInv
<1>2. UNCHANGED <<call, disk, views, limbo, remote>>
  BY DEF DatabaseChanges
<1>3. \A w \in 1..Now : history'[w] = history[w]
  <2>1. \E S : history' = Append(history, S)
    BY DEF DatabaseChanges
  <2> QED
    BY <1>1, <2>1 DEF Now
<1>4. ASSUME NEW q \in Query, NEW w \in Nat, w <= Now
      PROVE  Of(history', q, w) = Of(history, q, w)
  <2>1. CASE w = 0
    BY <2>1 DEF Of
  <2>2. CASE w # 0
    <3>1. history'[w] = history[w]
      BY <1>1, <1>3, <1>4, <2>2
    <3> QED
      BY <2>2, <3>1 DEF Of
  <2> QED
    BY <2>1, <2>2
<1>5. /\ \A q \in Query : disk.token[q] \in Nat /\ views.token[q] \in Nat
      /\ \A i \in 1..Len(call.requests) : call.requests[i].token \in Nat
  BY <1>1, CallFields, RequestFields, VersionIs DEF Disk, Views
<1>6. /\ \A q \in Query : disk.token[q] <= Now /\ views.token[q] <= Now
      /\ \A i \in 1..Len(call.requests) : call.requests[i].token <= Now
  <2>1. /\ disk.lastVersion <= Now
        /\ \A q \in Query : disk.token[q] <= disk.lastVersion /\ views.token[q] <= disk.lastVersion
        /\ \A i \in 1..Len(call.requests) : call.requests[i].token <= disk.lastVersion
    BY DEF ResumeInv, Resumable, VersionInv, OldTokens, Now
  <2>2. \A n \in Nat : n <= disk.lastVersion => n <= Now
    BY <1>1, <2>1
  <2> QED
    BY <1>5, <2>1, <2>2
<1>7. KeysTrue(history', disk, views, remote, call)
  <2>1. KeysTrue(history, disk, views, remote, call)
    BY DEF ShowInv, Showing
  <2> QED
    BY <1>4, <1>5, <1>6, <2>1 DEF KeysTrue
<1>8. Showing(history', disk, views, limbo, remote, call)
  BY <1>7 DEF ShowInv, Showing
<1> QED
  BY <1>2, <1>8 DEF ShowInv

LEMMA ReadsKeepShow ==
  ASSUME IInv, ShowInv, ServerReads
  PROVE  ShowInv'
<1>1. /\ call \in Call
      /\ \E v \in (call.version + 1)..Now : call' = [call EXCEPT !.version = v]
      /\ UNCHANGED <<history, disk, views, limbo, remote>>
  BY Types DEF ServerReads, IInv
<1>2. call'.requests = call.requests /\ call'.have = call.have /\ call'.owed = call.owed
  BY <1>1 DEF Call
<1>3. Showing(history, disk, views, limbo, remote, call')
  BY <1>2 DEF ShowInv, Showing, KeysTrue, MatchInv, Match
<1> QED
  BY <1>1, <1>3 DEF ShowInv

\* The call ends, whatever comes next.
LEMMA ClosesKeepShow ==
  ASSUME IInv, ShowInv, CallBreaks \/ RestartNetwork \/ IdleTimeout
  PROVE  ShowInv'
<1>1. views \in Views /\ remote \in Remote
  BY Types DEF IInv
<1>2. /\ \E stream \in {"off", "starting"} : remote' = Cleaned(remote, stream)
      /\ \E o : GoesOnline(o)
      /\ call' = NoCall /\ UNCHANGED <<history, disk, limbo>>
  BY DEF CallBreaks, RestartNetwork, IdleTimeout
<1>3. /\ remote'.stream \in {"off", "starting"} /\ remote'.resume = remote.resume
      /\ remote'.updates = NoUpdates
  BY <1>1, <1>2 DEF Cleaned, Remote
<1>4. /\ views'.listening = views.listening /\ views'.synced = views.synced
      /\ views'.token = views.token
  BY <1>1, <1>2, GoesOnlineIs
<1>5. NoCall.requests = <<>> /\ Len(<<>>) = 0
  BY NoCallType
<1>6. KeysTrue(history, disk, views', remote', NoCall)
  <2>1. KeysTrue(history, disk, views, remote, call)
    BY DEF ShowInv, Showing
  <2> QED
    BY <1>3, <1>4, <1>5, <2>1 DEF KeysTrue
<1>7. MatchInv(views', remote', NoCall)
  BY <1>3 DEF MatchInv
<1>8. ViewsInv(disk, views', limbo)
  BY <1>1, <1>2, LosesCurrentOnly DEF ShowInv, Showing
<1>9. QuietInv(views', remote')
  <2>1. KeysTrue(history, disk, views, remote, call) /\ ViewsInv(disk, views, limbo)
    BY DEF ShowInv, Showing
  <2>2. \A d \in Doc : remote'.updates[d].kind = "none"
    BY <1>3 DEF NoUpdates, NoUpdate
  <2>3. \A q \in Query : views'.synced[q] \subseteq Doc
    BY <1>1, <1>4 DEF Views
  <2> QED
    BY <2>2, <2>3 DEF QuietInv, Quiet
<1>10. Showing(history, disk, views', limbo, remote', NoCall)
  BY <1>6, <1>7, <1>8, <1>9 DEF Showing
<1> QED
  BY <1>2, <1>10 DEF ShowInv

LEMMA TimeoutKeepsShow ==
  ASSUME IInv, ShowInv, OnlineTimeout
  PROVE  ShowInv'
<1>1. /\ views \in Views /\ UNCHANGED <<history, call, disk, limbo, remote>>
      /\ \E o : GoesOnline(o)
  BY Types DEF IInv, OnlineTimeout
<1>2. /\ views'.listening = views.listening /\ views'.synced = views.synced
      /\ views'.token = views.token
      /\ \A q \in Query : views'.current[q] => views.current[q]
  BY <1>1, GoesOnlineIs
<1>3. ViewsInv(disk, views', limbo)
  BY <1>1, LosesCurrentOnly DEF ShowInv, Showing
<1>4. Showing(history, disk, views', limbo, remote, call)
  BY <1>2, <1>3 DEF ShowInv, Showing, KeysTrue, MatchInv, Match, Keeps, QuietInv, Quiet
<1> QED
  BY <1>1, <1>4 DEF ShowInv

\* A client that has nothing but its disk.
LEMMA NothingToShow ==
  ASSUME NEW h, NEW dk, \A q \in Query : dk.keys[q] = Of(h, q, dk.token[q])
  PROVE  Showing(h, dk, NoViews, NoLimbo, NoRemote, NoCall)
<1>1. /\ NoViews.listening = {} /\ NoRemote.stream = "off" /\ NoLimbo.active = {}
      /\ \A q \in Query : NoViews.limbo[q] = {} /\ NoViews.current[q] = FALSE
  BY DEF NoViews, NoLimbo, NoRemote
<1>2. KeysTrue(h, dk, NoViews, NoRemote, NoCall)
  BY <1>1 DEF KeysTrue
<1>3. MatchInv(NoViews, NoRemote, NoCall)
  BY <1>1 DEF MatchInv
<1>4. ViewsInv(dk, NoViews, NoLimbo)
  BY <1>1 DEF ViewsInv, ViewIs
<1>5. QuietInv(NoViews, NoRemote)
  BY <1>1 DEF QuietInv, Quiet
<1> QED
  BY <1>2, <1>3, <1>4, <1>5 DEF Showing

LEMMA RelaunchKeepsShow ==
  ASSUME ShowInv, Relaunch
  PROVE  ShowInv'
<1>1. \A q \in Query : disk.keys[q] = Of(history, q, disk.token[q])
  BY DEF ShowInv, Showing, KeysTrue
<1>2. Showing(history, disk, NoViews, NoLimbo, NoRemote, NoCall)
  BY <1>1, NothingToShow
<1> QED
  BY <1>2 DEF ShowInv, Relaunch

LEMMA InitShow ==
  ASSUME Init
  PROVE  ShowInv
<1>1. \A q \in Query : disk.keys[q] = Of(history, q, disk.token[q])
  BY DEF Init, Of
<1>2. Showing(history, disk, NoViews, NoLimbo, NoRemote, NoCall)
  BY <1>1, NothingToShow
<1> QED
  BY <1>2 DEF ShowInv, Init

LEMMA StutterKeepsShow ==
  ASSUME ShowInv, UNCHANGED vars
  PROVE  ShowInv'
  BY DEF vars, ShowInv

\* A query that waits for its answer is not served.
LEMMA OpensKeepShow ==
  ASSUME IInv, ResumeInv, ShowInv, StreamOpens
  PROVE  ShowInv'
<1> DEFINE T == remote.targets
           r1 == [remote EXCEPT !.stream = "open"]
           r2 == Expects(r1, T, 1)
<1>1. /\ remote.stream = "starting" /\ remote' = r2
      /\ UNCHANGED <<history, disk, views, limbo>>
  BY DEF StreamOpens
<1>2. PICK v \in 1..Now : \E requests \in SetToSeqs({Watch(t, remote.resume[t]) : t \in T}) :
        /\ StaleReads \/ v >= disk.lastVersion
        /\ call' = [NoCall EXCEPT !.version = v, !.requests = requests]
  BY Zenon DEF StreamOpens
<1>3. PICK b \in SetToSeqs({Watch(t, remote.resume[t]) : t \in T}) :
        /\ StaleReads \/ v >= disk.lastVersion
        /\ call' = [NoCall EXCEPT !.version = v, !.requests = b]
  BY <1>2, Zenon
<1>4. /\ TypeOK' /\ remote \in Remote /\ views \in Views /\ Fresh(remote) /\ remote.tracked = {}
      /\ T \subseteq Target /\ remote.updates = NoUpdates
  BY <1>1, Types, OpensKeepIInv, RemoteFields
     DEF IInv, StreamInv, ResumeInv, Resumable, TrackedInv
<1>5. call'.requests = b
  BY <1>3 DEF NoCall
<1>6. b \in Seq(Request)
  BY <1>4, <1>5, CallFields DEF TypeOK
<1>7. \A i \in 1..Len(b) : b[i].token = remote.resume[b[i].target]
  <2> DEFINE S == {Watch(t, remote.resume[t]) : t \in T}
  <2>1. \A x \in S : x.token = remote.resume[x.target]
    BY DEF Watch
  <2>2. b \in SetToSeqs(S)
    OBVIOUS
  <2> HIDE DEF S
  <2>3. \A i \in 1..Len(b) : b[i] \in S
    BY <1>6, <2>2, ElementsOf
  <2> QED
    BY <2>1, <2>3
<1>8. /\ r1 \in Remote /\ r1.targets = T /\ r1.resume = remote.resume
      /\ r1.updates = NoUpdates /\ \A t \in Target : r1.state[t].outstanding = 0
  BY <1>4, FreshType DEF Remote, Fresh
<1> HIDE DEF r1
<1>9. Expected(r1, T, 1, r2)
  BY <1>4, <1>8, ExpectsIs
<1> HIDE DEF r2
<1>10. /\ r2.targets = T /\ r2.resume = remote.resume /\ r2.updates = NoUpdates
       /\ \A t \in T : r2.state[t].outstanding = 1
  BY <1>4, <1>8, <1>9 DEF Expected
<1>11. KeysTrue(history, disk, views, r2, call')
  <2>1. KeysTrue(history, disk, views, remote, call)
    BY DEF ShowInv, Showing
  <2> QED
    BY <1>5, <1>7, <1>10, <2>1 DEF KeysTrue
<1>12. MatchInv(views, r2, call')
  BY <1>10 DEF MatchInv, Match, Live
<1>13. QuietInv(views, r2)
  <2>1. \A d \in Doc : r2.updates[d].kind = "none"
    BY <1>10 DEF NoUpdates, NoUpdate
  <2>2. \A q \in Query : views.synced[q] \subseteq Doc
    BY <1>4 DEF Views
  <2> QED
    BY <2>1, <2>2 DEF QuietInv, Quiet
<1>14. Showing(history, disk, views, limbo, r2, call')
  BY <1>11, <1>12, <1>13 DEF ShowInv, Showing
<1> QED
  BY <1>1, <1>14 DEF ShowInv

\* A query starts from the keys and the token that the disk has.
LEMMA ListensKeepShow ==
  ASSUME IInv, ResumeInv, ShowInv, NEW q \in Query, Listen(q)
  PROVE  ShowInv'
<1> DEFINE token == disk.token[q]
           vw == [views EXCEPT !.listening = @ \cup {q}, !.synced[q] = disk.keys[q],
                               !.token[q] = token]
           r == [remote EXCEPT !.targets = @ \cup {q}, !.resume[q] = token]
           r1 == Expects(r, {q}, 1)
           r2 == [r1 EXCEPT !.idle = FALSE]
           b == <<Watch(q, token)>>
           c2 == Sends(call, b)
<1>1. /\ q \notin views.listening
      /\ remote' = CASE remote.stream = "off"      -> Cleaned(r, "starting")
                     [] remote.stream = "starting" -> r
                     [] remote.stream = "open"     -> r2
      /\ call' = IF remote.stream = "open" THEN c2 ELSE call
      /\ views' = Raise(vw, disk.cache, online'.state)
      /\ UNCHANGED <<history, disk, limbo>>
  BY DEF Listen
<1>2. /\ StreamInv /\ TargetsInv /\ remote \in Remote /\ call \in Call /\ views \in Views
      /\ disk.token \in [Query -> Version] /\ disk.keys \in [Query -> SUBSET Doc]
  BY Types DEF IInv
<1>3. token \in Version /\ q \in Target
  BY <1>2, TargetIs
<1>4. /\ vw \in Views /\ vw.listening = views.listening \cup {q} /\ vw.current = views.current
      /\ vw.limbo = views.limbo
      /\ \A p \in Query : /\ vw.token[p] = IF p = q THEN token ELSE views.token[p]
                          /\ vw.synced[p] = IF p = q THEN disk.keys[q] ELSE views.synced[p]
  BY <1>2, <1>3 DEF Views
<1> HIDE DEF vw
<1>5. /\ views'.listening = views.listening \cup {q} /\ views'.current = views.current
      /\ views'.limbo = views.limbo
      /\ \A p \in Query :
           /\ views'.token[p] = IF p = q THEN token ELSE views.token[p]
           /\ views'.synced[p] = IF p = q THEN disk.keys[q] ELSE views.synced[p]
  BY <1>1, <1>4, RaiseKeeps
<1>6. /\ r \in Remote /\ r.targets = remote.targets \cup {q} /\ r.stream = remote.stream
      /\ r.tracked = remote.tracked /\ r.state = remote.state /\ r.updates = remote.updates
  BY <1>2, <1>3 DEF Remote
<1>7. \A t \in Target : r.resume[t] = IF t = q THEN token ELSE remote.resume[t]
  BY <1>2, <1>3, RemoteFields
<1> HIDE DEF r
<1>8. /\ KeysTrue(history, disk, views, remote, call) /\ MatchInv(views, remote, call)
      /\ ViewsInv(disk, views, limbo) /\ QuietInv(views, remote) /\ TrackedInv(remote)
  BY DEF ResumeInv, Resumable, ShowInv, Showing
<1>9. ~views.current[q]
  BY <1>1, <1>8 DEF ViewsInv, ViewIs
<1>10. ViewsInv(disk, views', limbo)
  BY <1>5, <1>8, <1>9 DEF ViewsInv, ViewIs, InDoubt
<1>11. disk.keys[q] = Of(history, q, token)
  BY <1>8 DEF KeysTrue
<1> HIDE DEF token
<1>12. CASE remote.stream # "open"
  <2>1. remote'.stream # "open" /\ remote'.updates = NoUpdates /\ remote'.resume = r.resume
    <3>1. CASE remote.stream = "off"
      BY <1>1, <1>6, <3>1 DEF Cleaned, Remote
    <3>2. CASE remote.stream = "starting"
      BY <1>1, <1>6, <1>8, <3>2 DEF TrackedInv
    <3> QED
      BY <1>2, <1>12, <3>1, <3>2, RemoteFields
  <2>2. call' = call /\ call.requests = <<>>
    BY <1>1, <1>2, <1>12, CallIsOpen
  <2>3. KeysTrue(history, disk, views', remote', call')
    <3>1. \A p \in Query : remote'.resume[p] = IF p = q THEN token ELSE remote.resume[p]
      BY <1>7, <2>1, TargetIs
    <3> QED
      BY <1>5, <1>8, <1>11, <2>2, <3>1 DEF KeysTrue, token
  <2>4. MatchInv(views', remote', call')
    BY <2>1 DEF MatchInv
  <2>5. QuietInv(views', remote')
    <3>1. \A d \in Doc : remote'.updates[d].kind = "none"
      BY <2>1 DEF NoUpdates, NoUpdate
    <3>2. \A p \in Query : views'.synced[p] \subseteq Doc
      BY <1>2, <1>5 DEF Views
    <3> QED
      BY <3>1, <3>2 DEF QuietInv, Quiet
  <2>6. Showing(history, disk, views', limbo, remote', call')
    BY <1>10, <2>3, <2>4, <2>5 DEF Showing
  <2> QED
    BY <1>1, <2>6 DEF ShowInv
<1>13. CASE remote.stream = "open"
  <2>1. q \notin remote.targets /\ InStep(remote, call)
    BY <1>1, <1>2, <1>13, TargetIs DEF TargetsInv, StreamInv
  <2>2. /\ q \notin remote.tracked /\ remote.state[q].outstanding = 0
        /\ Waiting(call.requests, q) = {}
    BY <1>2, <1>3, <2>1, FreshType DEF InStep, Settling, StreamInv, Fresh
  <2>3. Expected(r, {q}, 1, r1)
    BY <1>3, <1>6, ExpectsIs
  <2> HIDE DEF r1
  <2>4. /\ r2.targets = remote.targets \cup {q} /\ r2.stream = "open" /\ r2.resume = r.resume
        /\ r2.updates = remote.updates /\ r2.state[q].outstanding = 1
        /\ \A t \in Target : t # q => r2.state[t] = remote.state[t]
    BY <1>3, <1>6, <1>13, <2>2, <2>3 DEF Expected, Remote
  <2> HIDE DEF r2
  <2>5. b \in Seq(Request) /\ Len(b) = 1 /\ b[1].target = q /\ b[1].token = token
    <3>1. Watch(q, token) \in Request
      BY <1>3 DEF Watch, Request
    <3> QED
      BY <3>1 DEF Watch
  <2> HIDE DEF b
  <2>6. c2.requests = call.requests \o b /\ c2.have = call.have /\ c2.owed = call.owed
    BY <1>2 DEF Sends, Call
  <2> HIDE DEF c2
  <2>7. \A i \in 1..Len(c2.requests) :
          \/ \E j \in 1..Len(call.requests) : c2.requests[i] = call.requests[j]
          \/ c2.requests[i].target = q /\ c2.requests[i].token = token
    <3>1. call.requests \in Seq(Request)
      BY <1>2, CallFields
    <3>2. \A j \in 1..Len(b) : b[j].target = q /\ b[j].token = token
      BY <2>5
    <3> DEFINE all == call.requests \o b
    <3>3. \A i \in 1..Len(all) : \/ \E j \in 1..Len(call.requests) : all[i] = call.requests[j]
                                \/ \E j \in 1..Len(b) : all[i] = b[j]
      BY <2>5, <3>1, OfBoth
    <3>4. c2.requests = all
      BY <2>6
    <3> HIDE DEF all
    <3> QED
      BY <3>2, <3>3, <3>4
  <2>8. /\ ~Live(r2, q)
        /\ \A p \in Query \ {q} : Live(r2, p) = Live(remote, p) /\ r2.state[p] = remote.state[p]
    BY <2>4, TargetIs DEF Live
  <2>9. \A i \in 1..Len(c2.requests) : c2.requests[i].target = q => c2.requests[i].token = token
    BY <2>2, <2>7 DEF Waiting
  <2>10. KeysTrue(history, disk, views', r2, c2)
    <3> SUFFICES ASSUME NEW p \in Query
                 PROVE  /\ disk.keys[p] = Of(history, p, disk.token[p])
                        /\ p \in views'.listening =>
                             /\ views'.synced[p] = disk.keys[p]
                             /\ views'.synced[p] = Of(history, p, views'.token[p])
                             /\ views'.token[p] = r2.resume[p]
                             /\ \A i \in 1..Len(c2.requests) :
                                  c2.requests[i].target = p /\ c2.requests[i].op = "watch" =>
                                    views'.synced[p] = Of(history, p, c2.requests[i].token)
      BY DEF KeysTrue
    <3>1. disk.keys[p] = Of(history, p, disk.token[p])
      BY <1>8 DEF KeysTrue
    <3>2. r2.resume[p] = IF p = q THEN token ELSE remote.resume[p]
      BY <1>7, <2>4, TargetIs
    <3>3. CASE p = q
      BY <1>5, <1>11, <2>9, <3>1, <3>2, <3>3
    <3>4. CASE p # q
      BY <1>5, <1>8, <2>7, <3>1, <3>2, <3>4 DEF KeysTrue
    <3> QED
      BY <3>3, <3>4
  <2>11. MatchInv(views', r2, c2)
    <3>1. \A p \in Query : Match(views, remote, call, p)
      BY <1>8, <1>13 DEF MatchInv
    <3>2. \A p \in Query : Match(views', r2, c2, p)
      BY <1>5, <2>6, <2>8, <3>1 DEF Match, Keeps
    <3> QED
      BY <3>2 DEF MatchInv
  <2>12. QuietInv(views', r2)
    BY <1>5, <1>8, <1>9, <2>4, <2>8 DEF QuietInv, Quiet
  <2>13. Showing(history, disk, views', limbo, r2, c2)
    BY <1>10, <2>10, <2>11, <2>12 DEF Showing
  <2> QED
    BY <1>1, <1>13, <2>13 DEF ShowInv
<1> QED
  BY <1>12, <1>13

-----------------------------------------------------------------------------
(* The invariant of the views: messages that make no snapshot.             *)

\* What the parts of a message have to keep.
LEMMA MessageKeepsShow ==
  ASSUME ShowInv, NEW r, NEW c, Received(r, c), r.resume = remote.resume,
         \A i \in 1..Len(c.requests) : \E j \in 1..Len(call.requests) :
           c.requests[i] = call.requests[j],
         \A q \in Query : Match(views, r, c, q),
         QuietInv(views, r)
  PROVE  ShowInv'
<1>1. remote' = r /\ call' = c /\ UNCHANGED <<history, disk, views, limbo>>
  BY DEF Received
<1>2. KeysTrue(history, disk, views, r, c)
  <2>1. KeysTrue(history, disk, views, remote, call)
    BY DEF ShowInv, Showing
  <2> QED
    BY <2>1 DEF KeysTrue
<1>3. Showing(history, disk, views, limbo, r, c)
  BY <1>2 DEF ShowInv, Showing, MatchInv
<1> QED
  BY <1>1, <1>3 DEF ShowInv

\* A message to others.
LEMMA MatchStays ==
  ASSUME ShowInv, remote.stream = "open", NEW q \in Query, NEW r, NEW c,
         Live(r, q) => Live(remote, q), r.state[q].docs = remote.state[q].docs,
         c.have[q] = call.have[q], c.owed[q] = call.owed[q]
  PROVE  Match(views, r, c, q)
<1>1. Match(views, remote, call, q)
  BY DEF ShowInv, Showing, MatchInv
<1> QED
  BY <1>1 DEF Match, Keeps

LEMMA QuietStays ==
  ASSUME ShowInv, NEW r, r.updates = remote.updates,
         \A q \in Query : Live(remote, q) => Live(r, q)
  PROVE  QuietInv(views, r)
<1>1. QuietInv(views, remote)
  BY DEF ShowInv, Showing
<1> QED
  BY <1>1 DEF QuietInv, Quiet

\* The documents of a current view that shares none with the others come from
\* its own target only: no other query has them, and they are not in limbo.
LEMMA NotFromOthers ==
  ASSUME IInv, ShowInv, NEW r, r.targets = remote.targets,
         NEW q \in Query, views.current[q], Alone(q), ~Live(r, q),
         NEW t \in Target, Live(r, t)
  PROVE  \A d \in views.synced[q] : d \notin Scope(t)
<1>1. /\ ViewsInv(disk, views, limbo) /\ KeysTrue(history, disk, views, remote, call)
      /\ TargetsInv /\ t \in remote.targets
  BY DEF ShowInv, Showing, IInv, Live
<1>2. q \in views.listening /\ views.limbo[q] = Docs(q, disk.cache) \ views.synced[q]
  BY <1>1 DEF ViewsInv, ViewIs
<1>3. views.synced[q] \subseteq Matches[q]
  BY <1>1, <1>2 DEF KeysTrue, Of
<1>4. CASE t \in Query
  BY <1>3, <1>4, TargetIs DEF Alone
<1>5. CASE t \in LimboTarget
  <2>1. t[1] \in InDoubt(views) /\ Scope(t) = {t[1]}
    BY <1>1, <1>5, TargetIs DEF TargetsInv, ViewsInv
  <2>2. PICK p \in Query : t[1] \in views.limbo[p]
    BY <2>1 DEF InDoubt
  <2>3. t[1] \in Matches[p]
    BY <1>1, <2>2 DEF ViewsInv, ViewIs
  <2>4. CASE p = q
    BY <1>2, <2>1, <2>2, <2>4
  <2>5. CASE p # q
    BY <1>3, <2>1, <2>3, <2>5 DEF Alone
  <2> QED
    BY <2>4, <2>5
<1> QED
  BY <1>4, <1>5, TargetIs

\* The server goes on from the keys that the client has.
LEMMA AddsKeepShow ==
  ASSUME IInv, ResumeInv, ShowInv, NEW t \in Target, ServerAdds(t)
  PROVE  ShowInv'
<1> DEFINE token == Head(call.requests).token
           v == IF call.version > token THEN call.version ELSE token
           r == TargetAdded(remote, t)
<1>1. PICK owed \in IF token = 0 THEN {"none"} ELSE {"none", "filter", "reset"} :
        Received(r, [Served(call) EXCEPT
                       !.version = v,
                       !.watched = @ \cup {t},
                       !.owed[t] = owed,
                       !.have[t] = [d \in Doc |->
                          IF owed = "filter" /\ At(t, v)[d] = 0 THEN 0 ELSE At(t, token)[d]]])
  BY Zenon DEF ServerAdds
<1> DEFINE have == [d \in Doc |->
                      IF owed = "filter" /\ At(t, v)[d] = 0 THEN 0 ELSE At(t, token)[d]]
           c == [Served(call) EXCEPT !.version = v, !.watched = @ \cup {t}, !.owed[t] = owed,
                                     !.have[t] = have]
<1>2. Received(r, c)
  BY <1>1, Zenon
<1>3. Serves("watch", t)
  BY DEF ServerAdds
<1>4. /\ remote.stream = "open" /\ call.requests # <<>> /\ call \in Call /\ remote \in Remote
      /\ Head(call.requests).op = "watch" /\ Head(call.requests).target = t
      /\ Served(call) \in Call /\ Served(call) = [call EXCEPT !.requests = Tail(@)]
      /\ remote.state[t].outstanding \in Nat \ {0}
  BY <1>3, HeadIsWaitedFor
<1>5. /\ Served(call).requests = Tail(call.requests) /\ Served(call).have = call.have
      /\ Served(call).owed = call.owed
  BY <1>4 DEF Call
<1>6. /\ c.requests = Tail(call.requests)
      /\ \A u \in Target : /\ c.have[u] = IF u = t THEN have ELSE call.have[u]
                           /\ c.owed[u] = IF u = t THEN owed ELSE call.owed[u]
  BY <1>4, <1>5, CallFields DEF Call
<1>7. /\ r.resume = remote.resume /\ r.targets = remote.targets /\ r.updates = remote.updates
      /\ \A u \in Target \ {t} : r.state[u] = remote.state[u]
      /\ r.state[t].outstanding = 0 => \A d \in Doc : r.state[t].docs[d] = "none"
  BY <1>4, AddedIs
<1>8. ~Live(remote, t)
  BY <1>4 DEF Live
<1> HIDE DEF r, c
<1>9. QuietInv(views, r)
  BY <1>7, <1>8, QuietStays, TargetIs DEF Live
<1>10. \A q \in Query : Match(views, r, c, q)
  <2> SUFFICES ASSUME NEW q \in Query
               PROVE  Match(views, r, c, q)
    OBVIOUS
  <2>1. CASE q # t
    <3>1. q \in Target /\ r.state[q] = remote.state[q]
      BY <1>7, <2>1, TargetIs
    <3>2. c.have[q] = call.have[q] /\ c.owed[q] = call.owed[q]
      BY <1>6, <2>1, <3>1
    <3>3. Live(r, q) => Live(remote, q)
      BY <1>7, <3>1 DEF Live
    <3> QED
      BY <1>4, <3>1, <3>2, <3>3, MatchStays
  <2>2. CASE q = t /\ Live(r, q)
    <3>1. q \in views.listening
      BY <1>7, <2>2 DEF Live, IInv, TargetsInv
    <3>2. token = call.requests[1].token /\ 1 \in 1..Len(call.requests)
          /\ call.requests[1] = Head(call.requests)
      BY <1>4, HeadOf
    <3>3. views.synced[q] = Of(history, q, token)
      BY <1>4, <2>2, <3>1, <3>2 DEF ShowInv, Showing, KeysTrue
    <3>4. token \in Nat /\ token <= Now /\ history \in Seq(SUBSET Doc)
      <4>1. Head(call.requests) \in Request
        BY <1>4, HeadOf
      <4>2. token \in Nat /\ disk.lastVersion \in Nat /\ Now \in Nat /\ history \in Seq(SUBSET Doc)
        BY <4>1, RequestFields, Types, VersionIs DEF IInv
      <4>3. token <= disk.lastVersion /\ disk.lastVersion <= Now
        BY <3>2 DEF ResumeInv, Resumable, OldTokens, VersionInv, Now
      <4> QED
        BY <4>2, <4>3
    <3> HIDE DEF token
    <3>5. \A d \in Doc : At(q, token)[d] # 0 <=> d \in views.synced[q]
      <4> SUFFICES ASSUME NEW d \in Doc
                   PROVE  At(q, token)[d] # 0 <=> d \in views.synced[q]
        OBVIOUS
      <4>1. /\ At(q, token)[d] # 0 => d \in Matches[q] /\ token # 0 /\ d \in history[token]
            /\ token # 0 /\ d \in history[token] /\ d \in Matches[q] => At(q, token)[d] # 0
        BY <3>4, AtIs, TargetIs
      <4> QED
        BY <3>3, <4>1 DEF Of
    <3>6. \A d \in Doc : r.state[q].docs[d] = "none"
      BY <1>7, <2>2 DEF Live
    <3>7. /\ c.owed[q] = owed
          /\ \A d \in Doc : c.have[q][d] = IF owed = "filter" /\ At(t, v)[d] = 0 THEN 0
                                           ELSE At(q, token)[d]
      BY <1>6, <2>2
    <3> QED
      BY <3>5, <3>6, <3>7 DEF Match, Keeps
  <2> QED
    BY <2>1, <2>2 DEF Match
<1>11. \A i \in 1..Len(c.requests) : \E j \in 1..Len(call.requests) :
         c.requests[i] = call.requests[j]
  BY <1>4, <1>6, HeadOf
<1> QED
  BY <1>2, <1>7, <1>9, <1>10, <1>11, MessageKeepsShow

\* After an unwatch nothing is taken of the target.
LEMMA RemovesKeepShow ==
  ASSUME IInv, IInv', ShowInv, NEW t \in Target, ServerRemoves(t)
  PROVE  ShowInv'
<1> DEFINE c == [Served(call) EXCEPT !.watched = @ \ {t}, !.current = @ \ {t},
                                     !.owed[t] = "none", !.have[t] = Nothing]
           r == TargetRemoved(remote, t)
<1>1. Serves("unwatch", t) /\ Received(r, c)
  BY DEF ServerRemoves
<1>2. /\ remote.stream = "open" /\ call.requests # <<>> /\ call \in Call /\ remote \in Remote
      /\ remote.state[t].outstanding \in Nat \ {0}
      /\ Served(call) \in Call /\ Served(call) = [call EXCEPT !.requests = Tail(@)]
  BY <1>1, HeadIsWaitedFor
<1>3. Sound(remote)
  BY StateOfIInv
<1>4. /\ Served(call).requests = Tail(call.requests) /\ Served(call).have = call.have
      /\ Served(call).owed = call.owed /\ Served(call).watched = call.watched
  BY <1>2 DEF Call
<1>5. /\ c.requests = Tail(call.requests) /\ c.watched = call.watched \ {t}
      /\ \A u \in Target \ {t} : c.have[u] = call.have[u] /\ c.owed[u] = call.owed[u]
  BY <1>2, <1>4, CallFields DEF Call
<1> HIDE DEF c
<1>6. /\ r \in Remote /\ r.targets = remote.targets /\ r.stream = remote.stream
      /\ r.resume = remote.resume /\ r.updates = remote.updates
      /\ \A u \in Target \ {t} : r.state[u] = remote.state[u]
  <2>1. r \in Remote
    BY <1>2, <1>3, Removes DEF Sound
  <2> QED
    BY <1>2, <2>1, RemovedIs
<1> HIDE DEF r
<1>7. remote' = r /\ call' = c
  BY <1>1 DEF Received
<1>8. ~Live(r, t)
  <2> SUFFICES ASSUME Live(r, t)
               PROVE  FALSE
    OBVIOUS
  <2>1. InStep(r, c) /\ c \in Call
    BY <1>2, <1>6, <1>7, StateOfIInv DEF IInv, StreamInv, TypeOK
  <2>2. t \in c.watched
    BY <1>6, <2>1, LiveIsWatched
  <2> QED
    BY <1>5, <2>2
<1>9. ~Live(remote, t)
  BY <1>2 DEF Live
<1>10. QuietInv(views, r)
  BY <1>6, <1>9, QuietStays, TargetIs DEF Live
<1>11. \A q \in Query : Match(views, r, c, q)
  <2> SUFFICES ASSUME NEW q \in Query
               PROVE  Match(views, r, c, q)
    OBVIOUS
  <2>1. CASE q # t
    <3>1. q \in Target /\ r.state[q] = remote.state[q]
      BY <1>6, <2>1, TargetIs
    <3>2. c.have[q] = call.have[q] /\ c.owed[q] = call.owed[q]
      BY <1>5, <2>1, <3>1
    <3>3. Live(r, q) => Live(remote, q)
      BY <1>6, <3>1 DEF Live
    <3> QED
      BY <1>2, <3>1, <3>2, <3>3, MatchStays
  <2>2. CASE q = t
    BY <1>8, <2>2 DEF Match
  <2> QED
    BY <2>1, <2>2
<1>12. \A i \in 1..Len(c.requests) : \E j \in 1..Len(call.requests) :
         c.requests[i] = call.requests[j]
  BY <1>2, <1>5, HeadOf
<1> QED
  BY <1>1, <1>6, <1>10, <1>11, <1>12, MessageKeepsShow

\* A message that asks nothing of the requests and sends no document.
LEMMA SilentMessage ==
  ASSUME IInv, ShowInv, remote.stream = "open", NEW r, NEW c, Received(r, c), Kept(remote, r),
         r.resume = remote.resume, r.updates = remote.updates, c.requests = call.requests,
         NEW t \in Target,
         \A u \in Target \ {t} : /\ r.state[u].docs = remote.state[u].docs
                                 /\ c.have[u] = call.have[u] /\ c.owed[u] = call.owed[u],
         t \in Query => Match(views, r, c, t)
  PROVE  ShowInv'
<1>1. \A u \in Target : Live(r, u) <=> Live(remote, u)
  BY DEF Kept, Live
<1>2. QuietInv(views, r)
  BY <1>1, QuietStays, TargetIs
<1>3. \A q \in Query : Match(views, r, c, q)
  <2> SUFFICES ASSUME NEW q \in Query
               PROVE  Match(views, r, c, q)
    OBVIOUS
  <2>1. CASE q # t
    <3>1. q \in Target \ {t} /\ (Live(r, q) => Live(remote, q))
      BY <1>1, <2>1, TargetIs
    <3> QED
      BY <3>1, MatchStays
  <2> QED
    BY <2>1
<1>4. \A i \in 1..Len(c.requests) : \E j \in 1..Len(call.requests) :
        c.requests[i] = call.requests[j]
  OBVIOUS
<1> QED
  BY <1>2, <1>3, <1>4, MessageKeepsShow

\* Whoever is live is listened to, and RemoteKeys are the keys of its view.
LEMMA LiveQuery ==
  ASSUME IInv, NEW r, r.targets = remote.targets, NEW q \in Query, Live(r, q)
  PROVE  q \in views.listening /\ RemoteKeys(q) = views.synced[q] /\ views.synced[q] \subseteq Doc
<1>1. q \in views.listening
  BY DEF Live, IInv, TargetsInv
<1>2. views \in Views
  BY DEF IInv, TypeOK
<1> QED
  BY <1>1, <1>2 DEF RemoteKeys, Views

\* A target that the server starts over with has no keys.
LEMMA ResetsKeepShow ==
  ASSUME IInv, ResumeInv, ShowInv, NEW t \in Target, ServerResets(t)
  PROVE  ShowInv'
<1> DEFINE c == [call EXCEPT !.owed[t] = "none", !.have[t] = Nothing, !.current = @ \ {t}]
           r == TargetReset(remote, t)
           docs == [d \in Doc |-> IF d \in RemoteKeys(t) THEN "removed" ELSE "none"]
           s == [FreshState EXCEPT !.docs = docs]
<1>1. Received(r, c) /\ t \in call.watched
  BY DEF ServerResets
<1>2. /\ remote.stream = "open" /\ call \in Call /\ remote \in Remote /\ Sound(remote)
      /\ Kept(remote, r) /\ TrackedInv(remote)
  BY <1>1, StateOfIInv, ResetsTarget DEF ResumeInv, Resumable
<1>3. /\ c.requests = call.requests /\ c.have[t] = Nothing
      /\ \A u \in Target \ {t} : c.have[u] = call.have[u] /\ c.owed[u] = call.owed[u]
  BY <1>2, CallFields DEF Call
<1> HIDE DEF c
<1>4. s.docs = docs
  BY DEF FreshState
<1>5. /\ r.targets = remote.targets /\ r.resume = remote.resume /\ r.updates = remote.updates
      /\ \A u \in Target \ {t} : r.state[u] = remote.state[u]
      /\ IsActive(remote, t) => r.state[t] = s
  BY <1>2, RemoteFields DEF TargetReset, Reset, WithState
<1> HIDE DEF r, s
<1>6. t \in Query => Match(views, r, c, t)
  <2> SUFFICES ASSUME t \in Query, Live(r, t)
               PROVE  \A d \in Doc :
                        /\ r.state[t].docs[d] # "added" /\ ~Keeps(views, r, t, d)
                        /\ c.have[t][d] = 0
    BY DEF Match
  <2>1. Live(remote, t)
    BY <1>2 DEF Kept, Live
  <2>2. IsActive(remote, t)
    BY <1>2, <2>1, LiveIsActive
  <2>3. RemoteKeys(t) = views.synced[t]
    BY <2>1, LiveQuery
  <2>4. \A d \in Doc : r.state[t].docs[d] = IF d \in views.synced[t] THEN "removed" ELSE "none"
    BY <1>4, <1>5, <2>2, <2>3
  <2> QED
    BY <1>3, <2>4 DEF Keeps, Nothing
<1> QED
  BY <1>1, <1>2, <1>3, <1>5, <1>6, SilentMessage

LEMMA CurrentKeepsShow ==
  ASSUME IInv, ShowInv, NEW t \in Target, ServerCurrent(t)
  PROVE  ShowInv'
<1> DEFINE c == [call EXCEPT !.current = @ \cup {t}]
           r == TargetCurrent(remote, t, call.version)
           s == [remote.state[t] EXCEPT !.changed = TRUE, !.current = TRUE, !.token = call.version]
<1>1. Received(r, c) /\ t \in call.watched
  BY DEF ServerCurrent, Complete
<1>2. /\ remote.stream = "open" /\ call \in Call /\ remote \in Remote /\ Sound(remote)
      /\ call.version \in Version
  BY <1>1, StateOfIInv, CallFields
<1>3. Kept(remote, r)
  BY <1>2, MarksCurrent
<1>4. c.requests = call.requests /\ c.have = call.have /\ c.owed = call.owed
  BY <1>2 DEF Call
<1> HIDE DEF c
<1>5. s.docs = remote.state[t].docs
  BY <1>2, RemoteFields DEF TargetState
<1>6. r = remote \/ r = WithState(remote, t, s)
  BY DEF TargetCurrent
<1> HIDE DEF s, r
<1>7. /\ r.resume = remote.resume /\ r.updates = remote.updates
      /\ \A u \in Target : r.state[u].docs = remote.state[u].docs
  <2>1. CASE r = WithState(remote, t, s)
    <3>1. /\ r.resume = remote.resume /\ r.updates = remote.updates
          /\ r.state = [remote.state EXCEPT ![t] = s]
      BY <1>2, <2>1 DEF WithState, Remote
    <3> QED
      BY <1>2, <1>5, <3>1, RemoteFields
  <2> QED
    BY <1>6, <2>1
<1>8. t \in Query => Match(views, r, c, t)
  <2> SUFFICES ASSUME t \in Query
               PROVE  Match(views, r, c, t)
    OBVIOUS
  <2>1. Live(r, t) => Live(remote, t)
    BY <1>3 DEF Kept, Live
  <2> QED
    BY <1>2, <1>4, <1>7, <2>1, MatchStays
<1> QED
  BY <1>1, <1>2, <1>3, <1>4, <1>7, <1>8, SilentMessage

\* What a change of one document leaves to the views that wait to be served.
LEMMA ChangeIsQuiet ==
  ASSUME IInv, ShowInv, NEW r, NEW d \in Doc, r.targets = remote.targets,
         \A e \in Doc \ {d} : r.updates[e] = remote.updates[e],
         \A u \in Target : Live(r, u) <=> Live(remote, u),
         r.updates[d] = remote.updates[d]
           \/ \E t \in Target : Live(remote, t) /\ d \in Scope(t)
  PROVE  QuietInv(views, r)
<1> SUFFICES ASSUME NEW q \in Query, views.current[q], Alone(q), ~Live(r, q),
                    NEW e \in views.synced[q]
             PROVE  r.updates[e].kind = "none"
  BY DEF QuietInv, Quiet
<1>1. remote.updates[e].kind = "none"
  BY TargetIs DEF ShowInv, Showing, QuietInv, Quiet
<1>2. views.synced[q] \subseteq Doc
  BY DEF IInv, TypeOK, Views
<1>3. CASE e # d
  BY <1>1, <1>2, <1>3
<1>4. CASE e = d
  <2>1. ASSUME NEW t \in Target, Live(remote, t), d \in Scope(t)
        PROVE  FALSE
    <3>1. Live(r, t)
      BY <2>1
    <3> QED
      BY <1>4, <2>1, <3>1, NotFromOthers
  <2> QED
    BY <1>1, <1>4, <2>1
<1> QED
  BY <1>3, <1>4

\* A document that is sent is a key of the targets that were behind, if it is there.
LEMMA SendsKeepShow ==
  ASSUME IInv, ResumeInv, ShowInv, NEW d \in Doc, ServerSends(d)
  PROVE  ShowInv'
<1> DEFINE T == {t \in call.watched : Behind(t, d)}
           v == call.version
           update == DocumentAt(d, v)
           r == HandleDocumentChange(remote, T, d, update)
           have == [t \in Target |-> IF t \in T THEN [call.have[t] EXCEPT ![d] = At(t, v)[d]]
                                     ELSE call.have[t]]
           c == [call EXCEPT !.have = have]
<1>1. T # {} /\ Received(r, c)
  BY DEF ServerSends
<1>2. /\ remote.stream = "open" /\ call \in Call /\ remote \in Remote /\ Sound(remote) /\ TypeOK
      /\ T \in SUBSET Target
  BY <1>1, StateOfIInv, CallFields DEF IInv
<1>3. /\ history \in Seq(SUBSET Doc) /\ v \in 1..Now /\ v \in Nat /\ Now \in Nat /\ v <= Now
      /\ call.have \in [Target -> [Doc -> Version]]
  BY <1>2, Types, CallFields, VersionIs DEF ResumeInv, Resumable, VersionInv, Now
<1>4. TrackedInv(remote) /\ HaveInv(history, call)
  BY DEF ResumeInv, Resumable
<1>5. update \in Update /\ (update.kind = "doc" <=> d \in history[v])
  BY <1>2, <1>3, DeletedSince
<1>6. \A u \in Target : /\ \A e \in Doc \ {d} : have[u][e] = call.have[u][e]
                        /\ have[u][d] = IF u \in T THEN At(u, v)[d] ELSE call.have[u][d]
  BY <1>3
<1>7. \A u \in T : /\ u \in Target /\ d \in Scope(u) /\ call.owed[u] # "reset"
                   /\ At(u, v)[d] # 0 <=> d \in history[v]
  <2> SUFFICES ASSUME NEW u \in T
               PROVE  /\ u \in Target /\ d \in Scope(u) /\ call.owed[u] # "reset"
                      /\ At(u, v)[d] # 0 <=> d \in history[v]
    OBVIOUS
  <2>1. u \in Target /\ call.owed[u] # "reset" /\ call.have[u][d] # At(u, v)[d]
    BY <1>2 DEF Behind
  <2>2. /\ At(u, v)[d] # 0 => d \in Scope(u) /\ d \in history[v]
        /\ d \in history[v] /\ d \in Scope(u) => At(u, v)[d] # 0
    BY <1>3, <2>1, AtIs
  <2>3. call.have[u][d] # 0 => d \in Scope(u)
    BY <1>4, <2>1 DEF HaveInv
  <2> QED
    BY <2>1, <2>2, <2>3
<1> HIDE DEF have, T, update
<1>8. c.requests = call.requests /\ c.have = have /\ c.owed = call.owed
  BY <1>2 DEF Call
<1> HIDE DEF c
<1>9. Recorded(remote, T, d, update, r)
  BY <1>2, <1>4, <1>5, ChangedDocument
<1> HIDE DEF r
<1>10. \A u \in Target : Live(r, u) <=> Live(remote, u)
  BY <1>9 DEF Live, Recorded
<1>11. QuietInv(views, r)
  <2>1. /\ r.targets = remote.targets /\ \A e \in Doc \ {d} : r.updates[e] = remote.updates[e]
        /\ r.updates[d] = IF \E t \in T : Live(remote, t) THEN update ELSE remote.updates[d]
    BY <1>9 DEF Recorded
  <2>2. r.updates[d] = remote.updates[d] \/ \E t \in Target : Live(remote, t) /\ d \in Scope(t)
    BY <1>7, <2>1
  <2> QED
    BY <1>10, <2>1, <2>2, ChangeIsQuiet
<1>12. \A q \in Query : Match(views, r, c, q)
  <2> SUFFICES ASSUME NEW q \in Query, Live(r, q), NEW e \in Doc
               PROVE  /\ r.state[q].docs[e] = "added" => e \notin views.synced[q]
                      /\ c.owed[q] # "reset" /\ c.have[q][e] # 0 => Keeps(views, r, q, e)
                      /\ c.owed[q] = "none" /\ Keeps(views, r, q, e) => c.have[q][e] # 0
    BY DEF Match
  <2>1. q \in Target /\ Live(remote, q)
    BY <1>10, TargetIs
  <2>2. Match(views, remote, call, q)
    BY <1>2 DEF ShowInv, Showing, MatchInv
  <2>3. CASE e = d /\ q \in T
    <3>1. RemoteKeys(q) = views.synced[q]
      BY <2>1, LiveQuery
    <3>2. r.state[q].docs[d] =
            IF update.kind = "doc" THEN IF d \in views.synced[q] THEN "modified" ELSE "added"
            ELSE IF d \in views.synced[q] THEN "removed" ELSE "none"
      BY <1>9, <2>1, <2>3, <3>1 DEF Recorded
    <3>3. c.have[q][d] # 0 <=> update.kind = "doc"
      BY <1>5, <1>6, <1>7, <1>8, <2>1, <2>3
    <3> QED
      BY <2>3, <3>2, <3>3 DEF Keeps
  <2>4. CASE e # d \/ q \notin T
    <3>1. r.state[q].docs[e] = remote.state[q].docs[e]
      BY <1>9, <2>1, <2>4 DEF Recorded
    <3>2. c.have[q][e] = call.have[q][e] /\ c.owed[q] = call.owed[q]
      BY <1>6, <1>8, <2>1, <2>4
    <3> QED
      BY <2>1, <2>2, <3>1, <3>2 DEF Match, Keeps
  <2> QED
    BY <2>3, <2>4
<1>13. r.resume = remote.resume
  BY <1>9 DEF Recorded
<1>14. \A i \in 1..Len(c.requests) : \E j \in 1..Len(call.requests) :
         c.requests[i] = call.requests[j]
  BY <1>8
<1> QED
  BY <1>1, <1>11, <1>12, <1>13, <1>14, MessageKeepsShow

\* What is left of a set that loses some members and gets some others.
Left(S, added, removed) == (S \ removed) \cup added

LEMMA SizeOfChanged ==
  ASSUME NEW S, NEW added, NEW removed, IsFiniteSet(S), IsFiniteSet(added),
         removed \subseteq S, added \cap S = {}
  PROVE  /\ IsFiniteSet(Left(S, added, removed))
         /\ Cardinality(Left(S, added, removed))
              = Cardinality(S) + Cardinality(added) - Cardinality(removed)
<1>1. IsFiniteSet(removed) /\ IsFiniteSet(S \ removed) /\ (S \cap removed) = removed
  BY FS_Subset, FS_Difference
<1>2. /\ Cardinality(S) \in Nat /\ Cardinality(added) \in Nat /\ Cardinality(removed) \in Nat
      /\ Cardinality(S \ removed) \in Nat
  BY <1>1, FS_CardinalityType
<1>3. Cardinality(S \ removed) = Cardinality(S) - Cardinality(removed)
  BY <1>1, FS_Difference
<1>4. (S \ removed) \cap added = {}
  OBVIOUS
<1>5. /\ IsFiniteSet((S \ removed) \cup added)
      /\ Cardinality((S \ removed) \cup added)
           = Cardinality(S \ removed) + Cardinality(added)
               - Cardinality((S \ removed) \cap added)
  BY <1>1, FS_Union
<1>6. Cardinality((S \ removed) \cap added) = 0
  BY <1>4, FS_EmptySet
<1> QED
  BY <1>2, <1>3, <1>5, <1>6 DEF Left

\* A filter that matches says that the keys are what the server counts as sent.
LEMMA FilterMatches ==
  ASSUME IInv, ShowInv, remote.stream = "open", NEW q \in Query, Live(remote, q),
         call.owed[q] = "filter",
         CurrentSize(remote, q) = Cardinality({d \in Doc : call.have[q][d] # 0})
  PROVE  \A d \in Doc : Keeps(views, remote, q, d) <=> call.have[q][d] # 0
<1> DEFINE S == views.synced[q]
           added == DocsThat(remote.state[q], "added")
           removed == DocsThat(remote.state[q], "removed")
           keys == Left(S, added, removed)
           have == {d \in Doc : call.have[q][d] # 0}
<1>1. RemoteKeys(q) = S /\ S \subseteq Doc
  BY LiveQuery
<1>2. q \in Target /\ q \in remote.targets /\ Sound(remote)
  BY TargetIs, StateOfIInv DEF Live
<1>3. Match(views, remote, call, q)
  BY DEF ShowInv, Showing, MatchInv
<1>4. IsFiniteSet(S) /\ IsFiniteSet(added)
  BY <1>1, FiniteAssumption, FS_Subset DEF DocsThat
<1>5. removed \subseteq S
  BY <1>1, <1>2, KeysAre DEF DocsThat, Sound, Fits
<1>6. added \cap S = {}
  BY <1>3 DEF Match, DocsThat
<1>7. /\ IsFiniteSet(keys)
      /\ Cardinality(keys) = Cardinality(S) + Cardinality(added) - Cardinality(removed)
  <2> HIDE DEF S, added, removed
  <2> QED
    BY <1>4, <1>5, <1>6, SizeOfChanged
<1>8. Cardinality(keys) = Cardinality(have)
  <2> HIDE DEF keys
  <2> QED
    BY <1>1, <1>7 DEF CurrentSize
<1>9. \A d \in Doc : d \in keys <=> Keeps(views, remote, q, d)
  BY DEF DocsThat, Keeps, Left
<1>10. have \subseteq keys
  BY <1>3, <1>9 DEF Match
<1> HIDE DEF keys
<1>11. have = keys
  BY <1>7, <1>8, <1>10, FS_Subset
<1> QED
  BY <1>9, <1>11

LEMMA FiltersKeepShow ==
  ASSUME IInv, ResumeInv, ShowInv, remote'.resets = {}, NEW t \in Target, ServerFilters(t)
  PROVE  ShowInv'
<1> DEFINE c == [call EXCEPT !.owed[t] = "none"]
           count == Cardinality({d \in Doc : call.have[t][d] # 0})
           r == HandleExistenceFilter(remote, t, count)
<1>1. /\ Received(r, c) /\ t \in call.watched /\ remote' = r
      /\ t \in Query => call.owed[t] = "filter"
  BY TargetIs DEF ServerFilters, Complete, Received
<1>2. /\ remote.stream = "open" /\ call \in Call /\ remote \in Remote /\ Sound(remote)
      /\ TrackedInv(remote)
  BY <1>1, StateOfIInv DEF ResumeInv, Resumable
<1>3. /\ c.requests = call.requests /\ c.have = call.have
      /\ \A u \in Target : c.owed[u] = IF u = t THEN "none" ELSE call.owed[u]
  BY <1>2, CallFields DEF Call
<1>4. Kept(remote, r)
  BY <1>2, ComparesFilter
<1> HIDE DEF c
<1>5. CASE t \in Query
  <2>1. r = remote
    <3> SUFFICES ASSUME r # remote
                 PROVE  FALSE
      OBVIOUS
    <3>1. r = [Reset(remote, t) EXCEPT !.resets = @ \cup {t}]
      BY <1>5 DEF HandleExistenceFilter
    <3>2. t \in r.resets
      BY <1>2, <3>1 DEF Reset, WithState, Remote
    <3> QED
      BY <1>1, <3>2
  <2>2. Match(views, remote, c, t)
    <3> SUFFICES ASSUME Live(remote, t)
                 PROVE  Match(views, remote, c, t)
      BY DEF Match
    <3>1. IsActive(remote, t)
      BY <1>2, LiveIsActive
    <3>2. CurrentSize(remote, t) = count
      <4> SUFFICES ASSUME CurrentSize(remote, t) # count
                   PROVE  FALSE
        OBVIOUS
      <4>1. r = [Reset(remote, t) EXCEPT !.resets = @ \cup {t}]
        BY <1>5, <3>1 DEF HandleExistenceFilter
      <4>2. t \in r.resets
        BY <1>2, <4>1 DEF Reset, WithState, Remote
      <4> QED
        BY <1>1, <4>2
    <3>3. \A d \in Doc : Keeps(views, remote, t, d) <=> call.have[t][d] # 0
      BY <1>1, <1>2, <1>5, <3>2, FilterMatches
    <3>4. Match(views, remote, call, t)
      BY <1>2, <1>5 DEF ShowInv, Showing, MatchInv
    <3> QED
      BY <1>3, <3>3, <3>4 DEF Match
  <2> QED
    BY <1>1, <1>2, <1>3, <1>4, <2>1, <2>2, SilentMessage
<1>6. CASE t \in LimboTarget /\ r = remote
  BY <1>1, <1>2, <1>3, <1>4, <1>6, SilentMessage, TargetIs
<1>7. CASE t \in LimboTarget /\ r # remote
  <2> DEFINE update == [kind |-> "purged", version |-> 0]
  <2>1. t \notin Query /\ t[1] \in Doc /\ Scope(t) = {t[1]}
    BY <1>7, TargetIs
  <2>2. r = HandleDocumentChange(remote, {t}, t[1], update)
    BY <1>7, <2>1 DEF HandleExistenceFilter
  <2>3. update \in Update
    BY BoundsAssumption DEF Update, Version
  <2> HIDE DEF r, update
  <2>4. Recorded(remote, {t}, t[1], update, r)
    BY <1>2, <2>1, <2>2, <2>3, ChangedDocument
  <2>5. /\ r.targets = remote.targets /\ r.resume = remote.resume
        /\ \A e \in Doc \ {t[1]} : r.updates[e] = remote.updates[e]
        /\ r.updates[t[1]] = remote.updates[t[1]] \/ (Live(remote, t) /\ t[1] \in Scope(t))
        /\ \A u \in Target \ {t} : r.state[u] = remote.state[u]
        /\ \A u \in Target : Live(r, u) <=> Live(remote, u)
    <3>1. /\ r.targets = remote.targets /\ r.resume = remote.resume
          /\ \A e \in Doc \ {t[1]} : r.updates[e] = remote.updates[e]
          /\ r.updates[t[1]] = IF Live(remote, t) THEN update ELSE remote.updates[t[1]]
          /\ \A u \in Target \ {t} : r.state[u] = remote.state[u]
      BY <2>4 DEF Recorded
    <3>2. \A u \in Target : Live(r, u) <=> Live(remote, u)
      BY <1>4 DEF Kept, Live
    <3> QED
      BY <2>1, <3>1, <3>2
  <2>6. QuietInv(views, r)
    BY <2>1, <2>5, ChangeIsQuiet
  <2>7. \A q \in Query : Match(views, r, c, q)
    <3> SUFFICES ASSUME NEW q \in Query
                 PROVE  Match(views, r, c, q)
      OBVIOUS
    <3>1. q \in Target \ {t} /\ (Live(r, q) => Live(remote, q))
      BY <2>1, <2>5, TargetIs
    <3>2. r.state[q] = remote.state[q] /\ c.have[q] = call.have[q] /\ c.owed[q] = call.owed[q]
      BY <1>3, <2>5, <3>1
    <3> QED
      BY <1>2, <3>1, <3>2, MatchStays
  <2>8. \A i \in 1..Len(c.requests) : \E j \in 1..Len(call.requests) :
          c.requests[i] = call.requests[j]
    BY <1>3
  <2> QED
    BY <1>1, <2>5, <2>6, <2>7, <2>8, MessageKeepsShow
<1> QED
  BY <1>5, <1>6, <1>7, TargetIs

-----------------------------------------------------------------------------
(* The invariant of the views: what brings a snapshot.                     *)

\* Views with the right keys are given to the app; documents that the keys do
\* not explain go into limbo.
LEMMA EmitsKeepShow ==
  ASSUME views \in Views, NEW vw, NEW lb, NEW r, NEW c, Ready(vw, lb, r, c),
         NEW cache, NEW fits, Emits(vw, lb, r, c, cache, fits),
         NEW h, NEW dk, dk.cache = cache, KeysTrue(h, dk, vw, r, c),
         \A q \in Query : Match(vw, r, c, q), QuietInv(vw, r),
         \A q \in Query :
           /\ vw.limbo[q] \subseteq Matches[q]
           /\ vw.current[q] => q \in vw.listening
           /\ vw.current[q] /\ Alone(q) => vw.synced[q] \subseteq Docs(q, cache)
  PROVE  Showing(h, dk, views', limbo', remote', call')
<1>1. /\ vw \in Views /\ lb \in Limbo /\ r \in Remote /\ c \in Call /\ r.stream = "open"
      /\ lb.active \subseteq r.targets /\ lb.active \subseteq LimboTarget
  BY LimboFields DEF Ready
<1>2. PICK stopped, started : Emitted(vw, lb, r, c, cache, stopped, started)
  BY <1>1, EmitsDoes
<1>3. OnTheWire(r, c, stopped, started)
  BY <1>1, <1>2, EmittedIs
<1>4. /\ views'.token = vw.token /\ views'.listening = vw.listening
      /\ views'.synced = vw.synced /\ views'.current = vw.current
      /\ views'.limbo = InLimbo(vw, cache)
      /\ \A t \in limbo'.active : t[1] \in InDoubt(views')
  BY <1>2 DEF Emitted
<1>5. /\ call'.have = c.have /\ call'.owed = c.owed /\ remote'.updates = r.updates
      /\ \A q \in Query :
           /\ remote'.resume[q] = r.resume[q]
           /\ remote'.state[q] = r.state[q]
           /\ Live(remote', q) = Live(r, q)
           /\ \A i \in 1..Len(call'.requests) : call'.requests[i].target = q =>
                \E j \in 1..Len(c.requests) : call'.requests[i] = c.requests[j]
  <2>1. \A q \in Query : q \in Target /\ q \notin LimboTarget /\ q \notin stopped \cup started
    BY <1>3, TargetIs DEF OnTheWire
  <2>2. \A q \in Query : remote'.resume[q] = r.resume[q] /\ remote'.state[q] = r.state[q]
    BY <1>3, <2>1 DEF OnTheWire
  <2>3. \A q \in Query : q \in remote'.targets <=> q \in r.targets
    BY <1>3, <2>1 DEF OnTheWire
  <2>4. \A q \in Query : Live(remote', q) = Live(r, q)
    BY <2>2, <2>3 DEF Live
  <2> QED
    BY <1>3, <2>1, <2>2, <2>4 DEF OnTheWire
<1>6. KeysTrue(h, dk, views', remote', call')
  <2> SUFFICES ASSUME NEW q \in Query
               PROVE  /\ dk.keys[q] = Of(h, q, dk.token[q])
                      /\ q \in views'.listening =>
                           /\ views'.synced[q] = dk.keys[q]
                           /\ views'.synced[q] = Of(h, q, views'.token[q])
                           /\ views'.token[q] = remote'.resume[q]
                           /\ \A i \in 1..Len(call'.requests) :
                                call'.requests[i].target = q /\ call'.requests[i].op = "watch" =>
                                  views'.synced[q] = Of(h, q, call'.requests[i].token)
    BY DEF KeysTrue
  <2> QED
    BY <1>4, <1>5 DEF KeysTrue
<1>7. MatchInv(views', remote', call')
  BY <1>4, <1>5 DEF MatchInv, Match, Keeps
<1>8. ViewsInv(dk, views', limbo')
  <2> SUFFICES ASSUME NEW q \in Query
               PROVE  ViewIs(dk, views', q)
    BY <1>4 DEF ViewsInv
  <2>1. views'.limbo[q] = IF q \in vw.listening /\ vw.current[q]
                            THEN Docs(q, cache) \ vw.synced[q] ELSE vw.limbo[q]
    BY <1>4 DEF InLimbo
  <2>2. Docs(q, cache) \subseteq Matches[q]
    BY DEF Docs
  <2>3. /\ vw.limbo[q] \subseteq Matches[q]
        /\ vw.current[q] => q \in vw.listening
        /\ vw.current[q] /\ Alone(q) => vw.synced[q] \subseteq Docs(q, cache)
    OBVIOUS
  <2>4. views'.limbo[q] \subseteq Matches[q]
    BY <2>1, <2>2, <2>3
  <2> QED
    BY <1>4, <2>1, <2>3, <2>4 DEF ViewIs
<1>9. QuietInv(views', remote')
  BY <1>4, <1>5 DEF QuietInv, Quiet
<1> QED
  BY <1>6, <1>7, <1>8, <1>9 DEF Showing

\* What is known at the version of the cache is in the cache.
LEMMA KnownIsThere ==
  ASSUME NEW h, NEW dk, CacheInv(h, dk), NEW v \in 1..Len(h), Len(h) \in Nat, dk.lastVersion = v,
         NEW q \in Query, Known(h, dk, q, v), NEW d \in Of(h, q, v), dk.cache[d] \in Update
  PROVE  d \in Docs(q, dk.cache)
<1>1. d \in Matches[q] /\ d \in Doc /\ d \in h[v] /\ v # 0 /\ v \in Nat
  BY TargetIs DEF Of
<1>2. ~Away(h, d, v, v)
  BY <1>1 DEF Away
<1>3. PICK b \in 1..v : ~Away(h, d, b, v) /\ b <= dk.cache[d].version
  BY <1>1, <1>2 DEF Known
<1>4. dk.cache[d].kind \in {"none", "doc", "deleted", "purged"} /\ dk.cache[d].version \in Nat
  BY UpdateIs
<1>5. /\ dk.cache[d].kind # "purged"
      /\ dk.cache[d].kind = "none" => dk.cache[d].version = 0
      /\ dk.cache[d].kind = "deleted" => dk.cache[d].version \in 1..v /\ d \notin h[dk.cache[d].version]
  BY <1>1 DEF CacheInv
<1>6. dk.cache[d].kind # "deleted"
  BY <1>3, <1>4, <1>5 DEF Away
<1>7. dk.cache[d].kind = "doc"
  BY <1>3, <1>4, <1>5, <1>6
<1> QED
  BY <1>1, <1>7 DEF Docs

\* The keys that a snapshot makes of the changes are the documents of its version.
LEMMA SnapshotKeys ==
  ASSUME TypeOK, NEW r, Sound(r), r.stream = "open", InStep(r, call), AllSent(call),
         \A t \in call.watched : call.owed[t] = "none",
         NEW q \in Query, Live(r, q), Takes(r, q), Match(views, r, call, q),
         call.version \in 1..Now
  PROVE  Merged(views.synced, r)[q] = Of(history, q, call.version)
<1> DEFINE v == call.version
           new == (views.synced[q] \cup DocsThat(r.state[q], "added"))
                    \ DocsThat(r.state[q], "removed")
<1>1. /\ history \in Seq(SUBSET Doc) /\ v \in Nat /\ v # 0 /\ v <= Now /\ r \in Remote /\ call \in Call
      /\ q \in Target /\ Scope(q) = Matches[q] /\ Matches[q] \subseteq Doc
      /\ views.synced[q] \subseteq Doc
  BY Types, TargetIs DEF Sound, Now
<1>2. q \in call.watched
  BY <1>1, LiveIsWatched
<1>3. call.have[q] = At(q, v) /\ call.owed[q] = "none"
  BY <1>2 DEF AllSent
<1>4. Merged(views.synced, r)[q] = new
  BY DEF Merged
<1>5. \A d \in Doc : d \in new <=> Keeps(views, r, q, d)
  BY DEF Keeps, DocsThat
<1>6. new \subseteq Doc
  BY <1>1 DEF DocsThat
<1>7. \A d \in Doc : Keeps(views, r, q, d) <=> call.have[q][d] # 0
  BY <1>3 DEF Match
<1> HIDE DEF new
<1>8. ASSUME NEW d \in Doc
      PROVE  call.have[q][d] # 0 <=> d \in Matches[q] /\ d \in history[v]
  BY <1>1, <1>3, AtIs
<1>9. Of(history, q, v) = Matches[q] \cap history[v]
  BY <1>1 DEF Of
<1> QED
  BY <1>1, <1>4, <1>5, <1>6, <1>7, <1>8, <1>9

\* Without changes the keys stay.
LEMMA MergedStay ==
  ASSUME NEW old, NEW r, NEW q \in Query,
         Takes(r, q) => \A d \in Doc : r.state[q].docs[d] = "none"
  PROVE  Merged(old, r)[q] = old[q]
<1>1. CASE Takes(r, q)
  <2>1. DocsThat(r.state[q], "added") = {} /\ DocsThat(r.state[q], "removed") = {}
    BY <1>1 DEF DocsThat
  <2>2. Merged(old, r)[q] = (old[q] \cup DocsThat(r.state[q], "added"))
                               \ DocsThat(r.state[q], "removed")
    BY <1>1 DEF Merged
  <2> QED
    BY <2>1, <2>2
<1>2. CASE ~Takes(r, q)
  BY <1>2 DEF Merged
<1> QED
  BY <1>1, <1>2

\* What the views have after a snapshot in which no filter failed to match.
Updated(h, dk, vw, r, c) ==
  /\ KeysTrue(h, dk, vw, r, c)
  /\ \A q \in Query : Match(vw, r, c, q)
  /\ QuietInv(vw, r)
  /\ \A q \in Query :
       /\ vw.limbo[q] \subseteq Matches[q]
       /\ vw.current[q] => q \in vw.listening
       /\ vw.current[q] /\ Alone(q) => vw.synced[q] \subseteq Docs(q, dk.cache)

LEMMA HandsOverUpdates ==
  ASSUME TypeOK, TargetsInv, NEW r, Sound(r), r.stream = "open", InStep(r, call), AllSent(call),
         r.targets = remote.targets, Marked(r, call.version),
         Resumable(history, disk, views, limbo, r, call),
         \A t \in call.watched : call.owed[t] = "none",
         KeysTrue(history, disk, views, r, call), \A q \in Query : Match(views, r, call, q),
         QuietInv(views, r), ViewsInv(disk, views, limbo),
         NEW b \in Rewatches({}), NEW late
  PROVE  Updated(history, DiskAt(r, call.version, late), ViewsAt(r),
                 Rewatched(HandedOver(r), {}), Sends(call, b))
<1> DEFINE v == call.version
           dk == DiskAt(r, v, late)
           vw == ViewsAt(r)
           h == HandedOver(r)
           h2 == Rewatched(h, {})
           c2 == Sends(call, b)
           all == call.requests \o b
<1>1. /\ history \in Seq(SUBSET Doc) /\ call \in Call /\ disk \in Disk /\ views \in Views
      /\ r \in Remote /\ v \in Version /\ v \in Nat /\ Now \in Nat /\ disk.cache \in [Doc -> Update]
      /\ r.updates \in [Doc -> Update]
  BY Types, CallFields, RemoteFields, VersionIs DEF Sound
<1>2. VersionInv(history, disk, r, call) /\ TrackedInv(r)
  BY DEF Resumable
<1>3. v \in 1..Now /\ v \in 1..Len(history) /\ Len(history) \in Nat /\ v # 0
  BY <1>1, <1>2 DEF VersionInv, Now
<1>4. \A t \in Target : Takes(r, t) <=> Live(r, t)
  <2>1. \A t \in Target : Takes(r, t) => Live(r, t)
    BY <1>2, LiveIsActive DEF Takes
  <2> QED
    BY <2>1 DEF Marked
<1>5. \A q \in Query : /\ q \in Target /\ Scope(q) = Matches[q]
                       /\ Takes(r, q) <=> Live(r, q)
                       /\ Live(r, q) => r.state[q].token = v
                       /\ Live(r, q) => q \in views.listening
  BY <1>4, TargetIs DEF Marked, Live, TargetsInv
<1>6. /\ dk.lastVersion = v
      /\ \A d \in Doc : dk.cache[d] = Newer(disk.cache[d], r.updates[d])
      /\ \A q \in Query : vw.token[q] = IF Live(r, q) THEN v ELSE views.token[q]
      /\ \A t \in Target : h.resume[t] = IF Live(r, t) THEN v ELSE r.resume[t]
  BY <1>1, <1>3, <1>4, SnapshotTokens
<1>7. /\ vw.listening = views.listening /\ vw.limbo = views.limbo
      /\ vw.synced = Merged(views.synced, r) /\ dk.keys = Merged(disk.keys, r)
  BY <1>1, ViewsAtIs DEF DiskAt
<1>8. \A q \in Query : vw.current[q] = IF Takes(r, q) THEN r.state[q].current ELSE views.current[q]
  <2> DEFINE current == [q \in Query |-> IF Takes(r, q) THEN r.state[q].current
                                         ELSE views.current[q]]
  <2>1. vw.current = current
    BY <1>1 DEF ViewsAt, Views
  <2> QED
    BY <2>1
<1>9. h.updates = NoUpdates
  BY <1>1, HandedTokens
<1>10. Handed(r, h)
  BY HandedOverIs
<1>11. \A q \in Query : Live(r, q) =>
         \/ dk.token[q] = v
         \/ dk.token[q] = disk.token[q] /\ \A d \in Doc : r.state[q].docs[d] = "none"
  <2> SUFFICES ASSUME NEW q \in Query, Live(r, q)
               PROVE  \/ dk.token[q] = v
                      \/ dk.token[q] = disk.token[q] /\ \A d \in Doc : r.state[q].docs[d] = "none"
    OBVIOUS
  <2>1. Takes(r, q) /\ r.state[q].token = v
    BY <1>5
  <2>2. dk.token[q] = SavedToken(q, r.state[q], late)
    BY <2>1 DEF DiskAt
  <2> HIDE DEF dk, v
  <2> QED
    BY <1>3, <2>1, <2>2 DEF SavedToken
<1>12. \A q \in Query : ~Live(r, q) => dk.token[q] = disk.token[q]
  BY <1>5 DEF DiskAt
<1> HIDE DEF h, dk, vw
<1>13. Anew(h, {}, h2) /\ h2.updates = NoUpdates
       /\ \A t \in Target : h2.resume[t] = h.resume[t]
  BY <1>9, <1>10, RewatchedIs, RewatchedTokens DEF Handed
<1> HIDE DEF h2
<1>14. \A q \in Query :
         /\ Live(h2, q) = Live(r, q)
         /\ \A d \in Doc : Live(r, q) => h2.state[q].docs[d] = "none"
         /\ h2.resume[q] = IF Live(r, q) THEN v ELSE r.resume[q]
  <2>1. \A q \in Query : /\ h2.targets = r.targets
                         /\ h2.state[q].outstanding = r.state[q].outstanding
                         /\ Live(r, q) => h2.state[q].docs = FreshState.docs
    BY <1>5, <1>10, <1>13 DEF Handed, Anew
  <2> QED
    BY <1>5, <1>6, <1>13, <2>1, FreshType DEF Live
<1>15. b \in Seq(Request) /\ Len(b) \in Nat /\ \A i \in 1..Len(b) : FALSE
  BY RewatchesAre
<1>16. c2 \in Call /\ c2.requests = all /\ c2.have = call.have /\ c2.owed = call.owed
  BY <1>1, <1>15, SendsIs DEF Sends, Call
<1>17. \A i \in 1..Len(all) : \E j \in 1..Len(call.requests) : all[i] = call.requests[j]
  BY <1>1, <1>15, CallFields, OfBoth
<1> HIDE DEF c2, all
<1>18. \A q \in Query : Live(r, q) => /\ q \in call.watched
                                      /\ Waiting(call.requests, q) = {}
                                      /\ vw.synced[q] = Of(history, q, v)
  <2> SUFFICES ASSUME NEW q \in Query, Live(r, q)
               PROVE  /\ q \in call.watched /\ Waiting(call.requests, q) = {}
                      /\ vw.synced[q] = Of(history, q, v)
    OBVIOUS
  <2>1. Takes(r, q) /\ q \in Target
    BY <1>5
  <2>2. Merged(views.synced, r)[q] = Of(history, q, v)
    BY <1>3, <2>1, SnapshotKeys
  <2> QED
    BY <1>1, <1>7, <2>1, <2>2, LiveIsWatched
<1>19. \A q \in Query : ~Live(r, q) => /\ vw.synced[q] = views.synced[q]
                                       /\ dk.keys[q] = disk.keys[q]
  BY <1>5, <1>7, MergedStay
<1>20. KeysTrue(history, dk, vw, h2, c2)
  <2> SUFFICES ASSUME NEW q \in Query
               PROVE  /\ dk.keys[q] = Of(history, q, dk.token[q])
                      /\ q \in vw.listening =>
                           /\ vw.synced[q] = dk.keys[q]
                           /\ vw.synced[q] = Of(history, q, vw.token[q])
                           /\ vw.token[q] = h2.resume[q]
                           /\ \A i \in 1..Len(c2.requests) :
                                c2.requests[i].target = q /\ c2.requests[i].op = "watch" =>
                                  vw.synced[q] = Of(history, q, c2.requests[i].token)
    BY DEF KeysTrue
  <2>1. /\ disk.keys[q] = Of(history, q, disk.token[q])
        /\ q \in views.listening =>
             /\ views.synced[q] = disk.keys[q]
             /\ views.synced[q] = Of(history, q, views.token[q])
             /\ views.token[q] = r.resume[q]
             /\ \A i \in 1..Len(call.requests) :
                  call.requests[i].target = q /\ call.requests[i].op = "watch" =>
                    views.synced[q] = Of(history, q, call.requests[i].token)
    BY DEF KeysTrue
  <2>2. CASE Live(r, q)
    <3>1. vw.synced[q] = dk.keys[q]
      <4>1. views.synced[q] = disk.keys[q]
        BY <1>5, <2>1, <2>2
      <4> QED
        BY <1>7, <4>1 DEF Merged
    <3>2. dk.token[q] = disk.token[q] /\ (\A d \in Doc : r.state[q].docs[d] = "none")
            => dk.keys[q] = disk.keys[q]
      BY <1>7, MergedStay
    <3>3. dk.keys[q] = Of(history, q, dk.token[q])
      BY <1>11, <1>18, <2>1, <2>2, <3>1, <3>2
    <3>4. \A i \in 1..Len(c2.requests) : c2.requests[i].target # q
      BY <1>16, <1>17, <1>18, <2>2 DEF Waiting
    <3>5. vw.token[q] = v /\ h2.resume[q] = v
      BY <1>6, <1>14, <2>2
    <3> QED
      BY <1>18, <2>2, <3>1, <3>3, <3>4, <3>5
  <2>3. CASE ~Live(r, q)
    <3>1. vw.synced[q] = views.synced[q] /\ dk.keys[q] = disk.keys[q]
          /\ dk.token[q] = disk.token[q] /\ vw.token[q] = views.token[q] /\ h2.resume[q] = r.resume[q]
      BY <1>6, <1>12, <1>14, <1>19, <2>3
    <3> QED
      BY <1>7, <1>16, <1>17, <2>1, <3>1
  <2> QED
    BY <2>2, <2>3
<1>21. \A q \in Query : Match(vw, h2, c2, q)
  <2> SUFFICES ASSUME NEW q \in Query, Live(r, q), NEW d \in Doc
               PROVE  /\ h2.state[q].docs[d] = "added" => d \notin vw.synced[q]
                      /\ c2.owed[q] # "reset" /\ c2.have[q][d] # 0 => Keeps(vw, h2, q, d)
                      /\ c2.owed[q] = "none" /\ Keeps(vw, h2, q, d) => c2.have[q][d] # 0
    BY <1>14 DEF Match
  <2>1. h2.state[q].docs[d] = "none"
    BY <1>14
  <2>2. vw.synced[q] = Of(history, q, v) /\ call.have[q] = At(q, v)
    BY <1>18 DEF AllSent
  <2>3. At(q, v)[d] # 0 <=> d \in Of(history, q, v)
    BY <1>1, <1>3, <1>5, AtIs DEF Of
  <2> QED
    BY <1>16, <2>1, <2>2, <2>3 DEF Keeps
<1>22. QuietInv(vw, h2)
  <2>1. \A d : d \in Doc => h2.updates[d].kind = "none"
    BY <1>13 DEF NoUpdates, NoUpdate
  <2>2. \A q \in Query : ~Live(r, q) => vw.current[q] = views.current[q]
    BY <1>5, <1>8
  <2> SUFFICES ASSUME NEW q \in Query, NEW d \in vw.synced[q]
               PROVE  h2.updates[d].kind = "none"
    BY DEF QuietInv, Quiet
  <2>3. vw.synced[q] \subseteq Doc
    <3>1. ViewsAt(r) \in Views
      BY <1>1, ViewsAtIs
    <3> QED
      BY <3>1 DEF Views, vw
  <2> QED
    BY <2>1, <2>3
<1>23. ASSUME NEW q \in Query
       PROVE  /\ vw.limbo[q] \subseteq Matches[q]
              /\ vw.current[q] => q \in vw.listening
              /\ vw.current[q] /\ Alone(q) => vw.synced[q] \subseteq Docs(q, dk.cache)
  <2>1. ViewIs(disk, views, q)
    BY DEF ViewsInv
  <2>2. vw.current[q] => q \in vw.listening
    BY <1>5, <1>7, <1>8, <2>1 DEF ViewIs
  <2>3. ASSUME Live(r, q)
        PROVE  vw.synced[q] \subseteq Docs(q, dk.cache)
    <3>1. CacheInv(history, dk) /\ Known(history, dk, q, v)
      BY <1>6, <2>3, SnapshotIsKnown
    <3> SUFFICES ASSUME NEW d \in vw.synced[q]
                 PROVE  d \in Docs(q, dk.cache)
      OBVIOUS
    <3>2. d \in Of(history, q, v) /\ d \in Doc
      BY <1>1, <1>18, <2>3, TargetIs DEF Of
    <3>3. dk.cache[d] \in Update
      <4>1. NoUpdate \in Update
        BY BoundsAssumption DEF NoUpdate, Update, Version
      <4>2. disk.cache[d] \in Update /\ r.updates[d] \in Update
        BY <1>1, <3>2
      <4> QED
        BY <1>6, <3>2, <4>1, <4>2 DEF Newer
    <3> QED
      BY <1>3, <1>6, <3>1, <3>2, <3>3, KnownIsThere
  <2>4. ASSUME ~Live(r, q), vw.current[q], Alone(q)
        PROVE  vw.synced[q] \subseteq Docs(q, dk.cache)
    <3>1. views.current[q] /\ vw.synced[q] = views.synced[q]
      BY <1>5, <1>8, <1>19, <2>4
    <3>2. views.synced[q] \subseteq Docs(q, disk.cache)
      BY <2>1, <2>4, <3>1 DEF ViewIs
    <3>3. \A d \in views.synced[q] : r.updates[d].kind = "none"
      BY <2>4, <3>1 DEF QuietInv, Quiet
    <3>4. \A d \in Doc : r.updates[d].kind = "none" => dk.cache[d] = disk.cache[d]
      BY <1>6 DEF Newer
    <3> QED
      BY <3>1, <3>2, <3>3, <3>4, TargetIs DEF Docs
  <2>5. vw.limbo[q] \subseteq Matches[q]
    BY <1>7, <2>1 DEF ViewIs
  <2> QED
    BY <2>2, <2>3, <2>4, <2>5
<1>24. Updated(history, dk, vw, h2, c2)
  BY <1>20, <1>21, <1>22, <1>23 DEF Updated
<1> QED
  BY <1>24 DEF dk, vw, h2, h, c2, v

\* A snapshot resets nothing by itself.
LEMMA SnapshotResetsNothing ==
  ASSUME NEW r, Sound(r), NEW v \in Version
  PROVE  /\ AllTargetsAt(r, v).resets = r.resets
         /\ WithSynthesizedDeletes(r, v).resets = r.resets
<1>1. r \in Remote
  BY DEF Sound
<1>2. AllTargetsAt(r, v).resets = r.resets
  BY <1>1 DEF AllTargetsAt, Remote
<1>3. WithSynthesizedDeletes(r, v).resets = r.resets
  <2> DEFINE missing == Missing(r)
             f == [t \in Target |-> IF t \in missing THEN DocumentChange(t, r.state[t], t[1], FALSE)
                                    ELSE r.state[t]]
             w == [d \in Doc |-> IF \E t \in missing : t[1] = d
                                   THEN [kind |-> "deleted", version |-> v] ELSE r.updates[d]]
  <2>1. WithSynthesizedDeletes(r, v) =
          IF missing = {} THEN r ELSE [r EXCEPT !.state = f, !.updates = w]
    BY DEF WithSynthesizedDeletes, Missing
  <2> HIDE DEF missing, f, w
  <2> QED
    BY <1>1, <2>1 DEF Remote
<1> QED
  BY <1>2, <1>3

\* What the server does not have is concluded about limbo documents only.
LEMMA SynthesizesKeepShow ==
  ASSUME IInv, ShowInv, NEW r, Sound(r), r.stream = "open", TrackedInv(r),
         r.targets = remote.targets, NEW v \in Version,
         \A q \in Query : Match(views, r, call, q), QuietInv(views, r),
         NEW r2, r2 = WithSynthesizedDeletes(r, v)
  PROVE  /\ r2.resume = r.resume
         /\ \A q \in Query : Match(views, r2, call, q)
         /\ QuietInv(views, r2)
<1>1. /\ r2.targets = r.targets /\ r2.resume = r.resume
      /\ \A t \in Target :
           /\ r2.state[t].outstanding = r.state[t].outstanding
           /\ \A d \in Doc : r2.state[t].docs[d] = IF t \in Missing(r) /\ d = t[1] THEN "none"
                                                   ELSE r.state[t].docs[d]
      /\ \A d \in Doc : r2.updates[d] = IF \E t \in Missing(r) : t[1] = d
                                          THEN [kind |-> "deleted", version |-> v]
                                          ELSE r.updates[d]
  BY SynthesizedIs
<1>2. \A q \in Query : q \in Target /\ q \notin Missing(r)
  BY TargetIs DEF Missing
<1>3. \A q \in Query : Live(r2, q) = Live(r, q)
  BY <1>1, <1>2 DEF Live
<1>4. \A q \in Query : Match(views, r2, call, q)
  BY <1>1, <1>2, <1>3 DEF Match, Keeps
<1>5. QuietInv(views, r2)
  <2> SUFFICES ASSUME NEW q \in Query, views.current[q], Alone(q), ~Live(r2, q),
                      NEW d \in views.synced[q]
               PROVE  r2.updates[d].kind = "none"
    BY DEF QuietInv, Quiet
  <2>1. ~Live(r, q)
    BY <1>3
  <2>2. r.updates[d].kind = "none"
    BY <2>1 DEF QuietInv, Quiet
  <2>3. d \in Doc
    BY Types DEF IInv
  <2>4. \A t \in Missing(r) : t[1] # d
    <3> SUFFICES ASSUME NEW t \in Missing(r)
                 PROVE  t[1] # d
      OBVIOUS
    <3>1. t \in Target /\ Scope(t) = {t[1]} /\ IsActive(r, t)
      BY TargetIs DEF Missing
    <3>2. Live(r, t)
      BY <3>1, LiveIsActive
    <3>3. d \notin Scope(t)
      BY <2>1, <3>1, <3>2, NotFromOthers
    <3> QED
      BY <3>1, <3>3
  <2> QED
    BY <1>1, <2>2, <2>3, <2>4
<1> QED
  BY <1>1, <1>4, <1>5

LEMMA SnapshotKeepsShow ==
  ASSUME IInv, ResumeInv, ShowInv, remote.resets = {}, ServerSnapshot
  PROVE  ShowInv'
<1> DEFINE v == call.version
           r0 == AllTargetsAt(remote, v)
           r == WithSynthesizedDeletes(r0, v)
           again == r.resets \cap r.targets
           h2 == Rewatched(HandedOver(r), again)
<1>1. /\ call.watched # {}
      /\ \A t \in call.watched : Complete(t) /\ call.owed[t] = "none"
      /\ IF v < disk.lastVersion THEN Received(r0, call)
         ELSE /\ RaiseWatchSnapshot(r0, call, v)
              /\ online' = Settled("Online")
              /\ UNCHANGED history
  BY DEF ServerSnapshot
<1>2. /\ remote.stream = "open" /\ v # 0 /\ v \in Version /\ v \in Nat /\ call \in Call
      /\ Sound(remote) /\ remote \in Remote /\ InStep(remote, call)
  BY <1>1, StateOfIInv, CallFields, VersionIs
<1>3. TypeOK /\ TargetsInv /\ views \in Views /\ disk.lastVersion \in Nat
  BY Types, VersionIs DEF IInv
<1>4. disk.lastVersion <= v
  BY <1>2 DEF ResumeInv, Resumable, VersionInv
<1>5. AllSent(call)
  BY <1>1 DEF AllSent, Complete
<1>6. Kept(remote, r0)
  BY <1>2, MarksAll
<1>7. Resumable(history, disk, views, limbo, r0, call) /\ Marked(r0, v)
  BY <1>2, MarksKeepResume
<1>8. RaiseWatchSnapshot(r0, call, v) /\ history' = history
  BY <1>1, <1>2, <1>3, <1>4
<1>9. /\ r0.resume = remote.resume /\ r0.updates = remote.updates /\ r0.targets = remote.targets
      /\ \A t \in Target : /\ r0.state[t].outstanding = remote.state[t].outstanding
                           /\ r0.state[t].docs = remote.state[t].docs
  BY <1>2, AllAtIs
<1>10. r0.resets = {}
  BY <1>2, SnapshotResetsNothing
<1> HIDE DEF r0
<1>11. \A q \in Query : Live(r0, q) = Live(remote, q) /\ q \in Target
  BY <1>9, TargetIs DEF Live
<1>12. \A q \in Query : Match(views, r0, call, q)
  BY <1>2, <1>9, <1>11, MatchStays
<1>13. QuietInv(views, r0)
  BY <1>9, <1>11, QuietStays
<1>14. Sound(r0) /\ r0.stream = "open" /\ InStep(r0, call) /\ TrackedInv(r0)
  BY <1>2, <1>6, <1>7, KeptKeepsInStep DEF Kept, Sound, Resumable
<1>15. Kept(remote, r)
  BY <1>2, <1>6, <1>14, Synthesizes, KeptAgain
<1>16. Resumable(history, disk, views, limbo, r, call) /\ Marked(r, v)
  BY <1>3, <1>5, <1>7, <1>14, SynthesizesKeepsResume
<1>17. /\ r.resume = r0.resume /\ QuietInv(views, r)
       /\ \A q \in Query : Match(views, r, call, q)
  BY <1>2, <1>9, <1>12, <1>13, <1>14, SynthesizesKeepShow
<1>18. r.resets = {}
  BY <1>2, <1>10, <1>14, SnapshotResetsNothing
<1>19. again = {}
  BY <1>18
<1>20. PICK b \in Rewatches(again), late \in SUBSET {q \in Query : Takes(r, q)} :
        /\ disk' = DiskAt(r, v, late)
        /\ Emits(ViewsAt(r), LimboAt(r), h2, Sends(call, b), disk'.cache, ChangesFit(r))
  BY <1>8, Zenon DEF RaiseWatchSnapshot
<1> HIDE DEF r
<1>21. Sound(r) /\ r.stream = "open" /\ r.targets = remote.targets /\ InStep(r, call)
  BY <1>2, <1>15, KeptKeepsInStep DEF Kept, Sound
<1>22. Ready(ViewsAt(r), LimboAt(r), h2, Sends(call, b))
  BY <1>2, <1>15, SnapshotIsReady
<1>23. KeysTrue(history, disk, views, r, call) /\ ViewsInv(disk, views, limbo)
  <2>1. KeysTrue(history, disk, views, remote, call)
    BY DEF ShowInv, Showing
  <2> QED
    BY <1>9, <1>17, <2>1 DEF KeysTrue, ShowInv, Showing
<1>24. \A t \in call.watched : call.owed[t] = "none"
  BY <1>1
<1> HIDE DEF again
<1>25. Updated(history, DiskAt(r, v, late), ViewsAt(r), Rewatched(HandedOver(r), {}),
               Sends(call, b))
  BY <1>3, <1>5, <1>16, <1>17, <1>19, <1>20, <1>21, <1>23, <1>24, HandsOverUpdates
<1>26. Updated(history, disk', ViewsAt(r), h2, Sends(call, b))
  BY <1>19, <1>20, <1>25
<1> HIDE DEF h2
<1>27. Showing(history, disk', views', limbo', remote', call')
  <2> DEFINE dk == disk'
  <2>1. Emits(ViewsAt(r), LimboAt(r), h2, Sends(call, b), dk.cache, ChangesFit(r))
    BY <1>20
  <2>2. Updated(history, dk, ViewsAt(r), h2, Sends(call, b))
    BY <1>26
  <2> HIDE DEF dk
  <2>3. Showing(history, dk, views', limbo', remote', call')
    BY <1>3, <1>22, <2>1, <2>2, EmitsKeepShow DEF Updated
  <2> QED
    BY <2>3 DEF dk
<1> QED
  BY <1>8, <1>27 DEF ShowInv

-----------------------------------------------------------------------------
(* The invariant of the views: rejected queries.                           *)

LEMMA AnsweredKeepsShow ==
  ASSUME IInv, ShowInv, NEW t \in Target, Serves("watch", t)
  PROVE  LET c == Served(call) IN
         /\ c.have = call.have /\ c.owed = call.owed
         /\ KeysTrue(history, disk, views, remote, c)
         /\ \A q \in Query : Match(views, remote, c, q)
         /\ QuietInv(views, remote) /\ ViewsInv(disk, views, limbo)
<1> DEFINE c == Served(call)
<1>1. /\ remote.stream = "open" /\ call.requests # <<>> /\ call \in Call
      /\ c = [call EXCEPT !.requests = Tail(@)]
  BY HeadIsWaitedFor
<1>2. c.requests = Tail(call.requests) /\ c.have = call.have /\ c.owed = call.owed
  BY <1>1 DEF Call
<1>3. call.requests \in Seq(Request)
  BY <1>1, CallFields
<1> HIDE DEF c
<1>4. \A i \in 1..Len(c.requests) : \E j \in 1..Len(call.requests) :
        c.requests[i] = call.requests[j]
  <2> SUFFICES ASSUME NEW i \in 1..Len(c.requests)
               PROVE  \E j \in 1..Len(call.requests) : c.requests[i] = call.requests[j]
    OBVIOUS
  <2>1. i + 1 \in 1..Len(call.requests) /\ c.requests[i] = call.requests[i + 1]
    BY <1>1, <1>2, <1>3
  <2> QED
    BY <2>1
<1>5. KeysTrue(history, disk, views, remote, call)
      /\ QuietInv(views, remote) /\ ViewsInv(disk, views, limbo)
  BY DEF ShowInv, Showing
<1>6. KeysTrue(history, disk, views, remote, c)
  BY <1>4, <1>5 DEF KeysTrue
<1>7. \A q \in Query : Match(views, remote, c, q)
  BY <1>1, <1>2, MatchStays
<1> QED
  BY <1>2, <1>5, <1>6, <1>7 DEF c

\* What the forgotten view had stays on the disk.
LEMMA RejectsKeepShow ==
  ASSUME IInv, ShowInv, NEW t \in Query, t \in remote.targets, Serves("watch", t)
  PROVE  Updated(history, [disk EXCEPT !.token[t] = views.token[t]], WithoutView(views, t),
                 WithoutTarget(remote, t), Served(call))
<1> DEFINE c == Served(call)
           r == WithoutTarget(remote, t)
           vw == WithoutView(views, t)
           dk == [disk EXCEPT !.token[t] = views.token[t]]
<1>1. t \in Target /\ \A q \in Query : q \in Target
  BY TargetIs
<1>2. /\ remote \in Remote /\ disk \in Disk /\ views \in Views /\ t \in views.listening
  BY Types DEF IInv, TargetsInv
<1>3. /\ KeysTrue(history, disk, views, remote, c) /\ \A q \in Query : Match(views, remote, c, q)
      /\ QuietInv(views, remote) /\ ViewsInv(disk, views, limbo)
  BY <1>1, AnsweredKeepsShow
<1>4. Forgotten(remote, t, r)
  BY <1>1, <1>2, ForgottenIs
<1>5. r.updates = remote.updates
      /\ \A u \in Target : r.resume[u] = IF u = t THEN 0 ELSE remote.resume[u]
  BY <1>1, <1>2, WithoutTargetTokens
<1>6. /\ dk.cache = disk.cache /\ dk.keys = disk.keys
      /\ \A q \in Query : dk.token[q] = IF q = t THEN views.token[q] ELSE disk.token[q]
  BY <1>2 DEF Disk
<1>7. /\ vw.listening = views.listening \ {t}
      /\ \A q \in Query : /\ q # t => /\ vw.token[q] = views.token[q]
                                      /\ vw.synced[q] = views.synced[q]
                                      /\ vw.current[q] = views.current[q]
                                      /\ vw.limbo[q] = views.limbo[q]
                          /\ q = t => ~vw.current[q] /\ vw.limbo[q] = {}
  BY <1>2 DEF WithoutView, Views
<1> HIDE DEF c, r, vw, dk
<1>8. \A q \in Query : /\ Live(r, q) => q # t
                       /\ q # t => Live(r, q) = Live(remote, q) /\ r.state[q] = remote.state[q]
  BY <1>1, <1>4 DEF Forgotten, Live
<1>9. KeysTrue(history, dk, vw, r, c)
  <2> SUFFICES ASSUME NEW q \in Query
               PROVE  /\ dk.keys[q] = Of(history, q, dk.token[q])
                      /\ q \in vw.listening =>
                           /\ vw.synced[q] = dk.keys[q]
                           /\ vw.synced[q] = Of(history, q, vw.token[q])
                           /\ vw.token[q] = r.resume[q]
                           /\ \A i \in 1..Len(c.requests) :
                                c.requests[i].target = q /\ c.requests[i].op = "watch" =>
                                  vw.synced[q] = Of(history, q, c.requests[i].token)
    BY DEF KeysTrue
  <2>1. /\ disk.keys[q] = Of(history, q, disk.token[q])
        /\ q \in views.listening =>
             /\ views.synced[q] = disk.keys[q]
             /\ views.synced[q] = Of(history, q, views.token[q])
             /\ views.token[q] = remote.resume[q]
             /\ \A i \in 1..Len(c.requests) :
                  c.requests[i].target = q /\ c.requests[i].op = "watch" =>
                    views.synced[q] = Of(history, q, c.requests[i].token)
    BY <1>3 DEF KeysTrue
  <2>2. CASE q = t
    BY <1>2, <1>6, <1>7, <2>1, <2>2
  <2>3. CASE q # t
    BY <1>1, <1>5, <1>6, <1>7, <2>1, <2>3
  <2> QED
    BY <2>2, <2>3
<1>10. \A q \in Query : Match(vw, r, c, q)
  BY <1>3, <1>7, <1>8 DEF Match, Keeps
<1>11. QuietInv(vw, r)
  BY <1>3, <1>5, <1>7, <1>8 DEF QuietInv, Quiet
<1>12. \A q \in Query :
         /\ vw.limbo[q] \subseteq Matches[q]
         /\ vw.current[q] => q \in vw.listening
         /\ vw.current[q] /\ Alone(q) => vw.synced[q] \subseteq Docs(q, dk.cache)
  BY <1>3, <1>6, <1>7 DEF ViewsInv, ViewIs
<1>13. Updated(history, dk, vw, r, c)
  BY <1>9, <1>10, <1>11, <1>12 DEF Updated
<1> QED
  BY <1>13 DEF c, r, vw, dk

LEMMA RefusesKeepShow ==
  ASSUME Refusable \subseteq Query, IInv, ShowInv, NEW t \in Refusable, ServerRefuses(t)
  PROVE  ShowInv'
<1> DEFINE r == WithoutTarget(remote, t)
           vw == WithoutView(views, t)
           dk == [disk EXCEPT !.token[t] = views.token[t]]
<1>1. /\ Serves("watch", t) /\ history' = history
      /\ IF t \notin remote.targets
           THEN remote' = remote /\ call' = Served(call) /\ UNCHANGED <<disk, views, limbo, asserted>>
         ELSE IF t \in limbo.active THEN RejectedLimbo(t, r, Served(call))
         ELSE RejectedQuery(t, r, Served(call))
  BY DEF ServerRefuses, WithoutTarget
<1>2. t \in Query /\ t \in Target /\ t \notin LimboTarget
  BY TargetIs
<1>3. /\ views \in Views /\ disk \in Disk /\ t \notin limbo.active
  BY <1>2, LimboFields DEF IInv, TypeOK
<1>4. CASE t \notin remote.targets
  <2>1. Showing(history, disk, views, limbo, remote, Served(call))
    BY <1>1, <1>2, AnsweredKeepsShow DEF Showing, MatchInv
  <2> QED
    BY <1>1, <1>4, <2>1 DEF ShowInv
<1>5. CASE t \in remote.targets
  <2>1. disk' = dk /\ Emits(vw, limbo, r, Served(call), disk.cache, TRUE)
    BY <1>1, <1>3, <1>5 DEF RejectedQuery, WithoutView
  <2>2. Ready(vw, limbo, r, Served(call))
    BY <1>1, <1>2, <1>3, <1>5, RefusedQueryIsReady
  <2>3. Updated(history, dk, vw, r, Served(call))
    BY <1>1, <1>2, <1>5, RejectsKeepShow
  <2>4. dk.cache = disk.cache
    BY <1>3 DEF Disk
  <2> HIDE DEF r, vw, dk
  <2>5. Showing(history, dk, views', limbo', remote', call')
    BY <1>3, <2>1, <2>2, <2>3, <2>4, EmitsKeepShow DEF Updated
  <2> QED
    BY <1>1, <2>1, <2>5 DEF ShowInv
<1> QED
  BY <1>4, <1>5

-----------------------------------------------------------------------------
(* The theorem about what a view shows.                                    *)

LEMMA ServerStepKeepsShow ==
  ASSUME IInv, IInv', ResumeInv, ShowInv, ServerStep,
         remote.resets = {}, remote'.resets = {}
  PROVE  ShowInv'
<1>1. CASE ServerReads
  BY <1>1, ReadsKeepShow
<1>2. CASE \E d \in Doc : ServerSends(d)
  BY <1>2, SendsKeepShow
<1>3. ASSUME NEW t \in Target, ServerAdds(t)
      PROVE  ShowInv'
  BY <1>3, AddsKeepShow
<1>4. ASSUME NEW t \in Target, ServerRemoves(t)
      PROVE  ShowInv'
  BY <1>4, RemovesKeepShow
<1>5. ASSUME NEW t \in Target, ServerResets(t)
      PROVE  ShowInv'
  BY <1>5, ResetsKeepShow
<1>6. ASSUME NEW t \in Target, ServerFilters(t)
      PROVE  ShowInv'
  BY <1>6, FiltersKeepShow
<1>7. ASSUME NEW t \in Target, ServerCurrent(t)
      PROVE  ShowInv'
  BY <1>7, CurrentKeepsShow
<1>8. CASE ServerSnapshot
  BY <1>8, SnapshotKeepsShow
<1> QED
  BY <1>1, <1>2, <1>3, <1>4, <1>5, <1>6, <1>7, <1>8 DEF ServerStep

\* Every action keeps the keys of a query those of its resume token.
LEMMA NextKeepsShow ==
  ASSUME Refusable \subseteq Query, IInv, ResumeInv, ShowInv,
         remote.resets = {}, remote'.resets = {}, [Next]_vars
  PROVE  ShowInv'
<1> IInv'
  BY NextKeepsIInv
<1>1. CASE \E d \in Doc : DatabaseChanges(d)
  BY <1>1, ChangesKeepShow
<1>2. CASE \E q \in Query : Listen(q)
  BY <1>2, ListensKeepShow
<1>3. CASE StreamOpens
  BY <1>3, OpensKeepShow
<1>4. CASE OnlineTimeout
  BY <1>4, TimeoutKeepsShow
<1>5. CASE IdleTimeout
  BY <1>5, ClosesKeepShow
<1>6. CASE ServerStep
  BY <1>6, ServerStepKeepsShow
<1>7. CASE \E t \in Refusable : ServerRefuses(t)
  BY <1>7, RefusesKeepShow
<1>8. CASE Disturbance
  BY <1>8, ClosesKeepShow, RelaunchKeepsShow DEF Disturbance
<1>9. CASE UNCHANGED vars
  BY <1>9, StutterKeepsShow
<1> QED
  BY <1>1, <1>2, <1>3, <1>4, <1>5, <1>6, <1>7, <1>8, <1>9 DEF Next

\* As long as no existence filter fails to match, a view that SyncEngine takes
\* for synced has the documents of the version of its resume token: whatever
\* calls broke, requests were answered late, targets were reset and queries were
\* refused before it, the keys that View and TargetCache keep are what the
\* server had when it gave the token, and the cache has all of them.  That is
\* again for a server that answers from no older version than the client has
\* seen, and that refuses no limbo target.
THEOREM SyncedIsServerStateHolds ==
  ASSUME StaleReads = FALSE, Refusable \subseteq Query
  PROVE  Spec => SyncedUnlessFilterFails
<1>1. Init => IInv /\ ResumeInv /\ ShowInv
  BY InitIInv, InitResume, InitShow
<1>2. /\ IInv /\ ResumeInv /\ ShowInv /\ [Next]_vars
      /\ remote.resets = {} /\ (remote.resets = {})'
      => (IInv /\ ResumeInv /\ ShowInv)'
  BY NextKeepsIInv, NextKeepsResume, NextKeepsShow
<1>3. IInv /\ ResumeInv /\ ShowInv => SyncedIsServerState
  <2> SUFFICES ASSUME IInv, ResumeInv, ShowInv, NEW q \in views.listening,
                      Synced(views, q), Alone(q)
               PROVE  \E v \in views.token[q]..disk.lastVersion :
                        Docs(q, disk.cache) = Result(q, v)
    BY DEF SyncedIsServerState
  <2> DEFINE v == views.token[q]
  <2>1. q \in Query /\ v \in Nat /\ disk.lastVersion \in Nat
    BY Types, VersionIs DEF IInv
  <2>2. v <= disk.lastVersion
    BY <2>1 DEF ResumeInv, Resumable, OldTokens
  <2>3. ViewIs(disk, views, q) /\ views.synced[q] = Of(history, q, v)
    BY <2>1 DEF ShowInv, Showing, KeysTrue, ViewsInv
  <2>4. /\ Docs(q, disk.cache) \ views.synced[q] = {}
        /\ views.synced[q] \subseteq Docs(q, disk.cache)
    BY <2>3 DEF ViewIs, Synced
  <2>5. Docs(q, disk.cache) = Result(q, v)
    BY <2>3, <2>4 DEF Of, Result
  <2> HIDE DEF v
  <2>6. v \in v..disk.lastVersion
    BY <2>1, <2>2
  <2> QED
    BY <2>5, <2>6 DEF v
<1> QED
  BY <1>1, <1>2, <1>3, PTL DEF Spec, SyncedUnlessFilterFails
=============================================================================
