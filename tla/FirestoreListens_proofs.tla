----------------------- MODULE FirestoreListens_proofs -----------------------
(***************************************************************************)
(* Proofs about live queries, for any documents, queries and versions of   *)
(* the database: type correctness, that client and server agree on what is *)
(* watched, that no HARD_ASSERT fails and that no document is left in      *)
(* limbo.  Whether a call may begin with an old version does not matter    *)
(* here.                                                                   *)
(*                                                                         *)
(* What the client waits for is counted in answers, and the server only    *)
(* sees requests.  So the invariant is about the requests under way: the   *)
(* last one about a target says whether the client listens to it, and no   *)
(* target is watched by two of them.                                       *)
(***************************************************************************)
EXTENDS FirestoreListens, FiniteSetTheorems, SequenceTheorems, WellFoundedInduction, TLAPS

-----------------------------------------------------------------------------
(* The inductive invariant.                                                *)

\* The places of the requests about a target.
Waiting(s, t) == {i \in 1..Len(s) : s[i].target = t}

\* No two requests under way watch the same target.
OneWatch(s) ==
  \A i, j \in 1..Len(s) :
    s[i].op = "watch" /\ s[j].op = "watch" /\ s[i].target = s[j].target => i = j

\* The last request about a target is what the client wants.
LastWord(targets, s) ==
  \A i \in 1..Len(s) :
    (\A j \in 1..Len(s) : i < j => s[j].target # s[i].target)
      => (s[i].op = "watch") = (s[i].target \in targets)

\* A target that the server watches is not watched again before an unwatch.
UnwatchedFirst(watched, s) ==
  \A i \in 1..Len(s) : s[i].op = "watch" /\ s[i].target \in watched =>
    \E j \in 1..Len(s) : j < i /\ s[j].target = s[i].target

\* With nothing under way, the server watches what the client listens to.
Agreed(targets, watched, s) ==
  \A t \in Target : Waiting(s, t) = {} => (t \in watched) = (t \in targets)

\* The answers the client waits for are those to the requests under way.
Counted(r, s) ==
  \A t \in Target :
    /\ r.state[t].outstanding >= Cardinality(Waiting(s, t))
    /\ t \in r.targets => r.state[t].outstanding = Cardinality(Waiting(s, t))

\* Nothing is left of a query that is not listened to, and a target to be
\* watched anew has nothing under way.
Settling(r, s) ==
  /\ \A q \in Query \ r.targets : Waiting(s, q) = {} /\ q \notin r.tracked
  /\ \A t \in r.resets : t \in r.targets /\ Waiting(s, t) = {}

InStep(r, c) ==
  /\ OneWatch(c.requests)
  /\ LastWord(r.targets, c.requests)
  /\ UnwatchedFirst(c.watched, c.requests)
  /\ Agreed(r.targets, c.watched, c.requests)
  /\ Counted(r, c.requests)
  /\ Settling(r, c.requests)

Fresh(r) == \A t \in Target \ r.tracked : r.state[t] = FreshState

StreamInv ==
  /\ remote.stream # "open" =>
       call = NoCall /\ remote.tracked = {} /\ remote.resets = {}
  /\ remote.stream = "open" => call.version # 0 /\ InStep(remote, call)
  /\ remote.idle => remote.stream = "open" /\ remote.targets = {}
  /\ Fresh(remote)

\* RemoteStore listens to what SyncEngine asked for.
TargetsInv ==
  /\ remote.targets \cap Query = views.listening
  /\ remote.targets \cap LimboTarget = limbo.active

\* RemoteKeys, for other views and limbo resolutions.
Keys(vw, lb, t) ==
  IF t \in Query THEN IF t \in vw.listening THEN vw.synced[t] ELSE {}
  ELSE IF t \in lb.received THEN {t[1]} ELSE {}

\* A change to a document that was there, or its removal, is only recorded for
\* a document that was there.
Fits(r, vw, lb) ==
  \A t \in r.targets : \A d \in Doc :
    r.state[t].docs[d] \in {"modified", "removed"} => d \in Keys(vw, lb, t)

\* The timer of the online state only runs with a stream and while the state is
\* not known.
OnlineInv == online.timer => online.state = "Unknown" /\ remote.stream # "off"

InDoubt(vw) == UNION {vw.limbo[q] : q \in Query}
Enqueued(lb, d) == \E i \in 1..Len(lb.enqueued) : lb.enqueued[i] = d

\* Documents wait for a limbo target only when there is no room.
QueueInv ==
  /\ \A i, j \in 1..Len(limbo.enqueued) : limbo.enqueued[i] = limbo.enqueued[j] => i = j
  /\ \A i \in 1..Len(limbo.enqueued) : limbo.enqueued[i] \in InDoubt(views)
  /\ Cardinality(limbo.active) <= MaxConcurrentLimboResolutions
  /\ limbo.enqueued # <<>> => Cardinality(limbo.active) = MaxConcurrentLimboResolutions

\* Every document in limbo is asked about, or waits to be.
Asked(vw, lb) ==
  \A d \in InDoubt(vw) : (\E t \in lb.active : t[1] = d) \/ Enqueued(lb, d)

IInv ==
  /\ TypeOK
  /\ StreamInv
  /\ TargetsInv
  /\ Fits(remote, views, limbo)
  /\ OnlineInv
  /\ QueueInv
  /\ Refusable \subseteq Query => Asked(views, limbo)
  /\ AssertionsHold

-----------------------------------------------------------------------------
(* Finite sets and sequences.                                              *)

\* A set of natural numbers has a least one.
LEMMA Least ==
  ASSUME NEW T, T \subseteq Nat, T # {}
  PROVE  \E m \in T : \A n \in T : m <= n
<1> DEFINE R == {ss \in Nat \X Nat : ss[1] < ss[2]}
<1>1. IsWellFoundedOn(R, Nat)
  BY NatLessThanWellFounded, Zenon DEF OpToRel
<1>2. PICK m \in T : \A n \in T : ~ (<<n, m>> \in R)
  BY <1>1, WFMin
<1>3. \A n \in T : n < m => <<n, m>> \in R
  <2> TAKE n \in T
  <2>1. <<n, m>> \in Nat \X Nat /\ <<n, m>>[1] = n /\ <<n, m>>[2] = m
    OBVIOUS
  <2> QED
    BY <2>1
<1>4. \A n \in T : ~ (n < m)
  BY <1>2, <1>3
<1> QED
  BY <1>4

\* An arrangement of a finite set has every member once.
LEMMA Arranged ==
  ASSUME NEW S, IsFiniteSet(S), NEW s \in SetToSeqs(S)
  PROVE  /\ s \in Seq(S) /\ Len(s) = Cardinality(S) /\ Len(s) \in Nat
         /\ \A i, j \in 1..Len(s) : s[i] = s[j] => i = j
         /\ \A x \in S : \E i \in 1..Len(s) : s[i] = x
<1> DEFINE n == Cardinality(S)
<1>1. n \in Nat
  BY FS_CardinalityType
<1>2. s \in [1..n -> S] /\ \A i, j \in 1..n : i # j => s[i] # s[j]
  BY DEF SetToSeqs
<1>3. s \in Seq(S) /\ Len(s) = n
  BY <1>1, <1>2, SeqDef
<1>4. s \in Injection(1..n, S)
  BY <1>2 DEF Injection, IsInjective
<1>5. s \in Surjection(1..n, S)
  <2>1. IsFiniteSet(1..n) /\ Cardinality(1..n) = n
    BY <1>1, FS_Interval
  <2> QED
    BY <1>4, <2>1, FS_Injection
<1> QED
  BY <1>1, <1>2, <1>3, <1>5 DEF Surjection

\* The image of a finite set under a function is finite, and as large if the
\* function is injective.
LEMMA ImageIsFinite ==
  ASSUME NEW S, IsFiniteSet(S), NEW T, NEW f \in [S -> T],
         \A y \in T : \E x \in S : f[x] = y
  PROVE  /\ IsFiniteSet(T)
         /\ (\A x, y \in S : f[x] = f[y] => x = y) => Cardinality(T) = Cardinality(S)
<1>1. f \in Surjection(S, T)
  BY DEF Surjection
<1>2. IsFiniteSet(T) /\ (Cardinality(T) = Cardinality(S) <=> f \in Injection(S, T))
  BY <1>1, FS_Surjection
<1>3. (\A x, y \in S : f[x] = f[y] => x = y) => f \in Injection(S, T)
  BY DEF Injection, IsInjective
<1> QED
  BY <1>2, <1>3

LEMMA TargetsFinite == IsFiniteSet(Target) /\ IsFiniteSet(LimboTarget)
<1>1. MaxLimboTargets \in Int /\ 1 \in Int
  BY BoundsAssumption
<1>2. IsFiniteSet(1..MaxLimboTargets)
  BY <1>1, FS_Interval
<1>3. IsFiniteSet(LimboTarget)
  BY <1>2, FiniteAssumption, FS_Product DEF LimboTarget
<1> QED
  BY <1>3, FiniteAssumption, FS_Union DEF Target

-----------------------------------------------------------------------------
(* Requests under way.                                                     *)

LEMMA RequestFields ==
  ASSUME NEW x \in Request
  PROVE  x.op \in {"watch", "unwatch"} /\ x.target \in Target /\ x.token \in Version
  BY DEF Request

LEMMA WaitingType ==
  ASSUME NEW s \in Seq(Request), NEW t
  PROVE  /\ IsFiniteSet(Waiting(s, t)) /\ Cardinality(Waiting(s, t)) \in Nat
         /\ Waiting(s, t) # {} => Cardinality(Waiting(s, t)) > 0
<1>1. Len(s) \in Int /\ 1 \in Int
  OBVIOUS
<1>2. IsFiniteSet(1..Len(s))
  BY <1>1, FS_Interval
<1>3. Waiting(s, t) \subseteq 1..Len(s)
  BY DEF Waiting
<1>4. IsFiniteSet(Waiting(s, t))
  BY <1>2, <1>3, FS_Subset
<1>5. Cardinality(Waiting(s, t)) \in Nat
  BY <1>4, FS_CardinalityType
<1>6. Waiting(s, t) # {} => Cardinality(Waiting(s, t)) # 0
  BY <1>4, FS_EmptySet
<1> QED
  BY <1>4, <1>5, <1>6

\* One fewer is waiting once the first request is answered.
LEMMA WaitingOfTail ==
  ASSUME NEW s \in Seq(Request), s # <<>>, NEW t
  PROVE  /\ Head(s).target = t => /\ 1 \in Waiting(s, t)
                                  /\ Cardinality(Waiting(s, t)) = Cardinality(Waiting(Tail(s), t)) + 1
         /\ Head(s).target # t => /\ Cardinality(Waiting(s, t)) = Cardinality(Waiting(Tail(s), t))
                                  /\ Waiting(Tail(s), t) = {} => Waiting(s, t) = {}
         /\ Waiting(s, t) = {} => Waiting(Tail(s), t) = {}
<1> DEFINE W == Waiting(Tail(s), t)
           f == [i \in W |-> i + 1]
<1>1. /\ Len(s) \in Nat \ {0} /\ Head(s) = s[1] /\ Tail(s) \in Seq(Request)
      /\ Len(Tail(s)) = Len(s) - 1 /\ \A i \in 1..Len(Tail(s)) : Tail(s)[i] = s[i + 1]
  OBVIOUS
<1>2. W \subseteq 1..(Len(s) - 1) /\ \A i \in 1..(Len(s) - 1) : i \in W <=> s[i + 1].target = t
  BY <1>1 DEF Waiting
<1>3. IsFiniteSet(W)
  BY <1>1, WaitingType
<1>4. \A i \in W : f[i] = i + 1 /\ i \in Nat
  BY <1>2
<1>5. IsFiniteSet({f[i] : i \in W}) /\ Cardinality({f[i] : i \in W}) = Cardinality(W)
  <2> DEFINE I == {f[i] : i \in W}
  <2>1. \A i, j \in W : f[i] = f[j] => i = j
    BY <1>4
  <2>2. f \in [W -> I] /\ \A y \in I : \E x \in W : f[x] = y
    OBVIOUS
  <2> HIDE DEF f, I
  <2>3. IsFiniteSet(I) /\ Cardinality(I) = Cardinality(W)
    BY <1>3, <2>1, <2>2, ImageIsFinite
  <2> QED
    BY <2>3 DEF I
<1>6. {f[i] : i \in W} = Waiting(s, t) \ {1}
  <2>1. ASSUME NEW k \in Waiting(s, t) \ {1}
        PROVE  \E i \in W : f[i] = k
    <3>1. k \in 1..Len(s) /\ s[k].target = t /\ k # 1
      BY DEF Waiting
    <3>2. k - 1 \in 1..(Len(s) - 1) /\ (k - 1) + 1 = k
      BY <1>1, <3>1
    <3>3. k - 1 \in W
      BY <1>2, <3>1, <3>2
    <3> QED
      BY <1>4, <3>2, <3>3
  <2>2. ASSUME NEW i \in W
        PROVE  f[i] \in Waiting(s, t) \ {1}
    <3>1. i \in 1..(Len(s) - 1) /\ s[i + 1].target = t
      BY <1>2
    <3>2. i + 1 \in 1..Len(s) /\ i + 1 # 1
      BY <1>1, <3>1
    <3> QED
      BY <1>4, <3>1, <3>2 DEF Waiting
  <2> HIDE DEF f, W
  <2> QED
    BY <2>1, <2>2
<1>7. IsFiniteSet(Waiting(s, t)) /\ Cardinality(Waiting(s, t)) \in Nat /\ Cardinality(W) \in Nat
  BY <1>1, WaitingType
<1>8. 1 \in Waiting(s, t) <=> Head(s).target = t
  BY <1>1 DEF Waiting
<1>9. Cardinality(Waiting(s, t) \ {1}) =
        IF 1 \in Waiting(s, t) THEN Cardinality(Waiting(s, t)) - 1 ELSE Cardinality(Waiting(s, t))
  BY <1>7, FS_RemoveElement
<1>10. Waiting(s, t) = {} => W = {}
  BY <1>1, <1>2 DEF Waiting
<1>11. W = {} => Waiting(s, t) \subseteq {1}
  <2> HIDE DEF f
  <2> QED
    BY <1>6
<1> HIDE DEF f, W
<1>12. Cardinality(W) = Cardinality(Waiting(s, t) \ {1})
  BY <1>5, <1>6
<1>13. W = Waiting(Tail(s), t)
  BY DEF W
<1> QED
  BY <1>7, <1>8, <1>9, <1>10, <1>11, <1>12, <1>13

\* Requests are counted before and after where they are put together.
LEMMA WaitingOfBoth ==
  ASSUME NEW s \in Seq(Request), NEW b \in Seq(Request), NEW t
  PROVE  /\ Cardinality(Waiting(s \o b, t)) = Cardinality(Waiting(s, t)) + Cardinality(Waiting(b, t))
         /\ Waiting(s \o b, t) = {} <=> Waiting(s, t) = {} /\ Waiting(b, t) = {}
<1> DEFINE W == Waiting(b, t)
           f == [i \in W |-> Len(s) + i]
           I == {f[i] : i \in W}
<1>1. /\ Len(s) \in Nat /\ Len(b) \in Nat /\ s \o b \in Seq(Request)
      /\ Len(s \o b) = Len(s) + Len(b)
      /\ \A i \in 1..Len(s) : (s \o b)[i] = s[i]
      /\ \A i \in 1..Len(b) : (s \o b)[Len(s) + i] = b[i]
  OBVIOUS
<1>2. /\ W \subseteq 1..Len(b) /\ \A i \in W : b[i].target = t /\ f[i] = Len(s) + i /\ i \in Nat \ {0}
  BY <1>1 DEF Waiting
<1>3. IsFiniteSet(W) /\ Cardinality(W) \in Nat
  BY WaitingType
<1>4. IsFiniteSet(I) /\ Cardinality(I) = Cardinality(W)
  <2>1. \A i, j \in W : f[i] = f[j] => i = j
    BY <1>1, <1>2
  <2>2. f \in [W -> I] /\ \A y \in I : \E x \in W : f[x] = y
    OBVIOUS
  <2> HIDE DEF f, I
  <2> QED
    BY <1>3, <2>1, <2>2, ImageIsFinite
<1>5. Waiting(s \o b, t) = Waiting(s, t) \cup I
  <2>1. ASSUME NEW k \in Waiting(s \o b, t), k \notin Waiting(s, t)
        PROVE  \E i \in W : f[i] = k
    <3>1. k \in 1..(Len(s) + Len(b)) /\ (s \o b)[k].target = t
      BY <1>1 DEF Waiting
    <3>2. k \notin 1..Len(s)
      BY <1>1, <2>1, <3>1 DEF Waiting
    <3>3. k - Len(s) \in 1..Len(b) /\ Len(s) + (k - Len(s)) = k
      BY <1>1, <3>1, <3>2
    <3>4. k - Len(s) \in W
      BY <1>1, <3>1, <3>3 DEF Waiting
    <3> QED
      BY <1>2, <3>3, <3>4
  <2>2. ASSUME NEW i \in W
        PROVE  f[i] \in Waiting(s \o b, t)
    <3>1. i \in 1..Len(b) /\ b[i].target = t
      BY <1>2
    <3>2. Len(s) + i \in 1..Len(s \o b) /\ (s \o b)[Len(s) + i] = b[i]
      BY <1>1, <3>1
    <3> QED
      BY <1>2, <3>1, <3>2 DEF Waiting
  <2>3. Waiting(s, t) \subseteq Waiting(s \o b, t)
    BY <1>1 DEF Waiting
  <2> HIDE DEF f, W
  <2> QED
    BY <2>1, <2>2, <2>3
<1>6. Waiting(s, t) \cap I = {}
  <2>1. Waiting(s, t) \subseteq 1..Len(s)
    BY DEF Waiting
  <2>2. \A i \in W : f[i] \notin 1..Len(s)
    BY <1>1, <1>2
  <2> HIDE DEF f, W
  <2> QED
    BY <2>1, <2>2
<1>7. IsFiniteSet(Waiting(s, t)) /\ Cardinality(Waiting(s, t)) \in Nat
  BY WaitingType
<1>8. I = {} <=> W = {}
  <2> HIDE DEF f, W
  <2> QED
    OBVIOUS
<1> HIDE DEF f, I
<1>9. Cardinality({}) = 0
  BY FS_EmptySet
<1>10. Cardinality(Waiting(s, t) \cup I) =
         Cardinality(Waiting(s, t)) + Cardinality(I) - Cardinality(Waiting(s, t) \cap I)
  BY <1>4, <1>7, FS_Union
<1>11. Cardinality(Waiting(s, t) \cup I) = Cardinality(Waiting(s, t)) + Cardinality(W)
  <2>1. Cardinality(Waiting(s, t) \cap I) = 0
    BY <1>6, <1>9, Zenon
  <2> QED
    BY <1>3, <1>4, <1>7, <1>10, <2>1
<1>12. Waiting(s, t) \cup I = {} <=> Waiting(s, t) = {} /\ W = {}
  BY <1>8
<1> QED
  BY <1>5, <1>11, <1>12

LEMMA RemoteFields ==
  ASSUME NEW r \in Remote
  PROVE  /\ r.targets \subseteq Target /\ r.resume \in [Target -> Version]
         /\ r.stream \in {"off", "starting", "open"} /\ r.idle \in BOOLEAN
         /\ r.tracked \subseteq Target /\ r.state \in [Target -> TargetState]
         /\ r.updates \in [Doc -> Update] /\ r.resets \subseteq Query
  BY DEF Remote

LEMMA StateFields ==
  ASSUME NEW x \in TargetState
  PROVE  /\ x.outstanding \in Nat /\ x.current \in BOOLEAN /\ x.changed \in BOOLEAN
         /\ x.token \in Version
         /\ x.docs \in [Doc -> {"none", "added", "modified", "removed"}]
  BY DEF TargetState

LEMMA CallFields ==
  ASSUME NEW c \in Call
  PROVE  /\ c.requests \in Seq(Request) /\ c.version \in Version
         /\ c.watched \subseteq Target /\ c.current \subseteq Target
         /\ c.owed \in [Target -> {"none", "filter", "reset"}]
         /\ c.have \in [Target -> [Doc -> Version]]
  BY DEF Call

\* U are the targets that the requests b unwatch and W those that they watch,
\* each once; one that is in both is unwatched first.
Asks(b, U, W) ==
  /\ b \in Seq(Request)
  /\ \A i, j \in 1..Len(b) : b[i].op = b[j].op /\ b[i].target = b[j].target => i = j
  /\ \A t \in Target : t \in U <=> \E i \in 1..Len(b) : b[i].op = "unwatch" /\ b[i].target = t
  /\ \A t \in Target : t \in W <=> \E i \in 1..Len(b) : b[i].op = "watch" /\ b[i].target = t
  /\ \A i, j \in 1..Len(b) :
       b[i].target = b[j].target /\ b[i].op = "unwatch" /\ b[j].op = "watch" => i < j

LEMMA AskedOf ==
  ASSUME NEW b, NEW U, NEW W, Asks(b, U, W), NEW t \in Target
  PROVE  Cardinality(Waiting(b, t)) =
           (IF t \in U THEN 1 ELSE 0) + (IF t \in W THEN 1 ELSE 0)
<1>1. b \in Seq(Request)
  BY DEF Asks
<1>2. \A i \in 1..Len(b) : b[i].op \in {"watch", "unwatch"}
  BY <1>1, ElementOfSeq, RequestFields
<1>3. CASE t \notin U /\ t \notin W
  <2>1. Waiting(b, t) = {}
    BY <1>2, <1>3 DEF Waiting, Asks
  <2>2. Cardinality(Waiting(b, t)) = 0
    BY <2>1, FS_EmptySet, Zenon
  <2> QED
    BY <1>3, <2>2
<1>4. CASE t \in U /\ t \notin W
  <2>1. PICK i \in 1..Len(b) : b[i].op = "unwatch" /\ b[i].target = t
    BY <1>4 DEF Asks
  <2>2. Waiting(b, t) = {i}
    BY <1>2, <1>4, <2>1 DEF Waiting, Asks
  <2>3. Cardinality(Waiting(b, t)) = 1
    BY <2>2, FS_Singleton, Zenon
  <2> QED
    BY <1>4, <2>3
<1>5. CASE t \notin U /\ t \in W
  <2>1. PICK i \in 1..Len(b) : b[i].op = "watch" /\ b[i].target = t
    BY <1>5 DEF Asks
  <2>2. Waiting(b, t) = {i}
    BY <1>2, <1>5, <2>1 DEF Waiting, Asks
  <2>3. Cardinality(Waiting(b, t)) = 1
    BY <2>2, FS_Singleton, Zenon
  <2> QED
    BY <1>5, <2>3
<1>6. CASE t \in U /\ t \in W
  <2>1. PICK i \in 1..Len(b) : b[i].op = "unwatch" /\ b[i].target = t
    BY <1>6 DEF Asks
  <2>2. PICK j \in 1..Len(b) : b[j].op = "watch" /\ b[j].target = t
    BY <1>6 DEF Asks
  <2>3. Waiting(b, t) = {i} \cup {j}
    BY <1>2, <2>1, <2>2 DEF Waiting, Asks
  <2> DEFINE I == {i}
  <2>4. IsFiniteSet(I) /\ Cardinality(I) = 1
    BY FS_Singleton
  <2>5. j \notin I
    BY <2>1, <2>2
  <2>6. Waiting(b, t) = I \cup {j}
    BY <2>3
  <2> HIDE DEF I
  <2>7. Cardinality(I \cup {j}) = Cardinality(I) + 1
    BY <2>4, <2>5, FS_AddElement, Zenon
  <2>8. Cardinality(Waiting(b, t)) = 2
    BY <2>4, <2>6, <2>7
  <2> QED
    BY <1>6, <2>8
<1> QED
  BY <1>3, <1>4, <1>5, <1>6

LEMMA NotAsked ==
  ASSUME NEW b, NEW U, NEW W, Asks(b, U, W), NEW t \in Target
  PROVE  Waiting(b, t) = {} <=> t \notin U /\ t \notin W
<1>1. b \in Seq(Request)
  BY DEF Asks
<1>2. \A i \in 1..Len(b) : b[i].op \in {"watch", "unwatch"}
  BY <1>1, ElementOfSeq, RequestFields
<1> QED
  BY <1>2 DEF Waiting, Asks

\* The client unwatches U and watches W, the latter for the first time or after
\* an unwatch, and waits for the answers.
Changed(r, U, W, r2) ==
  /\ \A t \in Target : t \in r2.targets <=> t \in W \/ (t \in r.targets /\ t \notin U)
  /\ \A t \in W : IF t \in r.targets THEN t \in U ELSE r.state[t].outstanding = 0
  /\ \A t \in Target : r2.state[t].outstanding =
       r.state[t].outstanding + (IF t \in U THEN 1 ELSE 0) + (IF t \in W THEN 1 ELSE 0)
  /\ \A t \in r2.resets : t \in r.resets /\ t \notin U /\ t \notin W
  /\ \A t \in Query \ r2.targets : t \notin r.targets /\ t \notin U /\ t \notin r2.tracked

\* The requests b for that are on their way.
Requested(c, b, W, c2) ==
  /\ c2.requests = c.requests \o b /\ c2.watched = c.watched
  /\ \A t \in W : Waiting(c.requests, t) = {}

\* Requests keep client and server in step if they say what the client now
\* listens to and if their answers are waited for.
LEMMA Sent ==
  ASSUME NEW r \in Remote, NEW c \in Call, InStep(r, c),
         NEW b, NEW U, NEW W, Asks(b, U, W), W \subseteq Target,
         NEW r2 \in Remote, NEW c2 \in Call, Changed(r, U, W, r2), Requested(c, b, W, c2)
  PROVE  InStep(r2, c2)
<1> USE DEF Changed, Requested
<1> DEFINE s == c.requests
           n == Len(s)
<1>1. s \in Seq(Request) /\ n \in Nat /\ b \in Seq(Request) /\ Len(b) \in Nat
  BY CallFields DEF Asks
<1>2. /\ Len(s \o b) = n + Len(b)
      /\ \A i \in 1..n : (s \o b)[i] = s[i]
      /\ \A i \in 1..Len(b) : (s \o b)[n + i] = b[i]
      /\ \A i \in 1..Len(s \o b) : i \notin 1..n => i - n \in 1..Len(b) /\ (s \o b)[i] = b[i - n]
      /\ \A i \in 1..n : i \in 1..Len(s \o b)
      /\ \A i \in 1..Len(b) : n + i \in 1..Len(s \o b)
  BY <1>1
<1>3. /\ \A i \in 1..n : s[i].op \in {"watch", "unwatch"} /\ s[i].target \in Target
      /\ \A i \in 1..Len(b) : b[i].op \in {"watch", "unwatch"} /\ b[i].target \in Target
  BY <1>1, ElementOfSeq, RequestFields
<1>4. \A i \in 1..Len(b) : b[i].op = "watch" => b[i].target \in W
  BY <1>3 DEF Asks
<1>5. \A i \in 1..Len(b) : b[i].op = "unwatch" => b[i].target \in U
  BY <1>3 DEF Asks
<1>6. \A i \in 1..n : s[i].target \notin W
  BY <1>3 DEF Waiting
<1>7. c2.requests = s \o b
  OBVIOUS
<1>8. \A t \in Target : Waiting(b, t) = {} <=> t \notin U /\ t \notin W
  BY NotAsked
<1>9. \A t \in Target : Waiting(s \o b, t) = {} <=> Waiting(s, t) = {} /\ Waiting(b, t) = {}
  BY <1>1, WaitingOfBoth
<1>10. /\ OneWatch(s) /\ LastWord(r.targets, s) /\ UnwatchedFirst(c.watched, s)
       /\ Agreed(r.targets, c.watched, s) /\ Counted(r, s) /\ Settling(r, s)
  BY DEF InStep
<1>11. r2.targets \subseteq Target /\ r.targets \subseteq Target
  BY RemoteFields
<1> HIDE DEF s, n
<1>12. OneWatch(s \o b)
  <2> SUFFICES ASSUME NEW i \in 1..Len(s \o b), NEW j \in 1..Len(s \o b),
                      (s \o b)[i].op = "watch", (s \o b)[j].op = "watch",
                      (s \o b)[i].target = (s \o b)[j].target
               PROVE  i = j
    BY DEF OneWatch
  <2>1. CASE i \in 1..n /\ j \in 1..n
    <3>1. (s \o b)[i] = s[i] /\ (s \o b)[j] = s[j]
      BY <1>2, <2>1
    <3> QED
      BY <1>10, <2>1, <3>1 DEF OneWatch, n
  <2>2. CASE i \in 1..n /\ j \notin 1..n
    <3>1. (s \o b)[i] = s[i] /\ (s \o b)[j] = b[j - n] /\ j - n \in 1..Len(b)
      BY <1>2, <2>2
    <3> QED
      BY <1>4, <1>6, <2>2, <3>1
  <2>3. CASE i \notin 1..n /\ j \in 1..n
    <3>1. (s \o b)[j] = s[j] /\ (s \o b)[i] = b[i - n] /\ i - n \in 1..Len(b)
      BY <1>2, <2>3
    <3> QED
      BY <1>4, <1>6, <2>3, <3>1
  <2>4. CASE i \notin 1..n /\ j \notin 1..n
    <3>1. (s \o b)[i] = b[i - n] /\ i - n \in 1..Len(b) /\ (s \o b)[j] = b[j - n] /\ j - n \in 1..Len(b)
      BY <1>2, <2>4
    <3>2. b[i - n].op = b[j - n].op /\ b[i - n].target = b[j - n].target
      BY <3>1
    <3>3. i - n = j - n
      BY <3>1, <3>2 DEF Asks
    <3> QED
      BY <1>1, <3>3
  <2> QED
    BY <2>1, <2>2, <2>3, <2>4
<1>13. LastWord(r2.targets, s \o b)
  <2> SUFFICES ASSUME NEW i \in 1..Len(s \o b),
                      \A j \in 1..Len(s \o b) : i < j => (s \o b)[j].target # (s \o b)[i].target
               PROVE  ((s \o b)[i].op = "watch") = ((s \o b)[i].target \in r2.targets)
    BY DEF LastWord
  <2>1. CASE i \in 1..n
    <3>1. (s \o b)[i] = s[i] /\ s[i].target \in Target
      BY <1>2, <1>3, <2>1
    <3>2. \A j \in 1..n : i < j => s[j].target # s[i].target
      BY <1>2, <3>1
    <3>3. (s[i].op = "watch") = (s[i].target \in r.targets)
      BY <1>10, <2>1, <3>2 DEF LastWord, n
    <3>4. \A k \in 1..Len(b) : b[k].target # s[i].target
      <4> TAKE k \in 1..Len(b)
      <4>1. n + k \in 1..Len(s \o b) /\ i < n + k /\ (s \o b)[n + k] = b[k]
        BY <1>1, <1>2, <2>1
      <4> QED
        BY <3>1, <4>1
    <3>5. Waiting(b, s[i].target) = {}
      BY <3>4 DEF Waiting
    <3>6. s[i].target \notin U /\ s[i].target \notin W
      BY <1>8, <3>1, <3>5
    <3> QED
      BY <3>1, <3>3, <3>6
  <2>2. CASE i \notin 1..n
    <3> DEFINE k == i - n
    <3>1. k \in 1..Len(b) /\ (s \o b)[i] = b[k] /\ b[k].target \in Target
      BY <1>2, <1>3, <2>2
    <3>2. \A j \in 1..Len(b) : k < j => b[j].target # b[k].target
      <4> TAKE j \in 1..Len(b)
      <4>1. k < j => i < n + j
        BY <1>1
      <4>2. n + j \in 1..Len(s \o b) /\ (s \o b)[n + j] = b[j]
        BY <1>2
      <4> QED
        BY <3>1, <4>1, <4>2
    <3> HIDE DEF k
    <3>3. CASE b[k].op = "watch"
      BY <1>4, <3>1, <3>3
    <3>4. CASE b[k].op = "unwatch"
      <4>1. b[k].target \in U
        BY <1>5, <3>1, <3>4
      <4>2. ASSUME b[k].target \in W PROVE FALSE
        <5>1. PICK j \in 1..Len(b) : b[j].op = "watch" /\ b[j].target = b[k].target
          BY <3>1, <4>2 DEF Asks
        <5>2. k < j
          BY <3>1, <3>4, <5>1 DEF Asks
        <5> QED
          BY <3>2, <5>1, <5>2
      <4> QED
        BY <3>1, <3>4, <4>1, <4>2
    <3> QED
      BY <1>3, <3>1, <3>3, <3>4
  <2> QED
    BY <2>1, <2>2
<1>14. UnwatchedFirst(c2.watched, s \o b)
  <2> SUFFICES ASSUME NEW i \in 1..Len(s \o b),
                      (s \o b)[i].op = "watch", (s \o b)[i].target \in c.watched
               PROVE  \E j \in 1..Len(s \o b) : j < i /\ (s \o b)[j].target = (s \o b)[i].target
    BY DEF UnwatchedFirst
  <2>1. CASE i \in 1..n
    <3>1. (s \o b)[i] = s[i]
      BY <1>2, <2>1
    <3>2. PICK j \in 1..n : j < i /\ s[j].target = s[i].target
      BY <1>10, <2>1, <3>1 DEF UnwatchedFirst, n
    <3>3. (s \o b)[j] = s[j] /\ j \in 1..Len(s \o b)
      BY <1>2
    <3> QED
      BY <3>1, <3>2, <3>3
  <2>2. CASE i \notin 1..n
    <3> DEFINE k == i - n
    <3>0. k \in 1..Len(b) /\ (s \o b)[i] = b[k]
      BY <1>2, <2>2
    <3>1. k \in 1..Len(b) /\ (s \o b)[i] = b[k] /\ b[k].target \in Target /\ b[k].target \in W
      BY <3>0, <1>3, <1>4, <2>2
    <3>2. Waiting(s, b[k].target) = {}
      BY <3>1 DEF s
    <3>3. b[k].target \in r.targets
      BY <1>10, <3>1, <3>2 DEF Agreed
    <3>4. b[k].target \in U
      BY <3>1, <3>3
    <3>5. PICK j \in 1..Len(b) : b[j].op = "unwatch" /\ b[j].target = b[k].target
      BY <3>1, <3>4 DEF Asks
    <3>6. j < k
      BY <3>1, <3>5 DEF Asks
    <3>7. n + j < i /\ n + j \in 1..Len(s \o b) /\ (s \o b)[n + j] = b[j]
      <4>1. n + j \in 1..Len(s \o b) /\ (s \o b)[n + j] = b[j]
        BY <1>2
      <4>2. n + j < i
        BY <1>1, <1>2, <3>6
      <4> QED
        BY <4>1, <4>2
    <3> QED
      BY <3>1, <3>5, <3>7
  <2> QED
    BY <2>1, <2>2
<1>15. Agreed(r2.targets, c2.watched, s \o b)
  <2> SUFFICES ASSUME NEW t \in Target, Waiting(s \o b, t) = {}
               PROVE  (t \in c.watched) = (t \in r2.targets)
    BY DEF Agreed
  <2>1. Waiting(s, t) = {} /\ t \notin U /\ t \notin W
    BY <1>8, <1>9
  <2>2. (t \in c.watched) = (t \in r.targets)
    BY <1>10, <2>1 DEF Agreed
  <2> QED
    BY <2>1, <2>2
<1>16. Counted(r2, s \o b)
  <2> SUFFICES ASSUME NEW t \in Target
               PROVE  /\ r2.state[t].outstanding >= Cardinality(Waiting(s \o b, t))
                      /\ t \in r2.targets => r2.state[t].outstanding = Cardinality(Waiting(s \o b, t))
    BY DEF Counted
  <2>1. Cardinality(Waiting(s \o b, t)) = Cardinality(Waiting(s, t))
          + ((IF t \in U THEN 1 ELSE 0) + (IF t \in W THEN 1 ELSE 0))
    BY <1>1, AskedOf, WaitingOfBoth
  <2>2. Cardinality(Waiting(s, t)) \in Nat
    BY <1>1, WaitingType
  <2>3. r.state[t].outstanding \in Nat
    BY RemoteFields, StateFields
  <2>4. /\ r.state[t].outstanding >= Cardinality(Waiting(s, t))
        /\ t \in r.targets => r.state[t].outstanding = Cardinality(Waiting(s, t))
    BY <1>10 DEF Counted
  <2>5. r2.state[t].outstanding >= Cardinality(Waiting(s \o b, t))
    BY <2>1, <2>2, <2>3, <2>4
  <2>6. ASSUME t \in r2.targets
        PROVE  r.state[t].outstanding = Cardinality(Waiting(s, t))
    <3>1. CASE t \in r.targets
      BY <2>4, <3>1
    <3>2. CASE t \notin r.targets
      <4>1. t \in W /\ Waiting(s, t) = {} /\ r.state[t].outstanding = 0
        BY <2>6, <3>2 DEF s
      <4>2. Cardinality(Waiting(s, t)) = 0
        BY <4>1, FS_EmptySet, Zenon
      <4> QED
        BY <4>1, <4>2
    <3> QED
      BY <3>1, <3>2
  <2> QED
    BY <2>1, <2>2, <2>3, <2>5, <2>6
<1>17. Settling(r2, s \o b)
  <2>1. Query \subseteq Target /\ r2.resets \subseteq Query
    BY RemoteFields DEF Target
  <2>2. ASSUME NEW q \in Query \ r2.targets
        PROVE  Waiting(s \o b, q) = {} /\ q \notin r2.tracked
    <3>1. q \in Target /\ q \notin r.targets /\ q \notin U /\ q \notin r2.tracked /\ q \notin W
      BY <2>1
    <3>2. Waiting(s, q) = {}
      BY <1>10, <2>2, <3>1 DEF Settling
    <3> QED
      BY <1>8, <1>9, <3>1, <3>2
  <2>3. ASSUME NEW t \in r2.resets
        PROVE  t \in r2.targets /\ Waiting(s \o b, t) = {}
    <3>1. t \in Target /\ t \in r.resets /\ t \notin U /\ t \notin W
      BY <2>1
    <3>2. t \in r.targets /\ Waiting(s, t) = {}
      BY <1>10, <3>1 DEF Settling
    <3> QED
      BY <1>8, <1>9, <3>1, <3>2
  <2> QED
    BY <2>2, <2>3 DEF Settling
<1> QED
  BY <1>7, <1>12, <1>13, <1>14, <1>15, <1>16, <1>17 DEF InStep

\* What the client waits for depends on these parts alone; a target may be
\* marked for a new watch when it waits for nothing.
LEMMA Steady ==
  ASSUME NEW r \in Remote, NEW c \in Call, InStep(r, c),
         NEW r2 \in Remote, NEW c2 \in Call,
         c2.requests = c.requests, c2.watched = c.watched, r2.targets = r.targets,
         \A t \in Target : r2.state[t].outstanding = r.state[t].outstanding,
         r2.tracked \subseteq r.tracked \cup r.targets,
         \A t \in r2.resets : t \in r.resets \/ (t \in r.targets /\ r.state[t].outstanding = 0)
  PROVE  InStep(r2, c2)
<1> DEFINE s == c.requests
<1>1. s \in Seq(Request)
  BY CallFields
<1>2. \A t \in Target : r.state[t].outstanding = 0 /\ t \in r.targets => Waiting(s, t) = {}
  <2> TAKE t \in Target
  <2>1. t \in r.targets => r.state[t].outstanding = Cardinality(Waiting(s, t))
    BY DEF InStep, Counted
  <2> QED
    BY <1>1, <2>1, WaitingType
<1>3. Counted(r2, s)
  BY DEF InStep, Counted
<1>4. Settling(r2, s)
  <2>1. Settling(r, s) /\ r2.resets \subseteq Target
    BY RemoteFields DEF InStep, Target
  <2> HIDE DEF s
  <2> QED
    BY <1>2, <2>1 DEF Settling
<1> QED
  BY <1>3, <1>4 DEF InStep

LEMMA HeadOf ==
  ASSUME NEW c \in Call, c.requests # <<>>
  PROVE  /\ c.requests[1] = Head(c.requests) /\ Len(c.requests) \in Nat \ {0}
         /\ Head(c.requests) \in Request /\ Tail(c.requests) \in Seq(Request)
         /\ Len(Tail(c.requests)) = Len(c.requests) - 1
         /\ \A i \in 1..Len(Tail(c.requests)) :
              /\ i + 1 \in 1..Len(c.requests) /\ i \in 1..Len(c.requests)
              /\ Tail(c.requests)[i] = c.requests[i + 1]
<1>1. c.requests \in Seq(Request)
  BY CallFields
<1> QED
  BY <1>1

\* The first request is out of the way.
LEMMA TailInStep ==
  ASSUME NEW c \in Call, c.requests # <<>>, OneWatch(c.requests), NEW T, LastWord(T, c.requests)
  PROVE  /\ OneWatch(Tail(c.requests)) /\ LastWord(T, Tail(c.requests))
         /\ Head(c.requests).op = "watch" =>
              \A i \in 1..Len(Tail(c.requests)) :
                Tail(c.requests)[i].op = "watch" =>
                  Tail(c.requests)[i].target # Head(c.requests).target
         /\ \A t : Head(c.requests).target = t /\ Waiting(Tail(c.requests), t) = {} =>
              (Head(c.requests).op = "watch") = (t \in T)
<1> DEFINE s == c.requests
           n == Len(s)
           b == Tail(s)
<1>1. /\ s[1] = Head(s) /\ n \in Nat \ {0} /\ Len(b) = n - 1
      /\ \A i \in 1..Len(b) : i + 1 \in 1..n /\ b[i] = s[i + 1]
  BY HeadOf
<1>2. OneWatch(s) /\ LastWord(T, s)
  OBVIOUS
<1>3. \A k \in 1..n : k # 1 => k - 1 \in 1..Len(b) /\ b[k - 1] = s[k]
  <2> TAKE k \in 1..n
  <2>1. k # 1 => k - 1 \in 1..Len(b) /\ (k - 1) + 1 = k
    BY <1>1
  <2> QED
    BY <1>1, <2>1
<1> HIDE DEF s, b
<1>4. OneWatch(b)
  <2> SUFFICES ASSUME NEW i \in 1..Len(b), NEW j \in 1..Len(b),
                      b[i].op = "watch", b[j].op = "watch", b[i].target = b[j].target
               PROVE  i = j
    BY DEF OneWatch
  <2>1. i + 1 = j + 1
    BY <1>1, <1>2 DEF OneWatch
  <2> QED
    BY <1>1, <2>1
<1>5. LastWord(T, b)
  <2> SUFFICES ASSUME NEW i \in 1..Len(b),
                      \A j \in 1..Len(b) : i < j => b[j].target # b[i].target
               PROVE  (b[i].op = "watch") = (b[i].target \in T)
    BY DEF LastWord
  <2>1. i + 1 \in 1..n /\ b[i] = s[i + 1]
    BY <1>1
  <2>2. \A k \in 1..n : i + 1 < k => s[k].target # s[i + 1].target
    <3> TAKE k \in 1..n
    <3>1. i + 1 < k => k # 1 /\ i < k - 1
      BY <1>1
    <3> QED
      BY <1>3, <2>1, <3>1
  <2> QED
    BY <1>2, <2>1, <2>2 DEF LastWord
<1>6. ASSUME Head(s).op = "watch", NEW i \in 1..Len(b), b[i].op = "watch"
      PROVE  b[i].target # Head(s).target
  <2>1. i + 1 \in 1..n /\ b[i] = s[i + 1] /\ i + 1 # 1 /\ 1 \in 1..n
    BY <1>1
  <2> QED
    BY <1>1, <1>2, <1>6, <2>1 DEF OneWatch
<1>7. ASSUME NEW t, Head(s).target = t, Waiting(b, t) = {}
      PROVE  (Head(s).op = "watch") = (t \in T)
  <2>1. \A k \in 1..n : 1 < k => s[k].target # t
    <3> TAKE k \in 1..n
    <3>1. 1 < k => k # 1
      OBVIOUS
    <3> QED
      BY <1>3, <1>7, <3>1 DEF Waiting
  <2>2. 1 \in 1..n
    BY <1>1
  <2> QED
    BY <1>1, <1>2, <1>7, <2>1, <2>2 DEF LastWord
<1> QED
  BY <1>4, <1>5, <1>6, <1>7 DEF s, b

\* An answer to the first request keeps client and server in step, if it is
\* counted and the server watches the target from now on, or no more; a refused
\* target that the client does not listen to is not watched either.
LEMMA Answered ==
  ASSUME NEW r \in Remote, NEW c \in Call, InStep(r, c), c.requests # <<>>,
         NEW t, t = Head(c.requests).target,
         NEW r2 \in Remote, NEW c2 \in Call,
         c2.requests = Tail(c.requests), r2.targets = r.targets,
         c2.watched \ {t} = c.watched \ {t},
         t \in r.targets \/ Head(c.requests).op = "unwatch" =>
           (t \in c2.watched) = (Head(c.requests).op = "watch"),
         r2.state[t].outstanding = r.state[t].outstanding - 1
           \/ (t \notin r.targets /\ r2.state[t].outstanding = r.state[t].outstanding),
         \A u \in Target \ {t} : r2.state[u].outstanding = r.state[u].outstanding,
         r2.tracked \subseteq r.tracked \cup {t}, r2.resets = r.resets
  PROVE  InStep(r2, c2)
<1> DEFINE s == c.requests
           b == Tail(s)
<1>1. /\ s \in Seq(Request) /\ b \in Seq(Request) /\ Head(s) \in Request
      /\ s[1] = Head(s) /\ Len(s) \in Nat \ {0} /\ Len(b) = Len(s) - 1
      /\ \A i \in 1..Len(b) : b[i] = s[i + 1] /\ i + 1 \in 1..Len(s)
  BY CallFields, HeadOf
<1>2. t \in Target /\ Head(s).op \in {"watch", "unwatch"}
  BY <1>1, RequestFields
<1>3. OneWatch(s) /\ LastWord(r.targets, s) /\ UnwatchedFirst(c.watched, s)
  BY DEF InStep
<1>4. Agreed(r.targets, c.watched, s) /\ Counted(r, s) /\ Settling(r, s)
  BY DEF InStep
<1>5. /\ OneWatch(b) /\ LastWord(r.targets, b)
      /\ Head(s).op = "watch" => \A i \in 1..Len(b) : b[i].op = "watch" => b[i].target # Head(s).target
      /\ Waiting(b, t) = {} => (Head(s).op = "watch") = (t \in r.targets)
  <2>1. /\ OneWatch(b) /\ LastWord(r.targets, b)
        /\ Head(s).op = "watch" => \A i \in 1..Len(b) : b[i].op = "watch" => b[i].target # Head(s).target
        /\ \A u : Head(s).target = u /\ Waiting(b, u) = {} =>
             (Head(s).op = "watch") = (u \in r.targets)
    BY <1>3, TailInStep, Zenon
  <2> HIDE DEF b
  <2> QED
    BY <2>1
<1>6. \A u : u # t => /\ Cardinality(Waiting(s, u)) = Cardinality(Waiting(b, u))
                      /\ Waiting(b, u) = {} => Waiting(s, u) = {}
  BY <1>1, WaitingOfTail
<1>7. /\ Cardinality(Waiting(s, t)) = Cardinality(Waiting(b, t)) + 1
      /\ 1 \in Waiting(s, t)
  BY <1>1, WaitingOfTail
<1>8. \A u : Waiting(s, u) = {} => Waiting(b, u) = {}
  BY <1>1, WaitingOfTail
<1>9. c2.requests = b
  OBVIOUS
<1> HIDE DEF s, b
<1>10. UnwatchedFirst(c2.watched, b)
  <2> SUFFICES ASSUME NEW i \in 1..Len(b), b[i].op = "watch", b[i].target \in c2.watched
               PROVE  \E j \in 1..Len(b) : j < i /\ b[j].target = b[i].target
    BY DEF UnwatchedFirst
  <2>1. b[i].target # t
    <3>1. CASE Head(s).op = "watch"
      BY <1>5, <3>1 DEF s
    <3>2. CASE Head(s).op = "unwatch"
      BY <3>2 DEF s
    <3> QED
      BY <1>2, <3>1, <3>2
  <2>2. i + 1 \in 1..Len(s) /\ b[i] = s[i + 1]
    BY <1>1
  <2>3. s[i + 1].target \in c.watched
    BY <2>1, <2>2
  <2>4. PICK k \in 1..Len(s) : k < i + 1 /\ s[k].target = s[i + 1].target
    BY <1>3, <2>2, <2>3 DEF UnwatchedFirst
  <2>5. k # 1
    BY <1>1, <2>1, <2>2, <2>4 DEF s
  <2>6. k - 1 \in 1..Len(b) /\ k - 1 < i /\ (k - 1) + 1 = k
    BY <1>1, <2>4, <2>5
  <2>7. b[k - 1] = s[k]
    BY <1>1, <2>6
  <2> QED
    BY <2>2, <2>4, <2>6, <2>7
<1>11. Agreed(r2.targets, c2.watched, b)
  <2> SUFFICES ASSUME NEW u \in Target, Waiting(b, u) = {}
               PROVE  (u \in c2.watched) = (u \in r.targets)
    BY DEF Agreed
  <2>1. CASE u = t
    BY <1>2, <1>5, <2>1 DEF s
  <2>2. CASE u # t
    <3>1. (u \in c2.watched) = (u \in c.watched)
      BY <2>2
    <3> QED
      BY <1>4, <1>6, <2>2, <3>1 DEF Agreed
  <2> QED
    BY <2>1, <2>2
<1>12. Counted(r2, b)
  <2> SUFFICES ASSUME NEW u \in Target
               PROVE  /\ r2.state[u].outstanding >= Cardinality(Waiting(b, u))
                      /\ u \in r.targets => r2.state[u].outstanding = Cardinality(Waiting(b, u))
    BY DEF Counted
  <2>1. /\ r.state[u].outstanding >= Cardinality(Waiting(s, u))
        /\ u \in r.targets => r.state[u].outstanding = Cardinality(Waiting(s, u))
    BY <1>4 DEF Counted
  <2>2. Cardinality(Waiting(b, u)) \in Nat /\ Cardinality(Waiting(s, u)) \in Nat
    BY <1>1, WaitingType
  <2>3. r.state[u].outstanding \in Nat
    BY RemoteFields, StateFields
  <2>4. CASE u = t
    BY <1>7, <2>1, <2>2, <2>3, <2>4
  <2>5. CASE u # t
    BY <1>6, <2>1, <2>2, <2>3, <2>5
  <2> QED
    BY <2>4, <2>5
<1>13. Settling(r2, b)
  <2>1. \A q \in Query \ r.targets : q # t
    BY <1>4, <1>7 DEF Settling
  <2>2. ASSUME NEW q \in Query \ r2.targets
        PROVE  Waiting(b, q) = {} /\ q \notin r2.tracked
    BY <1>4, <1>8, <2>1 DEF Settling
  <2>3. ASSUME NEW u \in r2.resets
        PROVE  u \in r2.targets /\ Waiting(b, u) = {}
    BY <1>4, <1>8 DEF Settling
  <2> QED
    BY <2>2, <2>3 DEF Settling
<1> QED
  BY <1>5, <1>9, <1>10, <1>11, <1>12, <1>13 DEF InStep

\* So does the refusal of a target, which the client then does not listen to.
LEMMA Refused ==
  ASSUME NEW r \in Remote, NEW c \in Call, InStep(r, c), c.requests # <<>>,
         NEW t, t = Head(c.requests).target, Head(c.requests).op = "watch", t \in r.targets,
         NEW r2 \in Remote, NEW c2 \in Call,
         c2.requests = Tail(c.requests), c2.watched = c.watched,
         r2.targets = r.targets \ {t}, r2.state[t].outstanding = 0,
         \A u \in Target \ {t} : r2.state[u].outstanding = r.state[u].outstanding,
         r2.tracked = r.tracked \ {t}, r2.resets = r.resets
  PROVE  InStep(r2, c2)
<1> DEFINE s == c.requests
           b == Tail(s)
<1>1. /\ s \in Seq(Request) /\ b \in Seq(Request) /\ Head(s) \in Request
      /\ s[1] = Head(s) /\ Len(s) \in Nat \ {0} /\ Len(b) = Len(s) - 1
      /\ \A i \in 1..Len(b) : b[i] = s[i + 1] /\ i + 1 \in 1..Len(s)
  BY CallFields, HeadOf
<1>2. t \in Target
  BY <1>1, RequestFields
<1>3. OneWatch(s) /\ LastWord(r.targets, s) /\ UnwatchedFirst(c.watched, s)
  BY DEF InStep
<1>4. Agreed(r.targets, c.watched, s) /\ Counted(r, s) /\ Settling(r, s)
  BY DEF InStep
<1>5. /\ OneWatch(b) /\ LastWord(r.targets, b)
      /\ \A i \in 1..Len(b) : b[i].op = "watch" => b[i].target # t
  BY <1>3, TailInStep
<1>6. \A u : u # t => /\ Cardinality(Waiting(s, u)) = Cardinality(Waiting(b, u))
                      /\ Waiting(b, u) = {} => Waiting(s, u) = {}
  BY <1>1, WaitingOfTail
<1>7. 1 \in Waiting(s, t)
  BY <1>1, WaitingOfTail
<1>8. \A u : Waiting(s, u) = {} => Waiting(b, u) = {}
  BY <1>1, WaitingOfTail
<1>9. c2.requests = b
  OBVIOUS
<1> HIDE DEF s, b
<1>10. Waiting(b, t) = {}
  <2> SUFFICES ASSUME Waiting(b, t) # {}
               PROVE  FALSE
    OBVIOUS
  <2> DEFINE I == {Len(b) - i : i \in Waiting(b, t)}
  <2>1. \A i \in Waiting(b, t) : i \in 1..Len(b) /\ b[i].target = t
    BY DEF Waiting
  <2>2. Len(b) \in Nat
    BY <1>1
  <2>3. I \subseteq Nat /\ I # {}
    BY <2>1, <2>2
  <2>4. PICK m \in I : \A k \in I : m <= k
    BY <2>3, Least
  <2>5. PICK i \in Waiting(b, t) : m = Len(b) - i
    OBVIOUS
  <2>6. \A j \in 1..Len(b) : i < j => b[j].target # b[i].target
    <3> SUFFICES ASSUME NEW j \in 1..Len(b), i < j, b[j].target = t
                 PROVE  FALSE
      BY <2>1
    <3>1. j \in Waiting(b, t)
      BY DEF Waiting
    <3>2. Len(b) - i <= Len(b) - j
      BY <2>4, <2>5, <3>1
    <3> QED
      BY <2>1, <2>2, <3>2
  <2> HIDE DEF I
  <2>7. b[i].op = "watch"
    BY <1>5, <2>1, <2>6 DEF LastWord
  <2> QED
    BY <1>5, <2>1, <2>7
<1>11. t \notin c.watched
  <2> SUFFICES ASSUME t \in c.watched
               PROVE  FALSE
    OBVIOUS
  <2>1. 1 \in 1..Len(s) /\ s[1].op = "watch" /\ s[1].target = t
    BY <1>1 DEF s
  <2>2. \E j \in 1..Len(s) : j < 1
    BY <1>3, <2>1 DEF UnwatchedFirst
  <2> QED
    BY <1>1, <2>2
<1>12. \A i \in 1..Len(b) : b[i].target # t
  BY <1>10 DEF Waiting
<1>13. LastWord(r2.targets, b)
  BY <1>5, <1>12 DEF LastWord
<1>14. UnwatchedFirst(c.watched, b)
  <2> SUFFICES ASSUME NEW i \in 1..Len(b), b[i].op = "watch", b[i].target \in c.watched
               PROVE  \E j \in 1..Len(b) : j < i /\ b[j].target = b[i].target
    BY DEF UnwatchedFirst
  <2>1. i + 1 \in 1..Len(s) /\ b[i] = s[i + 1]
    BY <1>1
  <2>2. PICK k \in 1..Len(s) : k < i + 1 /\ s[k].target = s[i + 1].target
    BY <1>3, <2>1 DEF UnwatchedFirst
  <2>3. k # 1
    BY <1>1, <1>12, <2>1, <2>2 DEF s
  <2>4. k - 1 \in 1..Len(b) /\ k - 1 < i /\ (k - 1) + 1 = k
    BY <1>1, <2>2, <2>3
  <2>5. b[k - 1] = s[k]
    BY <1>1, <2>4
  <2> QED
    BY <2>1, <2>2, <2>4, <2>5
<1>15. Agreed(r2.targets, c.watched, b)
  <2> SUFFICES ASSUME NEW u \in Target, Waiting(b, u) = {}
               PROVE  (u \in c.watched) = (u \in r2.targets)
    BY DEF Agreed
  <2>1. CASE u = t
    BY <1>11, <2>1
  <2>2. CASE u # t
    BY <1>4, <1>6, <2>2 DEF Agreed
  <2> QED
    BY <2>1, <2>2
<1>16. Counted(r2, b)
  <2> SUFFICES ASSUME NEW u \in Target
               PROVE  /\ r2.state[u].outstanding >= Cardinality(Waiting(b, u))
                      /\ u \in r2.targets => r2.state[u].outstanding = Cardinality(Waiting(b, u))
    BY DEF Counted
  <2>1. CASE u = t
    <3>1. Cardinality(Waiting(b, t)) = 0
      BY <1>10, FS_EmptySet, Zenon
    <3> QED
      BY <2>1, <3>1
  <2>2. CASE u # t
    BY <1>4, <1>6, <2>2 DEF Counted
  <2> QED
    BY <2>1, <2>2
<1>17. Settling(r2, b)
  <2>1. ASSUME NEW q \in Query \ r2.targets
        PROVE  Waiting(b, q) = {} /\ q \notin r2.tracked
    BY <1>4, <1>8, <1>10 DEF Settling
  <2>2. ASSUME NEW u \in r2.resets
        PROVE  u \in r2.targets /\ Waiting(b, u) = {}
    <3>1. u # t
      BY <1>4, <1>7 DEF Settling
    <3> QED
      BY <1>4, <1>8, <3>1 DEF Settling
  <2> QED
    BY <2>1, <2>2 DEF Settling
<1> QED
  BY <1>5, <1>9, <1>13, <1>14, <1>15, <1>16, <1>17 DEF InStep

-----------------------------------------------------------------------------
(* The aggregator.                                                         *)

LEMMA FreshType ==
  /\ FreshState \in TargetState /\ NoUpdate \in Update /\ NoUpdates \in [Doc -> Update]
  /\ FreshState.outstanding = 0 /\ \A d \in Doc : FreshState.docs[d] = "none"
<1>1. 0 \in Version
  BY BoundsAssumption DEF Version
<1> QED
  BY <1>1 DEF FreshState, TargetState, NoUpdate, NoUpdates, Update

\* What the aggregator does with a message that answers no request.
Kept(r, r2) ==
  /\ r2 \in Remote
  /\ r2.targets = r.targets /\ r2.stream = r.stream /\ r2.idle = r.idle
  /\ r2.tracked \subseteq r.tracked \cup r.targets
  /\ Fresh(r2)
  /\ Fits(r2, views, limbo)
  /\ \A t \in Target : r2.state[t].outstanding = r.state[t].outstanding
  /\ \A t \in r2.resets : t \in r.resets \/ (t \in r.targets /\ r.state[t].outstanding = 0)

Sound(r) == r \in Remote /\ Fresh(r) /\ Fits(r, views, limbo)

LEMMA KeysAre ==
  ASSUME NEW t
  PROVE  RemoteKeys(t) = Keys(views, limbo, t)
  BY DEF RemoteKeys, Keys

LEMMA KeptKeepsInStep ==
  ASSUME NEW r \in Remote, NEW c \in Call, InStep(r, c), NEW r2, Kept(r, r2),
         NEW c2 \in Call, c2.requests = c.requests, c2.watched = c.watched
  PROVE  InStep(r2, c2)
  BY Steady DEF Kept

LEMMA ActiveWaitsForNothing ==
  ASSUME NEW r, Sound(r), NEW t \in Target, IsActive(r, t)
  PROVE  t \in r.targets /\ r.state[t].outstanding = 0
<1>1. t \in r.targets /\ (t \in r.tracked => r.state[t].outstanding = 0)
  BY DEF IsActive, Pending
<1>2. t \notin r.tracked => r.state[t] = FreshState
  BY DEF Sound, Fresh
<1> QED
  BY <1>1, <1>2, FreshType

LEMMA KeptAgain ==
  ASSUME NEW r, NEW r1, NEW r2, Kept(r, r1), Kept(r1, r2)
  PROVE  Kept(r, r2)
<1>1. r1.resets \subseteq Target /\ r2.resets \subseteq Target
  BY RemoteFields DEF Kept, Target
<1> QED
  BY <1>1 DEF Kept

LEMMA KeptSame ==
  ASSUME NEW r, Sound(r)
  PROVE  Kept(r, r)
  BY DEF Kept, Sound

LEMMA ChangeOfDocument ==
  ASSUME NEW t \in Target, NEW s \in TargetState, NEW d \in Doc, NEW there \in BOOLEAN
  PROVE  /\ DocumentChange(t, s, d, there) \in TargetState
         /\ DocumentChange(t, s, d, there).outstanding = s.outstanding
         /\ \A e \in Doc : DocumentChange(t, s, d, there).docs[e] \in {"modified", "removed"} =>
              s.docs[e] \in {"modified", "removed"} \/ e \in RemoteKeys(t)
<1> DEFINE x == IF there THEN IF d \in RemoteKeys(t) THEN "modified" ELSE "added"
                ELSE IF d \in RemoteKeys(t) THEN "removed" ELSE "none"
<1>1. x \in {"none", "added", "modified", "removed"}
  OBVIOUS
<1>2. x \in {"modified", "removed"} => d \in RemoteKeys(t)
  OBVIOUS
<1>3. DocumentChange(t, s, d, there) = [s EXCEPT !.changed = TRUE, !.docs[d] = x]
  BY DEF DocumentChange
<1> HIDE DEF x
<1>4. [s EXCEPT !.changed = TRUE, !.docs[d] = x] \in TargetState
  BY <1>1 DEF TargetState
<1>5. [s EXCEPT !.changed = TRUE, !.docs[d] = x].outstanding = s.outstanding
  BY DEF TargetState
<1>6. \A e \in Doc : [s EXCEPT !.changed = TRUE, !.docs[d] = x].docs[e] = IF e = d THEN x ELSE s.docs[e]
  BY DEF TargetState
<1> QED
  BY <1>2, <1>3, <1>4, <1>5, <1>6

\* Some targets get a new state that waits for as many answers and fits.
LEMMA KeptWith ==
  ASSUME NEW r, Sound(r), NEW r2 \in Remote,
         r2.targets = r.targets, r2.stream = r.stream, r2.idle = r.idle,
         r2.tracked \subseteq r.tracked \cup r.targets, r.tracked \subseteq r2.tracked,
         \A t \in Target : r2.state[t] = r.state[t] \/
           /\ t \in r2.tracked
           /\ r2.state[t].outstanding = r.state[t].outstanding
           /\ \A d \in Doc : r2.state[t].docs[d] \in {"modified", "removed"} =>
                r.state[t].docs[d] \in {"modified", "removed"} \/ d \in RemoteKeys(t),
         \A t \in r2.resets : t \in r.resets \/ (t \in r.targets /\ r.state[t].outstanding = 0)
  PROVE  Kept(r, r2)
<1>1. r.targets \subseteq Target
  BY RemoteFields DEF Sound
<1>2. Fresh(r2)
  BY DEF Fresh, Sound
<1>3. Fits(r2, views, limbo)
  <2> SUFFICES ASSUME NEW t \in r.targets, NEW d \in Doc,
                      r2.state[t].docs[d] \in {"modified", "removed"}
               PROVE  d \in Keys(views, limbo, t)
    BY DEF Fits
  <2>1. r.state[t].docs[d] \in {"modified", "removed"} \/ d \in RemoteKeys(t)
    BY <1>1
  <2> QED
    BY <2>1, KeysAre DEF Fits, Sound
<1>4. \A t \in Target : r2.state[t].outstanding = r.state[t].outstanding
  OBVIOUS
<1> QED
  BY <1>2, <1>3, <1>4 DEF Kept

LEMMA HandlesDocumentChange ==
  ASSUME NEW r, Sound(r), NEW T \in SUBSET Target, NEW d \in Doc, NEW update \in Update
  PROVE  Kept(r, HandleDocumentChange(r, T, d, update))
<1> DEFINE A == {t \in T : IsActive(r, t)}
           there == update.kind = "doc"
           f == [t \in Target |-> IF t \in A THEN DocumentChange(t, r.state[t], d, there)
                                  ELSE r.state[t]]
           r2 == [r EXCEPT !.tracked = @ \cup A, !.state = f,
                           !.updates[d] = IF A = {} THEN @ ELSE update]
<1>1. HandleDocumentChange(r, T, d, update) = r2
  BY DEF HandleDocumentChange
<1>2. A \subseteq Target /\ A \subseteq r.targets /\ there \in BOOLEAN
  BY DEF IsActive
<1>3. r \in Remote /\ r.state \in [Target -> TargetState]
  BY RemoteFields DEF Sound
<1>4. \A t \in Target :
        /\ DocumentChange(t, r.state[t], d, there) \in TargetState
        /\ DocumentChange(t, r.state[t], d, there).outstanding = r.state[t].outstanding
        /\ \A e \in Doc : DocumentChange(t, r.state[t], d, there).docs[e] \in {"modified", "removed"} =>
             r.state[t].docs[e] \in {"modified", "removed"} \/ e \in RemoteKeys(t)
  <2> HIDE DEF there
  <2>1. \A t \in Target : r.state[t] \in TargetState
    BY <1>3
  <2> QED
    BY <1>2, <2>1, ChangeOfDocument, Zenon
<1>5. f \in [Target -> TargetState]
  BY <1>3, <1>4
<1>6. \A t \in Target : f[t] = IF t \in A THEN DocumentChange(t, r.state[t], d, there) ELSE r.state[t]
  OBVIOUS
<1> HIDE DEF A, there, f
<1>7. r2 \in Remote
  BY <1>2, <1>3, <1>5 DEF Remote
<1>8. /\ r2.targets = r.targets /\ r2.stream = r.stream /\ r2.idle = r.idle
      /\ r2.tracked = r.tracked \cup A /\ r2.state = f /\ r2.resets = r.resets
  BY <1>3 DEF Remote
<1> HIDE DEF r2
<1>9. Kept(r, r2)
  BY <1>2, <1>4, <1>6, <1>7, <1>8, KeptWith
<1> QED
  BY <1>1, <1>9

LEMMA WithStateIs ==
  ASSUME NEW r \in Remote, NEW t \in Target, NEW s \in TargetState
  PROVE  LET r2 == WithState(r, t, s) IN
         /\ r2 \in Remote /\ r2.targets = r.targets /\ r2.stream = r.stream /\ r2.idle = r.idle
         /\ r2.tracked = r.tracked \cup {t} /\ r2.resets = r.resets /\ r2.updates = r.updates
         /\ \A u \in Target : r2.state[u] = IF u = t THEN s ELSE r.state[u]
  BY DEF WithState, Remote

LEMMA MarksCurrent ==
  ASSUME NEW r, Sound(r), NEW t \in Target, NEW token \in Version
  PROVE  Kept(r, TargetCurrent(r, t, token))
<1>1. CASE ~IsActive(r, t)
  BY <1>1, KeptSame DEF TargetCurrent
<1>2. CASE IsActive(r, t)
  <2> DEFINE s == [r.state[t] EXCEPT !.changed = TRUE, !.current = TRUE, !.token = token]
             r2 == WithState(r, t, s)
  <2>1. r \in Remote /\ r.state[t] \in TargetState /\ t \in r.targets
    BY <1>2, RemoteFields DEF Sound, IsActive
  <2>2. s \in TargetState /\ s.outstanding = r.state[t].outstanding /\ s.docs = r.state[t].docs
    BY <2>1 DEF TargetState
  <2> HIDE DEF s
  <2>3. /\ r2 \in Remote /\ r2.targets = r.targets /\ r2.stream = r.stream /\ r2.idle = r.idle
        /\ r2.tracked = r.tracked \cup {t} /\ r2.resets = r.resets
        /\ \A u \in Target : r2.state[u] = IF u = t THEN s ELSE r.state[u]
    BY <2>1, <2>2, WithStateIs
  <2> HIDE DEF r2
  <2>4. Kept(r, r2)
    BY <2>1, <2>2, <2>3, KeptWith
  <2> QED
    BY <1>2, <2>4 DEF TargetCurrent, r2, s
<1> QED
  BY <1>1, <1>2

LEMMA Resets ==
  ASSUME NEW r, Sound(r), NEW t \in Target, IsActive(r, t)
  PROVE  Kept(r, Reset(r, t)) /\ Reset(r, t) \in Remote
<1> DEFINE s == [FreshState EXCEPT
                   !.docs = [d \in Doc |-> IF d \in RemoteKeys(t) THEN "removed" ELSE "none"]]
           r2 == WithState(r, t, s)
<1>1. r \in Remote /\ t \in r.targets /\ r.state[t].outstanding = 0
  BY ActiveWaitsForNothing DEF Sound
<1>2. /\ s \in TargetState /\ s.outstanding = 0
      /\ \A d \in Doc : s.docs[d] \in {"modified", "removed"} => d \in RemoteKeys(t)
  BY FreshType DEF TargetState
<1> HIDE DEF s
<1>3. /\ r2 \in Remote /\ r2.targets = r.targets /\ r2.stream = r.stream /\ r2.idle = r.idle
      /\ r2.tracked = r.tracked \cup {t} /\ r2.resets = r.resets
      /\ \A u \in Target : r2.state[u] = IF u = t THEN s ELSE r.state[u]
  BY <1>1, <1>2, WithStateIs
<1> HIDE DEF r2
<1>4. Kept(r, r2)
  BY <1>1, <1>2, <1>3, KeptWith
<1> QED
  BY <1>3, <1>4 DEF Reset, r2, s

LEMMA ResetsTarget ==
  ASSUME NEW r, Sound(r), NEW t \in Target
  PROVE  Kept(r, TargetReset(r, t))
  BY Resets, KeptSame DEF TargetReset

LEMMA ComparesFilter ==
  ASSUME NEW r, Sound(r), NEW t \in Target, NEW count
  PROVE  Kept(r, HandleExistenceFilter(r, t, count))
<1>1. CASE ~IsActive(r, t)
  BY <1>1, KeptSame DEF HandleExistenceFilter
<1>2. CASE IsActive(r, t) /\ t \in Query
  <2>1. CASE CurrentSize(r, t) = count
    BY <1>2, <2>1, KeptSame DEF HandleExistenceFilter
  <2>2. CASE CurrentSize(r, t) # count
    <3> DEFINE r1 == Reset(r, t)
               r2 == [r1 EXCEPT !.resets = @ \cup {t}]
    <3>1. Kept(r, r1) /\ r1 \in Remote
      BY <1>2, Resets
    <3>2. t \in r.targets /\ r.state[t].outstanding = 0
      BY <1>2, ActiveWaitsForNothing
    <3> HIDE DEF r1
    <3>3. /\ r2 \in Remote /\ r2.targets = r1.targets /\ r2.stream = r1.stream /\ r2.idle = r1.idle
          /\ r2.tracked = r1.tracked /\ r2.state = r1.state /\ r2.resets = r1.resets \cup {t}
      BY <1>2, <3>1 DEF Remote
    <3> HIDE DEF r2
    <3>4. Kept(r, r2)
      BY <3>1, <3>2, <3>3 DEF Kept, Fresh, Fits
    <3> QED
      BY <1>2, <2>2, <3>4 DEF HandleExistenceFilter, r1, r2
  <2> QED
    BY <2>1, <2>2
<1>3. CASE IsActive(r, t) /\ t \notin Query
  <2>1. CASE count # 0
    BY <1>3, <2>1, KeptSame DEF HandleExistenceFilter
  <2>2. CASE count = 0
    <3>1. t[1] \in Doc
      BY <1>3 DEF Target, LimboTarget
    <3>2. [kind |-> "purged", version |-> 0] \in Update
      BY BoundsAssumption DEF Update, Version
    <3>3. Kept(r, HandleDocumentChange(r, {t}, t[1], [kind |-> "purged", version |-> 0]))
      BY <3>1, <3>2, HandlesDocumentChange
    <3> QED
      BY <1>3, <2>2, <3>3 DEF HandleExistenceFilter
  <2> QED
    BY <2>1, <2>2
<1> QED
  BY <1>1, <1>2, <1>3

LEMMA MarksAll ==
  ASSUME NEW r, Sound(r), NEW token \in Version
  PROVE  Kept(r, AllTargetsAt(r, token))
<1> DEFINE g == [t \in Target |-> [r.state[t] EXCEPT !.changed = TRUE, !.token = token]]
           f == [t \in Target |-> IF t \in r.tracked /\ IsActive(r, t) THEN g[t] ELSE r.state[t]]
           r2 == [r EXCEPT !.state = f]
<1>1. r \in Remote /\ r.state \in [Target -> TargetState]
  BY RemoteFields DEF Sound
<1>2. \A t \in Target : /\ g[t] \in TargetState /\ g[t].outstanding = r.state[t].outstanding
                        /\ g[t].docs = r.state[t].docs
  BY <1>1 DEF TargetState
<1>3. AllTargetsAt(r, token) = r2
  BY DEF AllTargetsAt
<1> HIDE DEF g
<1>4. f \in [Target -> TargetState]
  BY <1>1, <1>2
<1>5. \A t \in Target : f[t] = IF t \in r.tracked /\ IsActive(r, t) THEN g[t] ELSE r.state[t]
  OBVIOUS
<1> HIDE DEF f
<1>6. /\ r2 \in Remote /\ r2.targets = r.targets /\ r2.stream = r.stream /\ r2.idle = r.idle
      /\ r2.tracked = r.tracked /\ r2.resets = r.resets /\ r2.state = f
  BY <1>1, <1>4 DEF Remote
<1> HIDE DEF r2
<1>7. Kept(r, r2)
  BY <1>2, <1>5, <1>6, KeptWith
<1> QED
  BY <1>3, <1>7

LEMMA Synthesizes ==
  ASSUME NEW r, Sound(r), NEW v \in Version
  PROVE  Kept(r, WithSynthesizedDeletes(r, v))
<1> DEFINE missing == {t \in LimboTarget \cap r.tracked :
                         /\ IsActive(r, t) /\ r.state[t].current
                         /\ r.updates[t[1]].kind = "none" /\ RemoteKeys(t) = {}}
           g == [t \in LimboTarget |-> DocumentChange(t, r.state[t], t[1], FALSE)]
           f == [t \in Target |-> IF t \in missing THEN DocumentChange(t, r.state[t], t[1], FALSE)
                                  ELSE r.state[t]]
           x == [kind |-> "deleted", version |-> v]
           w == [d \in Doc |-> IF \E t \in missing : t[1] = d THEN x ELSE r.updates[d]]
           r2 == [r EXCEPT !.state = f, !.updates = w]
<1>1. r \in Remote /\ r.state \in [Target -> TargetState] /\ r.updates \in [Doc -> Update]
  BY RemoteFields DEF Sound
<1>2. WithSynthesizedDeletes(r, v) = IF missing = {} THEN r ELSE r2
  BY DEF WithSynthesizedDeletes
<1>3. missing \subseteq LimboTarget /\ missing \subseteq r.tracked /\ LimboTarget \subseteq Target
  BY DEF Target
<1>4. \A t \in LimboTarget :
        /\ g[t] \in TargetState /\ g[t].outstanding = r.state[t].outstanding
        /\ \A e \in Doc : g[t].docs[e] \in {"modified", "removed"} =>
             r.state[t].docs[e] \in {"modified", "removed"} \/ e \in RemoteKeys(t)
  <2> TAKE t \in LimboTarget
  <2>1. t \in Target /\ t[1] \in Doc /\ r.state[t] \in TargetState
    BY <1>1 DEF Target, LimboTarget
  <2>2. g[t] = DocumentChange(t, r.state[t], t[1], FALSE)
    OBVIOUS
  <2> HIDE DEF g
  <2> DEFINE y == DocumentChange(t, r.state[t], t[1], FALSE)
  <2>3. /\ y \in TargetState /\ y.outstanding = r.state[t].outstanding
        /\ \A e \in Doc : y.docs[e] \in {"modified", "removed"} =>
             r.state[t].docs[e] \in {"modified", "removed"} \/ e \in RemoteKeys(t)
    BY <2>1, ChangeOfDocument, Zenon
  <2>4. g[t] = y
    BY <2>2
  <2> HIDE DEF y
  <2> QED
    BY <2>3, <2>4
<1>5. x \in Update
  BY DEF Update
<1>6. \A t \in Target : f[t] = IF t \in missing THEN g[t] ELSE r.state[t]
  BY <1>3
<1>7. DOMAIN f = Target
  OBVIOUS
<1> HIDE DEF missing, x, g
<1>8. w \in [Doc -> Update]
  BY <1>1, <1>5
<1>9. f \in [Target -> TargetState]
  <2>1. \A t \in Target : f[t] \in TargetState
    <3> HIDE DEF f
    <3> QED
      BY <1>1, <1>3, <1>4, <1>6
  <2> QED
    BY <2>1
<1> HIDE DEF f, w
<1>10. /\ r2 \in Remote /\ r2.targets = r.targets /\ r2.stream = r.stream /\ r2.idle = r.idle
       /\ r2.tracked = r.tracked /\ r2.resets = r.resets /\ r2.state = f
  BY <1>1, <1>8, <1>9 DEF Remote
<1> HIDE DEF r2
<1>11. Kept(r, r2)
  BY <1>3, <1>4, <1>6, <1>10, KeptWith
<1> QED
  BY <1>2, <1>11, KeptSame

-----------------------------------------------------------------------------
(* The database and the messages of the server.                            *)

\* What Since chooses.
LEMMA SinceIs ==
  ASSUME NEW d, NEW v \in Nat \ {0}
  PROVE  /\ Since(d, v) \in 1..v
         /\ \A k \in Since(d, v)..v : (d \in history[k]) = (d \in history[v])
         /\ Since(d, v) = 1 \/ (d \in history[Since(d, v) - 1]) # (d \in history[v])
<1> DEFINE S == {w \in 1..v : \A k \in w..v : (d \in history[k]) = (d \in history[v])}
<1>1. v \in S
  <2>1. \A k \in v..v : k = v
    OBVIOUS
  <2> QED
    BY <2>1
<1>2. PICK m \in S : \A w \in S : m <= w
  <2>1. S \subseteq Nat /\ S # {}
    BY <1>1
  <2> HIDE DEF S
  <2> QED
    BY <2>1, Least
<1>3. m = 1 \/ (d \in history[m - 1]) # (d \in history[v])
  <2> SUFFICES ASSUME m # 1, (d \in history[m - 1]) = (d \in history[v])
               PROVE  FALSE
    OBVIOUS
  <2>1. m \in 1..v /\ m - 1 \in 1..v /\ \A k \in (m - 1)..v : k = m - 1 \/ k \in m..v
    OBVIOUS
  <2>2. \A k \in m..v : (d \in history[k]) = (d \in history[v])
    OBVIOUS
  <2>3. m - 1 \in S
    BY <2>1, <2>2
  <2> HIDE DEF S
  <2>4. m <= m - 1
    BY <1>2, <2>3
  <2> QED
    BY <2>1, <2>4
<1>4. /\ m \in 1..v
      /\ \A k \in m..v : (d \in history[k]) = (d \in history[v])
      /\ m = 1 \/ (d \in history[m - 1]) # (d \in history[v])
  BY <1>3
<1> HIDE DEF S
<1> QED
  BY <1>4 DEF Since

LEMMA SinceType ==
  ASSUME NEW d, NEW v \in Nat \ {0}
  PROVE  Since(d, v) \in 1..v
  BY SinceIs

LEMMA CreatedType ==
  ASSUME NEW d, NEW v \in Version
  PROVE  Created(d, v) \in Version
<1>1. v \in Nat /\ v <= MaxVersion /\ MaxVersion \in Nat
  BY BoundsAssumption DEF Version
<1>2. CASE v = 0 \/ d \notin history[v]
  BY <1>1, <1>2 DEF Created, Version
<1>3. CASE v # 0 /\ d \in history[v]
  <2>1. Since(d, v) \in 1..v
    BY <1>1, <1>3, SinceType
  <2> QED
    BY <1>1, <1>3, <2>1 DEF Created, Version
<1> QED
  BY <1>2, <1>3

LEMMA AtType ==
  ASSUME NEW t, NEW v \in Version
  PROVE  At(t, v) \in [Doc -> Version] /\ \A d \in Doc : At(t, v)[d] \in Version
<1>1. 0 \in Version
  BY BoundsAssumption DEF Version
<1>2. \A d \in Doc : Created(d, v) \in Version
  BY CreatedType
<1> QED
  BY <1>1, <1>2 DEF At

LEMMA DocumentAtType ==
  ASSUME NEW d, NEW v \in Version, v # 0
  PROVE  DocumentAt(d, v) \in Update
<1>1. v \in Nat \ {0} /\ v <= MaxVersion /\ MaxVersion \in Nat
  BY BoundsAssumption DEF Version
<1>2. Since(d, v) \in 1..v
  BY <1>1, SinceType
<1>3. Since(d, v) \in Version
  BY <1>1, <1>2 DEF Version
<1> QED
  BY <1>3 DEF DocumentAt, Update

LEMMA NoCallType == NoCall \in Call /\ NoCall.version = 0 /\ NoCall.watched = {} /\ NoCall.requests = <<>>
<1>1. 0 \in Version
  BY BoundsAssumption DEF Version
<1>2. Nothing \in [Doc -> Version]
  BY <1>1 DEF Nothing
<1>3. <<>> \in Seq(Request)
  OBVIOUS
<1> HIDE DEF Nothing
<1> QED
  BY <1>1, <1>2, <1>3 DEF NoCall, Call

LEMMA SettledType ==
  ASSUME NEW state \in {"Unknown", "Online", "Offline"}
  PROVE  /\ Settled(state) \in OnlineState /\ Settled(state).state = state
         /\ ~Settled(state).timer /\ ~Settled(state).failed
  BY DEF Settled, OnlineState

LEMMA CallIsOpen ==
  ASSUME StreamInv, remote.stream # "open"
  PROVE  call.watched = {} /\ call.requests = <<>>
  BY NoCallType DEF StreamInv

\* A message that makes no snapshot keeps the invariant if it keeps the client
\* and the server in step.
LEMMA ReceivedKeepsIInv ==
  ASSUME IInv, remote.stream = "open",
         NEW r, NEW c, Received(r, c), Sound(r),
         r.targets = remote.targets, r.stream = "open", r.idle = remote.idle,
         c \in Call, c.version # 0, InStep(r, c)
  PROVE  IInv'
<1>1. TypeOK /\ TargetsInv /\ QueueInv /\ AssertionsHold /\ StreamInv
  BY DEF IInv
<1>2. /\ remote' = r /\ call' = c /\ online' = Settled("Online")
      /\ history' = history /\ disk' = disk /\ views' = views /\ limbo' = limbo /\ asserted' = asserted
  BY DEF Received
<1>3. TypeOK'
  BY <1>1, <1>2, SettledType DEF TypeOK, Sound
<1>4. StreamInv'
  <2>1. remote'.stream = "open" /\ call'.version # 0 /\ InStep(remote', call') /\ Fresh(remote')
    BY <1>2 DEF Sound
  <2>2. remote'.idle => remote'.targets = {}
    BY <1>1, <1>2 DEF StreamInv
  <2> QED
    BY <2>1, <2>2 DEF StreamInv
<1>5. TargetsInv'
  BY <1>1, <1>2 DEF TargetsInv
<1>6. Fits(remote, views, limbo)'
  BY <1>2 DEF Sound
<1>7. OnlineInv'
  BY <1>2, SettledType DEF OnlineInv
<1>8. QueueInv'
  BY <1>1, <1>2 DEF QueueInv
<1>9. (Refusable \subseteq Query => Asked(views, limbo))'
  BY <1>2 DEF IInv
<1>10. AssertionsHold'
  BY <1>1, <1>2 DEF AssertionsHold
<1> QED
  BY <1>3, <1>4, <1>5, <1>6, <1>7, <1>8, <1>9, <1>10 DEF IInv

LEMMA KeptMessage ==
  ASSUME IInv, remote.stream = "open", NEW r, Kept(remote, r),
         NEW c, Received(r, c), c \in Call, c.version # 0,
         c.requests = call.requests, c.watched = call.watched
  PROVE  IInv'
<1>1. remote \in Remote /\ call \in Call /\ InStep(remote, call)
  BY DEF IInv, TypeOK, StreamInv
<1>2. InStep(r, c)
  BY <1>1, KeptKeepsInStep
<1> QED
  BY <1>2, ReceivedKeepsIInv DEF Kept, Sound

LEMMA StateOfIInv ==
  ASSUME IInv
  PROVE  /\ Sound(remote) /\ remote \in Remote /\ call \in Call
         /\ remote.stream = "open" => InStep(remote, call) /\ call.version # 0
         /\ call.watched # {} \/ call.requests # <<>> => remote.stream = "open"
  BY CallIsOpen DEF IInv, TypeOK, StreamInv, Sound

LEMMA ResetsKeepIInv ==
  ASSUME IInv, NEW t \in Target, ServerResets(t)
  PROVE  IInv'
<1> DEFINE c == [call EXCEPT !.owed[t] = "none", !.have[t] = Nothing, !.current = @ \ {t}]
<1>1. Received(TargetReset(remote, t), c) /\ t \in call.watched
  BY DEF ServerResets
<1>2. /\ remote.stream = "open" /\ call.version # 0 /\ call \in Call
      /\ Kept(remote, TargetReset(remote, t))
  BY <1>1, StateOfIInv, ResetsTarget
<1>3. Nothing \in [Doc -> Version]
  BY BoundsAssumption DEF Nothing, Version
<1>4. c \in Call
  BY <1>2, <1>3 DEF Call
<1>5. c.requests = call.requests /\ c.watched = call.watched /\ c.version = call.version
  BY <1>2 DEF Call
<1> HIDE DEF c
<1> QED
  BY <1>1, <1>2, <1>4, <1>5, KeptMessage

LEMMA SendsKeepIInv ==
  ASSUME IInv, NEW d \in Doc, ServerSends(d)
  PROVE  IInv'
<1> DEFINE T == {t \in call.watched : Behind(t, d)}
           v == call.version
           g == [t \in Target |-> [call.have[t] EXCEPT ![d] = At(t, v)[d]]]
           h == [t \in Target |-> IF t \in T THEN g[t] ELSE call.have[t]]
           c == [call EXCEPT !.have = h]
           r == HandleDocumentChange(remote, T, d, DocumentAt(d, v))
<1>1. T # {} /\ Received(r, c)
  BY DEF ServerSends
<1>2. call.watched # {}
  BY <1>1
<1>3. remote.stream = "open" /\ v # 0 /\ call \in Call /\ Sound(remote)
  BY <1>2, StateOfIInv
<1>4. v \in Version /\ call.have \in [Target -> [Doc -> Version]] /\ call.watched \subseteq Target
  BY <1>3, CallFields
<1>5. DocumentAt(d, v) \in Update
  BY <1>3, <1>4, DocumentAtType
<1>6. T \in SUBSET Target
  BY <1>4
<1>7. Kept(remote, r)
  BY <1>3, <1>5, <1>6, HandlesDocumentChange
<1>8. \A t \in Target : At(t, v)[d] \in Version
  BY <1>4, AtType
<1>9. g \in [Target -> [Doc -> Version]]
  BY <1>4, <1>8
<1> HIDE DEF T, v, g
<1>10. h \in [Target -> [Doc -> Version]]
  BY <1>4, <1>9
<1> HIDE DEF h
<1>11. c \in Call /\ c.requests = call.requests /\ c.watched = call.watched /\ c.version = call.version
  BY <1>3, <1>10 DEF Call
<1> HIDE DEF c, r
<1> QED
  BY <1>1, <1>3, <1>7, <1>11, KeptMessage DEF v

LEMMA FiltersKeepIInv ==
  ASSUME IInv, NEW t \in Target, ServerFilters(t)
  PROVE  IInv'
<1> DEFINE c == [call EXCEPT !.owed[t] = "none"]
           count == Cardinality({d \in Doc : call.have[t][d] # 0})
           r == HandleExistenceFilter(remote, t, count)
<1>1. Received(r, c) /\ t \in call.watched
  BY DEF ServerFilters, Complete
<1>2. remote.stream = "open" /\ call.version # 0 /\ call \in Call /\ Sound(remote)
  BY <1>1, StateOfIInv
<1> HIDE DEF count
<1>3. Kept(remote, r)
  BY <1>2, ComparesFilter
<1>4. c \in Call /\ c.requests = call.requests /\ c.watched = call.watched /\ c.version = call.version
  BY <1>2 DEF Call
<1> HIDE DEF c, r
<1> QED
  BY <1>1, <1>2, <1>3, <1>4, KeptMessage

LEMMA CurrentKeepsIInv ==
  ASSUME IInv, NEW t \in Target, ServerCurrent(t)
  PROVE  IInv'
<1> DEFINE c == [call EXCEPT !.current = @ \cup {t}]
           r == TargetCurrent(remote, t, call.version)
<1>1. Received(r, c) /\ t \in call.watched
  BY DEF ServerCurrent, Complete
<1>2. remote.stream = "open" /\ call.version # 0 /\ call \in Call /\ Sound(remote)
  BY <1>1, StateOfIInv
<1>3. Kept(remote, r)
  BY <1>2, CallFields, MarksCurrent
<1>4. c \in Call /\ c.requests = call.requests /\ c.watched = call.watched /\ c.version = call.version
  BY <1>2 DEF Call
<1> HIDE DEF c, r
<1> QED
  BY <1>1, <1>2, <1>3, <1>4, KeptMessage

LEMMA ReadsKeepIInv ==
  ASSUME IInv, ServerReads
  PROVE  IInv'
<1>1. PICK v \in (call.version + 1)..Now : call' = [call EXCEPT !.version = v]
  BY DEF ServerReads
<1>2. remote.stream = "open" /\ UNCHANGED <<history, disk, views, limbo, remote, online, asserted>>
  BY DEF ServerReads
<1>3. call \in Call /\ remote \in Remote /\ InStep(remote, call) /\ Sound(remote)
  BY <1>2, StateOfIInv
<1>4. v \in Version /\ v # 0
  <2>1. call.version \in Nat /\ Now \in Nat /\ Now <= MaxVersion
    BY <1>3, CallFields, BoundsAssumption DEF IInv, TypeOK, Version, Now
  <2> QED
    BY <2>1, BoundsAssumption DEF Version
<1>5. /\ call' \in Call /\ call'.requests = call.requests /\ call'.watched = call.watched
      /\ call'.version = v
  BY <1>1, <1>3, <1>4 DEF Call
<1>6. Kept(remote, remote)
  BY <1>3, KeptSame
<1>7. InStep(remote, call')
  BY <1>3, <1>5, <1>6, KeptKeepsInStep
<1>8. TypeOK'
  BY <1>2, <1>5 DEF IInv, TypeOK
<1>9. StreamInv'
  BY <1>2, <1>4, <1>5, <1>7 DEF IInv, StreamInv
<1>10. TargetsInv' /\ OnlineInv' /\ AssertionsHold'
  BY <1>2 DEF IInv, TargetsInv, OnlineInv, AssertionsHold
<1>11. QueueInv'
  BY <1>2 DEF IInv, QueueInv
<1>12. Fits(remote, views, limbo)'
  BY <1>2 DEF IInv
<1>13. (Refusable \subseteq Query => Asked(views, limbo))'
  BY <1>2 DEF IInv
<1> QED
  BY <1>8, <1>9, <1>10, <1>11, <1>12, <1>13 DEF IInv

LEMMA RespondedType ==
  ASSUME NEW s \in TargetState, s.outstanding > 0
  PROVE  /\ Responded(s) \in TargetState /\ Responded(s).outstanding = s.outstanding - 1
         /\ Responded(s).docs = s.docs
<1>1. s.outstanding - 1 \in Nat
  BY StateFields
<1> QED
  BY <1>1 DEF Responded, TargetState

\* The answer to a watch or an unwatch of t.
LEMMA Adds ==
  ASSUME NEW r, Sound(r), NEW t \in Target, r.state[t].outstanding > 0
  PROVE  LET r2 == TargetAdded(r, t) IN
         /\ Sound(r2) /\ r2.targets = r.targets /\ r2.stream = r.stream /\ r2.idle = r.idle
         /\ r2.tracked = r.tracked \cup {t} /\ r2.resets = r.resets
         /\ r2.state[t].outstanding = r.state[t].outstanding - 1
         /\ \A u \in Target \ {t} : r2.state[u] = r.state[u]
<1> DEFINE s == Responded(r.state[t])
           x == IF s.outstanding # 0 THEN s ELSE [s EXCEPT !.changed = FALSE, !.docs = FreshState.docs]
           r2 == WithState(r, t, x)
<1>1. r \in Remote /\ r.state[t] \in TargetState
  BY RemoteFields DEF Sound
<1>2. /\ s \in TargetState /\ s.outstanding = r.state[t].outstanding - 1
      /\ s.docs = r.state[t].docs
  BY <1>1, RespondedType
<1> HIDE DEF s
<1>3. x \in TargetState /\ x.outstanding = s.outstanding /\ x.docs \in {s.docs, FreshState.docs}
  BY <1>2, FreshType DEF TargetState
<1> HIDE DEF x
<1>4. /\ r2 \in Remote /\ r2.targets = r.targets /\ r2.stream = r.stream /\ r2.idle = r.idle
      /\ r2.tracked = r.tracked \cup {t} /\ r2.resets = r.resets
      /\ \A u \in Target : r2.state[u] = IF u = t THEN x ELSE r.state[u]
  BY <1>1, <1>3, WithStateIs
<1>5. TargetAdded(r, t) = r2
  BY DEF TargetAdded, x, s
<1> HIDE DEF r2
<1>6. Fits(r2, views, limbo)
  <2>1. r.targets \subseteq Target
    BY <1>1, RemoteFields
  <2>2. \A u \in Target : \A d \in Doc :
          r2.state[u].docs[d] \in {"modified", "removed"} => r2.state[u].docs[d] = r.state[u].docs[d]
    BY <1>2, <1>3, <1>4, FreshType
  <2> QED
    BY <1>4, <2>1, <2>2 DEF Fits, Sound
<1>7. Fresh(r2)
  BY <1>4 DEF Fresh, Sound
<1> QED
  BY <1>2, <1>3, <1>4, <1>5, <1>6, <1>7 DEF Sound

LEMMA Removes ==
  ASSUME NEW r, Sound(r), NEW t \in Target, r.state[t].outstanding > 0
  PROVE  LET r2 == TargetRemoved(r, t) IN
         /\ Sound(r2) /\ r2.targets = r.targets /\ r2.stream = r.stream /\ r2.idle = r.idle
         /\ r2.tracked \subseteq r.tracked \cup {t} /\ r2.resets = r.resets
         /\ r2.state[t].outstanding = r.state[t].outstanding - 1
         /\ \A u \in Target \ {t} : r2.state[u] = r.state[u]
<1> DEFINE s == Responded(r.state[t])
           x == IF s.outstanding # 0 THEN s ELSE FreshState
           r2 == TargetRemoved(r, t)
<1>1. r \in Remote /\ r.state[t] \in TargetState
  BY RemoteFields DEF Sound
<1>2. /\ s \in TargetState /\ s.outstanding = r.state[t].outstanding - 1
      /\ s.docs = r.state[t].docs
  BY <1>1, RespondedType
<1>3. r2 = IF s.outstanding # 0 THEN WithState(r, t, s) ELSE WithoutState(r, t)
  BY DEF TargetRemoved
<1> HIDE DEF s, r2
<1>4. /\ r2 \in Remote /\ r2.targets = r.targets /\ r2.stream = r.stream /\ r2.idle = r.idle
      /\ r2.tracked = (IF s.outstanding # 0 THEN r.tracked \cup {t} ELSE r.tracked \ {t})
      /\ r2.resets = r.resets
      /\ \A u \in Target : r2.state[u] = IF u = t THEN x ELSE r.state[u]
  <2>1. CASE s.outstanding # 0
    BY <1>1, <1>2, <1>3, <2>1, WithStateIs
  <2>2. CASE s.outstanding = 0
    BY <1>1, <1>3, <2>2, FreshType DEF WithoutState, Remote
  <2> QED
    BY <2>1, <2>2
<1>5. x.outstanding = s.outstanding /\ (x = s \/ x = FreshState)
  BY FreshType
<1>6. Fresh(r2)
  BY <1>4 DEF Fresh, Sound
<1> HIDE DEF x
<1>7. Fits(r2, views, limbo)
  <2>1. r.targets \subseteq Target
    BY <1>1, RemoteFields
  <2>2. \A u \in Target : \A d \in Doc :
          r2.state[u].docs[d] \in {"modified", "removed"} => r2.state[u].docs[d] = r.state[u].docs[d]
    BY <1>2, <1>4, <1>5, FreshType
  <2> QED
    BY <1>4, <2>1, <2>2 DEF Fits, Sound
<1> QED
  BY <1>2, <1>4, <1>5, <1>6, <1>7 DEF Sound, r2

\* A request under way is waited for.
LEMMA HeadIsWaitedFor ==
  ASSUME IInv, NEW op, NEW t \in Target, Serves(op, t)
  PROVE  /\ remote.stream = "open" /\ call.requests # <<>> /\ Head(call.requests) \in Request
         /\ Head(call.requests).op = op /\ Head(call.requests).target = t
         /\ call \in Call /\ remote \in Remote /\ InStep(remote, call) /\ call.version # 0
         /\ remote.state[t].outstanding \in Nat \ {0}
         /\ Served(call) \in Call /\ Served(call) = [call EXCEPT !.requests = Tail(@)]
         /\ Tail(call.requests) \in Seq(Request)
<1>1. /\ remote.stream = "open" /\ call.requests # <<>>
      /\ Head(call.requests).op = op /\ Head(call.requests).target = t
  BY DEF Serves
<1>2. call \in Call /\ remote \in Remote /\ InStep(remote, call) /\ call.version # 0
  BY <1>1, StateOfIInv
<1>3. call.requests \in Seq(Request)
  BY <1>2, CallFields
<1>4. Cardinality(Waiting(call.requests, t)) > 0
  <2>1. 1 \in Waiting(call.requests, t)
    BY <1>1, <1>3, WaitingOfTail
  <2> QED
    BY <1>3, <2>1, WaitingType
<1>5. remote.state[t].outstanding >= Cardinality(Waiting(call.requests, t))
  BY <1>2 DEF InStep, Counted
<1>6. remote.state[t].outstanding \in Nat /\ Cardinality(Waiting(call.requests, t)) \in Nat
  BY <1>2, <1>3, RemoteFields, StateFields, WaitingType
<1>7. Head(call.requests) \in Request /\ Tail(call.requests) \in Seq(Request)
  BY <1>1, <1>3
<1>8. Served(call) \in Call /\ Served(call) = [call EXCEPT !.requests = Tail(@)]
  BY <1>2, <1>7 DEF Served, Call
<1> QED
  BY <1>1, <1>2, <1>4, <1>5, <1>6, <1>7, <1>8

LEMMA AddsKeepIInv ==
  ASSUME IInv, NEW t \in Target, ServerAdds(t)
  PROVE  IInv'
<1> DEFINE token == Head(call.requests).token
           v == IF call.version > token THEN call.version ELSE token
           have(owed) == [d \in Doc |-> IF owed = "filter" /\ At(t, v)[d] = 0 THEN 0 ELSE At(t, token)[d]]
           c(owed) == [Served(call) EXCEPT
                         !.version = v, !.watched = @ \cup {t}, !.owed[t] = owed,
                         !.have[t] = have(owed)]
           r == TargetAdded(remote, t)
<1>1. Serves("watch", t)
      /\ \E owed \in IF token = 0 THEN {"none"} ELSE {"none", "filter", "reset"} :
           Received(r, c(owed))
  BY DEF ServerAdds
<1>2. PICK owed \in {"none", "filter", "reset"} : Received(r, c(owed))
  BY <1>1
<1>3. /\ remote.stream = "open" /\ call.requests # <<>> /\ Head(call.requests) \in Request
      /\ Head(call.requests).op = "watch" /\ Head(call.requests).target = t
      /\ call \in Call /\ remote \in Remote /\ InStep(remote, call) /\ call.version # 0
      /\ remote.state[t].outstanding \in Nat \ {0}
      /\ Served(call) \in Call /\ Served(call) = [call EXCEPT !.requests = Tail(@)]
  BY <1>1, HeadIsWaitedFor
<1>4. token \in Version /\ call.version \in Version
  BY <1>3, RequestFields, CallFields
<1>5. v \in Version /\ v # 0
  BY <1>3, <1>4, BoundsAssumption DEF Version
<1>6. have(owed) \in [Doc -> Version]
  <2>1. \A d \in Doc : At(t, token)[d] \in Version
    BY <1>4, AtType
  <2>2. 0 \in Version
    BY BoundsAssumption DEF Version
  <2> QED
    BY <2>1, <2>2
<1>7. /\ r \in Remote /\ Sound(r) /\ r.targets = remote.targets /\ r.stream = remote.stream
      /\ r.idle = remote.idle /\ r.tracked = remote.tracked \cup {t} /\ r.resets = remote.resets
      /\ r.state[t].outstanding = remote.state[t].outstanding - 1
      /\ \A u \in Target \ {t} : r.state[u] = remote.state[u]
  BY <1>3, StateOfIInv, Adds DEF Sound
<1> HIDE DEF have, v, token
<1>8. /\ c(owed) \in Call /\ c(owed).version = v /\ c(owed).watched = call.watched \cup {t}
      /\ c(owed).requests = Tail(call.requests)
  <2>1. [Served(call) EXCEPT !.version = v, !.watched = @ \cup {t}, !.owed[t] = owed,
                             !.have[t] = have(owed)] \in Call
    BY <1>3, <1>5, <1>6 DEF Call
  <2> QED
    BY <1>3, <2>1 DEF Call
<1> HIDE DEF c, r
<1>9. InStep(r, c(owed))
  BY <1>3, <1>7, <1>8, Answered
<1> QED
  BY <1>2, <1>3, <1>5, <1>7, <1>8, <1>9, ReceivedKeepsIInv

LEMMA RemovesKeepIInv ==
  ASSUME IInv, NEW t \in Target, ServerRemoves(t)
  PROVE  IInv'
<1> DEFINE c == [Served(call) EXCEPT !.watched = @ \ {t}, !.current = @ \ {t},
                                     !.owed[t] = "none", !.have[t] = Nothing]
           r == TargetRemoved(remote, t)
<1>1. Serves("unwatch", t) /\ Received(r, c)
  BY DEF ServerRemoves
<1>2. /\ remote.stream = "open" /\ call.requests # <<>> /\ Head(call.requests) \in Request
      /\ Head(call.requests).op = "unwatch" /\ Head(call.requests).target = t
      /\ call \in Call /\ remote \in Remote /\ InStep(remote, call) /\ call.version # 0
      /\ remote.state[t].outstanding \in Nat \ {0}
      /\ Served(call) \in Call /\ Served(call) = [call EXCEPT !.requests = Tail(@)]
  BY <1>1, HeadIsWaitedFor
<1>3. Nothing \in [Doc -> Version]
  BY BoundsAssumption DEF Nothing, Version
<1>4. /\ r \in Remote /\ Sound(r) /\ r.targets = remote.targets /\ r.stream = remote.stream
      /\ r.idle = remote.idle /\ r.tracked \subseteq remote.tracked \cup {t}
      /\ r.resets = remote.resets
      /\ r.state[t].outstanding = remote.state[t].outstanding - 1
      /\ \A u \in Target \ {t} : r.state[u] = remote.state[u]
  BY <1>2, StateOfIInv, Removes DEF Sound
<1> HIDE DEF Nothing
<1>5. /\ c \in Call /\ c.version = call.version /\ c.watched = call.watched \ {t}
      /\ c.requests = Tail(call.requests)
  <2>1. c \in Call
    BY <1>2, <1>3 DEF Call
  <2> QED
    BY <1>2, <2>1 DEF Call
<1> HIDE DEF c, r
<1>6. InStep(r, c)
  BY <1>2, <1>4, <1>5, Answered
<1> QED
  BY <1>1, <1>2, <1>4, <1>5, <1>6, ReceivedKeepsIInv

-----------------------------------------------------------------------------
(* Tasks of the client that make no snapshot.                              *)

LEMMA DocsType ==
  ASSUME NEW q \in Query, NEW cache
  PROVE  Docs(q, cache) \subseteq Doc
  BY MatchesAssumption DEF Docs

LEMMA Raises ==
  ASSUME NEW vw \in Views, NEW cache, NEW state
  PROVE  /\ Raise(vw, cache, state) \in Views
         /\ Raise(vw, cache, state).listening = vw.listening
         /\ Raise(vw, cache, state).limbo = vw.limbo
         /\ Raise(vw, cache, state).synced = vw.synced
<1> DEFINE first == {q \in vw.listening : Synced(vw, q) \/ Docs(q, cache) # {} \/ state = "Offline"}
           raised == vw.raised \cup first
           shown == [q \in Query |-> IF q \in raised \cap vw.listening THEN Docs(q, cache)
                                     ELSE vw.shown[q]]
<1>1. Raise(vw, cache, state) = [vw EXCEPT !.raised = raised, !.shown = shown]
  BY DEF Raise
<1>2. vw.listening \subseteq Query /\ vw.raised \subseteq Query /\ vw.shown \in [Query -> SUBSET Doc]
  BY DEF Views
<1>3. raised \subseteq Query
  BY <1>2
<1> HIDE DEF raised
<1>4. shown \in [Query -> SUBSET Doc]
  BY <1>2, DocsType
<1> HIDE DEF shown
<1> QED
  BY <1>1, <1>3, <1>4 DEF Views

LEMMA GoesOnlineKeepsViews ==
  ASSUME views \in Views, NEW o, GoesOnline(o)
  PROVE  /\ views' \in Views /\ views'.listening = views.listening /\ views'.limbo = views.limbo
         /\ views'.synced = views.synced /\ online' = o
<1> DEFINE vw == WithOnlineState(views, o.state)
<1>1. vw \in Views /\ vw.listening = views.listening /\ vw.limbo = views.limbo /\ vw.synced = views.synced
  BY DEF WithOnlineState, Views
<1>2. views' = Raise(vw, disk.cache, o.state) /\ online' = o
  BY DEF GoesOnline
<1> HIDE DEF vw
<1> QED
  BY <1>1, <1>2, Raises

LEMMA CleanedIs ==
  ASSUME NEW r \in Remote, NEW stream \in {"off", "starting"}
  PROVE  LET r2 == Cleaned(r, stream) IN
         /\ r2 \in Remote /\ r2.targets = r.targets /\ r2.stream = stream /\ ~r2.idle
         /\ r2.tracked = {} /\ r2.resets = {} /\ Fresh(r2)
         /\ \A t \in Target : r2.state[t] = FreshState
  BY FreshType DEF Cleaned, Remote, Fresh

LEMMA NothingToFit ==
  ASSUME NEW r \in Remote, \A t \in Target : r.state[t] = FreshState, NEW vw, NEW lb
  PROVE  Fits(r, vw, lb)
  BY FreshType, RemoteFields DEF Fits

LEMMA KeysDependOn ==
  ASSUME NEW vw, NEW vw2, NEW lb, vw2.listening = vw.listening, vw2.synced = vw.synced
  PROVE  \A r : Fits(r, vw, lb) = Fits(r, vw2, lb)
  BY DEF Fits, Keys

LEMMA DoubtDependsOn ==
  ASSUME NEW vw, NEW vw2, vw2.limbo = vw.limbo
  PROVE  InDoubt(vw2) = InDoubt(vw)
  BY DEF InDoubt

\* The stream is closed, perhaps to start again.
LEMMA ClosesKeepIInv ==
  ASSUME IInv, NEW stream \in {"off", "starting"}, NEW o \in OnlineState,
         o.timer => o.state = "Unknown" /\ stream # "off",
         call' = NoCall, remote' = Cleaned(remote, stream), GoesOnline(o),
         asserted' = TRUE, UNCHANGED <<history, disk, limbo>>
  PROVE  IInv'
<1>1. /\ TypeOK /\ TargetsInv /\ QueueInv /\ remote \in Remote /\ views \in Views
  BY DEF IInv, TypeOK
<1>2. /\ views' \in Views /\ views'.listening = views.listening /\ views'.limbo = views.limbo
      /\ views'.synced = views.synced /\ online' = o
  BY <1>1, GoesOnlineKeepsViews
<1>3. /\ remote' \in Remote /\ remote'.targets = remote.targets /\ remote'.stream = stream
      /\ ~remote'.idle /\ remote'.tracked = {} /\ remote'.resets = {} /\ Fresh(remote')
      /\ \A t \in Target : remote'.state[t] = FreshState
  BY <1>1, CleanedIs
<1>4. TypeOK'
  BY <1>1, <1>2, <1>3, NoCallType DEF TypeOK
<1>5. StreamInv'
  BY <1>3 DEF StreamInv
<1>6. TargetsInv'
  BY <1>1, <1>2, <1>3 DEF TargetsInv
<1>7. Fits(remote, views, limbo)'
  BY <1>3, NothingToFit
<1>8. OnlineInv'
  BY <1>2, <1>3 DEF OnlineInv
<1>9. InDoubt(views') = InDoubt(views)
  BY <1>2, DoubtDependsOn
<1>10. QueueInv'
  BY <1>1, <1>9 DEF QueueInv
<1>11. (Refusable \subseteq Query => Asked(views, limbo))'
  BY <1>9 DEF IInv, Asked
<1>12. AssertionsHold'
  BY DEF AssertionsHold
<1> QED
  BY <1>4, <1>5, <1>6, <1>7, <1>8, <1>10, <1>11, <1>12 DEF IInv

LEMMA OnlineFields ==
  ASSUME NEW o \in OnlineState
  PROVE  o.state \in {"Unknown", "Online", "Offline"} /\ o.failed \in BOOLEAN /\ o.timer \in BOOLEAN
  BY DEF OnlineState

LEMMA StartedType ==
  ASSUME NEW o \in OnlineState, o.timer => o.state = "Unknown"
  PROVE  Started(o) \in OnlineState /\ (Started(o).timer => Started(o).state = "Unknown")
  BY DEF Started, OnlineState

LEMMA FailedType ==
  ASSUME NEW o \in OnlineState, o.timer => o.state = "Unknown"
  PROVE  Failed(o) \in OnlineState /\ (Failed(o).timer => Failed(o).state = "Unknown")
  BY DEF Failed, OnlineState

LEMMA BreaksKeepIInv ==
  ASSUME IInv, CallBreaks
  PROVE  IInv'
<1>1. online \in OnlineState /\ (online.timer => online.state = "Unknown") /\ asserted
  BY DEF IInv, TypeOK, OnlineInv, AssertionsHold
<1>2. CASE remote.targets # {}
  <2>1. Started(Failed(online)) \in OnlineState
        /\ (Started(Failed(online)).timer => Started(Failed(online)).state = "Unknown")
    BY <1>1, FailedType, StartedType
  <2>2. asserted'
    BY <1>1, <1>2 DEF CallBreaks
  <2> QED
    BY <1>1, <1>2, <2>1, <2>2, ClosesKeepIInv DEF CallBreaks
<1>3. CASE remote.targets = {}
  BY <1>1, <1>3, SettledType, ClosesKeepIInv DEF CallBreaks
<1> QED
  BY <1>2, <1>3

LEMMA RestartKeepsIInv ==
  ASSUME IInv, RestartNetwork
  PROVE  IInv'
<1>1. asserted
  BY DEF IInv, AssertionsHold
<1>2. /\ Settled("Unknown") \in OnlineState /\ ~Settled("Unknown").timer
      /\ Started(Settled("Unknown")) \in OnlineState
      /\ Started(Settled("Unknown")).timer => Started(Settled("Unknown")).state = "Unknown"
  BY SettledType, StartedType
<1>3. CASE remote.targets # {}
  BY <1>1, <1>2, <1>3, ClosesKeepIInv DEF RestartNetwork
<1>4. CASE remote.targets = {}
  BY <1>1, <1>2, <1>4, ClosesKeepIInv DEF RestartNetwork
<1> QED
  BY <1>3, <1>4

LEMMA IdleKeepsIInv ==
  ASSUME IInv, IdleTimeout
  PROVE  IInv'
<1>1. asserted /\ remote.targets = {}
  BY DEF IInv, AssertionsHold, StreamInv, IdleTimeout
<1>2. Settled("Unknown") \in OnlineState /\ ~Settled("Unknown").timer
  BY SettledType
<1> QED
  BY <1>1, <1>2, ClosesKeepIInv DEF IdleTimeout

LEMMA TimeoutKeepsIInv ==
  ASSUME IInv, OnlineTimeout
  PROVE  IInv'
<1> DEFINE o == [online EXCEPT !.state = "Offline", !.timer = FALSE]
<1>1. /\ TypeOK /\ StreamInv /\ TargetsInv /\ QueueInv /\ asserted /\ online.state = "Unknown"
  BY DEF IInv, OnlineTimeout, OnlineInv, AssertionsHold
<1>2. /\ online \in OnlineState /\ views \in Views
  BY <1>1 DEF TypeOK
<1>3. o \in OnlineState /\ ~o.timer
  BY <1>2 DEF OnlineState
<1>4. GoesOnline(o) /\ asserted' /\ UNCHANGED <<history, call, disk, limbo, remote>>
  BY <1>1 DEF OnlineTimeout
<1> HIDE DEF o
<1>5. /\ views' \in Views /\ views'.listening = views.listening /\ views'.limbo = views.limbo
      /\ views'.synced = views.synced /\ online' = o
  BY <1>2, <1>4, GoesOnlineKeepsViews
<1>6. TypeOK'
  BY <1>1, <1>3, <1>4, <1>5 DEF TypeOK
<1>7. StreamInv' /\ TargetsInv'
  BY <1>1, <1>4, <1>5 DEF StreamInv, TargetsInv
<1>8. Fits(remote, views, limbo)'
  BY <1>4, <1>5, KeysDependOn DEF IInv
<1>9. OnlineInv' /\ AssertionsHold'
  BY <1>3, <1>4, <1>5 DEF OnlineInv, AssertionsHold
<1>10. InDoubt(views') = InDoubt(views)
  BY <1>5, DoubtDependsOn
<1>11. QueueInv'
  BY <1>1, <1>4, <1>10 DEF QueueInv
<1>12. (Refusable \subseteq Query => Asked(views, limbo))'
  BY <1>4, <1>10 DEF IInv, Asked
<1> QED
  BY <1>6, <1>7, <1>8, <1>9, <1>11, <1>12 DEF IInv

\* Nothing of the client is there yet, or any more.
LEMMA NothingThere ==
  /\ NoViews \in Views /\ NoViews.listening = {} /\ InDoubt(NoViews) = {}
  /\ NoLimbo \in Limbo /\ NoLimbo.active = {} /\ NoLimbo.enqueued = <<>>
  /\ Cardinality(NoLimbo.active) = 0
  /\ NoRemote \in Remote /\ NoRemote.targets = {} /\ NoRemote.stream = "off" /\ ~NoRemote.idle
  /\ NoRemote.tracked = {} /\ NoRemote.resets = {} /\ Fresh(NoRemote)
  /\ Fits(NoRemote, NoViews, NoLimbo)
<1>1. 0 \in Version
  BY BoundsAssumption DEF Version
<1>2. NoViews \in Views /\ NoViews.listening = {} /\ \A q \in Query : NoViews.limbo[q] = {}
  BY <1>1 DEF NoViews, Views
<1>3. /\ NoLimbo \in Limbo /\ NoLimbo.active = {} /\ NoLimbo.enqueued = <<>>
  BY DEF NoLimbo, Limbo
<1>4. Cardinality(NoLimbo.active) = 0
  BY <1>3, FS_EmptySet, Zenon
<1>5. /\ NoRemote \in Remote /\ NoRemote.targets = {} /\ NoRemote.stream = "off" /\ ~NoRemote.idle
      /\ NoRemote.tracked = {} /\ NoRemote.resets = {} /\ \A t \in Target : NoRemote.state[t] = FreshState
  BY <1>1, FreshType DEF NoRemote, Remote
<1>6. Fits(NoRemote, NoViews, NoLimbo)
  BY <1>5, NothingToFit
<1> QED
  BY <1>2, <1>3, <1>4, <1>5, <1>6 DEF InDoubt, Fresh

LEMMA InitIInv ==
  ASSUME Init
  PROVE  IInv
<1>1. call = NoCall /\ views = NoViews /\ limbo = NoLimbo /\ remote = NoRemote /\ asserted = TRUE
  BY DEF Init
<1>2. online \in OnlineState /\ ~online.timer
  BY SettledType DEF Init
<1>3. 0 \in Version
  BY BoundsAssumption DEF Version
<1>4. disk \in Disk
  BY <1>3, FreshType DEF Init, Disk
<1>5. history \in Seq(SUBSET Doc) /\ Len(history) \in 1..MaxVersion
  <2>1. PICK S \in SUBSET Doc : history = <<S>>
    BY DEF Init
  <2>2. 1 \in 1..MaxVersion
    BY BoundsAssumption
  <2> QED
    BY <2>1, <2>2
<1>6. TypeOK
  BY <1>1, <1>2, <1>4, <1>5, NothingThere, NoCallType DEF TypeOK
<1>7. StreamInv
  BY <1>1, NothingThere DEF StreamInv
<1>8. TargetsInv
  BY <1>1, NothingThere DEF TargetsInv
<1>9. QueueInv
  BY <1>1, NothingThere, BoundsAssumption DEF QueueInv
<1>10. Fits(remote, views, limbo) /\ OnlineInv /\ AssertionsHold
  BY <1>1, <1>2, NothingThere DEF OnlineInv, AssertionsHold
<1>11. Refusable \subseteq Query => Asked(views, limbo)
  BY <1>1, NothingThere DEF Asked
<1> QED
  BY <1>6, <1>7, <1>8, <1>9, <1>10, <1>11 DEF IInv

LEMMA RelaunchKeepsIInv ==
  ASSUME IInv, Relaunch
  PROVE  IInv'
<1>1. /\ call' = NoCall /\ views' = NoViews /\ limbo' = NoLimbo /\ remote' = NoRemote
      /\ online' = Settled("Unknown") /\ UNCHANGED <<history, disk, asserted>>
  BY DEF Relaunch
<1>2. TypeOK'
  BY <1>1, NothingThere, NoCallType, SettledType DEF IInv, TypeOK
<1>3. StreamInv'
  BY <1>1, NothingThere DEF StreamInv
<1>4. TargetsInv'
  BY <1>1, NothingThere DEF TargetsInv
<1>5. QueueInv'
  BY <1>1, NothingThere, BoundsAssumption DEF QueueInv
<1>6. Fits(remote, views, limbo)' /\ OnlineInv' /\ AssertionsHold'
  BY <1>1, NothingThere, SettledType DEF OnlineInv, AssertionsHold, IInv
<1>7. (Refusable \subseteq Query => Asked(views, limbo))'
  BY <1>1, NothingThere DEF Asked
<1> QED
  BY <1>2, <1>3, <1>4, <1>5, <1>6, <1>7 DEF IInv

LEMMA ChangesKeepIInv ==
  ASSUME IInv, NEW d \in Doc, DatabaseChanges(d)
  PROVE  IInv'
<1>1. /\ Now < MaxVersion /\ UNCHANGED <<call, disk, views, limbo, remote, online, asserted>>
      /\ history' = Append(history, IF d \in history[Now] THEN history[Now] \ {d}
                                    ELSE history[Now] \cup {d})
  BY DEF DatabaseChanges
<1>2. history \in Seq(SUBSET Doc) /\ Len(history) \in 1..MaxVersion /\ MaxVersion \in Nat
  BY BoundsAssumption DEF IInv, TypeOK
<1>3. history[Now] \in SUBSET Doc
  BY <1>2 DEF Now
<1>4. history' \in Seq(SUBSET Doc) /\ Len(history') = Len(history) + 1
  BY <1>1, <1>2, <1>3
<1>5. TypeOK'
  BY <1>1, <1>2, <1>4 DEF IInv, TypeOK, Now
<1>6. StreamInv' /\ TargetsInv' /\ OnlineInv' /\ AssertionsHold'
  BY <1>1 DEF IInv, StreamInv, TargetsInv, OnlineInv, AssertionsHold
<1>7. QueueInv' /\ Fits(remote, views, limbo)'
  BY <1>1 DEF IInv, QueueInv
<1>8. (Refusable \subseteq Query => Asked(views, limbo))'
  BY <1>1 DEF IInv
<1> QED
  BY <1>5, <1>6, <1>7, <1>8 DEF IInv

-----------------------------------------------------------------------------
(* Requests of a task.                                                     *)

\* The watches of W and the unwatches of U that are not watched again, in any
\* order.
LEMMA AsksOfArrangement ==
  ASSUME NEW U \in SUBSET Target, NEW W \in SUBSET Target, U \cap W = {},
         NEW token \in [Target -> Version],
         NEW b \in SetToSeqs({Unwatch(t) : t \in U} \cup {Watch(t, token[t]) : t \in W})
  PROVE  Asks(b, U, W)
<1> DEFINE R == {Unwatch(t) : t \in U} \cup {Watch(t, token[t]) : t \in W}
           f == [t \in U |-> Unwatch(t)]
           g == [t \in W |-> Watch(t, token[t])]
           A == {Unwatch(t) : t \in U}
           B == {Watch(t, token[t]) : t \in W}
<1>1. IsFiniteSet(U) /\ IsFiniteSet(W)
  BY TargetsFinite, FS_Subset
<1>2. IsFiniteSet(A)
  <2>1. f \in [U -> A] /\ \A y \in A : \E x \in U : f[x] = y
    OBVIOUS
  <2> HIDE DEF f, A
  <2> QED
    BY <1>1, <2>1, ImageIsFinite
<1>3. IsFiniteSet(B)
  <2>1. g \in [W -> B] /\ \A y \in B : \E x \in W : g[x] = y
    OBVIOUS
  <2> HIDE DEF g, B
  <2> QED
    BY <1>1, <2>1, ImageIsFinite
<1>4. IsFiniteSet(R)
  <2> HIDE DEF A, B
  <2>1. IsFiniteSet(A \cup B)
    BY <1>2, <1>3, FS_Union
  <2> QED
    BY <2>1 DEF A, B
<1>5. \A x \in R : \/ \E t \in U : x = Unwatch(t)
                   \/ \E t \in W : x = Watch(t, token[t])
  OBVIOUS
<1>6. /\ \A t \in U : Unwatch(t) \in R
      /\ \A t \in W : Watch(t, token[t]) \in R
  OBVIOUS
<1>7. /\ \A t \in Target : Unwatch(t).op = "unwatch" /\ Unwatch(t).target = t /\ Unwatch(t) \in Request
      /\ \A t \in Target : /\ Watch(t, token[t]).op = "watch" /\ Watch(t, token[t]).target = t
                           /\ Watch(t, token[t]) \in Request
  BY BoundsAssumption DEF Watch, Unwatch, Request, Version
<1> HIDE DEF R
<1>8. R \subseteq Request
  BY <1>5, <1>7
<1>9. /\ b \in Seq(R) /\ Len(b) \in Nat
      /\ \A i, j \in 1..Len(b) : b[i] = b[j] => i = j
      /\ \A x \in R : \E i \in 1..Len(b) : b[i] = x
  <2>1. b \in SetToSeqs(R)
    BY DEF R
  <2> QED
    BY <1>4, <2>1, Arranged
<1>10. b \in Seq(Request)
  BY <1>8, <1>9, SeqMonotonic
<1>11. \A i \in 1..Len(b) : b[i] \in R
  BY <1>9, ElementOfSeq
<1>12. \A i \in 1..Len(b) :
         \/ b[i].target \in U /\ b[i] = Unwatch(b[i].target) /\ b[i].op = "unwatch"
         \/ b[i].target \in W /\ b[i] = Watch(b[i].target, token[b[i].target]) /\ b[i].op = "watch"
  BY <1>5, <1>7, <1>11
<1>13. \A i, j \in 1..Len(b) : b[i].op = b[j].op /\ b[i].target = b[j].target => i = j
  <2> SUFFICES ASSUME NEW i \in 1..Len(b), NEW j \in 1..Len(b),
                      b[i].op = b[j].op, b[i].target = b[j].target
               PROVE  b[i] = b[j]
    BY <1>9
  <2>1. CASE b[i].op = "unwatch"
    <3>1. b[i] = Unwatch(b[i].target) /\ b[j] = Unwatch(b[j].target)
      BY <1>12, <2>1
    <3> QED
      BY <3>1, Zenon
  <2>2. CASE b[i].op = "watch"
    <3>1. b[i] = Watch(b[i].target, token[b[i].target]) /\ b[j] = Watch(b[j].target, token[b[j].target])
      BY <1>12, <2>2
    <3> QED
      BY <3>1, Zenon
  <2> QED
    BY <1>12, <2>1, <2>2
<1>14. \A t \in Target : t \in U <=> \E i \in 1..Len(b) : b[i].op = "unwatch" /\ b[i].target = t
  BY <1>6, <1>7, <1>9, <1>12
<1>15. \A t \in Target : t \in W <=> \E i \in 1..Len(b) : b[i].op = "watch" /\ b[i].target = t
  BY <1>6, <1>7, <1>9, <1>12
<1>16. \A i, j \in 1..Len(b) :
         b[i].target = b[j].target /\ b[i].op = "unwatch" /\ b[j].op = "watch" => i < j
  BY <1>12
<1> QED
  BY <1>10, <1>13, <1>14, <1>15, <1>16 DEF Asks

\* An unwatch and a watch of each target of T.
LEMMA AsksToRewatch ==
  ASSUME NEW T \in SUBSET Target, NEW b \in Rewatches(T)
  PROVE  Asks(b, T, T)
<1> DEFINE f == [t \in T |-> Unwatch(t)]
           g == [t \in T |-> Watch(t, 0)]
           A == {Unwatch(t) : t \in T}
           B == {Watch(t, 0) : t \in T}
           R == A \cup B
<1>1. IsFiniteSet(T)
  BY TargetsFinite, FS_Subset
<1>2. IsFiniteSet(A)
  <2>1. f \in [T -> A] /\ \A y \in A : \E x \in T : f[x] = y
    OBVIOUS
  <2> HIDE DEF f, A
  <2> QED
    BY <1>1, <2>1, ImageIsFinite
<1>3. IsFiniteSet(B)
  <2>1. g \in [T -> B] /\ \A y \in B : \E x \in T : g[x] = y
    OBVIOUS
  <2> HIDE DEF g, B
  <2> QED
    BY <1>1, <2>1, ImageIsFinite
<1>4. IsFiniteSet(R)
  <2> HIDE DEF A, B
  <2> QED
    BY <1>2, <1>3, FS_Union
<1>5. /\ \A x \in R : \E t \in T : x = Unwatch(t) \/ x = Watch(t, 0)
      /\ \A t \in T : Unwatch(t) \in R /\ Watch(t, 0) \in R
  OBVIOUS
<1>6. \A t \in Target :
        /\ Unwatch(t).op = "unwatch" /\ Unwatch(t).target = t /\ Unwatch(t) \in Request
        /\ Watch(t, 0).op = "watch" /\ Watch(t, 0).target = t /\ Watch(t, 0) \in Request
  BY BoundsAssumption DEF Watch, Unwatch, Request, Version
<1>7. /\ b \in SetToSeqs(R)
      /\ \A t \in T : \E i \in 1..(Len(b) - 1) : b[i] = Unwatch(t) /\ b[i + 1] = Watch(t, 0)
  BY DEF Rewatches
<1> HIDE DEF R
<1>8. /\ b \in Seq(R) /\ Len(b) \in Nat
      /\ \A i, j \in 1..Len(b) : b[i] = b[j] => i = j
      /\ \A x \in R : \E i \in 1..Len(b) : b[i] = x
  BY <1>4, <1>7, Arranged
<1>9. R \subseteq Request
  BY <1>5, <1>6
<1>10. b \in Seq(Request)
  BY <1>8, <1>9, SeqMonotonic
<1>11. \A i \in 1..Len(b) : b[i] \in R
  BY <1>8, ElementOfSeq
<1>12. \A i \in 1..Len(b) :
         /\ b[i].target \in T
         /\ \/ b[i] = Unwatch(b[i].target) /\ b[i].op = "unwatch"
            \/ b[i] = Watch(b[i].target, 0) /\ b[i].op = "watch"
  BY <1>5, <1>6, <1>11
<1>13. \A i, j \in 1..Len(b) : b[i].op = b[j].op /\ b[i].target = b[j].target => i = j
  <2> SUFFICES ASSUME NEW i \in 1..Len(b), NEW j \in 1..Len(b),
                      b[i].op = b[j].op, b[i].target = b[j].target
               PROVE  b[i] = b[j]
    BY <1>8
  <2>1. CASE b[i].op = "unwatch"
    <3>1. b[i] = Unwatch(b[i].target) /\ b[j] = Unwatch(b[j].target)
      BY <1>12, <2>1
    <3> QED
      BY <3>1, Zenon
  <2>2. CASE b[i].op = "watch"
    <3>1. b[i] = Watch(b[i].target, 0) /\ b[j] = Watch(b[j].target, 0)
      BY <1>12, <2>2
    <3> QED
      BY <3>1, Zenon
  <2> QED
    BY <1>12, <2>1, <2>2
<1>14. \A t \in Target : t \in T <=> \E i \in 1..Len(b) : b[i].op = "unwatch" /\ b[i].target = t
  <2> TAKE t \in Target
  <2>1. ASSUME t \in T
        PROVE  \E i \in 1..Len(b) : b[i].op = "unwatch" /\ b[i].target = t
    <3>1. PICK i \in 1..Len(b) : b[i] = Unwatch(t)
      BY <1>5, <1>8, <2>1
    <3> QED
      BY <1>6, <3>1
  <2> QED
    BY <1>12, <2>1
<1>15. \A t \in Target : t \in T <=> \E i \in 1..Len(b) : b[i].op = "watch" /\ b[i].target = t
  <2> TAKE t \in Target
  <2>1. ASSUME t \in T
        PROVE  \E i \in 1..Len(b) : b[i].op = "watch" /\ b[i].target = t
    <3>1. PICK i \in 1..Len(b) : b[i] = Watch(t, 0)
      BY <1>5, <1>8, <2>1
    <3> QED
      BY <1>6, <3>1
  <2> QED
    BY <1>12, <2>1
<1>16. ASSUME NEW i \in 1..Len(b), NEW j \in 1..Len(b),
              b[i].target = b[j].target, b[i].op = "unwatch", b[j].op = "watch"
       PROVE  i < j
  <2> DEFINE t == b[i].target
  <2>1. t \in T /\ b[i] = Unwatch(t)
    BY <1>12, <1>16
  <2>2. b[j] = Watch(t, 0)
    BY <1>12, <1>16
  <2>3. PICK k \in 1..(Len(b) - 1) : b[k] = Unwatch(t) /\ b[k + 1] = Watch(t, 0)
    BY <1>7, <2>1
  <2>4. k \in 1..Len(b) /\ k + 1 \in 1..Len(b)
    BY <1>8
  <2> HIDE DEF t
  <2>5. i = k /\ j = k + 1
    BY <1>8, <2>1, <2>2, <2>3, <2>4
  <2> QED
    BY <2>5
<1> QED
  BY <1>10, <1>13, <1>14, <1>15, <1>16 DEF Asks

LEMMA AsksForOne ==
  ASSUME NEW t \in Target, NEW token \in Version
  PROVE  Asks(<<Watch(t, token)>>, {}, {t})
<1>1. /\ Watch(t, token) \in Request /\ Watch(t, token).op = "watch"
      /\ Watch(t, token).target = t
  BY DEF Watch, Request
<1> DEFINE x == Watch(t, token)
           b == <<x>>
<1> HIDE DEF x
<1>2. b \in Seq(Request) /\ Len(b) = 1 /\ b[1] = x
  BY <1>1 DEF x
<1> HIDE DEF b
<1>3. \A i \in 1..Len(b) : i = 1
  BY <1>2
<1>4. 1 \in 1..Len(b) /\ b[1].op = "watch" /\ b[1].target = t
  BY <1>1, <1>2 DEF x
<1>5. Asks(b, {}, {t})
  BY <1>2, <1>3, <1>4 DEF Asks
<1> QED
  BY <1>5 DEF b, x

\* The client waits for n answers more from each target of T.
Expected(r, T, n, r2) ==
  /\ r2 \in Remote /\ r2.targets = r.targets /\ r2.stream = r.stream /\ r2.idle = r.idle
  /\ r2.resume = r.resume /\ r2.resets = r.resets /\ r2.updates = r.updates
  /\ r2.tracked = r.tracked \cup T
  /\ \A t \in Target : /\ t \notin T => r2.state[t] = r.state[t]
                       /\ t \in T => r2.state[t].outstanding = r.state[t].outstanding + n
                       /\ r2.state[t].docs = r.state[t].docs

LEMMA ExpectsIs ==
  ASSUME NEW r \in Remote, NEW T, T \subseteq Target, NEW n \in Nat
  PROVE  Expected(r, T, n, Expects(r, T, n))
<1> USE DEF Expected
<1> DEFINE g == [t \in Target |-> [r.state[t] EXCEPT !.outstanding = @ + n]]
           f == [t \in Target |-> IF t \in T THEN g[t] ELSE r.state[t]]
<1>1. r.state \in [Target -> TargetState]
  BY RemoteFields
<1>2. \A t \in Target : /\ g[t] \in TargetState /\ g[t].docs = r.state[t].docs
                        /\ g[t].outstanding = r.state[t].outstanding + n
  BY <1>1 DEF TargetState
<1>3. Expects(r, T, n) = IF T = {} THEN r ELSE [r EXCEPT !.tracked = @ \cup T, !.state = f]
  <2>1. f = [t \in Target |-> IF t \in T THEN [r.state[t] EXCEPT !.outstanding = @ + n]
                              ELSE r.state[t]]
    OBVIOUS
  <2> HIDE DEF f
  <2> QED
    BY <2>1 DEF Expects
<1> HIDE DEF g
<1>4. f \in [Target -> TargetState]
  BY <1>1, <1>2
<1>5. \A t \in Target : f[t] = IF t \in T THEN g[t] ELSE r.state[t]
  OBVIOUS
<1> HIDE DEF f
<1>6. CASE T = {}
  BY <1>3, <1>6
<1>7. CASE T # {}
  <2> DEFINE r2 == [r EXCEPT !.tracked = @ \cup T, !.state = f]
  <2>1. /\ r2 \in Remote /\ r2.targets = r.targets /\ r2.stream = r.stream /\ r2.idle = r.idle
        /\ r2.resume = r.resume /\ r2.resets = r.resets /\ r2.updates = r.updates
        /\ r2.tracked = r.tracked \cup T /\ r2.state = f
    BY <1>4 DEF Remote
  <2>2. Expects(r, T, n) = r2
    BY <1>3, <1>7
  <2> HIDE DEF r2
  <2> QED
    BY <1>2, <1>5, <2>1, <2>2
<1> QED
  BY <1>6, <1>7

LEMMA SendsIs ==
  ASSUME NEW c \in Call, NEW b \in Seq(Request)
  PROVE  /\ Sends(c, b) \in Call /\ Sends(c, b).requests = c.requests \o b
         /\ Sends(c, b).watched = c.watched /\ Sends(c, b).version = c.version
<1>1. c.requests \o b \in Seq(Request)
  BY CallFields
<1> QED
  BY <1>1 DEF Sends, Call

LEMMA OpensKeepIInv ==
  ASSUME IInv, StreamOpens
  PROVE  IInv'
<1> DEFINE T == remote.targets
           r0 == [remote EXCEPT !.stream = "open", !.targets = {}]
           r1 == [remote EXCEPT !.stream = "open"]
           r2 == Expects(r1, T, 1)
<1>1. /\ remote.stream = "starting" /\ remote' = r2
      /\ UNCHANGED <<history, disk, views, limbo, online, asserted>>
  BY DEF StreamOpens
<1>2. PICK v \in 1..Now, b \in SetToSeqs({Watch(t, remote.resume[t]) : t \in T}) :
        call' = [NoCall EXCEPT !.version = v, !.requests = b]
  BY DEF StreamOpens
<1>3. /\ TypeOK /\ StreamInv /\ TargetsInv /\ QueueInv /\ OnlineInv /\ AssertionsHold
      /\ Fits(remote, views, limbo) /\ (Refusable \subseteq Query => Asked(views, limbo))
  BY DEF IInv
<1>4. remote \in Remote
  BY <1>3 DEF TypeOK
<1>5. /\ T \subseteq Target /\ remote.resume \in [Target -> Version]
      /\ remote.tracked = {} /\ remote.resets = {} /\ ~remote.idle /\ Fresh(remote)
  BY <1>1, <1>3, <1>4, RemoteFields DEF StreamInv
<1>6. v \in Version /\ v # 0
  BY <1>3, BoundsAssumption DEF TypeOK, Now, Version
<1>7. Asks(b, {}, T)
  <2>1. {Watch(t, remote.resume[t]) : t \in T} =
          {Unwatch(t) : t \in {}} \cup {Watch(t, remote.resume[t]) : t \in T}
    OBVIOUS
  <2> DEFINE resume == remote.resume
  <2>2. b \in SetToSeqs({Unwatch(t) : t \in {}} \cup {Watch(t, resume[t]) : t \in T})
    BY <2>1, Zenon
  <2>3. {} \in SUBSET Target /\ T \in SUBSET Target /\ {} \cap T = {} /\ resume \in [Target -> Version]
    BY <1>5
  <2> HIDE DEF resume, T
  <2> QED
    BY <2>2, <2>3, AsksOfArrangement
<1>8. b \in Seq(Request)
  BY <1>7 DEF Asks
<1> DEFINE c0 == [NoCall EXCEPT !.version = v]
           c2 == [NoCall EXCEPT !.version = v, !.requests = b]
<1>9. /\ c0 \in Call /\ c0.requests = <<>> /\ c0.watched = {}
      /\ c2 \in Call /\ c2.requests = b /\ c2.watched = {} /\ c2.version = v
  BY <1>6, <1>8, NoCallType DEF Call
<1>10. /\ r0 \in Remote /\ r0.targets = {} /\ r0.tracked = {} /\ r0.resets = {}
       /\ \A t \in Target : r0.state[t] = FreshState
  BY <1>4, <1>5 DEF Remote, Fresh
<1>11. /\ r1 \in Remote /\ r1.targets = T /\ r1.tracked = {} /\ r1.resets = {} /\ ~r1.idle
       /\ r1.stream = "open" /\ \A t \in Target : r1.state[t] = FreshState
  BY <1>4, <1>5 DEF Remote, Fresh
<1> HIDE DEF r0, r1, T, c0
<1>12. /\ r2 \in Remote /\ r2.targets = T /\ r2.stream = "open" /\ ~r2.idle /\ r2.resets = {}
       /\ r2.tracked = T
       /\ \A t \in Target : /\ t \notin T => r2.state[t] = FreshState
                            /\ t \in T => r2.state[t].outstanding = 1
                            /\ r2.state[t].docs = FreshState.docs
  <2>1. T \subseteq Target
    BY <1>5 DEF T
  <2>2. Expected(r1, T, 1, r2)
    BY <1>11, <2>1, ExpectsIs
  <2> HIDE DEF r2
  <2> QED
    BY <1>11, <2>2, FreshType DEF Expected
<1> HIDE DEF r2, c2
<1>13. InStep(r0, c0)
  <2>1. \A t : Waiting(<<>>, t) = {}
    BY DEF Waiting
  <2>2. \A t : Cardinality(Waiting(<<>>, t)) = 0
    BY <2>1, FS_EmptySet, Zenon
  <2>3. Counted(r0, <<>>) /\ Agreed({}, {}, <<>>) /\ Settling(r0, <<>>)
    BY <1>10, <2>1, <2>2, FreshType DEF Counted, Agreed, Settling
  <2>4. OneWatch(<<>>) /\ LastWord({}, <<>>) /\ UnwatchedFirst({}, <<>>)
    BY DEF OneWatch, LastWord, UnwatchedFirst
  <2> QED
    BY <1>9, <1>10, <2>3, <2>4 DEF InStep
<1>14. InStep(r2, c2)
  <2>1. <<>> \o b = b
    BY <1>8
  <2>2. \A t \in Target : Waiting(c0.requests, t) = {}
    BY <1>9 DEF Waiting
  <2>3. Changed(r0, {}, T, r2)
    <3>1. \A t \in Target : r0.state[t].outstanding = 0
      BY <1>10, FreshType
    <3>2. \A t \in Target : r2.state[t].outstanding = IF t \in T THEN 1 ELSE 0
      BY <1>12, FreshType
    <3>3. T \subseteq Target
      BY <1>5 DEF T
    <3> QED
      BY <1>10, <1>12, <3>1, <3>2, <3>3 DEF Changed
  <2>4. Requested(c0, b, T, c2)
    BY <1>9, <2>1, <2>2, <1>5 DEF Requested, T
  <2>5. T \subseteq Target
    BY <1>5 DEF T
  <2> QED
    BY <1>7, <1>9, <1>10, <1>12, <1>13, <2>3, <2>4, <2>5, Sent
<1>15. call' = c2
  BY <1>2 DEF c2
<1>16. TypeOK'
  BY <1>1, <1>3, <1>9, <1>12, <1>15 DEF TypeOK
<1>17. StreamInv'
  BY <1>1, <1>6, <1>9, <1>12, <1>14, <1>15 DEF StreamInv, Fresh
<1>18. TargetsInv' /\ AssertionsHold'
  BY <1>1, <1>3, <1>12 DEF TargetsInv, AssertionsHold, T
<1>19. Fits(remote, views, limbo)'
  BY <1>1, <1>5, <1>12, FreshType DEF Fits, T
<1>20. OnlineInv'
  BY <1>1, <1>3, <1>12 DEF OnlineInv
<1>21. QueueInv'
  BY <1>1, <1>3 DEF QueueInv
<1>22. (Refusable \subseteq Query => Asked(views, limbo))'
  BY <1>1, <1>3
<1> QED
  BY <1>16, <1>17, <1>18, <1>19, <1>20, <1>21, <1>22 DEF IInv

LEMMA ListensKeepIInv ==
  ASSUME IInv, NEW q \in Query, Listen(q)
  PROVE  IInv'
<1> DEFINE token == disk.token[q]
           keys == disk.keys[q]
           vw == [views EXCEPT !.listening = @ \cup {q}, !.synced[q] = keys, !.token[q] = token]
           r == [remote EXCEPT !.targets = @ \cup {q}, !.resume[q] = token]
           r1 == Expects(r, {q}, 1)
           r2 == [r1 EXCEPT !.idle = FALSE]
           c2 == Sends(call, <<Watch(q, token)>>)
<1>1. /\ q \notin views.listening
      /\ remote' = CASE remote.stream = "off"      -> Cleaned(r, "starting")
                     [] remote.stream = "starting" -> r
                     [] remote.stream = "open"     -> r2
      /\ call' = IF remote.stream = "open" THEN c2 ELSE call
      /\ online' = IF remote.stream = "off" THEN Started(online) ELSE online
      /\ asserted' = (asserted /\ (remote.stream = "off" => ~online.timer))
      /\ views' = Raise(vw, disk.cache, online'.state)
      /\ UNCHANGED <<history, disk, limbo>>
  BY DEF Listen
<1>2. /\ TypeOK /\ StreamInv /\ TargetsInv /\ QueueInv /\ OnlineInv /\ asserted
      /\ Fits(remote, views, limbo) /\ (Refusable \subseteq Query => Asked(views, limbo))
  BY DEF IInv, AssertionsHold
<1>3. remote \in Remote /\ call \in Call /\ views \in Views /\ disk \in Disk /\ online \in OnlineState
  BY <1>2 DEF TypeOK
<1>4. token \in Version /\ keys \subseteq Doc /\ q \in Target
  BY <1>3 DEF Disk, Target
<1> HIDE DEF token, keys
<1>5. /\ vw \in Views /\ vw.listening = views.listening \cup {q} /\ vw.limbo = views.limbo
      /\ \A p \in Query \ {q} : vw.synced[p] = views.synced[p]
  BY <1>3, <1>4 DEF Views
<1> HIDE DEF vw
<1>6. /\ views' \in Views /\ views'.listening = views.listening \cup {q} /\ views'.limbo = views.limbo
      /\ views'.synced = vw.synced
  BY <1>1, <1>5, Raises
<1>7. /\ r \in Remote /\ r.targets = remote.targets \cup {q} /\ r.stream = remote.stream
      /\ r.idle = remote.idle /\ r.tracked = remote.tracked /\ r.state = remote.state
      /\ r.resets = remote.resets
  BY <1>3, <1>4 DEF Remote
<1>8. q \notin remote.targets /\ q \notin LimboTarget
  BY <1>1, <1>2, NamesAssumption DEF TargetsInv
<1>9. q \notin remote.tracked /\ remote.state[q] = FreshState
  <2>1. CASE remote.stream = "open"
    BY <1>2, <1>4, <1>8, <2>1 DEF StreamInv, InStep, Settling, Fresh
  <2>2. CASE remote.stream # "open"
    BY <1>2, <1>4, <2>2 DEF StreamInv, Fresh
  <2> QED
    BY <2>1, <2>2
<1> HIDE DEF r
<1>10. /\ r1 \in Remote /\ r1.targets = r.targets /\ r1.stream = r.stream
       /\ r1.resets = r.resets /\ r1.tracked = r.tracked \cup {q}
       /\ \A t \in Target : /\ t \notin {q} => r1.state[t] = r.state[t]
                            /\ t \in {q} => r1.state[t].outstanding = r.state[t].outstanding + 1
                            /\ r1.state[t].docs = r.state[t].docs
  <2>1. Expected(r, {q}, 1, r1)
    BY <1>4, <1>7, ExpectsIs
  <2> HIDE DEF r1
  <2> QED
    BY <2>1 DEF Expected
<1> HIDE DEF r1
<1>11. /\ r2 \in Remote /\ r2.targets = r1.targets /\ r2.stream = r1.stream /\ ~r2.idle
       /\ r2.resets = r1.resets /\ r2.tracked = r1.tracked /\ r2.state = r1.state
  BY <1>10 DEF Remote
<1>12. Asks(<<Watch(q, token)>>, {}, {q})
  BY <1>4, AsksForOne
<1> DEFINE b == <<Watch(q, token)>>
<1> HIDE DEF b, r2
<1>13. /\ c2 \in Call /\ c2.requests = call.requests \o b /\ c2.watched = call.watched
       /\ c2.version = call.version
  BY <1>3, <1>12, SendsIs DEF Asks, b
<1> HIDE DEF c2
<1>14. ASSUME remote.stream = "open"
       PROVE  InStep(r2, c2)
  <2>1. InStep(remote, call)
    BY <1>2, <1>14 DEF StreamInv
  <2>2. Waiting(call.requests, q) = {}
    BY <1>8, <2>1 DEF InStep, Settling
  <2>3. \A t \in Query \ r2.targets : t \notin remote.targets /\ t \notin r2.tracked
    BY <1>7, <1>10, <1>11, <2>1 DEF InStep, Settling
  <2>4. \A t \in Target : r2.state[t].outstanding = remote.state[t].outstanding + IF t \in {q} THEN 1 ELSE 0
    <3>1. \A t \in Target : remote.state[t].outstanding \in Nat
      BY <1>3, RemoteFields, StateFields
    <3> QED
      BY <1>7, <1>10, <1>11, <3>1
  <2>5. \A t \in r2.resets : t \in remote.resets /\ t \notin {q}
    BY <1>7, <1>8, <1>10, <1>11, <2>1 DEF InStep, Settling
  <2>6. Asks(b, {}, {q})
    BY <1>12 DEF b
  <2>7. remote.state[q].outstanding = 0
    BY <1>9, FreshType
  <2>8. \A t \in Target : t \in r2.targets <=> t \in {q} \/ t \in remote.targets
    BY <1>7, <1>10, <1>11
  <2>9. \A t \in Target : remote.state[t].outstanding \in Nat
    BY <1>3, RemoteFields, StateFields
  <2>10. Changed(remote, {}, {q}, r2)
    BY <1>8, <2>3, <2>4, <2>5, <2>7, <2>8, <2>9 DEF Changed
  <2>11. Requested(call, b, {q}, c2)
    BY <1>13, <2>2 DEF Requested
  <2> QED
    BY <1>3, <1>4, <1>11, <1>13, <2>1, <2>6, <2>10, <2>11, Sent
<1>15. remote.stream \in {"off", "starting", "open"}
  BY <1>3, RemoteFields
<1>16. /\ remote' \in Remote /\ remote'.targets = remote.targets \cup {q}
       /\ remote'.stream = (IF remote.stream = "off" THEN "starting" ELSE remote.stream)
       /\ ~remote'.idle
       /\ remote.stream # "open" => remote'.tracked = {} /\ remote'.resets = {}
       /\ Fresh(remote')
       /\ \A t \in Target : remote'.state[t].docs \in {remote.state[t].docs, FreshState.docs}
  <2>1. CASE remote.stream = "off"
    BY <1>1, <1>7, <2>1, CleanedIs
  <2>2. CASE remote.stream = "starting"
    BY <1>1, <1>2, <1>7, <2>2 DEF StreamInv, Fresh
  <2>3. CASE remote.stream = "open"
    BY <1>1, <1>2, <1>7, <1>10, <1>11, <2>3 DEF StreamInv, Fresh
  <2> QED
    BY <1>15, <2>1, <2>2, <2>3
<1>17. ~(remote.stream = "off" /\ online.timer) /\ (online.timer => online.state = "Unknown")
  BY <1>2 DEF OnlineInv
<1>18. online' \in OnlineState /\ (online'.timer => online'.state = "Unknown") /\ asserted'
  BY <1>1, <1>2, <1>3, <1>17, StartedType
<1>19. TypeOK'
  BY <1>1, <1>2, <1>3, <1>6, <1>13, <1>16, <1>18 DEF TypeOK
<1>20. StreamInv'
  <2>1. CASE remote.stream = "open"
    <3>1. remote' = r2 /\ call' = c2
      BY <1>1, <2>1
    <3> QED
      BY <1>2, <1>13, <1>14, <1>16, <2>1, <3>1 DEF StreamInv
  <2>2. CASE remote.stream # "open"
    <3>1. call' = NoCall /\ remote'.stream # "open"
      BY <1>1, <1>2, <1>16, <2>2 DEF StreamInv
    <3> QED
      BY <1>16, <2>2, <3>1 DEF StreamInv
  <2> QED
    BY <2>1, <2>2
<1>21. TargetsInv'
  BY <1>1, <1>2, <1>6, <1>8, <1>16 DEF TargetsInv
<1>22. Fits(remote, views, limbo)'
  <2> SUFFICES ASSUME NEW t \in remote'.targets, NEW d \in Doc,
                      remote'.state[t].docs[d] \in {"modified", "removed"}
               PROVE  d \in Keys(views', limbo', t)
    BY DEF Fits
  <2>1. t \in Target
    BY <1>16, RemoteFields
  <2>2. remote'.state[t].docs = remote.state[t].docs
    BY <1>16, <2>1, FreshType
  <2>3. t # q
    BY <1>9, <2>2, FreshType
  <2>4. d \in Keys(views, limbo, t)
    BY <1>2, <1>16, <2>2, <2>3 DEF Fits
  <2> QED
    BY <1>1, <1>5, <1>6, <2>3, <2>4 DEF Keys
<1>23. OnlineInv'
  BY <1>16, <1>17, <1>18, <1>1 DEF OnlineInv
<1>24. InDoubt(views') = InDoubt(views)
  BY <1>6, DoubtDependsOn
<1>25. QueueInv'
  BY <1>1, <1>2, <1>24 DEF QueueInv
<1>26. (Refusable \subseteq Query => Asked(views, limbo))'
  BY <1>1, <1>2, <1>24 DEF Asked
<1>27. AssertionsHold'
  BY <1>18 DEF AssertionsHold
<1> QED
  BY <1>19, <1>20, <1>21, <1>22, <1>23, <1>25, <1>26, <1>27 DEF IInv

-----------------------------------------------------------------------------
(* Limbo documents.                                                        *)

LEMMA NewTargetIs ==
  ASSUME NEW r, NEW c \in Call, NEW d \in Doc, FreeNumbers(r, c, d) # {}
  PROVE  LET t == NewTarget(r, c, d) IN
         /\ t \in LimboTarget /\ t[1] = d /\ t \in Target /\ t \notin Query
         /\ t \notin r.targets /\ t \notin r.tracked /\ t \notin c.watched
         /\ Waiting(c.requests, t) = {}
<1> DEFINE n == CHOOSE n \in FreeNumbers(r, c, d) : TRUE
           t == <<d, n>>
           used == r.targets \cup r.tracked \cup c.watched
                     \cup {c.requests[i].target : i \in 1..Len(c.requests)}
<1>1. n \in FreeNumbers(r, c, d)
  OBVIOUS
<1>2. NewTarget(r, c, d) = t
  BY DEF NewTarget
<1> HIDE DEF n
<1>3. n \in 1..MaxLimboTargets /\ t \notin used
  BY <1>1 DEF FreeNumbers
<1>4. t \in LimboTarget /\ t[1] = d
  BY <1>3 DEF LimboTarget
<1>5. t \in Target /\ t \notin Query
  BY <1>4, NamesAssumption DEF Target
<1>6. Waiting(c.requests, t) = {}
  BY <1>3 DEF Waiting
<1> QED
  BY <1>2, <1>3, <1>4, <1>5, <1>6

\* Some targets are no longer listened to, and others are.
Turned(r, stopped, started, r2) ==
  /\ r2 \in Remote /\ r2.targets = (r.targets \ stopped) \cup started /\ r2.stream = r.stream
  /\ r2.tracked = r.tracked \cup stopped \cup started /\ r2.resets = r.resets
  /\ r2.idle => r2.targets = {} \/ (r.idle /\ stopped = {} /\ started = {})
  /\ \A t \in Target :
       /\ t \notin stopped \cup started => r2.state[t] = r.state[t]
       /\ t \in stopped \cup started => r2.state[t].outstanding = r.state[t].outstanding + 1
       /\ r2.state[t].docs = r.state[t].docs

LEMMA Relistens ==
  ASSUME NEW r \in Remote, NEW stopped, NEW started,
         stopped \subseteq Target, started \subseteq Target
  PROVE  Turned(r, stopped, started, Relistened(r, stopped, started))
<1> DEFINE T == stopped \cup started
           targets == (r.targets \ stopped) \cup started
           r1 == Expects(r, T, 1)
           resume == [t \in Target |-> IF t \in stopped THEN 0 ELSE r1.resume[t]]
           idle == IF stopped # {} THEN targets = {} ELSE r1.idle /\ started = {}
           r2 == [r1 EXCEPT !.targets = targets, !.resume = resume, !.idle = idle]
<1>1. T \subseteq Target
  OBVIOUS
<1>2. Relistened(r, stopped, started) = r2
  BY DEF Relistened
<1> HIDE DEF T
<1>3. Expected(r, T, 1, r1)
  BY <1>1, ExpectsIs
<1> HIDE DEF r1
<1>4. r1 \in Remote /\ r1.idle = r.idle
  BY <1>3 DEF Expected
<1>5. targets \subseteq Target
  BY RemoteFields
<1>6. resume \in [Target -> Version]
  BY <1>4, RemoteFields, BoundsAssumption DEF Version
<1>7. idle \in BOOLEAN /\ (idle => targets = {} \/ (r.idle /\ stopped = {} /\ started = {}))
  BY <1>4, RemoteFields
<1>8. targets = (r.targets \ stopped) \cup started
  OBVIOUS
<1> HIDE DEF targets, resume, idle
<1>9. /\ r2 \in Remote /\ r2.targets = targets /\ r2.idle = idle /\ r2.stream = r1.stream
      /\ r2.tracked = r1.tracked /\ r2.resets = r1.resets /\ r2.state = r1.state
  BY <1>4, <1>5, <1>6, <1>7 DEF Remote
<1> HIDE DEF r2
<1>10. T = stopped \cup started
  BY DEF T
<1> QED
  BY <1>2, <1>3, <1>7, <1>8, <1>9, <1>10 DEF Turned, Expected

LEMMA InLimboType ==
  ASSUME NEW vw \in Views, NEW cache
  PROVE  InLimbo(vw, cache) \in [Query -> SUBSET Doc]
  BY DocsType DEF InLimbo, Views

LEMMA LimboFields ==
  ASSUME NEW lb \in Limbo
  PROVE  lb.active \subseteq LimboTarget /\ lb.received \subseteq LimboTarget /\ lb.enqueued \in Seq(Doc)
  BY DEF Limbo

\* What EmitNewSnapshotsAndNotifyLocalStore can rely on.
Ready(vw, lb, r, c) ==
  /\ vw \in Views /\ lb \in Limbo /\ r \in Remote /\ c \in Call /\ c.version # 0
  /\ r.stream = "open" /\ (r.idle => r.targets = {}) /\ Fresh(r) /\ InStep(r, c)
  /\ r.targets \cap Query = vw.listening /\ r.targets \cap LimboTarget = lb.active
  /\ Fits(r, vw, lb)
  /\ lb.enqueued = limbo.enqueued /\ lb.active \subseteq limbo.active
  /\ Refusable \subseteq Query => Asked(views, lb)

Distinct(queue) == \A i, j \in 1..Len(queue) : queue[i] = queue[j] => i = j

\* The new queue has what still waits and what is new, each once.
NewQueue(enqueued, before, after, queue) ==
  /\ queue \in Seq(Doc) /\ Len(queue) \in Nat /\ Distinct(queue)
  /\ \A i \in 1..Len(queue) : queue[i] \in after
  /\ \A d \in after : d \notin before \/ (\E i \in 1..Len(enqueued) : enqueued[i] = d) =>
       \E i \in 1..Len(queue) : queue[i] = d

LEMMA QueueIs ==
  ASSUME NEW enqueued \in Seq(Doc), NEW before \in SUBSET Doc, NEW after \in SUBSET Doc,
         NEW queue \in Queues(enqueued, before, after)
  PROVE  NewQueue(enqueued, before, after, queue)
<1> DEFINE waited == {enqueued[i] : i \in 1..Len(enqueued)}
           S == (waited \cap after) \cup (after \ before)
<1>1. queue \in SetToSeqs(S)
  BY DEF Queues
<1>2. S \subseteq Doc /\ S \subseteq after
  OBVIOUS
<1>3. \A d \in after : d \notin before \/ (\E i \in 1..Len(enqueued) : enqueued[i] = d) => d \in S
  OBVIOUS
<1> HIDE DEF S
<1>5. IsFiniteSet(S)
  BY <1>2, FiniteAssumption, FS_Subset
<1>6. /\ queue \in Seq(S) /\ Len(queue) \in Nat
      /\ \A i, j \in 1..Len(queue) : queue[i] = queue[j] => i = j
      /\ \A x \in S : \E i \in 1..Len(queue) : queue[i] = x
  BY <1>1, <1>5, Arranged
<1>7. queue \in Seq(Doc)
  BY <1>2, <1>6, SeqMonotonic
<1>8. \A i \in 1..Len(queue) : queue[i] \in S
  BY <1>6, ElementOfSeq
<1> QED
  BY <1>2, <1>3, <1>6, <1>7, <1>8 DEF NewQueue, Distinct

\* The targets that are started are new, and as many as the documents.
AreStarted(r, c, queue, n, started) ==
  /\ started \subseteq LimboTarget /\ started \subseteq Target
  /\ IsFiniteSet(started) /\ Cardinality(started) = n
  /\ \A t \in started : /\ t \notin Query /\ t \notin r.targets /\ t \notin r.tracked
                        /\ t \notin c.watched /\ Waiting(c.requests, t) = {}
  /\ \A i \in 1..n : \E t \in started : t[1] = queue[i]

LEMMA StartedAre ==
  ASSUME NEW r \in Remote, NEW c \in Call, NEW queue \in Seq(Doc), Distinct(queue),
         NEW n \in Nat, n <= Len(queue), \A i \in 1..n : FreeNumbers(r, c, queue[i]) # {},
         NEW started, started = {NewTarget(r, c, queue[i]) : i \in 1..n}
  PROVE  AreStarted(r, c, queue, n, started)
<1> DEFINE f == [i \in 1..n |-> NewTarget(r, c, queue[i])]
<1>1. Len(queue) \in Nat /\ 1..n \subseteq 1..Len(queue)
  OBVIOUS
<1>2. \A i \in 1..n : f[i] = NewTarget(r, c, queue[i])
  OBVIOUS
<1>3. \A i \in 1..n :
        /\ f[i] \in LimboTarget /\ f[i][1] = queue[i] /\ f[i] \in Target /\ f[i] \notin Query
        /\ f[i] \notin r.targets /\ f[i] \notin r.tracked /\ f[i] \notin c.watched
        /\ Waiting(c.requests, f[i]) = {}
  <2> TAKE i \in 1..n
  <2>1. queue[i] \in Doc /\ FreeNumbers(r, c, queue[i]) # {}
    BY <1>1
  <2> DEFINE t == NewTarget(r, c, queue[i])
  <2>2. /\ t \in LimboTarget /\ t[1] = queue[i] /\ t \in Target /\ t \notin Query
        /\ t \notin r.targets /\ t \notin r.tracked /\ t \notin c.watched
        /\ Waiting(c.requests, t) = {}
    BY <2>1, NewTargetIs
  <2> HIDE DEF t, f
  <2>3. f[i] = t
    BY <1>2 DEF t
  <2> QED
    BY <2>2, <2>3
<1>4. f \in [1..n -> started] /\ \A y \in started : \E i \in 1..n : f[i] = y
  OBVIOUS
<1> HIDE DEF f
<1>5. \A i, j \in 1..n : f[i] = f[j] => i = j
  BY <1>1, <1>3 DEF Distinct
<1>6. IsFiniteSet(1..n) /\ Cardinality(1..n) = n
  <2>1. 1 \in Int /\ n \in Int
    OBVIOUS
  <2> QED
    BY <2>1, FS_Interval
<1>7. IsFiniteSet(started) /\ Cardinality(started) = n
  BY <1>4, <1>5, <1>6, ImageIsFinite
<1>8. \A i \in 1..n : f[i] \in started
  BY <1>4
<1>9. ASSUME NEW t \in started
      PROVE  /\ t \in LimboTarget /\ t \in Target /\ t \notin Query
             /\ t \notin r.targets /\ t \notin r.tracked /\ t \notin c.watched
             /\ Waiting(c.requests, t) = {}
  <2>1. PICK i \in 1..n : f[i] = t
    BY <1>4
  <2> QED
    BY <1>3, <2>1
<1>10. \A i \in 1..n : \E t \in started : t[1] = queue[i]
  BY <1>3, <1>8
<1> QED
  BY <1>7, <1>9, <1>10 DEF AreStarted

\* Requests for limbo targets keep client and server in step.
LEMMA TurnedInStep ==
  ASSUME NEW r \in Remote, NEW c \in Call, InStep(r, c), Fresh(r),
         NEW stopped, NEW started, NEW r2, Turned(r, stopped, started, r2),
         stopped \subseteq r.targets, stopped \cap Query = {},
         started \subseteq Target, started \cap Query = {},
         \A t \in started : /\ t \notin r.targets /\ t \notin r.tracked
                            /\ Waiting(c.requests, t) = {},
         NEW b \in SetToSeqs({Unwatch(t) : t \in stopped} \cup {Watch(t, 0) : t \in started})
  PROVE  Sends(c, b) \in Call /\ Sends(c, b).version = c.version /\ InStep(r2, Sends(c, b))
<1>1. stopped \subseteq Target /\ stopped \cap started = {}
  BY RemoteFields
<1>2. Asks(b, stopped, started)
  <2> DEFINE token == [t \in Target |-> 0]
             R == {Unwatch(t) : t \in stopped} \cup {Watch(t, token[t]) : t \in started}
  <2>1. {Watch(t, token[t]) : t \in started} = {Watch(t, 0) : t \in started}
    OBVIOUS
  <2>2. b \in SetToSeqs(R)
    BY <2>1, Zenon
  <2>3. token \in [Target -> Version]
    BY BoundsAssumption DEF Version
  <2> HIDE DEF token
  <2> QED
    BY <1>1, <2>2, <2>3, AsksOfArrangement
<1>3. b \in Seq(Request)
  BY <1>2 DEF Asks
<1>4. /\ Sends(c, b) \in Call /\ Sends(c, b).requests = c.requests \o b
      /\ Sends(c, b).watched = c.watched /\ Sends(c, b).version = c.version
  BY <1>3, SendsIs
<1>5. \A t \in Target : r.state[t].outstanding \in Nat
  BY RemoteFields, StateFields
<1>6. \A t \in started : r.state[t].outstanding = 0
  BY FreshType DEF Fresh
<1>7. Changed(r, stopped, started, r2)
  <2>1. \A t \in Target : t \in r2.targets <=> t \in started \/ (t \in r.targets /\ t \notin stopped)
    BY DEF Turned
  <2>2. \A t \in started : IF t \in r.targets THEN t \in stopped ELSE r.state[t].outstanding = 0
    BY <1>6
  <2>3. \A t \in Target : r2.state[t].outstanding = r.state[t].outstanding
          + (IF t \in stopped THEN 1 ELSE 0) + (IF t \in started THEN 1 ELSE 0)
    BY <1>1, <1>5 DEF Turned
  <2>4. Settling(r, c.requests)
    BY DEF InStep
  <2>5. \A t \in r2.resets : t \in r.resets /\ t \notin stopped /\ t \notin started
    <3>1. r2.resets \subseteq Query
      BY RemoteFields DEF Turned
    <3> QED
      BY <3>1 DEF Turned
  <2>6. \A t \in Query \ r2.targets : t \notin r.targets /\ t \notin stopped /\ t \notin r2.tracked
    BY <2>4 DEF Turned, Settling
  <2> QED
    BY <2>1, <2>2, <2>3, <2>5, <2>6 DEF Changed
<1>8. Requested(c, b, started, Sends(c, b))
  BY <1>4 DEF Requested
<1>9. r2 \in Remote
  BY DEF Turned
<1> QED
  BY <1>2, <1>4, <1>7, <1>8, <1>9, Sent

LEMMA EmitsKeepsIInv ==
  ASSUME IInv, NEW vw, NEW lb, NEW r, NEW c, NEW cache, Ready(vw, lb, r, c),
         Emits(vw, lb, r, c, cache, TRUE),
         disk' \in Disk, online' = Settled("Online"), history' = history
  PROVE  IInv'
<1> DEFINE inLimbo == InLimbo(vw, cache)
           before == UNION {views.limbo[q] : q \in Query}
           after == UNION {inLimbo[q] : q \in Query}
           stopped == {t \in lb.active : t[1] \notin after}
           active == lb.active \ stopped
           room == MaxConcurrentLimboResolutions - Cardinality(active)
<1>1. PICK queue \in Queues(lb.enqueued, before, after) :
        LET n       == IF room < Len(queue) THEN room ELSE Len(queue)
            started == {NewTarget(r, c, queue[i]) : i \in 1..n}
        IN  /\ \A i \in 1..n : FreeNumbers(r, c, queue[i]) # {}
            /\ views' = Raise([vw EXCEPT !.limbo = inLimbo], cache, "Online")
            /\ limbo' = [active   |-> active \cup started,
                         received |-> lb.received \ stopped,
                         enqueued |-> SubSeq(queue, n + 1, Len(queue))]
            /\ remote' = Relistened(r, stopped, started)
            /\ \E requests \in SetToSeqs({Unwatch(t) : t \in stopped}
                                           \cup {Watch(t, 0) : t \in started}) :
                 call' = Sends(c, requests)
            /\ asserted' = (asserted /\ TRUE /\ stopped \subseteq r.targets)
  BY DEF Emits
<1> DEFINE n == IF room < Len(queue) THEN room ELSE Len(queue)
           started == {NewTarget(r, c, queue[i]) : i \in 1..n}
<1>2. /\ \A i \in 1..n : FreeNumbers(r, c, queue[i]) # {}
      /\ views' = Raise([vw EXCEPT !.limbo = inLimbo], cache, "Online")
      /\ limbo' = [active   |-> active \cup started,
                   received |-> lb.received \ stopped,
                   enqueued |-> SubSeq(queue, n + 1, Len(queue))]
      /\ remote' = Relistened(r, stopped, started)
      /\ \E requests \in SetToSeqs({Unwatch(t) : t \in stopped}
                                     \cup {Watch(t, 0) : t \in started}) :
           call' = Sends(c, requests)
      /\ asserted' = (asserted /\ TRUE /\ stopped \subseteq r.targets)
  BY <1>1, Zenon
<1>3. /\ TypeOK /\ QueueInv /\ asserted /\ vw \in Views /\ lb \in Limbo /\ r \in Remote /\ c \in Call
      /\ c.version # 0 /\ limbo \in Limbo /\ views \in Views
  BY DEF IInv, Ready, TypeOK, AssertionsHold
<1>4. /\ inLimbo \in [Query -> SUBSET Doc] /\ after \in SUBSET Doc
  <2>1. inLimbo \in [Query -> SUBSET Doc]
    BY <1>3, InLimboType
  <2> HIDE DEF inLimbo
  <2> QED
    BY <2>1
<1>5. before \in SUBSET Doc /\ before = InDoubt(views)
  BY <1>3 DEF Views, InDoubt
<1>6. lb.active \subseteq LimboTarget /\ lb.received \subseteq LimboTarget /\ lb.enqueued \in Seq(Doc)
  BY <1>3, LimboFields
<1>7. /\ views' \in Views /\ views'.listening = vw.listening /\ views'.limbo = inLimbo
      /\ views'.synced = vw.synced
  <2> DEFINE w == [vw EXCEPT !.limbo = inLimbo]
  <2> HIDE DEF inLimbo
  <2>1. w \in Views /\ w.listening = vw.listening /\ w.limbo = inLimbo /\ w.synced = vw.synced
    BY <1>3, <1>4 DEF Views
  <2>2. views' = Raise(w, cache, "Online")
    BY <1>2, Zenon DEF w
  <2> HIDE DEF w
  <2> QED
    BY <2>1, <2>2, Raises
<1>8. InDoubt(views') = after
  BY <1>7 DEF InDoubt
<1>9. NewQueue(lb.enqueued, before, after, queue)
  <2>1. queue \in Queues(lb.enqueued, before, after)
    OBVIOUS
  <2> HIDE DEF before, after
  <2> QED
    BY <1>4, <1>5, <1>6, <2>1, QueueIs
<1> HIDE DEF inLimbo, before, after
<1>10. /\ stopped \subseteq lb.active /\ active \subseteq lb.active
       /\ lb.active \subseteq r.targets /\ r.targets \cap LimboTarget = lb.active
       /\ r.targets \cap Query = vw.listening
  BY DEF Ready
<1>11. \A t \in lb.active : t \in active <=> t[1] \in after
  OBVIOUS
<1> HIDE DEF stopped, active
<1>12. IsFiniteSet(active) /\ Cardinality(active) \in Nat
       /\ Cardinality(active) <= MaxConcurrentLimboResolutions
  <2>1. active \subseteq limbo.active /\ limbo.active \subseteq LimboTarget
    BY <1>3, <1>10, LimboFields DEF Ready
  <2>2. IsFiniteSet(limbo.active)
    BY <2>1, TargetsFinite, FS_Subset
  <2>3. IsFiniteSet(active) /\ Cardinality(active) <= Cardinality(limbo.active)
    BY <2>1, <2>2, FS_Subset
  <2>4. Cardinality(active) \in Nat /\ Cardinality(limbo.active) \in Nat
    BY <2>2, <2>3, FS_CardinalityType
  <2> QED
    BY <1>3, <2>3, <2>4, BoundsAssumption DEF QueueInv
<1>13. /\ n \in Nat /\ n <= Len(queue) /\ n <= room /\ room \in Nat
       /\ n < Len(queue) => n = room
  BY <1>9, <1>12, BoundsAssumption DEF NewQueue
<1> HIDE DEF room, n
<1>14. AreStarted(r, c, queue, n, started)
  <2>1. started = {NewTarget(r, c, queue[i]) : i \in 1..n}
    OBVIOUS
  <2> HIDE DEF started
  <2>2. \A i \in 1..n : FreeNumbers(r, c, queue[i]) # {}
    BY <1>2 DEF n
  <2>3. queue \in Seq(Doc) /\ Distinct(queue)
    BY <1>9 DEF NewQueue
  <2> QED
    BY <1>3, <1>13, <2>1, <2>2, <2>3, StartedAre
<1> HIDE DEF started
<1>15. stopped \subseteq Target /\ stopped \cap Query = {} /\ started \cap Query = {}
  BY <1>6, <1>10, <1>14, NamesAssumption DEF Target, AreStarted
<1>16. Turned(r, stopped, started, remote')
  BY <1>2, <1>3, <1>14, <1>15, Relistens DEF AreStarted
<1>17. PICK b \in SetToSeqs({Unwatch(t) : t \in stopped} \cup {Watch(t, 0) : t \in started}) :
         call' = Sends(c, b)
  BY <1>2
<1>18. call' \in Call /\ call'.version = c.version /\ InStep(remote', call')
  <2>1. InStep(r, c) /\ Fresh(r)
    BY DEF Ready
  <2>2. stopped \subseteq r.targets
    BY <1>10
  <2>3. \A t \in started : t \notin r.targets /\ t \notin r.tracked /\ Waiting(c.requests, t) = {}
    BY <1>14 DEF AreStarted
  <2> QED
    BY <1>3, <1>14, <1>15, <1>16, <1>17, <2>1, <2>2, <2>3, TurnedInStep DEF AreStarted
<1>19. /\ limbo'.active = active \cup started /\ limbo'.received = lb.received \ stopped
       /\ limbo'.enqueued = SubSeq(queue, n + 1, Len(queue))
  BY <1>2
<1>20. /\ SubSeq(queue, n + 1, Len(queue)) \in Seq(Doc)
       /\ Len(SubSeq(queue, n + 1, Len(queue))) = Len(queue) - n
       /\ \A i \in 1..(Len(queue) - n) :
            SubSeq(queue, n + 1, Len(queue))[i] = queue[n + i] /\ n + i \in 1..Len(queue)
  BY <1>9, <1>13 DEF NewQueue
<1>21. limbo' \in Limbo
  BY <1>2, <1>6, <1>10, <1>14, <1>20 DEF Limbo, AreStarted
<1>22. TypeOK'
  BY <1>2, <1>3, <1>7, <1>16, <1>18, <1>21, SettledType DEF TypeOK, Turned
<1>23. StreamInv'
  <2>1. remote'.stream = "open"
    BY <1>16 DEF Turned, Ready
  <2>2. Fresh(remote')
    BY <1>16 DEF Turned, Fresh, Ready
  <2>3. remote'.idle => remote'.targets = {}
    BY <1>16 DEF Turned, Ready
  <2> QED
    BY <1>3, <1>18, <2>1, <2>2, <2>3 DEF StreamInv
<1>24. TargetsInv'
  <2>1. remote'.targets = (r.targets \ stopped) \cup started
    BY <1>16 DEF Turned
  <2>2. remote'.targets \cap Query = views'.listening
    BY <1>7, <1>10, <1>15, <2>1
  <2>3. active = lb.active \ stopped
    BY DEF active
  <2>4. remote'.targets \cap LimboTarget = limbo'.active
    BY <1>10, <1>14, <1>19, <2>1, <2>3 DEF AreStarted
  <2> QED
    BY <2>2, <2>4 DEF TargetsInv
<1>25. Fits(remote, views, limbo)'
  <2> SUFFICES ASSUME NEW t \in remote'.targets, NEW d \in Doc,
                      remote'.state[t].docs[d] \in {"modified", "removed"}
               PROVE  d \in Keys(views', limbo', t)
    BY DEF Fits
  <2>1. t \in Target /\ remote'.state[t].docs = r.state[t].docs
    BY <1>16, RemoteFields DEF Turned
  <2>2. t \notin started
    BY <1>14, <2>1, FreshType DEF Fresh, Ready, AreStarted
  <2>3. t \in r.targets /\ t \notin stopped
    BY <1>16, <2>2 DEF Turned
  <2>4. d \in Keys(vw, lb, t)
    BY <2>1, <2>3 DEF Ready, Fits
  <2> QED
    BY <1>7, <1>19, <2>3, <2>4 DEF Keys
<1>26. OnlineInv'
  BY SettledType DEF OnlineInv
<1>27. QueueInv'
  <2>1. Cardinality(limbo'.active) = Cardinality(active) + n
    <3>1. active \cap started = {}
      BY <1>10, <1>14 DEF AreStarted
    <3>2. Cardinality(active \cap started) = 0
      BY <3>1, FS_EmptySet, Zenon
    <3>3. Cardinality(active \cup started) =
            Cardinality(active) + Cardinality(started) - Cardinality(active \cap started)
      BY <1>12, <1>14, FS_Union DEF AreStarted
    <3>4. Cardinality(active \cup started) = Cardinality(active) + n
      BY <1>12, <1>13, <1>14, <3>2, <3>3 DEF AreStarted
    <3> QED
      BY <1>19, <3>4, Zenon
  <2>2. room = MaxConcurrentLimboResolutions - Cardinality(active)
    BY DEF room
  <2>3. Cardinality(limbo'.active) <= MaxConcurrentLimboResolutions
    BY <1>12, <1>13, <2>1, <2>2, BoundsAssumption
  <2>4. limbo'.enqueued # <<>> => Cardinality(limbo'.active) = MaxConcurrentLimboResolutions
    <3>1. limbo'.enqueued # <<>> => n < Len(queue)
      BY <1>9, <1>13, <1>19, <1>20 DEF NewQueue
    <3> QED
      BY <1>12, <1>13, <2>1, <2>2, <3>1, BoundsAssumption
  <2>5. /\ Len(limbo'.enqueued) = Len(queue) - n
        /\ \A i \in 1..Len(limbo'.enqueued) :
             limbo'.enqueued[i] = queue[n + i] /\ n + i \in 1..Len(queue)
    BY <1>19, <1>20
  <2>6. \A i \in 1..Len(limbo'.enqueued) : limbo'.enqueued[i] \in InDoubt(views')
    BY <1>8, <1>9, <2>5 DEF NewQueue
  <2>7. ASSUME NEW i \in 1..Len(limbo'.enqueued), NEW j \in 1..Len(limbo'.enqueued),
               limbo'.enqueued[i] = limbo'.enqueued[j]
        PROVE  i = j
    <3>1. n + i = n + j
      BY <1>9, <2>5, <2>7 DEF NewQueue, Distinct
    <3> QED
      BY <1>13, <3>1
  <2> QED
    BY <2>3, <2>4, <2>6, <2>7 DEF QueueInv
<1>28. (Refusable \subseteq Query => Asked(views, limbo))'
  <2> SUFFICES ASSUME Refusable \subseteq Query, NEW d \in after
               PROVE  (\E t \in limbo'.active : t[1] = d) \/ Enqueued(limbo', d)
    BY <1>8 DEF Asked
  <2>1. CASE \E t \in lb.active : t[1] = d
    BY <1>11, <1>19, <2>1
  <2>2. CASE ~(\E t \in lb.active : t[1] = d)
    <3>1. d \notin before \/ \E i \in 1..Len(lb.enqueued) : lb.enqueued[i] = d
      BY <1>5, <2>2 DEF Ready, Asked, Enqueued
    <3>2. PICK k \in 1..Len(queue) : queue[k] = d
      BY <1>9, <3>1 DEF NewQueue
    <3>3. CASE k <= n
      BY <1>13, <1>14, <1>19, <3>2, <3>3 DEF AreStarted
    <3>4. CASE ~(k <= n)
      <4>1. k - n \in 1..(Len(queue) - n) /\ n + (k - n) = k
        BY <1>9, <1>13, <3>4 DEF NewQueue
      <4>2. k - n \in 1..Len(limbo'.enqueued) /\ limbo'.enqueued[k - n] = d
        BY <1>19, <1>20, <3>2, <4>1
      <4> QED
        BY <4>2 DEF Enqueued
    <3> QED
      BY <3>3, <3>4
  <2> QED
    BY <2>1, <2>2
<1>29. AssertionsHold'
  BY <1>2, <1>3, <1>10 DEF AssertionsHold
<1> QED
  BY <1>22, <1>23, <1>24, <1>25, <1>26, <1>27, <1>28, <1>29 DEF IInv

-----------------------------------------------------------------------------
(* Snapshots.                                                              *)

LEMMA TakesOf ==
  ASSUME NEW r, Sound(r), NEW t \in Target, Takes(r, t)
  PROVE  t \in r.targets /\ t \in r.tracked /\ r.state[t].outstanding = 0
  BY ActiveWaitsForNothing DEF Takes

\* The changes of the targets are taken, and nothing else of them changes.
Handed(r, r2) ==
  /\ r2 \in Remote /\ r2.targets = r.targets /\ r2.stream = r.stream /\ r2.idle = r.idle
  /\ r2.tracked = r.tracked /\ r2.resets = r.resets /\ Fresh(r2)
  /\ \A t \in Target :
       /\ r2.state[t].outstanding = r.state[t].outstanding
       /\ r2.state[t].docs = IF Takes(r, t) THEN FreshState.docs ELSE r.state[t].docs

LEMMA HandedOverIs ==
  ASSUME NEW r, Sound(r)
  PROVE  Handed(r, HandedOver(r))
<1> DEFINE g == [t \in Target |-> [r.state[t] EXCEPT !.changed = FALSE, !.docs = FreshState.docs]]
           f == [t \in Target |-> IF Takes(r, t) THEN [r.state[t] EXCEPT !.changed = FALSE,
                                                                      !.docs = FreshState.docs]
                                  ELSE r.state[t]]
           resume == [t \in Target |-> IF Takes(r, t) /\ r.state[t].token # 0
                                         THEN r.state[t].token ELSE r.resume[t]]
           r2 == [r EXCEPT !.state = f, !.resume = resume, !.updates = NoUpdates]
<1>1. /\ r \in Remote /\ r.state \in [Target -> TargetState] /\ r.resume \in [Target -> Version]
      /\ r.tracked \subseteq Target
  BY RemoteFields DEF Sound
<1>2. \A t \in Target : r.state[t] \in TargetState /\ r.state[t].token \in Version
  BY <1>1, StateFields
<1>3. FreshState.docs \in [Doc -> {"none", "added", "modified", "removed"}]
  BY FreshType, StateFields
<1>4. \A t \in Target : /\ g[t] \in TargetState /\ g[t].outstanding = r.state[t].outstanding
                        /\ g[t].docs = FreshState.docs
  BY <1>2, <1>3 DEF TargetState
<1>5. \A t \in Target : f[t] = IF Takes(r, t) THEN g[t] ELSE r.state[t]
  OBVIOUS
<1>6. DOMAIN f = Target
  OBVIOUS
<1>7. HandedOver(r) = r2
  BY DEF HandedOver
<1> HIDE DEF g
<1>8. f \in [Target -> TargetState]
  <2>1. \A t \in Target : f[t] \in TargetState
    <3> HIDE DEF f
    <3> QED
      BY <1>2, <1>4, <1>5
  <2> QED
    BY <2>1
<1>9. resume \in [Target -> Version]
  BY <1>1, <1>2
<1> HIDE DEF f, resume
<1>10. /\ r2 \in Remote /\ r2.targets = r.targets /\ r2.stream = r.stream /\ r2.idle = r.idle
       /\ r2.tracked = r.tracked /\ r2.resets = r.resets /\ r2.state = f
  BY <1>1, <1>8, <1>9, FreshType DEF Remote
<1> HIDE DEF r2
<1>11. Fresh(r2)
  BY <1>1, <1>5, <1>10 DEF Fresh, Takes, Sound
<1> QED
  BY <1>4, <1>5, <1>7, <1>10, <1>11 DEF Handed

\* Some targets are unwatched and watched anew.
Anew(r, again, r2) ==
  /\ r2 \in Remote /\ r2.targets = r.targets /\ r2.stream = r.stream
  /\ r2.idle => r.idle
  /\ r2.tracked = r.tracked \cup again /\ r2.resets = {}
  /\ \A t \in Target :
       /\ t \notin again => r2.state[t] = r.state[t]
       /\ t \in again => r2.state[t].outstanding = r.state[t].outstanding + 2
       /\ r2.state[t].docs = r.state[t].docs

LEMMA RewatchedIs ==
  ASSUME NEW r \in Remote, NEW again, again \subseteq Target
  PROVE  Anew(r, again, Rewatched(r, again))
<1> DEFINE r1 == Expects(r, again, 2)
           resume == [t \in Target |-> IF t \in again THEN 0 ELSE r1.resume[t]]
           idle == r1.idle /\ again = {}
           r2 == [r1 EXCEPT !.resets = {}, !.idle = idle, !.resume = resume]
<1>1. Rewatched(r, again) = r2
  BY DEF Rewatched
<1>2. Expected(r, again, 2, r1)
  BY ExpectsIs
<1> HIDE DEF r1
<1>3. r1 \in Remote /\ r1.idle = r.idle
  BY <1>2 DEF Expected
<1>4. resume \in [Target -> Version]
  BY <1>3, RemoteFields, BoundsAssumption DEF Version
<1>5. idle \in BOOLEAN /\ (idle => r.idle)
  BY <1>3, RemoteFields
<1> HIDE DEF resume, idle
<1>6. /\ r2 \in Remote /\ r2.targets = r1.targets /\ r2.idle = idle /\ r2.stream = r1.stream
      /\ r2.tracked = r1.tracked /\ r2.resets = {} /\ r2.state = r1.state
  BY <1>3, <1>4, <1>5 DEF Remote
<1> HIDE DEF r2
<1> QED
  BY <1>1, <1>2, <1>5, <1>6 DEF Anew, Expected

LEMMA MergedType ==
  ASSUME NEW r, NEW old \in [Query -> SUBSET Doc]
  PROVE  Merged(old, r) \in [Query -> SUBSET Doc]
<1>1. \A q \in Query : DocsThat(r.state[q], "added") \subseteq Doc
  BY DEF DocsThat
<1> QED
  BY <1>1 DEF Merged

LEMMA ViewsAtIs ==
  ASSUME NEW r, Sound(r), views \in Views
  PROVE  /\ ViewsAt(r) \in Views /\ ViewsAt(r).listening = views.listening
         /\ ViewsAt(r).limbo = views.limbo /\ ViewsAt(r).synced = Merged(views.synced, r)
<1> DEFINE synced == Merged(views.synced, r)
           current == [q \in Query |-> IF Takes(r, q) THEN r.state[q].current ELSE views.current[q]]
           token == [q \in Query |-> IF Takes(r, q) /\ r.state[q].token # 0
                                       THEN r.state[q].token ELSE views.token[q]]
           w == [views EXCEPT !.synced = synced, !.current = current, !.token = token]
<1>1. ViewsAt(r) = w
  BY DEF ViewsAt
<1>2. r.state \in [Target -> TargetState]
  BY RemoteFields DEF Sound
<1>3. \A q \in Query : r.state[q] \in TargetState
  BY <1>2 DEF Target
<1>4. \A q \in Query : r.state[q].current \in BOOLEAN /\ r.state[q].token \in Version
  BY <1>3, StateFields
<1>5. /\ views.synced \in [Query -> SUBSET Doc] /\ views.current \in [Query -> BOOLEAN]
      /\ views.token \in [Query -> Version]
  BY DEF Views
<1>6. synced \in [Query -> SUBSET Doc]
  BY <1>5, MergedType
<1>7. current \in [Query -> BOOLEAN]
  BY <1>4, <1>5
<1>8. token \in [Query -> Version]
  BY <1>4, <1>5
<1> HIDE DEF synced, current, token
<1>9. /\ w \in Views /\ w.listening = views.listening /\ w.limbo = views.limbo
      /\ w.synced = synced
  BY <1>6, <1>7, <1>8 DEF Views
<1> HIDE DEF w
<1> QED
  BY <1>1, <1>9 DEF synced

LEMMA LimboAtIs ==
  ASSUME NEW r, limbo \in Limbo
  PROVE  /\ LimboAt(r) \in Limbo /\ LimboAt(r).active = limbo.active
         /\ LimboAt(r).enqueued = limbo.enqueued
         /\ \A t : ~Takes(r, t) => (t \in LimboAt(r).received <=> t \in limbo.received)
<1> DEFINE Has(change) == {t \in limbo.active : Takes(r, t) /\ DocsThat(r.state[t], change) # {}}
           received == (limbo.received \cup Has("added")) \ Has("removed")
           x == [limbo EXCEPT !.received = received]
<1>1. LimboAt(r) = x
  BY DEF LimboAt
<1>2. limbo.active \subseteq LimboTarget /\ limbo.received \subseteq LimboTarget
  BY LimboFields
<1>3. received \subseteq LimboTarget
  BY <1>2
<1>4. \A t : ~Takes(r, t) => (t \in received <=> t \in limbo.received)
  OBVIOUS
<1> HIDE DEF received
<1>5. x \in Limbo /\ x.active = limbo.active /\ x.enqueued = limbo.enqueued /\ x.received = received
  BY <1>3 DEF Limbo
<1> HIDE DEF x
<1> QED
  BY <1>1, <1>4, <1>5

LEMMA DiskAtType ==
  ASSUME disk \in Disk, NEW r, Sound(r), NEW v \in Version, NEW late
  PROVE  DiskAt(r, v, late) \in Disk
<1> DEFINE cache == [d \in Doc |-> Newer(disk.cache[d], r.updates[d])]
           keys == Merged(disk.keys, r)
           token == [q \in Query |-> IF Takes(r, q) THEN SavedToken(q, r.state[q], late)
                                     ELSE disk.token[q]]
           x == [cache |-> cache, lastVersion |-> v, keys |-> keys, token |-> token]
<1>1. DiskAt(r, v, late) = x
  BY DEF DiskAt
<1>2. /\ disk.cache \in [Doc -> Update] /\ disk.keys \in [Query -> SUBSET Doc]
      /\ disk.token \in [Query -> Version]
  BY DEF Disk
<1>3. r.updates \in [Doc -> Update] /\ r.state \in [Target -> TargetState]
  BY RemoteFields DEF Sound
<1>4. cache \in [Doc -> Update]
  BY <1>2, <1>3, FreshType DEF Newer
<1>5. keys \in [Query -> SUBSET Doc]
  BY <1>2, MergedType
<1>6. \A q \in Query : SavedToken(q, r.state[q], late) \in Version
  <2> TAKE q \in Query
  <2>1. r.state[q].token \in Version
    BY <1>3, StateFields DEF Target
  <2> QED
    BY <1>2, <2>1 DEF SavedToken
<1>7. token \in [Query -> Version]
  BY <1>2, <1>6
<1> HIDE DEF cache, keys, token
<1>8. x \in Disk
  BY <1>4, <1>5, <1>7 DEF Disk
<1> HIDE DEF x
<1> QED
  BY <1>1, <1>8

\* A change claims that a document was there only if it was.
LEMMA ChangesAlwaysFit ==
  ASSUME NEW r, Sound(r), limbo \in Limbo
  PROVE  ChangesFit(r) = TRUE
<1>1. ASSUME NEW q \in Query, Takes(r, q), NEW d \in DocsThat(r.state[q], "modified")
      PROVE  d \in Merged(views.synced, r)[q]
  <2>1. d \in Doc /\ r.state[q].docs[d] = "modified"
    BY <1>1 DEF DocsThat
  <2>2. q \in Target /\ q \in r.targets
    BY <1>1, TakesOf DEF Target
  <2>3. d \in views.synced[q]
    BY <2>1, <2>2 DEF Sound, Fits, Keys
  <2>4. d \notin DocsThat(r.state[q], "removed")
    BY <2>1 DEF DocsThat
  <2> QED
    BY <1>1, <2>3, <2>4 DEF Merged
<1>2. ASSUME NEW t \in LimboTarget, Takes(r, t), t \notin limbo.received
      PROVE  DocsThat(r.state[t], "modified") \cup DocsThat(r.state[t], "removed") = {}
  <2>1. t \in Target /\ t \notin Query
    BY NamesAssumption DEF Target
  <2>2. t \in r.targets
    BY <1>2, <2>1, TakesOf
  <2>3. \A d \in Doc : r.state[t].docs[d] \notin {"modified", "removed"}
    BY <1>2, <2>1, <2>2 DEF Sound, Fits, Keys
  <2> QED
    BY <2>3 DEF DocsThat
<1>3. \A t \in limbo.active : t \in LimboTarget
  BY LimboFields
<1>4. \A q \in Query : Takes(r, q) =>
        DocsThat(r.state[q], "modified") \subseteq Merged(views.synced, r)[q]
  BY <1>1
<1>5. \A t \in limbo.active : Takes(r, t) =>
        DocsThat(r.state[t], "modified") \cup DocsThat(r.state[t], "removed") = {}
          \/ t \in limbo.received
  BY <1>2, <1>3
<1> QED
  BY <1>4, <1>5, Zenon DEF ChangesFit

\* The targets of a snapshot are watched anew where a filter did not match.
LEMMA AnewInStep ==
  ASSUME NEW r, Sound(r), NEW c \in Call, InStep(r, c),
         NEW h, Handed(r, h), NEW again, again = r.resets \cap r.targets,
         NEW h2, Anew(h, again, h2), NEW b \in Rewatches(again)
  PROVE  Sends(c, b) \in Call /\ Sends(c, b).version = c.version /\ InStep(h2, Sends(c, b))
<1>1. r \in Remote /\ again \in SUBSET Target /\ again \subseteq r.targets
  BY RemoteFields DEF Sound
<1>2. Asks(b, again, again)
  BY <1>1, AsksToRewatch
<1>3. b \in Seq(Request)
  BY <1>2 DEF Asks
<1>4. /\ Sends(c, b) \in Call /\ Sends(c, b).requests = c.requests \o b
      /\ Sends(c, b).watched = c.watched /\ Sends(c, b).version = c.version
  BY <1>3, SendsIs
<1>5. \A t \in Target : r.state[t].outstanding \in Nat
  BY <1>1, RemoteFields, StateFields
<1>6. Settling(r, c.requests)
  BY DEF InStep
<1>7. Changed(r, again, again, h2)
  <2>1. \A t \in Target : t \in h2.targets <=> t \in r.targets
    BY DEF Handed, Anew
  <2>2. \A t \in again : IF t \in r.targets THEN t \in again ELSE r.state[t].outstanding = 0
    BY <1>1
  <2>3. \A t \in Target : h2.state[t].outstanding = r.state[t].outstanding
          + (IF t \in again THEN 1 ELSE 0) + (IF t \in again THEN 1 ELSE 0)
    BY <1>5 DEF Handed, Anew
  <2>4. h2.resets = {}
    BY DEF Anew
  <2>5. \A t \in Query \ h2.targets : t \notin r.targets /\ t \notin again /\ t \notin h2.tracked
    BY <1>1, <1>6 DEF Settling, Handed, Anew
  <2> QED
    BY <1>1, <2>1, <2>2, <2>3, <2>4, <2>5 DEF Changed
<1>8. \A t \in again : Waiting(c.requests, t) = {}
  BY <1>6 DEF Settling
<1>9. Requested(c, b, again, Sends(c, b))
  BY <1>4, <1>8 DEF Requested
<1>10. h2 \in Remote
  BY DEF Anew
<1> QED
  BY <1>1, <1>2, <1>4, <1>7, <1>9, <1>10, Sent

LEMMA AnewFits ==
  ASSUME NEW r, Sound(r), views \in Views, limbo \in Limbo,
         NEW h, Handed(r, h), NEW again, NEW h2, Anew(h, again, h2)
  PROVE  Fits(h2, ViewsAt(r), LimboAt(r))
<1> SUFFICES ASSUME NEW t \in h2.targets, NEW d \in Doc,
                    h2.state[t].docs[d] \in {"modified", "removed"}
             PROVE  d \in Keys(ViewsAt(r), LimboAt(r), t)
  BY DEF Fits
<1>1. t \in Target /\ t \in r.targets /\ h2.state[t].docs = h.state[t].docs
  BY RemoteFields DEF Handed, Anew
<1>2. ~Takes(r, t) /\ h2.state[t].docs = r.state[t].docs
  BY <1>1, FreshType DEF Handed
<1>3. d \in Keys(views, limbo, t)
  BY <1>1, <1>2 DEF Sound, Fits
<1>4. CASE t \in Query
  <2>1. Merged(views.synced, r)[t] = views.synced[t]
    BY <1>2, <1>4 DEF Merged
  <2> QED
    BY <1>3, <1>4, <2>1, ViewsAtIs DEF Keys
<1>5. CASE t \notin Query
  <2>1. t \in LimboAt(r).received <=> t \in limbo.received
    BY <1>2, LimboAtIs
  <2> QED
    BY <1>3, <1>5, <2>1 DEF Keys
<1> QED
  BY <1>4, <1>5

\* The state in which a snapshot comes to the limbo documents.
LEMMA SnapshotIsReady ==
  ASSUME IInv, remote.stream = "open", NEW r, Kept(remote, r),
         NEW again, again = r.resets \cap r.targets, NEW b \in Rewatches(again)
  PROVE  Ready(ViewsAt(r), LimboAt(r), Rewatched(HandedOver(r), again), Sends(call, b))
<1> DEFINE h == HandedOver(r)
           h2 == Rewatched(h, again)
<1>1. /\ call \in Call /\ Sound(remote) /\ InStep(remote, call) /\ call.version # 0
  BY StateOfIInv
<1>2. views \in Views /\ limbo \in Limbo /\ TargetsInv /\ StreamInv
      /\ (Refusable \subseteq Query => Asked(views, limbo))
  BY DEF IInv, TypeOK
<1>3. Sound(r)
  BY DEF Kept, Sound
<1>4. InStep(r, call)
  BY <1>1, KeptKeepsInStep DEF Sound
<1>5. Handed(r, h)
  BY <1>3, HandedOverIs
<1> HIDE DEF h
<1>6. again \subseteq Target
  BY <1>3, RemoteFields DEF Sound
<1>7. Anew(h, again, h2)
  BY <1>5, <1>6, RewatchedIs DEF Handed
<1> HIDE DEF h2
<1>8. Sends(call, b) \in Call /\ Sends(call, b).version = call.version
      /\ InStep(h2, Sends(call, b))
  BY <1>1, <1>3, <1>4, <1>5, <1>7, AnewInStep
<1>9. Fits(h2, ViewsAt(r), LimboAt(r))
  BY <1>2, <1>3, <1>5, <1>7, AnewFits
<1>10. /\ h2 \in Remote /\ h2.targets = remote.targets /\ h2.stream = "open"
       /\ h2.idle => remote.idle
  BY <1>5, <1>7 DEF Kept, Handed, Anew
<1>11. Fresh(h2)
  BY <1>5, <1>7 DEF Handed, Anew, Fresh
<1>12. ViewsAt(r) \in Views /\ ViewsAt(r).listening = views.listening
  BY <1>2, <1>3, ViewsAtIs
<1>13. /\ LimboAt(r) \in Limbo /\ LimboAt(r).active = limbo.active
       /\ LimboAt(r).enqueued = limbo.enqueued
  BY <1>2, LimboAtIs
<1>14. Refusable \subseteq Query => Asked(views, LimboAt(r))
  BY <1>2, <1>13 DEF Asked, Enqueued
<1>15. Ready(ViewsAt(r), LimboAt(r), h2, Sends(call, b))
  BY <1>1, <1>2, <1>8, <1>9, <1>10, <1>11, <1>12, <1>13, <1>14
  DEF Ready, TargetsInv, StreamInv
<1> QED
  BY <1>15 DEF h2, h

LEMMA SnapshotKeepsIInv ==
  ASSUME IInv, ServerSnapshot
  PROVE  IInv'
<1> DEFINE v == call.version
           r0 == AllTargetsAt(remote, v)
           r == WithSynthesizedDeletes(r0, v)
           again == r.resets \cap r.targets
           h2 == Rewatched(HandedOver(r), again)
<1>1. /\ call.watched # {}
      /\ IF v < disk.lastVersion THEN Received(r0, call)
         ELSE /\ RaiseWatchSnapshot(r0, call, v)
              /\ online' = Settled("Online")
              /\ UNCHANGED history
  BY DEF ServerSnapshot
<1>2. /\ remote.stream = "open" /\ v # 0 /\ v \in Version /\ call \in Call
      /\ Sound(remote) /\ InStep(remote, call)
  BY <1>1, StateOfIInv, CallFields
<1>3. limbo \in Limbo /\ disk \in Disk
  BY DEF IInv, TypeOK
<1> HIDE DEF v
<1>4. Kept(remote, r0)
  BY <1>2, MarksAll
<1>5. CASE v < disk.lastVersion
  <2>1. Received(r0, call)
    BY <1>1, <1>5
  <2> HIDE DEF r0
  <2> QED
    BY <1>2, <1>4, <2>1, KeptMessage DEF v
<1>6. CASE ~(v < disk.lastVersion)
  <2>1. RaiseWatchSnapshot(r0, call, v) /\ online' = Settled("Online") /\ history' = history
    BY <1>1, <1>6
  <2> HIDE DEF r0
  <2>2. PICK b \in Rewatches(again), late \in SUBSET {q \in Query : Takes(r, q)} :
          /\ disk' = DiskAt(r, v, late)
          /\ Emits(ViewsAt(r), LimboAt(r), h2, Sends(call, b), disk'.cache, ChangesFit(r))
    BY <2>1, Zenon DEF RaiseWatchSnapshot
  <2>3. Sound(r0)
    BY <1>4 DEF Kept, Sound
  <2>4. Kept(remote, r)
    BY <1>2, <1>4, <2>3, Synthesizes, KeptAgain
  <2> HIDE DEF r
  <2>5. Sound(r)
    BY <2>4 DEF Kept, Sound
  <2>6. Ready(ViewsAt(r), LimboAt(r), h2, Sends(call, b))
    BY <1>2, <2>4, SnapshotIsReady
  <2>7. Emits(ViewsAt(r), LimboAt(r), h2, Sends(call, b), disk'.cache, TRUE)
    <3>1. ChangesFit(r) = TRUE
      BY <1>3, <2>5, ChangesAlwaysFit
    <3> QED
      BY <2>2, <3>1
  <2>8. disk' \in Disk
    BY <1>2, <1>3, <2>2, <2>5, DiskAtType
  <2> HIDE DEF h2
  <2> QED
    BY <2>1, <2>6, <2>7, <2>8, EmitsKeepsIInv
<1> QED
  BY <1>5, <1>6

-----------------------------------------------------------------------------
(* Rejected targets.                                                       *)

\* What ServerRefuses leaves of the target, and RejectedQuery of the view.
WithoutTarget(r, t) == [WithoutState(r, t) EXCEPT !.targets = @ \ {t}, !.resume[t] = 0]
WithoutView(vw, q) ==
  [vw EXCEPT !.listening = @ \ {q}, !.raised = @ \ {q}, !.synced[q] = {},
             !.current[q] = FALSE, !.limbo[q] = {}, !.token[q] = 0]

\* Nothing is left of the target.
Forgotten(r, t, r2) ==
  /\ r2 \in Remote /\ r2.targets = r.targets \ {t} /\ r2.stream = r.stream /\ r2.idle = r.idle
  /\ r2.tracked = r.tracked \ {t} /\ r2.resets = r.resets
  /\ r2.state[t] = FreshState /\ \A u \in Target \ {t} : r2.state[u] = r.state[u]

LEMMA ForgottenIs ==
  ASSUME NEW r \in Remote, NEW t \in Target
  PROVE  Forgotten(r, t, WithoutTarget(r, t))
<1> DEFINE r1 == WithoutState(r, t)
           r2 == [r1 EXCEPT !.targets = @ \ {t}, !.resume[t] = 0]
<1>1. /\ r.tracked \subseteq Target /\ r.state \in [Target -> TargetState] /\ FreshState \in TargetState
      /\ r.targets \subseteq Target /\ r.resume \in [Target -> Version] /\ 0 \in Version
  BY RemoteFields, FreshType, BoundsAssumption DEF Version
<1>2. /\ r1 \in Remote /\ r1.targets = r.targets /\ r1.stream = r.stream /\ r1.idle = r.idle
      /\ r1.tracked = r.tracked \ {t} /\ r1.resets = r.resets /\ r1.resume = r.resume
      /\ r1.state = [r.state EXCEPT ![t] = FreshState]
  BY <1>1 DEF WithoutState, Remote
<1> HIDE DEF r1
<1>3. /\ r2 \in Remote /\ r2.targets = r1.targets \ {t} /\ r2.stream = r1.stream
      /\ r2.idle = r1.idle /\ r2.tracked = r1.tracked /\ r2.resets = r1.resets
      /\ r2.state = r1.state
  BY <1>1, <1>2 DEF Remote
<1> HIDE DEF r2
<1>4. Forgotten(r, t, r2)
  BY <1>1, <1>2, <1>3 DEF Forgotten
<1> QED
  BY <1>4 DEF r1, r2, WithoutTarget

\* What the client has of its targets when one of them was refused.
LEMMA RefusedInStep ==
  ASSUME IInv, NEW t \in Target, t \in remote.targets, Serves("watch", t)
  PROVE  LET r == WithoutTarget(remote, t)
         IN  /\ Served(call) \in Call /\ Served(call).version = call.version
             /\ InStep(r, Served(call)) /\ Fresh(r) /\ r \in Remote
             /\ r.stream = "open" /\ ~r.idle /\ r.targets = remote.targets \ {t}
             /\ \A u \in r.targets : u \in Target /\ u # t /\ u \in remote.targets
                                       /\ r.state[u] = remote.state[u]
<1> DEFINE c == Served(call)
           r == WithoutTarget(remote, t)
<1>1. /\ remote.stream = "open" /\ call.requests # <<>>
      /\ Head(call.requests).op = "watch" /\ Head(call.requests).target = t
      /\ call \in Call /\ remote \in Remote /\ InStep(remote, call) /\ call.version # 0
  BY HeadIsWaitedFor
<1>2. /\ c \in Call /\ c.requests = Tail(call.requests) /\ c.watched = call.watched
      /\ c.version = call.version
  <2>1. c \in Call /\ c = [call EXCEPT !.requests = Tail(@)]
    BY HeadIsWaitedFor
  <2> QED
    BY <1>1, <2>1 DEF Call
<1>3. StreamInv /\ Sound(remote)
  BY <1>1, StateOfIInv DEF IInv
<1>4. Forgotten(remote, t, r)
  BY <1>1, ForgottenIs
<1> HIDE DEF c, r
<1>5. r.state[t].outstanding = 0 /\ \A u \in Target \ {t} : r.state[u].outstanding = remote.state[u].outstanding
  BY <1>4, FreshType DEF Forgotten
<1>6. r \in Remote /\ r.targets = remote.targets \ {t} /\ r.tracked = remote.tracked \ {t}
      /\ r.resets = remote.resets
  BY <1>4 DEF Forgotten
<1>7. InStep(r, c)
  <2>1. t = Head(call.requests).target
    BY <1>1
  <2> QED
    BY <1>1, <1>2, <1>5, <1>6, <2>1, Refused
<1>8. Fresh(r)
  BY <1>3, <1>4 DEF Fresh, Forgotten, Sound
<1>9. r.stream = "open" /\ ~r.idle
  BY <1>1, <1>3, <1>4 DEF Forgotten, StreamInv
<1>10. \A u \in r.targets : u \in Target /\ u # t /\ u \in remote.targets
                              /\ r.state[u] = remote.state[u]
  BY <1>1, <1>4, RemoteFields DEF Forgotten
<1> QED
  BY <1>2, <1>6, <1>7, <1>8, <1>9, <1>10 DEF c, r

\* A refused query is forgotten with its view.
LEMMA RefusedQueryIsReady ==
  ASSUME IInv, NEW t \in Target, t \in remote.targets, t \notin limbo.active, Serves("watch", t)
  PROVE  LET vw == WithoutView(views, t)
             r == WithoutTarget(remote, t)
         IN  t \in Query /\ vw \in Views /\ Ready(vw, limbo, r, Served(call))
<1> DEFINE vw == WithoutView(views, t)
           r == WithoutTarget(remote, t)
           c == Served(call)
<1>1. /\ c \in Call /\ c.version = call.version /\ call.version # 0
      /\ InStep(r, c) /\ Fresh(r) /\ r \in Remote
      /\ r.stream = "open" /\ ~r.idle /\ r.targets = remote.targets \ {t}
      /\ \A u \in r.targets : u \in Target /\ u # t /\ u \in remote.targets
                                /\ r.state[u] = remote.state[u]
  BY RefusedInStep, HeadIsWaitedFor
<1> HIDE DEF r, c
<1>2. /\ views \in Views /\ limbo \in Limbo /\ TargetsInv /\ Fits(remote, views, limbo)
      /\ (Refusable \subseteq Query => Asked(views, limbo))
  BY DEF IInv, TypeOK
<1>3. t \in Query /\ t \notin LimboTarget
  BY <1>2, NamesAssumption DEF Target, TargetsInv
<1>4. 0 \in Version
  BY BoundsAssumption DEF Version
<1>5. /\ vw \in Views /\ vw.listening = views.listening \ {t}
      /\ vw.synced = [views.synced EXCEPT ![t] = {}]
  BY <1>2, <1>3, <1>4 DEF Views, WithoutView
<1> HIDE DEF vw
<1>6. r.targets \cap Query = vw.listening /\ r.targets \cap LimboTarget = limbo.active
  BY <1>1, <1>2, <1>3, <1>5 DEF TargetsInv
<1>7. views.synced \in [Query -> SUBSET Doc]
  BY <1>2 DEF Views
<1>8. \A u \in Query \ {t} : vw.synced[u] = views.synced[u]
  BY <1>5, <1>7
<1>9. Fits(r, vw, limbo)
  BY <1>1, <1>2, <1>5, <1>8 DEF Fits, Keys
<1>10. Ready(vw, limbo, r, c)
  BY <1>1, <1>2, <1>5, <1>6, <1>9 DEF Ready
<1> QED
  BY <1>3, <1>5, <1>10 DEF vw, r, c

LEMMA RefusesKeepIInv ==
  ASSUME IInv, NEW t \in Refusable, ServerRefuses(t)
  PROVE  IInv'
<1> DEFINE c == Served(call)
           r == WithoutTarget(remote, t)
<1>1. /\ Serves("watch", t) /\ online' = Settled("Online") /\ history' = history
      /\ IF t \notin remote.targets
           THEN remote' = remote /\ call' = c /\ UNCHANGED <<disk, views, limbo, asserted>>
         ELSE IF t \in limbo.active THEN RejectedLimbo(t, r, c)
         ELSE RejectedQuery(t, r, c)
  BY DEF ServerRefuses, WithoutTarget
<1>2. t \in Target
  BY RefusableAssumption
<1>3. /\ remote.stream = "open" /\ call.requests # <<>>
      /\ Head(call.requests).op = "watch" /\ Head(call.requests).target = t
      /\ call \in Call /\ remote \in Remote /\ InStep(remote, call) /\ call.version # 0
  BY <1>1, <1>2, HeadIsWaitedFor
<1>4. /\ c \in Call /\ c.requests = Tail(call.requests) /\ c.watched = call.watched
      /\ c.version = call.version
  <2>1. c \in Call /\ c = [call EXCEPT !.requests = Tail(@)]
    BY <1>1, <1>2, HeadIsWaitedFor
  <2> QED
    BY <1>3, <2>1 DEF Call
<1>5. /\ views \in Views /\ limbo \in Limbo /\ disk \in Disk /\ TargetsInv /\ StreamInv
      /\ Fits(remote, views, limbo) /\ Sound(remote)
      /\ (Refusable \subseteq Query => Asked(views, limbo))
  BY StateOfIInv DEF IInv, TypeOK
<1>6. Forgotten(remote, t, r)
  BY <1>2, <1>3, ForgottenIs
<1> HIDE DEF c, r
<1>7. CASE t \notin remote.targets
  <2>1. InStep(remote, c)
    <3>1. t = Head(call.requests).target
      BY <1>3
    <3>2. c.watched \ {t} = call.watched \ {t}
      BY <1>4
    <3>3. t \in remote.targets \/ Head(call.requests).op = "unwatch" =>
            (t \in c.watched) = (Head(call.requests).op = "watch")
      BY <1>3, <1>7
    <3>4. remote.state[t].outstanding = remote.state[t].outstanding - 1
            \/ (t \notin remote.targets /\ remote.state[t].outstanding = remote.state[t].outstanding)
      BY <1>7
    <3>5. remote.tracked \subseteq remote.tracked \cup {t}
      OBVIOUS
    <3> QED
      BY <1>3, <1>4, <3>1, <3>2, <3>3, <3>4, <3>5, Answered
  <2>2. Received(remote, c)
    BY <1>1, <1>7 DEF Received
  <2> QED
    BY <1>3, <1>4, <1>5, <2>1, <2>2, ReceivedKeepsIInv
<1>8. ASSUME t \in remote.targets
      PROVE  /\ InStep(r, c) /\ Fresh(r) /\ r \in Remote /\ r.stream = "open" /\ ~r.idle
             /\ r.targets = remote.targets \ {t}
             /\ \A u \in r.targets : u \in Target /\ u # t /\ u \in remote.targets
                                       /\ r.state[u] = remote.state[u]
  BY <1>1, <1>2, <1>8, RefusedInStep DEF c, r
<1>9. CASE t \in remote.targets /\ t \in limbo.active
  <2> DEFINE cache == [disk.cache EXCEPT ![t[1]] = NoUpdate]
             lb == [limbo EXCEPT !.active = @ \ {t}, !.received = @ \ {t}]
  <2>1. disk' = [disk EXCEPT !.cache = cache] /\ Emits(views, lb, r, c, cache, TRUE)
    BY <1>1, <1>9 DEF RejectedLimbo
  <2>2. t \in LimboTarget /\ t \notin Query
    BY <1>5, <1>9, LimboFields, NamesAssumption
  <2>3. cache \in [Doc -> Update]
    BY <1>5, FreshType DEF Disk
  <2> HIDE DEF cache
  <2>4. disk' \in Disk
    BY <1>5, <2>1, <2>3 DEF Disk
  <2>5. /\ lb \in Limbo /\ lb.active = limbo.active \ {t} /\ lb.received = limbo.received \ {t}
        /\ lb.enqueued = limbo.enqueued
    BY <1>5 DEF Limbo
  <2> HIDE DEF lb
  <2>6. r.targets \cap Query = views.listening /\ r.targets \cap LimboTarget = lb.active
    BY <1>5, <1>8, <1>9, <2>2, <2>5 DEF TargetsInv
  <2>7. Fits(r, views, lb)
    BY <1>5, <1>8, <1>9, <2>5 DEF Fits, Keys
  <2>8. ~(Refusable \subseteq Query)
    BY <2>2
  <2>9. Ready(views, lb, r, c)
    BY <1>3, <1>4, <1>5, <1>8, <1>9, <2>5, <2>6, <2>7, <2>8 DEF Ready
  <2> QED
    BY <1>1, <2>1, <2>4, <2>9, EmitsKeepsIInv
<1>10. CASE t \in remote.targets /\ t \notin limbo.active
  <2> DEFINE vw == WithoutView(views, t)
  <2>1. /\ disk' = [disk EXCEPT !.token[t] = views.token[t]]
        /\ Emits(vw, limbo, r, c, disk.cache, TRUE)
    BY <1>1, <1>10 DEF RejectedQuery, WithoutView
  <2>2. t \in Query /\ vw \in Views /\ Ready(vw, limbo, r, c)
    BY <1>1, <1>2, <1>10, RefusedQueryIsReady DEF c, r
  <2> HIDE DEF vw
  <2>3. disk' \in Disk
    BY <1>5, <2>1, <2>2 DEF Disk, Views
  <2> QED
    BY <1>1, <2>1, <2>2, <2>3, EmitsKeepsIInv
<1> QED
  BY <1>7, <1>9, <1>10

-----------------------------------------------------------------------------
(* The theorems.                                                           *)

LEMMA StutterKeepsIInv ==
  ASSUME IInv, UNCHANGED vars
  PROVE  IInv'
<1>1. /\ history' = history /\ call' = call /\ disk' = disk /\ views' = views
      /\ limbo' = limbo /\ remote' = remote /\ online' = online /\ asserted' = asserted
  BY DEF vars
<1>2. TypeOK' /\ StreamInv' /\ TargetsInv'
  BY <1>1 DEF IInv, TypeOK, StreamInv, TargetsInv
<1>3. Fits(remote, views, limbo)' /\ OnlineInv' /\ QueueInv'
  BY <1>1 DEF IInv, OnlineInv, QueueInv
<1>4. (Refusable \subseteq Query => Asked(views, limbo))' /\ AssertionsHold'
  BY <1>1 DEF IInv, AssertionsHold
<1> QED
  BY <1>2, <1>3, <1>4 DEF IInv

LEMMA ServerStepKeepsIInv ==
  ASSUME IInv, ServerStep
  PROVE  IInv'
<1>1. CASE ServerReads
  BY <1>1, ReadsKeepIInv
<1>2. CASE \E d \in Doc : ServerSends(d)
  BY <1>2, SendsKeepIInv
<1>3. ASSUME NEW t \in Target, ServerAdds(t)
      PROVE  IInv'
  BY <1>3, AddsKeepIInv
<1>4. ASSUME NEW t \in Target, ServerRemoves(t)
      PROVE  IInv'
  BY <1>4, RemovesKeepIInv
<1>5. ASSUME NEW t \in Target, ServerResets(t)
      PROVE  IInv'
  BY <1>5, ResetsKeepIInv
<1>6. ASSUME NEW t \in Target, ServerFilters(t)
      PROVE  IInv'
  BY <1>6, FiltersKeepIInv
<1>7. ASSUME NEW t \in Target, ServerCurrent(t)
      PROVE  IInv'
  BY <1>7, CurrentKeepsIInv
<1>8. CASE ServerSnapshot
  BY <1>8, SnapshotKeepsIInv
<1> QED
  BY <1>1, <1>2, <1>3, <1>4, <1>5, <1>6, <1>7, <1>8 DEF ServerStep

\* Every action keeps the inductive invariant.
LEMMA NextKeepsIInv ==
  ASSUME IInv, [Next]_vars
  PROVE  IInv'
<1>1. CASE \E d \in Doc : DatabaseChanges(d)
  BY <1>1, ChangesKeepIInv
<1>2. CASE \E q \in Query : Listen(q)
  BY <1>2, ListensKeepIInv
<1>3. CASE StreamOpens
  BY <1>3, OpensKeepIInv
<1>4. CASE OnlineTimeout
  BY <1>4, TimeoutKeepsIInv
<1>5. CASE IdleTimeout
  BY <1>5, IdleKeepsIInv
<1>6. CASE ServerStep
  BY <1>6, ServerStepKeepsIInv
<1>7. CASE \E t \in Refusable : ServerRefuses(t)
  BY <1>7, RefusesKeepIInv
<1>8. CASE Disturbance
  BY <1>8, BreaksKeepIInv, RestartKeepsIInv, RelaunchKeepsIInv DEF Disturbance
<1>9. CASE UNCHANGED vars
  BY <1>9, StutterKeepsIInv
<1> QED
  BY <1>1, <1>2, <1>3, <1>4, <1>5, <1>6, <1>7, <1>8, <1>9 DEF Next

\* The state of the client and of its call is always the one of the invariant,
\* however tasks, messages, broken calls and restarts follow on each other.
THEOREM Invariant == Spec => []IInv
<1>1. Init => IInv
  BY InitIInv
<1>2. IInv /\ [Next]_vars => IInv'
  BY NextKeepsIInv
<1> QED
  BY <1>1, <1>2, PTL DEF Spec

\* Type correctness: requests, targets, tokens and views stay what SyncEngine,
\* RemoteStore and LocalStore take them to be; no count of answers to wait for
\* becomes negative.
THEOREM TypeCorrect == Spec => []TypeOK
<1>1. IInv => TypeOK
  BY DEF IInv
<1> QED
  BY <1>1, Invariant, PTL

\* RemoteStore and WatchChangeAggregator take every message of a target for
\* what the server means by it: the client waits for the answers to its
\* requests under way and for no others, and with none under way the server
\* watches exactly what the client listens to.
THEOREM WatchesInStepHolds == Spec => []WatchesInStep
<1>1. IInv => WatchesInStep
  <2> SUFFICES ASSUME IInv, remote.stream = "open", NEW t \in Target
               PROVE  /\ t \in remote.targets =>
                           remote.state[t].outstanding = Cardinality(Waiting(call.requests, t))
                      /\ Waiting(call.requests, t) = {} =>
                           (t \in call.watched) = (t \in remote.targets)
    BY Zenon DEF WatchesInStep, Waiting
  <2>1. InStep(remote, call)
    BY StateOfIInv
  <2> QED
    BY <2>1 DEF InStep, Counted, Agreed
<1> QED
  BY <1>1, Invariant, PTL

\* No HARD_ASSERT on the way of a snapshot, of limbo documents or of the online
\* state ever fails: a target change never says that a document was there if it
\* was not, a limbo target that is stopped is listened to, and the timer of the
\* online state is never left running.
THEOREM AssertionsNeverFail == Spec => []AssertionsHold
<1>1. IInv => AssertionsHold
  BY DEF IInv
<1> QED
  BY <1>1, Invariant, PTL

\* No document of a view is left in limbo with nobody asking about it.  That is
\* for a server that only refuses queries: when it refuses the target of a limbo
\* document, SyncEngine purges the document, but a view that is not current
\* keeps it among its limbo documents, and it may come back from the server
\* before the view is current again.
THEOREM LimboIsResolvedHolds ==
  ASSUME Refusable \subseteq Query
  PROVE  Spec => []LimboIsResolved
<1>1. IInv => LimboIsResolved
  <2> SUFFICES ASSUME IInv
               PROVE  LimboIsResolved
    OBVIOUS
  <2>1. Asked(views, limbo) /\ QueueInv /\ TargetsInv /\ views \in Views
    BY DEF IInv, TypeOK
  <2>2. limbo.active = remote.targets \cap LimboTarget
    BY <2>1 DEF TargetsInv
  <2>3. ASSUME NEW q \in views.listening, NEW d \in views.limbo[q]
        PROVE  \/ \E t \in limbo.active : t[1] = d /\ t \in remote.targets
               \/ /\ \E i \in 1..Len(limbo.enqueued) : limbo.enqueued[i] = d
                  /\ Cardinality(limbo.active) = MaxConcurrentLimboResolutions
    <3>1. d \in InDoubt(views)
      BY <2>1, <2>3 DEF InDoubt, Views
    <3>2. CASE \E t \in limbo.active : t[1] = d
      BY <2>2, <3>2
    <3>3. CASE Enqueued(limbo, d)
      <4>1. limbo.enqueued # <<>>
        BY <3>3 DEF Enqueued
      <4> QED
        BY <2>1, <3>3, <4>1 DEF QueueInv, Enqueued
    <3> QED
      BY <2>1, <3>1, <3>2, <3>3 DEF Asked
  <2> QED
    BY <2>2, <2>3 DEF LimboIsResolved
<1> QED
  BY <1>1, Invariant, PTL
=============================================================================
