--------------------------- MODULE TabBar_proofs ---------------------------
(***************************************************************************)
(* What the screens of the tab bar show, proved for any posts, profiles,   *)
(* accounts and cells.  The argument is about the last snapshot on its way *)
(* to a closure: it carries the result of the closure's query as the       *)
(* client holds it now, or there is none and the closure has heard it.     *)
(***************************************************************************)
EXTENDS TabBar, FiniteSetTheorems, SequenceTheorems, TLAPS

-----------------------------------------------------------------------------
(* Increasing sequences.                                                   *)

Increasing(s, n) == \A i, j \in 1..n : i < j => s[i] < s[j]

\* A finite set of numbers can be listed from the least to the greatest: the
\* place of a number is how many are not above it.
LEMMA Listing ==
  ASSUME NEW S, IsFiniteSet(S), S \subseteq Nat
  PROVE  \E s \in [1..Cardinality(S) -> S] : Increasing(s, Cardinality(S))
<1> DEFINE n == Cardinality(S)
           UpTo(x) == {y \in S : y <= x}
           f == [x \in S |-> Cardinality(UpTo(x))]
<1>0. \A z \in S : z \in Nat
  OBVIOUS
<1>1. n \in Nat
  BY FS_CardinalityType
<1>2. \A x \in S : IsFiniteSet(UpTo(x)) /\ Cardinality(UpTo(x)) \in 1..n
  <2> TAKE x \in S
  <2>1. UpTo(x) \in SUBSET S /\ x \in UpTo(x)
    OBVIOUS
  <2>2. IsFiniteSet(UpTo(x)) /\ Cardinality(UpTo(x)) <= n
    BY <2>1, FS_Subset
  <2>3. Cardinality(UpTo(x)) \in Nat /\ Cardinality(UpTo(x)) # 0
    BY <2>1, <2>2, FS_CardinalityType, FS_EmptySet
  <2> QED
    BY <1>1, <2>2, <2>3
<1>3. ASSUME NEW x \in S, NEW y \in S, x < y
      PROVE  f[x] < f[y]
  <2>1. x \in Nat /\ y \in Nat
    BY <1>0
  <2>2. UpTo(x) \in SUBSET UpTo(y)
    <3>1. ASSUME NEW z \in S, z <= x PROVE z <= y
      BY <3>1, <2>1, <1>0, <1>3
    <3> QED
      BY <3>1
  <2>4. y \in UpTo(y) /\ y \notin UpTo(x)
    BY <1>3, <2>1
  <2>3. Cardinality(UpTo(x)) <= Cardinality(UpTo(y))
        /\ Cardinality(UpTo(x)) # Cardinality(UpTo(y))
    BY <2>2, <2>4, <1>2, FS_Subset
  <2> QED
    BY <2>3, <1>2, <1>1
<1>4. f \in Injection(S, 1..n)
  <2>1. f \in [S -> 1..n]
    BY <1>2
  <2>2. ASSUME NEW x \in S, NEW y \in S, f[x] = f[y] PROVE x = y
    BY <2>1, <2>2, <1>3, <1>1
  <2> QED
    BY <2>1, <2>2 DEF Injection, IsInjective
<1>5. f \in Surjection(S, 1..n)
  <2>1. IsFiniteSet(1..n) /\ Cardinality(1..n) = n
    BY <1>1, FS_Interval
  <2> HIDE DEF f
  <2> QED
    BY <1>4, <2>1, FS_Injection
<1> DEFINE s == [i \in 1..n |-> CHOOSE x \in S : f[x] = i]
<1>6. \A i \in 1..n : s[i] \in S /\ f[s[i]] = i
  <2> HIDE DEF f
  <2> QED
    BY <1>5 DEF Surjection
<1>7. s \in [1..n -> S]
  BY <1>6
<1> HIDE DEF f, s
<1>8. ASSUME NEW i \in 1..n, NEW j \in 1..n, i < j
      PROVE  s[i] < s[j]
  <2>1. s[i] \in S /\ s[j] \in S /\ f[s[i]] = i /\ f[s[j]] = j
    BY <1>6
  <2>2. s[i] \in Nat /\ s[j] \in Nat
    BY <2>1, <1>0
  <2>3. i \in Nat /\ j \in Nat
    BY <1>1
  <2>4. ~(s[j] < s[i])
    BY <2>1, <2>2, <2>3, <1>3, <1>8
  <2>5. s[j] # s[i]
    BY <2>1, <2>2, <2>3, <1>8
  <2> QED
    BY <2>2, <2>4, <2>5
<1> QED
  BY <1>7, <1>8 DEF Increasing

\* The list itself: every number once, in order.
LEMMA AscendingList ==
  ASSUME NEW S, IsFiniteSet(S), S \subseteq Nat
  PROVE  /\ Cardinality(S) \in Nat
         /\ Ascending(S) \in [1..Cardinality(S) -> S]
         /\ Increasing(Ascending(S), Cardinality(S))
         /\ \A x \in S : \E i \in 1..Cardinality(S) : Ascending(S)[i] = x
<1> DEFINE n == Cardinality(S)
           s == Ascending(S)
<1>0. \A z \in S : z \in Nat
  OBVIOUS
<1>1. n \in Nat
  BY FS_CardinalityType
<1>2. s \in [1..n -> S] /\ Increasing(s, n)
  BY Listing DEF Ascending, Increasing
<1>3. s \in Injection(1..n, S)
  <2>1. ASSUME NEW i \in 1..n, NEW j \in 1..n, s[i] = s[j]
        PROVE  i = j
    <3>1. s[i] \in S /\ s[j] \in S
      BY <1>2
    <3>2. s[i] \in Nat /\ s[j] \in Nat
      BY <3>1, <1>0
    <3>3. i \in Nat /\ j \in Nat
      BY <1>1
    <3>4. ~(i < j) /\ ~(j < i)
      <4> HIDE DEF s
      <4> QED
        BY <2>1, <1>2, <3>2, <3>3 DEF Increasing
    <3> QED
      BY <3>3, <3>4
  <2> QED
    BY <2>1, <1>2 DEF Injection, IsInjective
<1>4. s \in Surjection(1..n, S)
  <2>1. IsFiniteSet(1..n) /\ Cardinality(1..n) = n
    BY <1>1, FS_Interval
  <2> HIDE DEF s
  <2> QED
    BY <1>3, <2>1, FS_Injection
<1> QED
  BY <1>1, <1>2, <1>4 DEF Surjection

-----------------------------------------------------------------------------
(* The last word to a closure.                                             *)

Closure == {"feed", "grid", "card"} \cup Cell
Snapshot == [to : Closure, result : Seq(Post \cup Profile)]

IsSilent(m, k) == \A i \in 1..Len(m) : m[i].to # k

IsNewest(m, k, r) ==
  \E i \in 1..Len(m) : /\ m[i].to = k /\ m[i].result = r
                       /\ \A j \in 1..Len(m) : i < j => m[j].to # k

LEMMA FunctionIsSequence ==
  ASSUME NEW S, NEW n \in Nat, NEW f \in [1..n -> S]
  PROVE  f \in Seq(S) /\ Len(f) = n
BY SeqDef

\* Snapshots to others change nothing for a closure; a later one for it counts.
LEMMA Continued ==
  ASSUME NEW S, NEW m \in Seq(S), NEW s \in Seq(S), NEW k, NEW r
  PROVE  /\ IsSilent(s, k) /\ IsSilent(m, k) => IsSilent(m \o s, k)
         /\ IsSilent(s, k) /\ IsNewest(m, k, r) => IsNewest(m \o s, k, r)
         /\ IsNewest(s, k, r) => IsNewest(m \o s, k, r)
<1> DEFINE t == m \o s
<1>1. Len(m) \in Nat /\ Len(s) \in Nat /\ Len(t) = Len(m) + Len(s)
  OBVIOUS
<1>2. \A i \in 1..Len(m) : t[i] = m[i]
  OBVIOUS
<1>3. \A i \in 1..Len(s) : t[Len(m) + i] = s[i]
  OBVIOUS
<1>4. \A i \in 1..Len(t) : i \in 1..Len(m) \/ (i - Len(m) \in 1..Len(s) /\ t[i] = s[i - Len(m)])
  BY <1>1, <1>3
<1> HIDE DEF t
<1>5. IsSilent(s, k) /\ IsSilent(m, k) => IsSilent(t, k)
  BY <1>2, <1>4 DEF IsSilent
<1>6. ASSUME IsSilent(s, k), IsNewest(m, k, r) PROVE IsNewest(t, k, r)
  <2>1. PICK i \in 1..Len(m) : /\ m[i].to = k /\ m[i].result = r
                              /\ \A j \in 1..Len(m) : i < j => m[j].to # k
    BY <1>6 DEF IsNewest
  <2>2. i \in 1..Len(t) /\ t[i].to = k /\ t[i].result = r
    BY <2>1, <1>1, <1>2
  <2>3. ASSUME NEW j \in 1..Len(t), i < j PROVE t[j].to # k
    BY <2>1, <2>3, <1>2, <1>4, <1>6 DEF IsSilent
  <2> QED
    BY <2>2, <2>3 DEF IsNewest
<1>7. ASSUME IsNewest(s, k, r) PROVE IsNewest(t, k, r)
  <2>1. PICK i \in 1..Len(s) : /\ s[i].to = k /\ s[i].result = r
                              /\ \A j \in 1..Len(s) : i < j => s[j].to # k
    BY <1>7 DEF IsNewest
  <2>2. Len(m) + i \in 1..Len(t) /\ t[Len(m) + i].to = k /\ t[Len(m) + i].result = r
    BY <2>1, <1>1, <1>3
  <2>3. ASSUME NEW j \in 1..Len(t), Len(m) + i < j PROVE t[j].to # k
    <3>1. j - Len(m) \in 1..Len(s) /\ t[j] = s[j - Len(m)] /\ i < j - Len(m)
      BY <2>3, <1>1, <1>4
    <3> QED
      BY <2>1, <3>1
  <2> QED
    BY <2>2, <2>3 DEF IsNewest
<1> QED
  BY <1>5, <1>6, <1>7 DEF t

\* When the head of the queue is taken, it was the last word or it was not.
LEMMA Taken ==
  ASSUME NEW S, NEW m \in Seq(S), m # <<>>, NEW k, NEW r
  PROVE  /\ IsSilent(m, k) => IsSilent(Tail(m), k) /\ Head(m).to # k
         /\ IsNewest(m, k, r) =>
              \/ IsNewest(Tail(m), k, r)
              \/ Head(m).to = k /\ Head(m).result = r /\ IsSilent(Tail(m), k)
<1> DEFINE t == Tail(m)
<1>1. Len(m) \in Nat \ {0} /\ Len(t) = Len(m) - 1 /\ Head(m) = m[1]
  OBVIOUS
<1>2. \A i \in 1..Len(t) : t[i] = m[i + 1]
  OBVIOUS
<1> HIDE DEF t
<1>3. IsSilent(m, k) => IsSilent(t, k) /\ Head(m).to # k
  BY <1>1, <1>2 DEF IsSilent
<1>4. ASSUME IsNewest(m, k, r)
      PROVE  \/ IsNewest(t, k, r)
             \/ Head(m).to = k /\ Head(m).result = r /\ IsSilent(t, k)
  <2>1. PICK i \in 1..Len(m) : /\ m[i].to = k /\ m[i].result = r
                              /\ \A j \in 1..Len(m) : i < j => m[j].to # k
    BY <1>4 DEF IsNewest
  <2>2. CASE i = 1
    <3>1. \A j \in 1..Len(t) : j + 1 \in 1..Len(m) /\ i < j + 1
      BY <2>2, <1>1
    <3> QED
      BY <2>1, <2>2, <3>1, <1>1, <1>2 DEF IsSilent
  <2>3. CASE i # 1
    <3>1. i - 1 \in 1..Len(t) /\ t[i - 1] = m[i]
      BY <2>3, <1>1, <1>2
    <3>2. ASSUME NEW j \in 1..Len(t), i - 1 < j PROVE t[j].to # k
      BY <2>1, <3>2, <1>1, <1>2
    <3> QED
      BY <2>1, <3>1, <3>2 DEF IsNewest
  <2> QED
    BY <2>2, <2>3
<1> QED
  BY <1>3, <1>4 DEF t

-----------------------------------------------------------------------------
(* The inductive invariant.                                                *)

QueryFor(k) == IF k = "feed" THEN Feed ELSE IF k = "grid" THEN MyPosts ELSE MyInfo
NameQuery(c) == UserInfo(EmailOf[caption[c]])

\* The screens' closures ask their one query, the cells' ask for profiles.
Fits(l) ==
  IF l.to \in Cell THEN l.query \in [from : {"Users"}, of : Account]
  ELSE l.query = QueryFor(l.to)

\* A feed or a grid gets posts, a card or a cell gets profiles.
Readable(n) ==
  n.result \in (IF n.to \in {"feed", "grid"} THEN Seq(Post) ELSE Seq(Profile))

KindsInv ==
  /\ \A i \in 1..Len(asked) : Fits(asked[i])
  /\ \A i \in 1..Len(listeners) : Fits(listeners[i])
  /\ \A i \in 1..Len(main) : Readable(main[i])

AskedBy(k) == {i \in 1..Len(asked) : asked[i].to = k}
ListeningTo(k) == {i \in 1..Len(listeners) : listeners[i].to = k}

\* A screen's closure has at most one listener in all.
OneListenerInv ==
  \A k \in {"feed", "grid", "card"} :
    /\ \A i, j \in AskedBy(k) : i = j
    /\ \A i, j \in ListeningTo(k) : i = j
    /\ AskedBy(k) = {} \/ ListeningTo(k) = {}
    /\ k # "feed" /\ ~opened => AskedBy(k) = {} /\ ListeningTo(k) = {}
    /\ ListeningTo(k) = {} => IsSilent(main, k)

\* What a closure has made of the result r; an empty one is ignored.
Heard(k, r) ==
  r = <<>> \/ (IF k = "feed" THEN postArray = r
              ELSE IF k = "grid" THEN userPosts = r
              ELSE IF k = "card" THEN card = r[Len(r)]
              ELSE userName[k] = r[Len(r)])

\* The last word to k is r, on its way or heard.
Told(k, r) == IsNewest(main, k, r) \/ (IsSilent(main, k) /\ Heard(k, r))

ScreensInv ==
  \A k \in {"feed", "grid", "card"} :
    ListeningTo(k) # {} => Told(k, Result(QueryFor(k), docs))

\* The last listener that was added for a cell asks for the author of its row.
Coming(c) ==
  \E i \in 1..Len(asked) : /\ asked[i].to = c /\ asked[i].query = NameQuery(c)
                           /\ \A j \in 1..Len(asked) : i < j => asked[j].to # c

CellsInv ==
  \A c \in fresh :
    /\ caption[c] \in Post
    /\ \/ Coming(c)
       \/ /\ AskedBy(c) = {}
          /\ LET names == Result(NameQuery(c), docs) IN names # <<>> => Told(c, names)

RowsInv ==
  \A c \in Cell : row[c] # 0 => row[c] <= Len(postArray) /\ caption[c] = postArray[row[c]]

CountInv == userPosts # <<>> => postCount = Len(userPosts)

IInv ==
  TypeOK /\ KindsInv /\ OneListenerInv /\ ScreensInv /\ CellsInv /\ RowsInv /\ CountInv

-----------------------------------------------------------------------------
(* Results and snapshots.                                                  *)

LEMMA ResultType ==
  ASSUME NEW q \in Query, NEW D \in SUBSET (Post \cup Profile)
  PROVE  /\ Result(q, D) \in Seq(IF q.from = "Post" THEN Post ELSE Profile)
         /\ Result(q, D) \in Seq(Post \cup Profile)
<1> DEFINE found == {d \in D : QueryMatches(q, d)}
           n == Cardinality(found)
<1>1. IsFiniteSet(found) /\ found \subseteq Nat
  BY DocumentsAssumption, FS_Subset
<1>2. n \in Nat /\ Ascending(found) \in [1..n -> found]
  BY <1>1, AscendingList
<1>3. Descending(found) \in [1..n -> found]
  <2>1. \A i \in 1..n : n + 1 - i \in 1..n
    BY <1>2
  <2> QED
    BY <1>2, <2>1 DEF Descending
<1>4. Result(q, D) \in [1..n -> found]
  BY <1>2, <1>3 DEF Result
<1>5. Result(q, D) \in Seq(found)
  BY <1>2, <1>4, FunctionIsSequence
<1>6. found \subseteq (IF q.from = "Post" THEN Post ELSE Profile)
  BY DEF QueryMatches
<1> HIDE DEF found
<1> QED
  BY <1>5, <1>6

\* A document changes only the results of the queries that match it.
LEMMA Unmatched ==
  ASSUME NEW q, NEW d, ~QueryMatches(q, d)
  PROVE  Result(q, IF d \in docs THEN docs \ {d} ELSE docs \cup {d}) = Result(q, docs)
<1> DEFINE D == IF d \in docs THEN docs \ {d} ELSE docs \cup {d}
<1>1. {e \in D : QueryMatches(q, e)} = {e \in docs : QueryMatches(q, e)}
  OBVIOUS
<1> QED
  BY <1>1 DEF Result

\* The listeners of a query in the order they hear; each hears once.
Hearers(q) == Ascending({i \in 1..Len(listeners) : listeners[i].query = q})

LEMMA HearersList ==
  ASSUME listeners \in Seq([query : Query, to : Closure]), NEW q
  PROVE  /\ Len(Hearers(q)) \in Nat
         /\ Increasing(Hearers(q), Len(Hearers(q)))
         /\ \A n \in 1..Len(Hearers(q)) :
              Hearers(q)[n] \in 1..Len(listeners) /\ listeners[Hearers(q)[n]].query = q
         /\ \A i \in 1..Len(listeners) :
              listeners[i].query = q => \E n \in 1..Len(Hearers(q)) : Hearers(q)[n] = i
<1> DEFINE H == {i \in 1..Len(listeners) : listeners[i].query = q}
           a == Hearers(q)
           N == Len(a)
<1>1. Len(listeners) \in Nat
  OBVIOUS
<1>2. IsFiniteSet(1..Len(listeners)) /\ 1..Len(listeners) \subseteq Nat
  BY <1>1, FS_Interval
<1>3. IsFiniteSet(H) /\ H \subseteq Nat
  BY <1>2, FS_Subset
<1>4. /\ Cardinality(H) \in Nat /\ a \in [1..Cardinality(H) -> H]
      /\ Increasing(a, Cardinality(H))
      /\ \A i \in H : \E n \in 1..Cardinality(H) : a[n] = i
  BY <1>3, AscendingList DEF Hearers
<1>5. N = Cardinality(H)
  BY <1>4
<1> HIDE DEF a, N
<1>6. \A n \in 1..N : a[n] \in H
  BY <1>4, <1>5
<1> QED
  BY <1>4, <1>5, <1>6 DEF a, N

LEMMA SnapshotsType ==
  ASSUME TypeOK, KindsInv, NEW q \in Query, NEW D \in SUBSET (Post \cup Profile)
  PROVE  /\ Snapshots(q, D) \in Seq(Snapshot)
         /\ \A n \in 1..Len(Snapshots(q, D)) : Readable(Snapshots(q, D)[n])
         /\ q.from = "Post" => \A c \in Cell : IsSilent(Snapshots(q, D), c)
<1> DEFINE s == Snapshots(q, D)
           a == Hearers(q)
           N == Len(a)
<1>1. listeners \in Seq([query : Query, to : Closure])
  BY DEF TypeOK, QueryTypeOK, Closure
<1>2. /\ N \in Nat
      /\ \A n \in 1..N : a[n] \in 1..Len(listeners) /\ listeners[a[n]].query = q
  BY <1>1, HearersList
<1>3. s = [n \in 1..N |-> [to |-> listeners[a[n]].to, result |-> Result(q, D)]]
  BY DEF Snapshots, Hearers
<1> HIDE DEF s, a, N
<1>4. ASSUME NEW n \in 1..N
      PROVE  /\ s[n] = [to |-> listeners[a[n]].to, result |-> Result(q, D)]
             /\ listeners[a[n]].to \in Closure
             /\ listeners[a[n]].query = q
             /\ Fits(listeners[a[n]])
  <2>1. a[n] \in 1..Len(listeners) /\ listeners[a[n]].query = q
    BY <1>2
  <2>2. listeners[a[n]] \in [query : Query, to : Closure]
    BY <1>1, <2>1, ElementOfSeq
  <2>3. Fits(listeners[a[n]])
    BY <2>1 DEF KindsInv
  <2>4. s[n] = [to |-> listeners[a[n]].to, result |-> Result(q, D)]
    BY <1>3
  <2> QED
    BY <2>1, <2>2, <2>3, <2>4
<1>5. /\ Result(q, D) \in Seq(IF q.from = "Post" THEN Post ELSE Profile)
      /\ Result(q, D) \in Seq(Post \cup Profile)
  BY ResultType
<1>6. s \in Seq(Snapshot)
  <2>1. ASSUME NEW n \in 1..N PROVE s[n] \in Snapshot
    <3>1. s[n] = [to |-> listeners[a[n]].to, result |-> Result(q, D)] /\ listeners[a[n]].to \in Closure
      BY <1>4
    <3> QED
      BY <3>1, <1>5 DEF Snapshot
  <2>2. s \in [1..N -> Snapshot]
    BY <2>1, <1>3
  <2> QED
    BY <2>2, <1>2, FunctionIsSequence
<1>7. \A n \in 1..N : Readable(s[n])
  <2> TAKE n \in 1..N
  <2> DEFINE l == listeners[a[n]]
  <2>0. s[n] = [to |-> l.to, result |-> Result(q, D)] /\ l.query = q /\ l.to \in Closure /\ Fits(l)
    BY <1>4
  <2> HIDE DEF l
  <2>1. s[n].to = l.to /\ s[n].result = Result(q, D) /\ l.query = q /\ l.to \in Closure /\ Fits(l)
    BY <2>0
  <2>2. CASE l.to \in Cell
    <3>1. q.from = "Users" /\ l.to \notin {"feed", "grid"}
      BY <2>1, <2>2, ClosuresDiffer DEF Fits
    <3> QED
      BY <3>1, <2>1, <1>5 DEF Readable
  <2>3. CASE l.to \in {"feed", "grid"}
    <3>1. q.from = "Post"
      BY <2>1, <2>3, ClosuresDiffer DEF Fits, QueryFor, Feed, MyPosts
    <3> QED
      BY <3>1, <2>1, <2>3, <1>5 DEF Readable
  <2>4. CASE l.to = "card"
    <3>1. q.from = "Users"
      BY <2>1, <2>4, ClosuresDiffer DEF Fits, QueryFor, MyInfo
    <3> QED
      BY <3>1, <2>1, <2>4, <1>5 DEF Readable
  <2> QED
    BY <2>1, <2>2, <2>3, <2>4 DEF Closure
<1>8. Len(s) = N
  BY <1>2, <1>3
<1>9. q.from = "Post" => \A c \in Cell : IsSilent(s, c)
  BY <1>8, <1>4 DEF IsSilent, Fits
<1> QED
  BY <1>6, <1>7, <1>8, <1>9 DEF s

\* A screen's closure hears of its query, once, and of no other.
LEMMA SnapshotsToScreen ==
  ASSUME TypeOK, KindsInv, OneListenerInv, NEW q, NEW D, NEW k \in {"feed", "grid", "card"}
  PROVE  /\ q # QueryFor(k) \/ ListeningTo(k) = {} => IsSilent(Snapshots(q, D), k)
         /\ q = QueryFor(k) /\ ListeningTo(k) # {} => IsNewest(Snapshots(q, D), k, Result(q, D))
<1> DEFINE s == Snapshots(q, D)
           a == Hearers(q)
           N == Len(a)
<1>1. listeners \in Seq([query : Query, to : Closure])
  BY DEF TypeOK, QueryTypeOK, Closure
<1>2. /\ N \in Nat /\ Increasing(a, N)
      /\ \A n \in 1..N : a[n] \in 1..Len(listeners) /\ listeners[a[n]].query = q
      /\ \A i \in 1..Len(listeners) : listeners[i].query = q => \E n \in 1..N : a[n] = i
  BY <1>1, HearersList
<1>3. s = [n \in 1..N |-> [to |-> listeners[a[n]].to, result |-> Result(q, D)]]
  BY DEF Snapshots, Hearers
<1> HIDE DEF s, a, N
<1>4. Len(s) = N /\ \A n \in 1..N : s[n].to = listeners[a[n]].to /\ s[n].result = Result(q, D)
  BY <1>2, <1>3
<1>5. \A i \in ListeningTo(k) : listeners[i].query = QueryFor(k)
  BY ClosuresDiffer DEF KindsInv, Fits, ListeningTo
<1>6. q # QueryFor(k) \/ ListeningTo(k) = {} => IsSilent(s, k)
  BY <1>2, <1>4, <1>5 DEF IsSilent, ListeningTo
<1>7. ASSUME q = QueryFor(k), ListeningTo(k) # {} PROVE IsNewest(s, k, Result(q, D))
  <2>1. PICK i \in 1..Len(listeners) : listeners[i].to = k /\ listeners[i].query = q
    BY <1>5, <1>7 DEF ListeningTo
  <2>2. PICK n \in 1..N : a[n] = i
    BY <1>2, <2>1
  <2>3. ASSUME NEW j \in 1..N, n < j PROVE s[j].to # k
    <3>1. a[n] < a[j] /\ a[n] \in 1..Len(listeners) /\ a[j] \in 1..Len(listeners)
      BY <1>2, <2>3 DEF Increasing
    <3>2. a[n] # a[j]
      BY <3>1
    <3> QED
      BY <1>2, <1>4, <2>1, <2>2, <3>1, <3>2 DEF OneListenerInv, ListeningTo
  <2> QED
    BY <1>2, <1>4, <2>1, <2>2, <2>3 DEF IsNewest
<1> QED
  BY <1>6, <1>7 DEF s

-----------------------------------------------------------------------------
(* Each action keeps the invariant.                                        *)

\* What the proofs need of the types.
LEMMA Types ==
  ASSUME TypeOK
  PROVE  /\ asked \in Seq([query : Query, to : Closure])
         /\ listeners \in Seq([query : Query, to : Closure])
         /\ main \in Seq(Snapshot)
         /\ docs \subseteq Post \cup Profile
BY DEF TypeOK, QueryTypeOK, Closure, Snapshot

LEMMA InitInv ==
  ASSUME Init
  PROVE  IInv
<1> USE DEF Init, QueryInit, FeedInit, PageInit, FeedListens
<1>1. asked = <<[query |-> Feed, to |-> "feed"]>> /\ listeners = <<>> /\ main = <<>> /\ fresh = {}
  OBVIOUS
<1>2. Feed \in Query
  BY DEF Feed, Query
<1>3. TypeOK
  <2>1. [query |-> Feed, to |-> "feed"] \in [query : Query, to : {"feed", "grid", "card"} \cup Cell]
    BY <1>2
  <2>2. QueryTypeOK({"feed", "grid", "card"} \cup Cell)
    BY <2>1 DEF QueryTypeOK
  <2>3. FeedTypeOK
    BY DEF FeedTypeOK
  <2>4. PageTypeOK
    <3>1. opened = FALSE /\ card = 0 /\ userPosts = <<>> /\ postCount = Storyboard
      OBVIOUS
    <3>2. userPosts \in Seq(Post)
      BY <3>1
    <3>3. postCount \in Nat
      BY <3>1, StoryboardAssumption
    <3> QED
      BY <3>1, <3>2, <3>3 DEF PageTypeOK
  <2> QED
    BY <1>1, <2>2, <2>3, <2>4 DEF TypeOK
<1>4. KindsInv
  BY <1>1, ClosuresDiffer DEF KindsInv, Fits, QueryFor
<1>5. OneListenerInv /\ ScreensInv
  BY <1>1 DEF OneListenerInv, ScreensInv, AskedBy, ListeningTo, IsSilent
<1>6. CellsInv /\ RowsInv /\ CountInv
  BY <1>1 DEF CellsInv, RowsInv, CountInv
<1> QED
  BY <1>3, <1>4, <1>5, <1>6 DEF IInv

\* A handler takes the head of the main queue, makes of it what the closure
\* makes of a result, and leaves what other closures have heard.
LEMMA HandlerInv ==
  ASSUME IInv, NEW to, NEW result,
         main # <<>>, Head(main) = [to |-> to, result |-> result], main' = Tail(main),
         UNCHANGED <<docs, asked, listeners, fresh, opened, caption>>,
         \A k \in Closure : \A r : k # to /\ Heard(k, r) => Heard(k, r)',
         Heard(to, result)'
  PROVE  KindsInv' /\ OneListenerInv' /\ ScreensInv' /\ CellsInv'
<1>1. main \in Seq(Snapshot)
  BY Types DEF IInv
<1>2. /\ Len(main') = Len(main) - 1 /\ Len(main) \in Nat
      /\ \A i \in 1..Len(main') : main'[i] = main[i + 1] /\ i + 1 \in 1..Len(main)
  BY <1>1
<1>3. KindsInv'
  BY <1>2 DEF IInv, KindsInv, Fits, QueryFor, Readable
<1>4. ASSUME NEW k \in Closure, NEW r
      PROVE  /\ IsSilent(main, k) => IsSilent(main', k)
             /\ Told(k, r) => (IsNewest(main', k, r) \/ (IsSilent(main', k) /\ Heard(k, r)'))
  <2>1. /\ IsSilent(main, k) => IsSilent(main', k) /\ to # k
        /\ IsNewest(main, k, r) =>
             \/ IsNewest(main', k, r)
             \/ to = k /\ result = r /\ IsSilent(main', k)
    BY <1>1, Taken
  <2> QED
    BY <2>1 DEF Told
<1>5. OneListenerInv'
  <2> SUFFICES ASSUME NEW k \in {"feed", "grid", "card"}
               PROVE  /\ \A i, j \in AskedBy(k)' : i = j
                      /\ \A i, j \in ListeningTo(k)' : i = j
                      /\ AskedBy(k)' = {} \/ ListeningTo(k)' = {}
                      /\ k # "feed" /\ ~opened' => AskedBy(k)' = {} /\ ListeningTo(k)' = {}
                      /\ ListeningTo(k)' = {} => IsSilent(main', k)
    BY DEF OneListenerInv
  <2>1. AskedBy(k)' = AskedBy(k) /\ ListeningTo(k)' = ListeningTo(k)
    BY DEF AskedBy, ListeningTo
  <2>2. IsSilent(main, k) => IsSilent(main', k)
    BY <1>4 DEF Closure
  <2> QED
    BY <2>1, <2>2 DEF IInv, OneListenerInv
<1>6. ScreensInv'
  <2> SUFFICES ASSUME NEW k \in {"feed", "grid", "card"}, ListeningTo(k)'  # {}
               PROVE  Told(k, Result(QueryFor(k), docs))'
    BY DEF ScreensInv
  <2>1. Told(k, Result(QueryFor(k), docs))
    BY DEF IInv, ScreensInv, ListeningTo
  <2>2. k \in Closure
    BY DEF Closure
  <2> QED
    BY <2>1, <2>2, <1>4 DEF Told, QueryFor
<1>7. CellsInv'
  <2> SUFFICES ASSUME NEW c \in fresh
               PROVE  /\ caption'[c] \in Post
                      /\ \/ Coming(c)'
                         \/ /\ AskedBy(c)' = {}
                            /\ (LET names == Result(NameQuery(c), docs)
                                IN  names # <<>> => Told(c, names))'
    BY DEF CellsInv
  <2>1. c \in Closure
    BY DEF IInv, TypeOK, Closure
  <2>2. caption[c] \in Post
    BY DEF IInv, CellsInv
  <2>3. Coming(c) => Coming(c)'
    BY DEF Coming, NameQuery
  <2>4. AskedBy(c)' = AskedBy(c)
    BY DEF AskedBy
  <2>5. PICK names : names = Result(NameQuery(c), docs)
    OBVIOUS
  <2>6. Result(NameQuery(c), docs)' = names
    BY <2>5 DEF NameQuery
  <2>7. Told(c, names) => Told(c, names)'
    BY <2>1, <1>4 DEF Told
  <2> QED
    BY <2>2, <2>3, <2>4, <2>5, <2>6, <2>7 DEF IInv, CellsInv
<1> QED
  BY <1>3, <1>5, <1>6, <1>7

LEMMA FeedSnapshotInv ==
  ASSUME IInv, main # <<>>, FeedSnapshot(Head(main).result), UNCHANGED <<pageVars, fresh>>
  PROVE  IInv'
<1>0. PICK result : result = Head(main).result
  OBVIOUS
<1>1. main \in Seq(Snapshot) /\ main[1] = Head(main) /\ 1 \in 1..Len(main)
  BY Types DEF IInv
<1>2. Head(main) = [to |-> "feed", result |-> result]
  BY <1>0 DEF FeedSnapshot, Handles
<1>3. result \in Seq(Post)
  BY <1>1, <1>2 DEF IInv, KindsInv, Readable
<1>4. UNCHANGED <<docs, asked, listeners, fresh, opened, caption, userName, userPosts, postCount, card>>
  BY DEF FeedSnapshot, Handles, pageVars
<1>5. main' = Tail(main)
  BY DEF FeedSnapshot, Handles
<1>6. /\ result = <<>> => postArray' = postArray /\ row' = row
      /\ result # <<>> => postArray' = result /\ row' = [c \in Cell |-> 0]
  BY <1>0 DEF FeedSnapshot
<1>7. TypeOK'
  <2>1. main' \in Seq([to : {"feed", "grid", "card"} \cup Cell, result : Seq(Post \cup Profile)])
    BY <1>1, <1>5 DEF Snapshot, Closure
  <2>2. postArray' \in Seq(Post) /\ row' \in [Cell -> Nat]
    BY <1>3, <1>6 DEF IInv, TypeOK, FeedTypeOK
  <2>3. FeedTypeOK'
    BY <2>2, <1>4 DEF IInv, TypeOK, FeedTypeOK
  <2> QED
    BY <2>1, <2>3, <1>4 DEF IInv, TypeOK, QueryTypeOK, PageTypeOK
<1>8. \A k \in Closure : \A r : k # "feed" /\ Heard(k, r) => Heard(k, r)'
  BY <1>4 DEF Heard
<1>9. Heard("feed", result)'
  BY <1>6 DEF Heard
<1>10. KindsInv' /\ OneListenerInv' /\ ScreensInv' /\ CellsInv'
  BY <1>2, <1>4, <1>5, <1>8, <1>9, HandlerInv
<1>11. RowsInv' /\ CountInv'
  BY <1>4, <1>6 DEF IInv, RowsInv, CountInv, TypeOK, FeedTypeOK
<1> QED
  BY <1>7, <1>10, <1>11 DEF IInv

LEMMA GridSnapshotInv ==
  ASSUME IInv, main # <<>>, GridSnapshot(Head(main).result), UNCHANGED <<feedVars, fresh>>
  PROVE  IInv'
<1>0. PICK result : result = Head(main).result
  OBVIOUS
<1>1. main \in Seq(Snapshot) /\ main[1] = Head(main) /\ 1 \in 1..Len(main)
  BY Types DEF IInv
<1>2. Head(main) = [to |-> "grid", result |-> result]
  BY <1>0 DEF GridSnapshot, Handles
<1>3. result \in Seq(Post)
  BY <1>1, <1>2 DEF IInv, KindsInv, Readable
<1>4. UNCHANGED <<docs, asked, listeners, fresh, opened, caption, userName, row, postArray, card>>
  BY DEF GridSnapshot, Handles, feedVars
<1>5. main' = Tail(main)
  BY DEF GridSnapshot, Handles
<1>6. /\ result = <<>> => userPosts' = userPosts /\ postCount' = postCount
      /\ result # <<>> => userPosts' = result /\ postCount' = Len(result)
  BY <1>0 DEF GridSnapshot
<1>7. TypeOK'
  <2>1. main' \in Seq([to : {"feed", "grid", "card"} \cup Cell, result : Seq(Post \cup Profile)])
    BY <1>1, <1>5 DEF Snapshot, Closure
  <2>2. userPosts' \in Seq(Post) /\ postCount' \in Nat
    BY <1>3, <1>6 DEF IInv, TypeOK, PageTypeOK
  <2>3. PageTypeOK'
    BY <2>2, <1>4 DEF IInv, TypeOK, PageTypeOK
  <2> QED
    BY <2>1, <2>3, <1>4 DEF IInv, TypeOK, QueryTypeOK, FeedTypeOK
<1>8. \A k \in Closure : \A r : k # "grid" /\ Heard(k, r) => Heard(k, r)'
  BY <1>4 DEF Heard
<1>9. Heard("grid", result)'
  BY <1>6 DEF Heard
<1>10. KindsInv' /\ OneListenerInv' /\ ScreensInv' /\ CellsInv'
  BY <1>2, <1>4, <1>5, <1>8, <1>9, HandlerInv
<1>11. RowsInv' /\ CountInv'
  BY <1>4, <1>6 DEF IInv, RowsInv, CountInv
<1> QED
  BY <1>7, <1>10, <1>11 DEF IInv

LEMMA CardSnapshotInv ==
  ASSUME IInv, main # <<>>, CardSnapshot(Head(main).result), UNCHANGED <<feedVars, fresh>>
  PROVE  IInv'
<1>0. PICK result : result = Head(main).result
  OBVIOUS
<1>1. main \in Seq(Snapshot) /\ main[1] = Head(main) /\ 1 \in 1..Len(main)
  BY Types DEF IInv
<1>2. Head(main) = [to |-> "card", result |-> result]
  BY <1>0 DEF CardSnapshot, Handles
<1>3. result \in Seq(Profile)
  BY <1>1, <1>2, ClosuresDiffer DEF IInv, KindsInv, Readable
<1>4. UNCHANGED <<docs, asked, listeners, fresh, opened, caption, userName, row, postArray, userPosts, postCount>>
  BY DEF CardSnapshot, Handles, feedVars
<1>5. main' = Tail(main)
  BY DEF CardSnapshot, Handles
<1>6. card' = IF result = <<>> THEN card ELSE result[Len(result)]
  BY <1>0 DEF CardSnapshot
<1>7. TypeOK'
  <2>1. main' \in Seq([to : {"feed", "grid", "card"} \cup Cell, result : Seq(Post \cup Profile)])
    BY <1>1, <1>5 DEF Snapshot, Closure
  <2>2. result # <<>> => result[Len(result)] \in Profile
    BY <1>3
  <2>3. card' \in Profile \cup {0}
    BY <2>2, <1>6 DEF IInv, TypeOK, PageTypeOK
  <2> QED
    BY <2>1, <2>3, <1>4 DEF IInv, TypeOK, QueryTypeOK, FeedTypeOK, PageTypeOK
<1>8. \A k \in Closure : \A r : k # "card" /\ Heard(k, r) => Heard(k, r)'
  BY <1>4 DEF Heard
<1>9. Heard("card", result)'
  BY <1>6 DEF Heard
<1>10. KindsInv' /\ OneListenerInv' /\ ScreensInv' /\ CellsInv'
  BY <1>2, <1>4, <1>5, <1>8, <1>9, HandlerInv
<1>11. RowsInv' /\ CountInv'
  BY <1>4 DEF IInv, RowsInv, CountInv
<1> QED
  BY <1>7, <1>10, <1>11 DEF IInv

LEMMA CellSnapshotInv ==
  ASSUME IInv, main # <<>>, NEW c \in Cell, CellSnapshot(c, Head(main).result),
         UNCHANGED <<pageVars, fresh>>
  PROVE  IInv'
<1>0. PICK result : result = Head(main).result
  OBVIOUS
<1>1. main \in Seq(Snapshot) /\ main[1] = Head(main) /\ 1 \in 1..Len(main)
  BY Types DEF IInv
<1>2. Head(main) = [to |-> c, result |-> result]
  BY <1>0 DEF CellSnapshot, Handles
<1>3. result \in Seq(Profile)
  BY <1>1, <1>2, ClosuresDiffer DEF IInv, KindsInv, Readable
<1>4. UNCHANGED <<docs, asked, listeners, fresh, opened, caption, row, postArray, userPosts, postCount, card>>
  BY DEF CellSnapshot, Handles, pageVars
<1>5. main' = Tail(main)
  BY DEF CellSnapshot, Handles
<1>6. userName' = IF result = <<>> THEN userName
                  ELSE [userName EXCEPT ![c] = result[Len(result)]]
  BY <1>0 DEF CellSnapshot
<1>7. TypeOK'
  <2>1. main' \in Seq([to : {"feed", "grid", "card"} \cup Cell, result : Seq(Post \cup Profile)])
    BY <1>1, <1>5 DEF Snapshot, Closure
  <2>2. result # <<>> => result[Len(result)] \in Profile
    BY <1>3
  <2>3. userName' \in [Cell -> Profile \cup {0}]
    BY <2>2, <1>6 DEF IInv, TypeOK, FeedTypeOK
  <2> QED
    BY <2>1, <2>3, <1>4 DEF IInv, TypeOK, QueryTypeOK, FeedTypeOK, PageTypeOK
<1>8. userName \in [Cell -> Profile \cup {0}]
  BY DEF IInv, TypeOK, FeedTypeOK
<1>9. \A k \in Closure : \A r : k # c /\ Heard(k, r) => Heard(k, r)'
  BY <1>4, <1>6, <1>8 DEF Heard, Closure
<1>10. Heard(c, result)'
  BY <1>6, <1>8, ClosuresDiffer DEF Heard
<1>11. KindsInv' /\ OneListenerInv' /\ ScreensInv' /\ CellsInv'
  BY <1>2, <1>4, <1>5, <1>9, <1>10, HandlerInv
<1>12. RowsInv' /\ CountInv'
  BY <1>4 DEF IInv, RowsInv, CountInv
<1> QED
  BY <1>7, <1>11, <1>12 DEF IInv

\* A listener's registration tells it the result, unless that is empty.
LEMMA RegisterInv ==
  ASSUME IInv, Register, UNCHANGED <<feedVars, pageVars, fresh>>
  PROVE  IInv'
<1>0. PICK l : l = Head(asked)
  OBVIOUS
<1>1. PICK result : result = Result(l.query, docs)
  OBVIOUS
<1>2. /\ asked \in Seq([query : Query, to : Closure]) /\ asked # <<>>
      /\ listeners \in Seq([query : Query, to : Closure])
      /\ main \in Seq(Snapshot)
  BY Types DEF IInv, Register
<1>3. l \in [query : Query, to : Closure] /\ l = asked[1] /\ 1 \in 1..Len(asked)
  <2>1. Len(asked) \in Nat /\ Len(asked) >= 1
    BY <1>2
  <2>2. 1 \in 1..Len(asked)
    BY <2>1
  <2>3. l = asked[1]
    BY <1>0, <1>2
  <2> QED
    BY <2>2, <2>3, <1>2, ElementOfSeq
<1>4. /\ asked' = Tail(asked) /\ listeners' = Append(listeners, l)
      /\ UNCHANGED <<docs, feedVars, pageVars, fresh>>
      /\ \/ main' = Append(main, [to |-> l.to, result |-> result])
         \/ result = <<>> /\ main' = main
  BY <1>0, <1>1 DEF Register
<1>5. /\ result \in Seq(IF l.query.from = "Post" THEN Post ELSE Profile)
      /\ result \in Seq(Post \cup Profile)
  <2>1. l.query \in Query /\ docs \in SUBSET (Post \cup Profile)
    BY <1>3, Types DEF IInv
  <2> QED
    BY <2>1, <1>1, ResultType
<1>6. [to |-> l.to, result |-> result] \in Snapshot
  BY <1>3, <1>5 DEF Snapshot
<1>7. /\ Len(asked) \in Nat /\ Len(asked') = Len(asked) - 1
      /\ \A i \in 1..Len(asked') : asked'[i] = asked[i + 1] /\ i + 1 \in 1..Len(asked)
  BY <1>2, <1>4
<1>8. /\ Len(listeners) \in Nat /\ Len(listeners') = Len(listeners) + 1
      /\ listeners'[Len(listeners) + 1] = l
      /\ \A i \in 1..Len(listeners) : listeners'[i] = listeners[i]
  BY <1>2, <1>4
<1>9. PICK n \in Snapshot : n = [to |-> l.to, result |-> result]
  BY <1>6
<1>10. PICK new \in Seq(Snapshot) :
        /\ main' = main \o new
        /\ new = << n >> \/ (result = <<>> /\ new = <<>>)
  <2>1. CASE main' = Append(main, n)
    <3>1. << n >> \in Seq(Snapshot)
      OBVIOUS
    <3>2. Append(main, n) = main \o << n >>
      BY <1>2
    <3> QED
      BY <3>1, <3>2, <2>1
  <2>2. CASE result = <<>> /\ main' = main
    <3>1. main = main \o << >>
      BY <1>2
    <3>2. << >> \in Seq(Snapshot)
      OBVIOUS
    <3>3. main' = main \o << >>
      BY <3>1, <2>2
    <3> WITNESS << >> \in Seq(Snapshot)
    <3> QED
      BY <3>3, <2>2
  <2> QED
    BY <1>4, <1>9, <2>1, <2>2
<1>20. /\ \A k : k # l.to => IsSilent(new, k)
       /\ result # <<>> => IsNewest(new, l.to, result)
       /\ result = <<>> /\ ~IsSilent(new, l.to) => IsNewest(new, l.to, result)
  <2>0. n.to = l.to /\ n.result = result
    BY <1>9
  <2>1. CASE new = << n >>
    <3>1. Len(new) = 1 /\ new[1] = n /\ 1..Len(new) = {1}
      BY <2>1
    <3> QED
      BY <3>1, <2>0 DEF IsSilent, IsNewest
  <2>2. CASE result = <<>> /\ new = <<>>
    <3>1. 1..Len(new) = {}
      BY <2>2
    <3> QED
      BY <3>1, <2>2 DEF IsSilent
  <2> QED
    BY <1>10, <2>1, <2>2
<1>11. TypeOK'
  <2>1. /\ asked' \in Seq([query : Query, to : {"feed", "grid", "card"} \cup Cell])
        /\ listeners' \in Seq([query : Query, to : {"feed", "grid", "card"} \cup Cell])
    BY <1>2, <1>3, <1>4 DEF Closure
  <2>2. main' \in Seq([to : {"feed", "grid", "card"} \cup Cell, result : Seq(Post \cup Profile)])
    BY <1>2, <1>10 DEF Snapshot, Closure
  <2> QED
    BY <2>1, <2>2, <1>4 DEF IInv, TypeOK, QueryTypeOK, FeedTypeOK, PageTypeOK, feedVars, pageVars
<1>12. Fits(l)
  BY <1>3 DEF IInv, KindsInv
<1>13. KindsInv'
  <2>1. \A i \in 1..Len(asked') : Fits(asked'[i])
    BY <1>7 DEF IInv, KindsInv
  <2>2. \A i \in 1..Len(listeners') : Fits(listeners'[i])
    BY <1>8, <1>12 DEF IInv, KindsInv
  <2>3. Readable(n)
    <3>1. l.query.from = "Post" <=> l.to \in {"feed", "grid"}
      BY <1>3, <1>12, ClosuresDiffer DEF Fits, QueryFor, Feed, MyPosts, MyInfo, Closure
    <3>2. n.to = l.to /\ n.result = result
      BY <1>9
    <3> QED
      BY <3>1, <3>2, <1>5 DEF Readable
  <2>4. \A i \in 1..Len(main') : Readable(main'[i])
    <3>1. \A i \in 1..Len(new) : Readable(new[i])
      BY <1>10, <2>3
    <3>2. \A i \in 1..Len(main') :
            (i \in 1..Len(main) /\ main'[i] = main[i]) \/ (\E j \in 1..Len(new) : main'[i] = new[j])
      <4>1. /\ Len(main) \in Nat /\ Len(new) \in Nat /\ Len(main') = Len(main) + Len(new)
            /\ \A i \in 1..Len(main) : main'[i] = main[i]
            /\ \A i \in 1..Len(main') : i > Len(main) => main'[i] = new[i - Len(main)]
        BY <1>2, <1>10
      <4> QED
        BY <4>1
    <3> QED
      BY <3>1, <3>2 DEF IInv, KindsInv
  <2> QED
    BY <2>1, <2>2, <2>4 DEF KindsInv, Fits, QueryFor, Readable
<1>14. ASSUME NEW k \in {"feed", "grid", "card"}
       PROVE  /\ \A i, j \in AskedBy(k)' : i = j
              /\ \A i, j \in ListeningTo(k)' : i = j
              /\ AskedBy(k)' = {} \/ ListeningTo(k)' = {}
              /\ k # "feed" /\ ~opened' => AskedBy(k)' = {} /\ ListeningTo(k)' = {}
              /\ ListeningTo(k)' = {} => IsSilent(main', k)
              /\ l.to = k => ListeningTo(k) = {}
              /\ l.to # k => (ListeningTo(k)' = {} <=> ListeningTo(k) = {})
  <2>1. /\ \A i, j \in AskedBy(k) : i = j
        /\ \A i, j \in ListeningTo(k) : i = j
        /\ AskedBy(k) = {} \/ ListeningTo(k) = {}
        /\ k # "feed" /\ ~opened => AskedBy(k) = {} /\ ListeningTo(k) = {}
        /\ ListeningTo(k) = {} => IsSilent(main, k)
    BY DEF IInv, OneListenerInv
  <2>2. \A i \in AskedBy(k)' : i + 1 \in AskedBy(k)
    BY <1>7 DEF AskedBy
  <2>3. l.to = k => 1 \in AskedBy(k)
    BY <1>3 DEF AskedBy
  <2>4. \A i, j \in AskedBy(k)' : i = j
    BY <2>1, <2>2, <1>7 DEF AskedBy
  <2>5. opened' = opened
    BY <1>4 DEF pageVars
  <2>6. CASE l.to = k
    <3>1. ListeningTo(k) = {}
      BY <2>1, <2>3, <2>6
    <3>2. ListeningTo(k)' = {Len(listeners) + 1}
      BY <3>1, <1>8, <2>6 DEF ListeningTo
    <3>3. AskedBy(k)' = {}
      <4> SUFFICES ASSUME NEW i \in AskedBy(k)' PROVE FALSE
        OBVIOUS
      <4>1. i + 1 = 1
        BY <2>1, <2>2, <2>3, <2>6
      <4>2. i \in 1..Len(asked')
        BY DEF AskedBy
      <4> QED
        BY <4>1, <4>2
    <3> QED
      BY <3>1, <3>2, <3>3, <2>1, <2>3, <2>5, <2>6
  <2>7. CASE l.to # k
    <3>1. ListeningTo(k)' = ListeningTo(k)
      BY <1>8, <2>7 DEF ListeningTo
    <3>2. IsSilent(main, k) => IsSilent(main', k)
      BY <1>2, <1>10, <1>20, <2>7, Continued
    <3>3. AskedBy(k) = {} => AskedBy(k)' = {}
      BY <2>2
    <3> QED
      BY <3>1, <3>2, <3>3, <2>1, <2>4, <2>5, <2>7
  <2> QED
    BY <2>6, <2>7
<1>15. OneListenerInv'
  BY <1>14 DEF OneListenerInv
<1>16. \A k, r : Heard(k, r) => Heard(k, r)'
  BY <1>4 DEF Heard, feedVars, pageVars
<1>17. ASSUME NEW k, NEW r, k # l.to, Told(k, r)
       PROVE  Told(k, r)'
  BY <1>2, <1>10, <1>20, <1>16, <1>17, Continued DEF Told
<1>18. ScreensInv'
  <2> SUFFICES ASSUME NEW k \in {"feed", "grid", "card"}, ListeningTo(k)' # {}
               PROVE  Told(k, Result(QueryFor(k), docs))'
    BY DEF ScreensInv
  <2>1. PICK r : r = Result(QueryFor(k), docs)
    OBVIOUS
  <2>2. Result(QueryFor(k), docs)' = r
    BY <2>1, <1>4 DEF QueryFor
  <2>3. CASE l.to = k
    <3>1. l.query = QueryFor(k)
      BY <1>12, <2>3, ClosuresDiffer DEF Fits
    <3>2. r = result
      BY <3>1, <2>1, <1>1
    <3>3. IsSilent(main, k)
      BY <1>14, <2>3 DEF IInv, OneListenerInv
    <3>4. CASE IsNewest(new, k, r)
      BY <3>4, <1>2, <1>10, <2>2, Continued DEF Told
    <3>5. CASE ~IsNewest(new, k, r)
      <4>1. r = <<>> /\ IsSilent(new, k)
        BY <3>2, <3>5, <1>20, <2>3
      <4>2. IsSilent(main', k)
        BY <4>1, <3>3, <1>2, <1>10, Continued
      <4> QED
        BY <4>1, <4>2, <2>2 DEF Told, Heard
    <3> QED
      BY <3>4, <3>5
  <2>4. CASE l.to # k
    <3>1. Told(k, r)
      BY <1>14, <2>1, <2>4 DEF IInv, ScreensInv
    <3> QED
      BY <3>1, <1>17, <2>2, <2>4
  <2> QED
    BY <2>3, <2>4
<1>19. CellsInv'
  <2> SUFFICES ASSUME NEW c \in fresh
               PROVE  /\ caption'[c] \in Post
                      /\ \/ Coming(c)'
                         \/ /\ AskedBy(c)' = {}
                            /\ (LET names == Result(NameQuery(c), docs)
                                IN  names # <<>> => Told(c, names))'
    BY <1>4 DEF CellsInv
  <2>1. caption' = caption /\ caption[c] \in Post
    BY <1>4 DEF IInv, CellsInv, feedVars
  <2>2. PICK q : q = NameQuery(c)
    OBVIOUS
  <2>3. NameQuery(c)' = q
    BY <2>1, <2>2 DEF NameQuery
  <2>4. PICK names : names = Result(q, docs)
    OBVIOUS
  <2>5. Result(NameQuery(c), docs)' = names
    BY <2>3, <2>4, <1>4
  <2>6. CASE Coming(c)
    <3>1. PICK i \in 1..Len(asked) : /\ asked[i].to = c /\ asked[i].query = q
                                    /\ \A j \in 1..Len(asked) : i < j => asked[j].to # c
      BY <2>2, <2>6 DEF Coming
    <3>2. CASE i = 1
      <4>1. l.to = c /\ l.query = q /\ result = names
        BY <3>1, <3>2, <1>1, <1>3, <2>4
      <4>2. AskedBy(c)' = {}
        BY <3>1, <3>2, <1>7 DEF AskedBy
      <4>3. names # <<>> => IsNewest(main', c, names)
        BY <4>1, <1>2, <1>10, <1>20, Continued
      <4> QED
        BY <4>2, <4>3, <2>1, <2>5 DEF Told
    <3>3. CASE i # 1
      <4>1. i - 1 \in 1..Len(asked') /\ asked'[i - 1] = asked[i]
        BY <3>3, <1>7
      <4>2. ASSUME NEW j \in 1..Len(asked'), i - 1 < j PROVE asked'[j].to # c
        BY <3>1, <4>2, <1>7
      <4>3. Coming(c)'
        BY <3>1, <4>1, <4>2, <2>3 DEF Coming
      <4> QED
        BY <4>3, <2>1
    <3> QED
      BY <3>2, <3>3
  <2>7. CASE ~Coming(c)
    <3>1. AskedBy(c) = {} /\ (names # <<>> => Told(c, names))
      BY <2>7, <2>2, <2>4 DEF IInv, CellsInv
    <3>2. l.to # c
      BY <3>1, <1>3 DEF AskedBy
    <3>3. AskedBy(c)' = {}
      BY <3>1, <1>7 DEF AskedBy
    <3>4. names # <<>> => Told(c, names)'
      BY <3>1, <3>2, <1>17
    <3> QED
      BY <3>3, <3>4, <2>1, <2>5
  <2> QED
    BY <2>6, <2>7
<1>21. RowsInv' /\ CountInv'
  BY <1>4 DEF IInv, RowsInv, CountInv, feedVars, pageVars
<1> QED
  BY <1>11, <1>13, <1>15, <1>18, <1>19, <1>21 DEF IInv

\* A document that changes is the last word to the screens that look at it; the
\* cells hear nothing when it is a post, and start afresh when it is a profile.
LEMMA DocumentChangesInv ==
  ASSUME IInv, NEW d \in Post \cup Profile, DocumentChanges(d),
         fresh' = (IF d \in Profile THEN {} ELSE fresh), UNCHANGED <<feedVars, pageVars>>
  PROVE  IInv'
<1>0. PICK D : D = (IF d \in docs THEN docs \ {d} ELSE docs \cup {d})
  OBVIOUS
<1>1. docs' = D /\ UNCHANGED <<asked, listeners, feedVars, pageVars>>
  BY <1>0 DEF DocumentChanges
<1>2. main \in Seq(Snapshot) /\ D \in SUBSET (Post \cup Profile)
  BY <1>0, Types DEF IInv
<1>3. PICK p \in Query, q \in Query :
        /\ \A o \in Query : QueryMatches(o, d) <=> o \in {p, q}
        /\ main' = main \o Snapshots(p, D) \o (IF p = q THEN <<>> ELSE Snapshots(q, D))
  BY <1>0 DEF DocumentChanges
<1>4. PICK s1 : s1 = Snapshots(p, D)
  OBVIOUS
<1>5. PICK s2 : s2 = IF p = q THEN <<>> ELSE Snapshots(q, D)
  OBVIOUS
<1>6. main' = (main \o s1) \o s2
  BY <1>3, <1>4, <1>5
<1>7. /\ s1 \in Seq(Snapshot) /\ s2 \in Seq(Snapshot) /\ main \o s1 \in Seq(Snapshot)
      /\ \A i \in 1..Len(s1) : Readable(s1[i])
      /\ \A i \in 1..Len(s2) : Readable(s2[i])
  <2>1. /\ Snapshots(p, D) \in Seq(Snapshot)
        /\ \A i \in 1..Len(Snapshots(p, D)) : Readable(Snapshots(p, D)[i])
    BY <1>2, SnapshotsType DEF IInv
  <2>2. /\ Snapshots(q, D) \in Seq(Snapshot)
        /\ \A i \in 1..Len(Snapshots(q, D)) : Readable(Snapshots(q, D)[i])
    BY <1>2, SnapshotsType DEF IInv
  <2>3. p = q => s2 = <<>> /\ 1..Len(s2) = {}
    BY <1>5
  <2> QED
    BY <2>1, <2>2, <2>3, <1>2, <1>4, <1>5
<1>8. \A k, r : IsSilent(s1, k) /\ IsSilent(s2, k) /\ Told(k, r) => Told(k, r)'
  <2>1. \A k, r : Heard(k, r) => Heard(k, r)'
    BY <1>1 DEF Heard, feedVars, pageVars
  <2> TAKE k, r
  <2> HAVE IsSilent(s1, k) /\ IsSilent(s2, k) /\ Told(k, r)
  <2>2. /\ IsNewest(main, k, r) => IsNewest(main \o s1, k, r)
        /\ IsSilent(main, k) => IsSilent(main \o s1, k)
    BY <1>2, <1>7, Continued
  <2>3. /\ IsNewest(main \o s1, k, r) => IsNewest((main \o s1) \o s2, k, r)
        /\ IsSilent(main \o s1, k) => IsSilent((main \o s1) \o s2, k)
    BY <1>7, Continued
  <2> QED
    BY <2>1, <2>2, <2>3, <1>6 DEF Told
<1>9. TypeOK'
  <2>1. main' \in Seq(Snapshot)
    BY <1>6, <1>7
  <2> QED
    BY <2>1, <1>1, <1>2 DEF IInv, TypeOK, QueryTypeOK, FeedTypeOK, PageTypeOK,
                            feedVars, pageVars, Snapshot, Closure
<1>10. KindsInv'
  <2>1. \A i \in 1..Len(main') : Readable(main'[i])
    <3>1. /\ Len(main) \in Nat /\ Len(s1) \in Nat /\ Len(s2) \in Nat
          /\ Len(main') = Len(main) + Len(s1) + Len(s2)
          /\ \A i \in 1..Len(main) : main'[i] = main[i]
          /\ \A i \in 1..Len(s1) : main'[Len(main) + i] = s1[i]
          /\ \A i \in 1..Len(s2) : main'[Len(main) + Len(s1) + i] = s2[i]
      BY <1>2, <1>6, <1>7
    <3> SUFFICES ASSUME NEW i \in 1..Len(main') PROVE Readable(main'[i])
      OBVIOUS
    <3>2. CASE i <= Len(main)
      BY <3>1, <3>2 DEF IInv, KindsInv
    <3>3. CASE i > Len(main) /\ i <= Len(main) + Len(s1)
      <4>1. i - Len(main) \in 1..Len(s1) /\ i = Len(main) + (i - Len(main))
        BY <3>1, <3>3
      <4>2. main'[i] = s1[i - Len(main)]
        BY <3>1, <4>1
      <4> QED
        BY <4>1, <4>2, <1>7
    <3>4. CASE i > Len(main) + Len(s1)
      <4>1. i - (Len(main) + Len(s1)) \in 1..Len(s2)
            /\ i = Len(main) + Len(s1) + (i - (Len(main) + Len(s1)))
        BY <3>1, <3>4
      <4>2. main'[i] = s2[i - (Len(main) + Len(s1))]
        BY <3>1, <4>1
      <4> QED
        BY <4>1, <4>2, <1>7
    <3> QED
      BY <3>1, <3>2, <3>3, <3>4
  <2> QED
    BY <2>1, <1>1 DEF IInv, KindsInv, Fits, QueryFor, Readable
<1>11. ASSUME NEW k \in {"feed", "grid", "card"}
       PROVE  /\ ListeningTo(k) = {} => IsSilent(main', k)
              /\ ListeningTo(k) # {} => Told(k, Result(QueryFor(k), docs))'
  <2>0. PICK w : w = QueryFor(k)
    OBVIOUS
  <2>1. TypeOK /\ KindsInv /\ OneListenerInv
    BY DEF IInv
  <2>2. /\ w # p \/ ListeningTo(k) = {} => IsSilent(s1, k)
        /\ w = p /\ ListeningTo(k) # {} => IsNewest(s1, k, Result(w, D))
    BY <2>0, <2>1, <1>4, SnapshotsToScreen
  <2>3. /\ w # q \/ p = q \/ ListeningTo(k) = {} => IsSilent(s2, k)
        /\ w = q /\ p # q /\ ListeningTo(k) # {} => IsNewest(s2, k, Result(w, D))
    <3>1. CASE p = q
      <4>1. 1..Len(s2) = {}
        BY <3>1, <1>5
      <4> QED
        BY <4>1, <3>1 DEF IsSilent
    <3>2. CASE p # q
      BY <3>2, <2>0, <2>1, <1>5, SnapshotsToScreen
    <3> QED
      BY <3>1, <3>2
  <2>4. CASE ListeningTo(k) = {}
    <3>1. IsSilent(main, k) /\ IsSilent(s1, k) /\ IsSilent(s2, k)
      BY <2>2, <2>3, <2>4 DEF IInv, OneListenerInv
    <3>2. IsSilent(main \o s1, k)
      BY <3>1, <1>2, <1>7, Continued
    <3>3. IsSilent((main \o s1) \o s2, k)
      BY <3>1, <3>2, <1>7, Continued
    <3> QED
      BY <3>3, <1>6, <2>4
  <2>5. CASE ListeningTo(k) # {}
    <3>1. Result(QueryFor(k), docs)' = Result(w, D)
      BY <2>0, <1>1 DEF QueryFor
    <3>2. Told(k, Result(w, docs))
      BY <2>0, <2>5 DEF IInv, ScreensInv
    <3>3. CASE w \notin {p, q}
      <4>1. w \in Query
        BY <2>0, MeAssumption DEF QueryFor, Query, Feed, MyPosts, MyInfo
      <4>2. Result(w, D) = Result(w, docs)
        BY <4>1, <3>3, <1>0, <1>3, Unmatched
      <4>3. IsSilent(s1, k) /\ IsSilent(s2, k)
        BY <2>2, <2>3, <3>3
      <4> QED
        BY <4>2, <4>3, <3>1, <3>2, <1>8, <2>5
    <3>4. CASE w \in {p, q}
      <4>1. IsNewest(main', k, Result(w, D))
        <5>1. CASE w = p
          <6>1. IsNewest(s1, k, Result(w, D)) /\ IsSilent(s2, k)
            BY <5>1, <2>2, <2>3, <2>5
          <6>2. IsNewest(main \o s1, k, Result(w, D))
            BY <6>1, <1>2, <1>7, Continued
          <6> QED
            BY <6>1, <6>2, <1>6, <1>7, Continued
        <5>2. CASE w = q /\ p # q
          <6>1. IsNewest(s2, k, Result(w, D))
            BY <5>2, <2>3, <2>5
          <6> QED
            BY <6>1, <1>6, <1>7, Continued
        <5> QED
          BY <3>4, <5>1, <5>2
      <4> QED
        BY <4>1, <3>1, <2>5 DEF Told
    <3> QED
      BY <3>3, <3>4
  <2> QED
    BY <2>4, <2>5
<1>12. OneListenerInv'
  <2>1. \A k : AskedBy(k)' = AskedBy(k) /\ ListeningTo(k)' = ListeningTo(k)
    BY <1>1 DEF AskedBy, ListeningTo
  <2>2. opened' = opened
    BY <1>1 DEF pageVars
  <2> QED
    BY <2>1, <2>2, <1>11 DEF IInv, OneListenerInv
<1>13. ScreensInv'
  <2>1. \A k : ListeningTo(k)' = ListeningTo(k)
    BY <1>1 DEF ListeningTo
  <2> QED
    BY <2>1, <1>11 DEF ScreensInv
<1>14. CellsInv'
  <2> SUFFICES ASSUME NEW c \in fresh'
               PROVE  /\ caption'[c] \in Post
                      /\ \/ Coming(c)'
                         \/ /\ AskedBy(c)' = {}
                            /\ (LET names == Result(NameQuery(c), docs)
                                IN  names # <<>> => Told(c, names))'
    BY DEF CellsInv
  <2>1. d \notin Profile /\ c \in fresh /\ c \in Cell
    BY DEF IInv, TypeOK
  <2>2. caption' = caption /\ caption[c] \in Post
    BY <1>1, <2>1 DEF IInv, CellsInv, feedVars
  <2>3. AskedBy(c)' = AskedBy(c) /\ (Coming(c) => Coming(c)')
    BY <1>1, <2>2 DEF AskedBy, Coming, NameQuery
  <2>4. PICK w : w = NameQuery(c)
    OBVIOUS
  <2>5. PICK names : names = Result(w, docs)
    OBVIOUS
  <2>6. Result(w, D) = names
    <3>1. ~QueryMatches(w, d)
      BY <2>1, <2>4 DEF NameQuery, UserInfo, QueryMatches
    <3> QED
      BY <3>1, <2>5, <1>0, Unmatched
  <2>7. Result(NameQuery(c), docs)' = names
    BY <2>2, <2>4, <2>6, <1>1 DEF NameQuery
  <2>8. IsSilent(s1, c) /\ IsSilent(s2, c)
    <3>1. p.from = "Post" /\ q.from = "Post"
      BY <2>1, <1>3 DEF QueryMatches, Query
    <3>2. IsSilent(s1, c)
      BY <3>1, <2>1, <1>2, <1>4, SnapshotsType DEF IInv
    <3>3. IsSilent(Snapshots(q, D), c)
      BY <3>1, <2>1, <1>2, SnapshotsType DEF IInv
    <3>4. p = q => 1..Len(s2) = {}
      BY <1>5
    <3> QED
      BY <3>2, <3>3, <3>4, <1>5 DEF IsSilent
  <2>9. Coming(c) \/ (AskedBy(c) = {} /\ (names # <<>> => Told(c, names)))
    BY <2>1, <2>4, <2>5 DEF IInv, CellsInv
  <2> QED
    BY <2>2, <2>3, <2>7, <2>8, <2>9, <1>8
<1>15. RowsInv' /\ CountInv'
  BY <1>1 DEF IInv, RowsInv, CountInv, feedVars, pageVars
<1> QED
  BY <1>9, <1>10, <1>12, <1>13, <1>14, <1>15 DEF IInv

\* A listener that is added for a cell asks for the author of its new row, and
\* comes after all that were added for the cell before.
LEMMA CellForRowInv ==
  ASSUME IInv, NEW r \in 1..Len(postArray), NEW c \in Cell, CellForRow(r, c),
         fresh' = fresh \cup {c}, UNCHANGED pageVars
  PROVE  IInv'
<1>0. PICK q : q = UserInfo(EmailOf[postArray[r]])
  OBVIOUS
<1>1. PICK l : l = [query |-> q, to |-> c]
  OBVIOUS
<1>2. postArray \in Seq(Post) /\ postArray[r] \in Post /\ r # 0
  BY ElementOfSeq DEF IInv, TypeOK, FeedTypeOK
<1>3. q \in Query /\ q \in [from : {"Users"}, of : Account]
  BY <1>0, <1>2, EmailAssumption DEF UserInfo, Query
<1>4. l \in [query : Query, to : Closure] /\ Fits(l) /\ l.to = c /\ l.query = q
  BY <1>1, <1>3 DEF Closure, Fits
<1>5. asked \in Seq([query : Query, to : Closure])
  BY Types DEF IInv
<1>6. /\ asked' = Append(asked, l)
      /\ row' = [row EXCEPT ![c] = r]
      /\ caption' = [caption EXCEPT ![c] = postArray[r]]
      /\ UNCHANGED <<docs, listeners, main, postArray, userName, pageVars>>
  <2>1. asked' = asked \o << l >>
    BY <1>0, <1>1 DEF CellForRow, Listens
  <2>2. asked \o << l >> = Append(asked, l)
    BY <1>5
  <2> QED
    BY <2>1, <2>2 DEF CellForRow
<1>7. /\ Len(asked) \in Nat /\ Len(asked') = Len(asked) + 1
      /\ asked'[Len(asked) + 1] = l
      /\ \A i \in 1..Len(asked) : asked'[i] = asked[i]
  BY <1>4, <1>5, <1>6
<1>8. row \in [Cell -> Nat] /\ caption \in [Cell -> Post \cup {0}]
  BY DEF IInv, TypeOK, FeedTypeOK
<1>9. TypeOK'
  <2>1. asked' \in Seq([query : Query, to : {"feed", "grid", "card"} \cup Cell])
    BY <1>4, <1>5, <1>6 DEF Closure
  <2>2. QueryTypeOK({"feed", "grid", "card"} \cup Cell)'
    BY <2>1, <1>6 DEF IInv, TypeOK, QueryTypeOK
  <2>3. FeedTypeOK'
    <3>1. row' \in [Cell -> Nat]
      BY <1>6, <1>8
    <3>2. caption' \in [Cell -> Post \cup {0}]
      BY <1>2, <1>6, <1>8
    <3> QED
      BY <3>1, <3>2, <1>6 DEF IInv, TypeOK, FeedTypeOK
  <2>4. PageTypeOK'
    BY <1>6 DEF IInv, TypeOK, PageTypeOK, pageVars
  <2>5. fresh' \subseteq Cell
    BY DEF IInv, TypeOK
  <2> QED
    BY <2>2, <2>3, <2>4, <2>5 DEF TypeOK
<1>10. KindsInv'
  <2>1. \A i \in 1..Len(asked') : Fits(asked'[i])
    BY <1>4, <1>7 DEF IInv, KindsInv
  <2> QED
    BY <2>1, <1>6 DEF IInv, KindsInv, Fits, QueryFor, Readable
<1>11. \A k : k # c => AskedBy(k)' = AskedBy(k)
  BY <1>4, <1>7 DEF AskedBy
<1>12. \A k : ListeningTo(k)' = ListeningTo(k)
  BY <1>6 DEF ListeningTo
<1>13. \A k, s : Told(k, s) => Told(k, s)'
  BY <1>6 DEF Told, Heard, pageVars
<1>14. OneListenerInv'
  <2>1. c \notin {"feed", "grid", "card"}
    BY ClosuresDiffer
  <2>2. opened' = opened
    BY <1>6 DEF pageVars
  <2> QED
    BY <2>1, <2>2, <1>6, <1>11, <1>12 DEF IInv, OneListenerInv
<1>15. ScreensInv'
  <2> SUFFICES ASSUME NEW k \in {"feed", "grid", "card"}, ListeningTo(k)' # {}
               PROVE  Told(k, Result(QueryFor(k), docs))'
    BY DEF ScreensInv
  <2>1. PICK s : s = Result(QueryFor(k), docs)
    OBVIOUS
  <2>2. Result(QueryFor(k), docs)' = s
    BY <2>1, <1>6 DEF QueryFor
  <2>3. Told(k, s)
    BY <2>1, <1>12 DEF IInv, ScreensInv
  <2> QED
    BY <2>2, <2>3, <1>13
<1>16. CellsInv'
  <2> SUFFICES ASSUME NEW b \in fresh'
               PROVE  /\ caption'[b] \in Post
                      /\ \/ Coming(b)'
                         \/ /\ AskedBy(b)' = {}
                            /\ (LET names == Result(NameQuery(b), docs)
                                IN  names # <<>> => Told(b, names))'
    BY DEF CellsInv
  <2>1. CASE b = c
    <3>1. caption'[c] = postArray[r]
      BY <1>6, <1>8
    <3>2. NameQuery(c)' = q
      BY <3>1, <1>0 DEF NameQuery
    <3>3. Coming(c)'
      <4>1. Len(asked) + 1 \in 1..Len(asked')
        BY <1>7
      <4>2. ~ \E j \in 1..Len(asked') : Len(asked) + 1 < j
        BY <1>7
      <4> QED
        BY <4>1, <4>2, <3>2, <1>4, <1>7 DEF Coming
    <3> QED
      BY <3>1, <3>3, <1>2, <2>1
  <2>2. CASE b # c
    <3>1. b \in fresh /\ b \in Cell
      BY <2>2 DEF IInv, TypeOK
    <3>2. caption'[b] = caption[b] /\ caption[b] \in Post
      BY <3>1, <2>2, <1>6, <1>8 DEF IInv, CellsInv
    <3>3. PICK w : w = NameQuery(b)
      OBVIOUS
    <3>4. NameQuery(b)' = w
      BY <3>2, <3>3 DEF NameQuery
    <3>5. PICK names : names = Result(w, docs)
      OBVIOUS
    <3>6. Result(NameQuery(b), docs)' = names
      BY <3>4, <3>5, <1>6
    <3>7. AskedBy(b)' = AskedBy(b)
      BY <2>2, <1>11
    <3>8. ASSUME Coming(b) PROVE Coming(b)'
      <4>1. PICK i \in 1..Len(asked) : /\ asked[i].to = b /\ asked[i].query = w
                                      /\ \A j \in 1..Len(asked) : i < j => asked[j].to # b
        BY <3>3, <3>8 DEF Coming
      <4>2. i \in 1..Len(asked') /\ asked'[i].to = b /\ asked'[i].query = w
        BY <4>1, <1>7
      <4>3. ASSUME NEW j \in 1..Len(asked'), i < j PROVE asked'[j].to # b
        BY <4>1, <4>3, <2>2, <1>4, <1>7
      <4> QED
        BY <4>2, <4>3, <3>4 DEF Coming
    <3>9. Coming(b) \/ (AskedBy(b) = {} /\ (names # <<>> => Told(b, names)))
      BY <3>1, <3>3, <3>5 DEF IInv, CellsInv
    <3> QED
      BY <3>2, <3>6, <3>7, <3>8, <3>9, <1>13
  <2> QED
    BY <2>1, <2>2
<1>17. RowsInv'
  BY <1>2, <1>6, <1>8 DEF IInv, RowsInv
<1>18. CountInv'
  BY <1>6 DEF IInv, CountInv, pageVars
<1> QED
  BY <1>9, <1>10, <1>14, <1>15, <1>16, <1>17, <1>18 DEF IInv

\* The screens are as they were if nothing came for them and nothing was heard.
LEMMA ScreensStay ==
  ASSUME ScreensInv,
         UNCHANGED <<docs, listeners, main, postArray, userName, userPosts, card>>
  PROVE  ScreensInv'
<1>1. \A k : ListeningTo(k)' = ListeningTo(k)
  BY DEF ListeningTo
<1>2. \A k, r : Heard(k, r)' = Heard(k, r)
  BY DEF Heard
<1>3. \A k, r : Told(k, r)' = Told(k, r)
  BY <1>2 DEF Told
<1>4. SUFFICES ASSUME NEW k \in {"feed", "grid", "card"}, ListeningTo(k)' # {}
               PROVE  Told(k, Result(QueryFor(k), docs))'
  BY DEF ScreensInv
<1>5. PICK q : q = QueryFor(k)
  OBVIOUS
<1>6. Told(k, Result(q, docs))
  BY <1>1, <1>4, <1>5 DEF ScreensInv
<1>7. Told(k, Result(q, docs))'
  BY <1>3, <1>6
<1>8. QueryFor(k)' = q
  BY <1>5 DEF QueryFor
<1> QED
  BY <1>7, <1>8

LEMMA ScrollsAwayInv ==
  ASSUME IInv, NEW c \in Cell, ScrollsAway(c), UNCHANGED <<pageVars, fresh>>
  PROVE  IInv'
<1>1. /\ row' = [row EXCEPT ![c] = 0] /\ row \in [Cell -> Nat]
      /\ UNCHANGED <<docs, asked, listeners, main, postArray, caption, userName,
                     opened, userPosts, postCount, card, fresh>>
  BY DEF ScrollsAway, queryVars, pageVars, IInv, TypeOK, FeedTypeOK
<1>2. TypeOK'
  BY <1>1 DEF IInv, TypeOK, QueryTypeOK, FeedTypeOK, PageTypeOK
<1>3. KindsInv' /\ OneListenerInv'
  <2>1. KindsInv'
    BY <1>1 DEF IInv, KindsInv, Fits, QueryFor, Readable
  <2>2. \A k : AskedBy(k)' = AskedBy(k) /\ ListeningTo(k)' = ListeningTo(k)
    BY <1>1 DEF AskedBy, ListeningTo
  <2>3. OneListenerInv'
    BY <1>1, <2>2 DEF IInv, OneListenerInv, IsSilent
  <2> QED
    BY <2>1, <2>3
<1>4. ScreensInv'
  BY <1>1, ScreensStay DEF IInv
<1>5. CellsInv'
  BY <1>1 DEF IInv, CellsInv, AskedBy, Coming, NameQuery, Told, Heard, IsSilent, IsNewest
<1>6. RowsInv' /\ CountInv'
  BY <1>1 DEF IInv, RowsInv, CountInv
<1> QED
  BY <1>2, <1>3, <1>4, <1>5, <1>6 DEF IInv

\* The page's two closures get their listeners when it is opened, once.
LEMMA ViewDidLoadInv ==
  ASSUME IInv, ViewDidLoad, UNCHANGED <<feedVars, fresh>>
  PROVE  IInv'
<1>0. PICK a \in [query : Query, to : Closure] : a = [query |-> MyInfo, to |-> "card"]
  BY MeAssumption DEF MyInfo, Query, Closure
<1>1. PICK b \in [query : Query, to : Closure] : b = [query |-> MyPosts, to |-> "grid"]
  BY MeAssumption DEF MyPosts, Query, Closure
<1>2. /\ ~opened /\ opened' = TRUE
      /\ asked' = asked \o << a, b >>
      /\ UNCHANGED <<docs, listeners, main, postArray, row, caption, userName,
                     userPosts, postCount, card, fresh>>
  BY <1>0, <1>1 DEF ViewDidLoad, Listens, feedVars
<1>3. asked \in Seq([query : Query, to : Closure])
  BY Types DEF IInv
<1>4. << a, b >> \in Seq([query : Query, to : Closure])
  OBVIOUS
<1>5. /\ Len(asked) \in Nat /\ Len(asked') = Len(asked) + 2
      /\ \A i \in 1..Len(asked) : asked'[i] = asked[i]
      /\ asked'[Len(asked) + 1] = a /\ asked'[Len(asked) + 2] = b
  BY <1>2, <1>3, <1>4
<1>6. a.to = "card" /\ b.to = "grid" /\ Fits(a) /\ Fits(b)
  BY <1>0, <1>1, ClosuresDiffer DEF Fits, QueryFor
<1>7. \A i \in 1..Len(asked') : \/ i \in 1..Len(asked) /\ asked'[i] = asked[i]
                                \/ i = Len(asked) + 1 /\ asked'[i] = a
                                \/ i = Len(asked) + 2 /\ asked'[i] = b
  BY <1>5
<1>8. TypeOK'
  <2>1. asked' \in Seq([query : Query, to : {"feed", "grid", "card"} \cup Cell])
    BY <1>2, <1>3, <1>4 DEF Closure
  <2> QED
    BY <2>1, <1>2 DEF IInv, TypeOK, QueryTypeOK, FeedTypeOK, PageTypeOK
<1>9. KindsInv'
  <2>1. \A i \in 1..Len(asked') : Fits(asked'[i])
    BY <1>6, <1>7 DEF IInv, KindsInv
  <2> QED
    BY <2>1, <1>2 DEF IInv, KindsInv, Fits, QueryFor, Readable
<1>10. \A k : k \notin {"grid", "card"} => AskedBy(k)' = AskedBy(k)
  BY <1>5, <1>6, <1>7 DEF AskedBy
<1>11. \A k : ListeningTo(k)' = ListeningTo(k)
  BY <1>2 DEF ListeningTo
<1>12. OneListenerInv'
  <2> SUFFICES ASSUME NEW k \in {"feed", "grid", "card"}
               PROVE  /\ \A i, j \in AskedBy(k)' : i = j
                      /\ \A i, j \in ListeningTo(k)' : i = j
                      /\ AskedBy(k)' = {} \/ ListeningTo(k)' = {}
                      /\ k # "feed" /\ ~opened' => AskedBy(k)' = {} /\ ListeningTo(k)' = {}
                      /\ ListeningTo(k)' = {} => IsSilent(main', k)
    BY DEF OneListenerInv
  <2>1. CASE k = "feed"
    BY <2>1, <1>2, <1>10, <1>11 DEF IInv, OneListenerInv
  <2>2. CASE k # "feed"
    <3>1. AskedBy(k) = {} /\ ListeningTo(k) = {} /\ IsSilent(main, k)
      BY <2>2, <1>2 DEF IInv, OneListenerInv
    <3>2. \A i, j \in AskedBy(k)' : i = j
      BY <3>1, <2>2, <1>6, <1>7 DEF AskedBy
    <3> QED
      BY <3>1, <3>2, <1>2, <1>11
  <2> QED
    BY <2>1, <2>2
<1>13. ScreensInv'
  BY <1>2, ScreensStay DEF IInv
<1>14. CellsInv'
  <2> SUFFICES ASSUME NEW c \in fresh
               PROVE  /\ caption'[c] \in Post
                      /\ \/ Coming(c)'
                         \/ /\ AskedBy(c)' = {}
                            /\ (LET names == Result(NameQuery(c), docs)
                                IN  names # <<>> => Told(c, names))'
    BY <1>2 DEF CellsInv
  <2>1. c \in Cell /\ c \notin {"feed", "grid", "card"}
    BY ClosuresDiffer DEF IInv, TypeOK
  <2>2. AskedBy(c)' = AskedBy(c)
    BY <2>1, <1>10
  <2>3. ASSUME Coming(c) PROVE Coming(c)'
    <3>0. PICK w : w = NameQuery(c)
      OBVIOUS
    <3>1. NameQuery(c)' = w
      BY <3>0, <1>2 DEF NameQuery
    <3>2. PICK i \in 1..Len(asked) : /\ asked[i].to = c /\ asked[i].query = w
                                    /\ \A j \in 1..Len(asked) : i < j => asked[j].to # c
      BY <3>0, <2>3 DEF Coming
    <3>3. i \in 1..Len(asked') /\ asked'[i].to = c /\ asked'[i].query = w
      BY <3>2, <1>5
    <3>4. ASSUME NEW j \in 1..Len(asked'), i < j PROVE asked'[j].to # c
      BY <3>2, <3>4, <2>1, <1>6, <1>7
    <3> QED
      BY <3>1, <3>3, <3>4 DEF Coming
  <2>4. \A names : Told(c, names) => Told(c, names)'
    BY <1>2 DEF Told, Heard, IsSilent, IsNewest
  <2>5. Result(NameQuery(c), docs)' = Result(NameQuery(c), docs)
    BY <1>2 DEF NameQuery
  <2>6. caption'[c] = caption[c]
    BY <1>2
  <2> QED
    BY <2>2, <2>3, <2>4, <2>5, <2>6 DEF IInv, CellsInv
<1>15. RowsInv' /\ CountInv'
  BY <1>2 DEF IInv, RowsInv, CountInv
<1> QED
  BY <1>8, <1>9, <1>12, <1>13, <1>14, <1>15 DEF IInv

LEMMA StutterInv ==
  ASSUME IInv, UNCHANGED vars
  PROVE  IInv'
<1>1. UNCHANGED <<docs, asked, listeners, main, postArray, row, caption, userName,
                  opened, userPosts, postCount, card, fresh>>
  BY DEF vars, queryVars, feedVars, pageVars
<1>2. TypeOK' /\ RowsInv' /\ CountInv'
  BY <1>1 DEF IInv, TypeOK, QueryTypeOK, FeedTypeOK, PageTypeOK, RowsInv, CountInv
<1>3. KindsInv'
  BY <1>1 DEF IInv, KindsInv, Fits, QueryFor, Readable
<1>4. OneListenerInv'
  <2>1. \A k : AskedBy(k)' = AskedBy(k) /\ ListeningTo(k)' = ListeningTo(k)
    BY <1>1 DEF AskedBy, ListeningTo
  <2> QED
    BY <1>1, <2>1 DEF IInv, OneListenerInv, IsSilent
<1>5. ScreensInv'
  BY <1>1 DEF IInv, ScreensInv, ListeningTo, Told, Heard, QueryFor, IsSilent, IsNewest
<1>6. CellsInv'
  BY <1>1 DEF IInv, CellsInv, AskedBy, Coming, NameQuery, Told, Heard, IsSilent, IsNewest
<1> QED
  BY <1>2, <1>3, <1>4, <1>5, <1>6 DEF IInv

LEMMA StepInv ==
  ASSUME IInv, [Next]_vars
  PROVE  IInv'
<1>1. CASE Register /\ UNCHANGED <<feedVars, pageVars, fresh>>
  BY <1>1, RegisterInv
<1>2. CASE \E d \in Post \cup Profile :
             /\ DocumentChanges(d)
             /\ fresh' = (IF d \in Profile THEN {} ELSE fresh)
             /\ UNCHANGED <<feedVars, pageVars>>
  BY <1>2, DocumentChangesInv
<1>3. CASE UNCHANGED pageVars /\ \E r \in 1..Len(postArray), c \in Cell :
             CellForRow(r, c) /\ fresh' = fresh \cup {c}
  BY <1>3, CellForRowInv
<1>4. CASE UNCHANGED <<pageVars, fresh>> /\ \E c \in Cell : ScrollsAway(c)
  BY <1>4, ScrollsAwayInv
<1>5. CASE UNCHANGED <<pageVars, fresh>> /\ main # <<>> /\ FeedSnapshot(Head(main).result)
  BY <1>5, FeedSnapshotInv
<1>6. CASE /\ UNCHANGED <<pageVars, fresh>>
           /\ main # <<>> /\ \E c \in Cell : CellSnapshot(c, Head(main).result)
  BY <1>6, CellSnapshotInv
<1>7. CASE UNCHANGED <<feedVars, fresh>> /\ ViewDidLoad
  BY <1>7, ViewDidLoadInv
<1>8. CASE UNCHANGED <<feedVars, fresh>> /\ main # <<>> /\ CardSnapshot(Head(main).result)
  BY <1>8, CardSnapshotInv
<1>9. CASE UNCHANGED <<feedVars, fresh>> /\ main # <<>> /\ GridSnapshot(Head(main).result)
  BY <1>9, GridSnapshotInv
<1>10. CASE UNCHANGED vars
  BY <1>10, StutterInv
<1> QED
  BY <1>1, <1>2, <1>3, <1>4, <1>5, <1>6, <1>7, <1>8, <1>9, <1>10
  DEF Next, ClientStep, FeedStep, PageStep

-----------------------------------------------------------------------------
(* The theorems.                                                           *)

\* The invariant is inductive: addSnapshotListener, the worker queue of the
\* client, the handlers of FeedVC and ProfileVC and the table's use of its cells
\* all keep the last word to every closure that of its own query.
THEOREM Invariant == Spec => []IInv
<1>1. Init => IInv
  BY InitInv
<1>2. IInv /\ [Next]_vars => IInv'
  BY StepInv
<1> QED
  BY <1>1, <1>2, PTL DEF Spec

\* Listeners, snapshots and what the screens hold are of their types: a list of
\* FeedVC or ProfileVC has posts only, a name or a card is a profile's.
THEOREM TypeCorrect == Spec => []TypeOK
<1>1. IInv => TypeOK
  BY DEF IInv
<1> QED
  BY <1>1, Invariant, PTL

\* Nothing under way to a closure of a screen: what it heard is its query's result.
LEMMA ReachedScreen ==
  ASSUME IInv, NEW k \in {"feed", "grid", "card"}, Reached(k)
  PROVE  Heard(k, Result(QueryFor(k), docs))
<1>1. ListeningTo(k) # {}
  BY DEF Reached, ListeningTo
<1>2. Told(k, Result(QueryFor(k), docs))
  BY <1>1 DEF IInv, ScreensInv
<1>3. \A r : ~IsNewest(main, k, r)
  BY DEF Reached, IsNewest
<1> QED
  BY <1>2, <1>3 DEF Told

\* Once all that is under way has arrived, the feed's list, the profile page's
\* grid with its count, and its card are what the client holds, whatever the
\* order in which listeners were registered and documents came and went; a
\* result that is empty is ignored by the code and changes nothing.
THEOREM ScreensFollowClientHolds == Spec => []ScreensFollowClient
<1>1. ASSUME IInv PROVE ScreensFollowClient
  <2>1. FeedFollowsClient
    <3>1. \A c \in Cell : row[c] # 0 => row[c] <= Len(postArray) /\ caption[c] = postArray[row[c]]
      BY <1>1 DEF IInv, RowsInv
    <3>2. Reached("feed") => Heard("feed", Result(Feed, docs))
      BY <1>1, ReachedScreen DEF QueryFor
    <3> QED
      BY <3>1, <3>2 DEF FeedFollowsClient, Heard
  <2>2. PageFollowsClient
    <3>1. Reached("grid") => Heard("grid", Result(MyPosts, docs))
      BY <1>1, ReachedScreen DEF QueryFor
    <3>2. Reached("card") => Heard("card", Result(MyInfo, docs))
      BY <1>1, ReachedScreen DEF QueryFor
    <3>3. userPosts # <<>> => postCount = Len(userPosts)
      BY <1>1 DEF IInv, CountInv
    <3> QED
      BY <3>1, <3>2, <3>3 DEF PageFollowsClient, Heard
  <2> QED
    BY <2>1, <2>2 DEF ScreensFollowClient
<1> QED
  BY <1>1, Invariant, PTL

\* A row shows its own author's name once what is under way to its cell has
\* arrived, however many listeners of earlier rows still write into the cell,
\* as long as no profile has changed since cellForRowAt made it ready.
THEOREM RowsShowTheirAuthorHolds == Spec => []RowsShowTheirAuthor
<1>1. ASSUME IInv PROVE RowsShowTheirAuthor
  <2> SUFFICES ASSUME NEW c \in fresh,
                      row[c] # 0, Reached(c), Result(NameQuery(c), docs) # <<>>
               PROVE  userName[c] = Result(NameQuery(c), docs)[Len(Result(NameQuery(c), docs))]
    BY DEF RowsShowTheirAuthor, NameQuery
  <2>1. ~Coming(c) /\ \A r : ~IsNewest(main, c, r)
    BY DEF Reached, Coming, IsNewest
  <2>2. Heard(c, Result(NameQuery(c), docs))
    BY <1>1, <2>1 DEF IInv, CellsInv, Told
  <2>3. c \notin {"feed", "grid", "card"}
    BY <1>1, ClosuresDiffer DEF IInv, TypeOK
  <2> QED
    BY <2>2, <2>3 DEF Heard
<1> QED
  BY <1>1, Invariant, PTL
=============================================================================
