---------------------------- MODULE LiveQueries ----------------------------
(***************************************************************************)
(* What the Firestore client gives the screens that call                   *)
(* addSnapshotListener: a worker queue that registers listeners in the     *)
(* order they were added, and snapshots on the main queue, in the order    *)
(* they were made: one when a listener is registered, one for each change  *)
(* of its result.  FirestoreListens models how the documents get there.    *)
(***************************************************************************)
EXTENDS Naturals, Sequences, FiniteSets

\* Documents are numbered: the posts by their date, the profiles by their ids.
CONSTANTS
  Post,     \* documents of "Post"
  Profile,  \* documents of "Users"
  Account,  \* the e-mail addresses
  EmailOf,  \* the field "email" of each document
  MaxLate   \* bound on the snapshots under way when a document changes

\* A query of all authors.
Everyone == "everyone"

ASSUME DocumentsAssumption ==
  /\ IsFiniteSet(Post \cup Profile) /\ Post \cup Profile \subseteq Nat \ {0}
  /\ Post \cap Profile = {}
ASSUME AccountAssumption == Everyone \notin Account
ASSUME EmailAssumption == EmailOf \in [Post \cup Profile -> Account]
ASSUME MaxLateAssumption == MaxLate \in Nat

VARIABLES
  docs,       \* the documents the client holds, in its cache or not sent yet
  asked,      \* listeners on the worker queue, not registered yet
  listeners,  \* registered listeners; none is ever removed
  main        \* snapshots on the main queue

queryVars == <<docs, asked, listeners, main>>

\* A query takes a collection, ordered by date or of one e-mail address.
Query == [from : {"Post"}, of : Account \cup {Everyone}] \cup [from : {"Users"}, of : Account]

\* What a listener's closure writes to is given by the screens.
QueryTypeOK(Closure) ==
  /\ docs \subseteq Post \cup Profile
  /\ {asked, listeners} \subseteq Seq([query : Query, to : Closure])
  /\ main \in Seq([to : Closure, result : Seq(Post \cup Profile)])

QueryInit ==
  /\ docs \in SUBSET (Post \cup Profile)
  /\ listeners = <<>>
  /\ main = <<>>

\* The elements of a set of numbers, from the least to the greatest.
Ascending(S) ==
  CHOOSE s \in [1..Cardinality(S) -> S] : \A i, j \in 1..Cardinality(S) : i < j => s[i] < s[j]

Descending(S) == [i \in 1..Cardinality(S) |-> Ascending(S)[Cardinality(S) + 1 - i]]

\* Mutant of the next definition: the collection of the query is not looked at.
MatchesAnyCollection(q, d) == q.of \in {EmailOf[d], Everyone}

QueryMatches(q, d) ==
  /\ d \in (IF q.from = "Post" THEN Post ELSE Profile)
  /\ q.of \in {EmailOf[d], Everyone}

\* The feed is in descending order of dates, the rest in the order of ids.
Result(q, D) ==
  LET found == {d \in D : QueryMatches(q, d)}
  IN  IF q.of = Everyone THEN Descending(found) ELSE Ascending(found)

Listens(new) == asked' = asked \o new

\* A registered listener hears of an empty result only when the client is in
\* step with the server, or offline.
Register ==
  LET l      == Head(asked)
      result == Result(l.query, docs)
  IN  /\ asked # <<>>
      /\ asked' = Tail(asked)
      /\ listeners' = Append(listeners, l)
      /\ \/ main' = Append(main, [to |-> l.to, result |-> result])
         \/ result = <<>> /\ main' = main
      /\ UNCHANGED docs

\* The snapshots of one task of the worker queue for the listeners of one query,
\* in the order they were registered.
Snapshots(q, D) ==
  LET to == Ascending({i \in 1..Len(listeners) : listeners[i].query = q})
  IN  [n \in 1..Len(to) |-> [to |-> listeners[to[n]].to, result |-> Result(q, D)]]

\* A document comes or goes: the app's own write or the server's word.  The
\* queries that match it, one or two, take their turns in the order of a hash
\* table, which is any order.
DocumentChanges(d) ==
  LET D       == IF d \in docs THEN docs \ {d} ELSE docs \cup {d}
      changed == {q \in Query : QueryMatches(q, d)}
  IN  /\ Len(main) <= MaxLate
      /\ docs' = D
      /\ \E p, q \in changed :
           /\ changed = {p, q}
           /\ main' = main \o Snapshots(p, D) \o (IF p = q THEN <<>> ELSE Snapshots(q, D))
      /\ UNCHANGED <<asked, listeners>>

\* The main queue runs the handler of the closure `to`.
Handles(to, result) ==
  /\ main # <<>> /\ Head(main) = [to |-> to, result |-> result]
  /\ main' = Tail(main)
  /\ UNCHANGED <<docs, listeners>>

\* Nothing is under way to the closure `to`.
Reached(to) ==
  /\ \A i \in 1..Len(main) : main[i].to # to
  /\ \A i \in 1..Len(asked) : asked[i].to # to
  /\ \E i \in 1..Len(listeners) : listeners[i].to = to
=============================================================================
