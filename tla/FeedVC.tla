------------------------------- MODULE FeedVC -------------------------------
(***************************************************************************)
(* The feed of BookSelf (Controllers/FeedVC.swift): the list of posts, and *)
(* a table whose cells are used again for other rows.  Each time a cell is *)
(* made ready for a row, a listener of the author's profile is added that  *)
(* writes into the cell for ever after.                                    *)
(***************************************************************************)
EXTENDS LiveQueries

CONSTANTS
  Cell,          \* the table's FeedCells
  MaxListeners   \* bound on the listeners of the screens

ASSUME MaxListenersAssumption == MaxListeners \in Nat

VARIABLES
  postArray,  \* the posts of the list
  row,        \* the row each cell shows, 0 if it waits to be used again
  caption,    \* the post whose caption and picture a cell has, 0 at first
  userName    \* the profile whose name and picture a cell has, 0 at first

feedVars == <<postArray, row, caption, userName>>

FeedTypeOK ==
  /\ postArray \in Seq(Post)
  /\ row \in [Cell -> Nat]
  /\ caption \in [Cell -> Post \cup {0}]
  /\ userName \in [Cell -> Profile \cup {0}]

Feed == [from |-> "Post", of |-> Everyone]
UserInfo(a) == [from |-> "Users", of |-> a]

\* viewDidLoad calls getDatas.
FeedInit ==
  /\ postArray = <<>>
  /\ row = [c \in Cell |-> 0]
  /\ caption = [c \in Cell |-> 0]
  /\ userName = [c \in Cell |-> 0]

FeedListens == <<[query |-> Feed, to |-> "feed"]>>

\* Mutant of the next action: the list is not emptied first.
FeedAppends(result) ==
  /\ Handles("feed", result)
  /\ IF result = <<>> THEN UNCHANGED <<postArray, row>>
     ELSE /\ postArray' = postArray \o result
          /\ row' = [c \in Cell |-> 0]
  /\ UNCHANGED <<asked, caption, userName>>

\* The handler of getDatas.  An empty result is ignored; after reloadData every
\* cell may be used again.
FeedSnapshot(result) ==
  /\ Handles("feed", result)
  /\ IF result = <<>> THEN UNCHANGED <<postArray, row>>
     ELSE /\ postArray' = result
          /\ row' = [c \in Cell |-> 0]
  /\ UNCHANGED <<asked, caption, userName>>

\* Mutant of the next action: one listener for each author is taken to do.
AsksOncePerAuthor(r, c) ==
  LET q == UserInfo(EmailOf[postArray[r]]) IN
  /\ r <= Len(postArray) /\ row[c] = 0 /\ \A b \in Cell : row[b] # r
  /\ row' = [row EXCEPT ![c] = r]
  /\ caption' = [caption EXCEPT ![c] = postArray[r]]
  /\ IF \E i \in 1..Len(listeners) : listeners[i].query = q THEN UNCHANGED asked
     ELSE Listens(<<[query |-> q, to |-> c]>>)
  /\ UNCHANGED <<docs, listeners, main, postArray, userName>>

\* cellForRowAt: a row comes on the screen with a cell that is free.
CellForRow(r, c) ==
  /\ r <= Len(postArray) /\ row[c] = 0 /\ \A b \in Cell : row[b] # r
  /\ Len(asked) + Len(listeners) < MaxListeners
  /\ row' = [row EXCEPT ![c] = r]
  /\ caption' = [caption EXCEPT ![c] = postArray[r]]
  /\ Listens(<<[query |-> UserInfo(EmailOf[postArray[r]]), to |-> c]>>)
  /\ UNCHANGED <<docs, listeners, main, postArray, userName>>

\* The user scrolls the row of the cell away.
ScrollsAway(c) ==
  /\ row[c] # 0
  /\ row' = [row EXCEPT ![c] = 0]
  /\ UNCHANGED <<queryVars, postArray, caption, userName>>

\* The handler of getUserInfo: the last profile of the loop stays.
CellSnapshot(c, result) ==
  /\ Handles(c, result)
  /\ userName' = IF result = <<>> THEN userName
                 ELSE [userName EXCEPT ![c] = result[Len(result)]]
  /\ UNCHANGED <<asked, postArray, row, caption>>

\* The rows on the screen are those of the list, and once all that is under
\* way has arrived the list is what the client holds, unless it holds nothing.
FeedFollowsClient ==
  /\ \A c \in Cell : row[c] # 0 => row[c] <= Len(postArray) /\ caption[c] = postArray[row[c]]
  /\ Reached("feed") => Result(Feed, docs) \in {<<>>, postArray}
=============================================================================
