------------------------------- MODULE TabBar -------------------------------
(***************************************************************************)
(* The tab bar of BookSelf: the feed and the profile page over the same    *)
(* Firestore client.  A turn of the main queue is one action: a snapshot,  *)
(* a row that comes or goes, the first opening of the profile tab.         *)
(***************************************************************************)
EXTENDS FeedVC, ProfileVC

ASSUME ClosuresDiffer == Cell \cap {"feed", "grid", "card"} = {}

\* History: the cells made ready since a document of "Users" last changed.
VARIABLE fresh

vars == <<queryVars, feedVars, pageVars, fresh>>

TypeOK ==
  /\ QueryTypeOK({"feed", "grid", "card"} \cup Cell)
  /\ FeedTypeOK
  /\ PageTypeOK
  /\ fresh \subseteq Cell

Init ==
  /\ QueryInit
  /\ asked = FeedListens
  /\ FeedInit
  /\ PageInit
  /\ fresh = {}

ClientStep ==
  \/ /\ Register
     /\ UNCHANGED <<feedVars, pageVars, fresh>>
  \/ \E d \in Post \cup Profile :
       /\ DocumentChanges(d)
       /\ fresh' = IF d \in Profile THEN {} ELSE fresh
       /\ UNCHANGED <<feedVars, pageVars>>

FeedStep ==
  /\ \/ \E r \in 1..Len(postArray), c \in Cell :
          CellForRow(r, c) /\ fresh' = fresh \cup {c}
     \/ /\ \/ \E c \in Cell : ScrollsAway(c)
           \/ main # <<>> /\ FeedSnapshot(Head(main).result)
           \/ main # <<>> /\ \E c \in Cell : CellSnapshot(c, Head(main).result)
        /\ UNCHANGED fresh
  /\ UNCHANGED pageVars

PageStep ==
  /\ \/ ViewDidLoad
     \/ main # <<>> /\ CardSnapshot(Head(main).result)
     \/ main # <<>> /\ GridSnapshot(Head(main).result)
  /\ UNCHANGED <<feedVars, fresh>>

Next == ClientStep \/ FeedStep \/ PageStep

Spec == Init /\ [][Next]_vars

\* Each screen shows what the client holds once its snapshots have arrived, so
\* the two agree; the code ignores empty results, so what was there last stays.
ScreensFollowClient == FeedFollowsClient /\ PageFollowsClient

\* A row shows the name of its own author, though its cell is still written to
\* by the listeners of the rows it showed before; as long as no profile has
\* changed since the row came on the screen, and if its author has a profile.
RowsShowTheirAuthor ==
  \A c \in fresh :
    LET names == Result(UserInfo(EmailOf[caption[c]]), docs)
    IN  row[c] # 0 /\ Reached(c) /\ names # <<>> => userName[c] = names[Len(names)]
=============================================================================
