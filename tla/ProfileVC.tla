----------------------------- MODULE ProfileVC -----------------------------
(***************************************************************************)
(* The profile page of BookSelf (Controllers/ProfileVC.swift), of the user *)
(* who was signed in when the page was first opened.                       *)
(***************************************************************************)
EXTENDS LiveQueries

CONSTANTS
  Me,         \* the user's e-mail address
  Storyboard  \* the number of posts the storyboard puts on the page, 170

ASSUME MeAssumption == Me \in Account
ASSUME StoryboardAssumption == Storyboard \in Nat

VARIABLES
  opened,     \* the page has been opened once
  userPosts,  \* the posts of the grid
  postCount,  \* postCountLabel
  card        \* the profile whose name, bio and picture are shown, 0 at first

pageVars == <<opened, userPosts, postCount, card>>

PageTypeOK ==
  /\ opened \in BOOLEAN
  /\ userPosts \in Seq(Post)
  /\ postCount \in Nat
  /\ card \in Profile \cup {0}

PageInit ==
  /\ opened = FALSE
  /\ userPosts = <<>>
  /\ postCount = Storyboard
  /\ card = 0

MyInfo == [from |-> "Users", of |-> Me]
MyPosts == [from |-> "Post", of |-> Me]

\* viewDidLoad, when the tab is first selected: getUserInfo, then getDatas.
ViewDidLoad ==
  /\ ~opened
  /\ opened' = TRUE
  /\ Listens(<<[query |-> MyInfo, to |-> "card"], [query |-> MyPosts, to |-> "grid"]>>)
  /\ UNCHANGED <<docs, listeners, main, userPosts, postCount, card>>

\* The handler of getUserInfo: the last profile of the loop stays.
CardSnapshot(result) ==
  /\ Handles("card", result)
  /\ card' = IF result = <<>> THEN card ELSE result[Len(result)]
  /\ UNCHANGED <<asked, opened, userPosts, postCount>>

\* The handler of getDatas: an empty result is ignored.
GridSnapshot(result) ==
  /\ Handles("grid", result)
  /\ IF result = <<>> THEN UNCHANGED <<userPosts, postCount>>
     ELSE /\ userPosts' = result
          /\ postCount' = Len(result)
  /\ UNCHANGED <<asked, opened, card>>

\* Once all that is under way has arrived, the page is what the client holds,
\* unless it holds nothing: then it stays what it was.
PageFollowsClient ==
  /\ Reached("grid") => Result(MyPosts, docs) \in {<<>>, userPosts}
  /\ Reached("card") /\ Result(MyInfo, docs) # <<>> =>
       card = Result(MyInfo, docs)[Len(Result(MyInfo, docs))]
  /\ userPosts # <<>> => postCount = Len(userPosts)
=============================================================================
