------------------------------ MODULE AuthFlow ------------------------------
(***************************************************************************)
(* How a user gets into BookSelf: the screens of LoginViewController,      *)
(* SignInViewController and SignUpVC, piled over one another by the        *)
(* segues of Main.storyboard (all full-screen, none ever dismissed), the   *)
(* requests their buttons send to Firebase Auth, the first profile form    *)
(* and the tab bar on top of them, and SceneDelegate at the next launch.   *)
(*                                                                         *)
(* Auth sets its current user on its own queue and posts the completion    *)
(* handler to the main queue.  Until the handler runs the user may type,   *)
(* tap, and cover the screen; UIKit drops what a screen presents while it  *)
(* already presents another screen or an alert.                            *)
(*                                                                         *)
(* A field left empty makes the whole entry blank.  A wrong password is    *)
(* one of the reasons for which any request may fail.                      *)
(***************************************************************************)
EXTENDS Naturals, Sequences

CONSTANTS
  Account,    \* e-mail addresses
  NoAccount,  \* Auth.auth().currentUser is nil
  Blank,      \* what the fields say while one of them is empty
  Tap,        \* taps on Log In and Sign Up
  MaxPile     \* bound on the screens of a behaviour

ASSUME NoAccountAssumption == NoAccount \notin Account
ASSUME BlankAssumption == Blank \notin Account
ASSUME MaxPileAssumption == MaxPile \in Nat \ {0}

VARIABLES
  registered,   \* accounts the server of Firebase Auth knows
  currentUser,  \* Auth.auth().currentUser
  pile,         \* the screens, each presented by the one before
  alert,        \* the front screen presents an alert
  taps,         \* how far the request of each tap has come
  main          \* completion handlers posted to the main queue

authVars == <<registered, currentUser>>
vars == <<authVars, pile, alert, taps, main>>

Entry == Account \cup {Blank}

Kinds == {"login", "signIn", "signUp", "form", "tabBar"}

Stages ==
  {"unused", "signingIn", "creating", "created",
   "entering",   \* signUpBtn's nested signIn
   "in",         \* its segue was performed
   "swallowed",  \* its segue was dropped
   "refused",    \* it signed nobody in
   "halfway",    \* the account was created, the nested signIn failed
   "left",       \* its first profile form was cancelled
   "lost"}       \* the process died

TypeOK ==
  /\ registered \in SUBSET Account
  /\ currentUser \in Account \cup {NoAccount}
  /\ pile \in Seq([kind : Kinds, entry : Entry]) /\ Len(pile) \in 1..MaxPile
  /\ alert \in BOOLEAN
  /\ taps \in [Tap -> [stage : Stages, screen : 1..MaxPile, email : Entry]]
  /\ main \in Seq([tap : Tap, ok : BOOLEAN])

Screen(kind) == [kind |-> kind, entry |-> Blank]
Front == pile[Len(pile)]
SignInKinds == {"login", "signIn", "signUp"}

Stage(t) == taps[t].stage
Posted(t) == \E i \in 1..Len(main) : main[i].tap = t
UnderWay == {"signingIn", "creating", "created", "entering"}

-----------------------------------------------------------------------------
(* Launch.                                                                 *)

\* Mutant of the next operator: the stored user is not looked at.
AlwaysLogin(u) == <<Screen("login")>>

\* SceneDelegate: the tab bar if there is a user, else the first scene of the
\* storyboard.
RootFor(u) == <<Screen(IF u # NoAccount THEN "tabBar" ELSE "login")>>

Init ==
  /\ registered \in SUBSET Account
  /\ currentUser \in registered \cup {NoAccount}
  /\ pile = RootFor(currentUser)
  /\ alert = FALSE
  /\ taps = [t \in Tap |-> [stage |-> "unused", screen |-> 1, email |-> Blank]]
  /\ main = <<>>

\* The process dies, and with it its requests and handlers; what has reached
\* the server stays.
Relaunched ==
  /\ pile' = RootFor(currentUser)
  /\ alert' = FALSE
  /\ taps' = [t \in Tap |-> IF Stage(t) = "unused" THEN taps[t]
                            ELSE [taps[t] EXCEPT !.stage = "lost"]]
  /\ main' = <<>>
  /\ UNCHANGED authVars

-----------------------------------------------------------------------------
(* What the screens present.                                               *)

CanPresent(i) == i = Len(pile) /\ ~alert

\* A segue of the screen at i, performed or dropped.
PerformSegue(i, kind) ==
  pile' = IF CanPresent(i) THEN Append(pile, Screen(kind)) ELSE pile

ShowErrorMessage(i) == alert' = (alert \/ CanPresent(i))

Touchable == ~alert
RoomForOne == Len(pile) < MaxPile

Goes ==
  [login |-> {"signIn", "signUp"}, signIn |-> {"signUp", "login"},
   signUp |-> {"login", "signIn"}, form |-> {}, tabBar |-> {}]

\* The buttons of the three screens that only lead to another.
Navigate(kind) ==
  /\ Touchable /\ RoomForOne /\ kind \in Goes[Front.kind]
  /\ PerformSegue(Len(pile), kind)
  /\ UNCHANGED <<authVars, alert, taps, main>>

TypeEntry(e) ==
  /\ Touchable /\ Front.kind \in {"signIn", "signUp"} /\ Front.entry # e
  /\ pile' = [pile EXCEPT ![Len(pile)].entry = e]
  /\ UNCHANGED <<authVars, alert, taps, main>>

OkayPressed ==
  /\ alert
  /\ alert' = FALSE
  /\ UNCHANGED <<authVars, pile, taps, main>>

\* The profile form in front saves a profile (UpdateProfileVC.tla).
PerformToMain ==
  /\ Touchable /\ RoomForOne /\ Front.kind = "form"
  /\ PerformSegue(Len(pile), "tabBar")
  /\ UNCHANGED <<authVars, alert, taps, main>>

EditBtnPressed ==
  /\ Touchable /\ RoomForOne /\ Front.kind = "tabBar"
  /\ PerformSegue(Len(pile), "form")
  /\ UNCHANGED <<authVars, alert, taps, main>>

\* Mutant of the next action: the screen under the form is dismissed as well.
DismissesBoth ==
  /\ Touchable /\ Front.kind = "form"
  /\ pile' = SubSeq(pile, 1, Len(pile) - 2)
  /\ UNCHANGED <<authVars, alert, taps, main>>

\* Cancel on a profile form: what is under it comes back, be it the sign-up
\* screen.
CancelBtnPressed ==
  /\ Touchable /\ Front.kind = "form"
  /\ pile' = SubSeq(pile, 1, Len(pile) - 1)
  /\ taps' = [t \in Tap |->
                IF Stage(t) = "in" /\ taps[t].screen = Len(pile) - 1
                  THEN [taps[t] EXCEPT !.stage = "left"] ELSE taps[t]]
  /\ UNCHANGED <<authVars, alert, main>>

-----------------------------------------------------------------------------
(* Requests and their completion handlers.                                 *)

Moves(t, stage) == taps' = [taps EXCEPT ![t].stage = stage]

\* loginBtnPressed and signUpBtn send what the fields say; no button is
\* disabled meanwhile.
Sends(t, kind, stage) ==
  /\ Stage(t) = "unused"
  /\ Touchable /\ Front.kind = kind /\ Front.entry # Blank
  /\ RoomForOne
  /\ taps' = [taps EXCEPT ![t] = [stage |-> stage, screen |-> Len(pile), email |-> Front.entry]]
  /\ UNCHANGED <<authVars, pile, alert, main>>

LoginBtnPressed(t) == Sends(t, "signIn", "signingIn")
SignUpBtn(t) == Sends(t, "signUp", "creating")

\* The server creates the account; the answer may yet be lost.
ServerCreates(t) ==
  /\ Stage(t) = "creating" /\ taps[t].email \notin registered
  /\ registered' = registered \cup {taps[t].email}
  /\ Moves(t, "created")
  /\ UNCHANGED <<currentUser, pile, alert, main>>

Completes(t, ok) == main' = Append(main, [tap |-> t, ok |-> ok])

\* Auth takes the account as its current user, then posts the handler.
AuthSucceeds(t) ==
  /\ ~Posted(t)
  /\ \/ Stage(t) = "created"
     \/ Stage(t) \in {"signingIn", "entering"} /\ taps[t].email \in registered
  /\ currentUser' = taps[t].email
  /\ Completes(t, TRUE)
  /\ UNCHANGED <<registered, pile, alert, taps>>

\* Mutant of the next action: there is no time-out.
FailsAtOnceOrNever(t) ==
  /\ ~Posted(t) /\ Stage(t) \in {"signingIn", "creating"}
  /\ Completes(t, FALSE)
  /\ UNCHANGED <<authVars, pile, alert, taps>>

\* A refusal, or no answer in time, maybe to a request the server has served.
AuthFails(t) ==
  /\ ~Posted(t) /\ Stage(t) \in UnderWay
  /\ Completes(t, FALSE)
  /\ UNCHANGED <<authVars, pile, alert, taps>>

\* The handler of t is the next block of the main queue.
Runs(t, ok) ==
  /\ main # <<>> /\ Head(main) = [tap |-> t, ok |-> ok]
  /\ main' = Tail(main)

SegueOr(t, kind) ==
  /\ PerformSegue(taps[t].screen, kind)
  /\ Moves(t, IF CanPresent(taps[t].screen) THEN "in" ELSE "swallowed")

\* Mutant of the next action: the segue is performed on an error, too.
SeguesAnyway(t) ==
  /\ Stage(t) = "signingIn"
  /\ \E ok \in BOOLEAN : Runs(t, ok)
  /\ SegueOr(t, "tabBar")
  /\ UNCHANGED <<authVars, alert>>

\* signIn's handler, no error.
LoggedIn(t) ==
  /\ Stage(t) = "signingIn" /\ Runs(t, TRUE)
  /\ SegueOr(t, "tabBar")
  /\ UNCHANGED <<authVars, alert>>

\* createUser's handler, no error: the account is signed in already, and is
\* signed in again with what the fields say by now.
SignInAgain(t) ==
  /\ Stage(t) = "created" /\ Runs(t, TRUE)
  /\ taps' = [taps EXCEPT ![t].stage = "entering", ![t].email = pile[taps[t].screen].entry]
  /\ UNCHANGED <<authVars, pile, alert>>

\* The nested signIn's handler, no error.
SignedUp(t) ==
  /\ Stage(t) = "entering" /\ Runs(t, TRUE)
  /\ SegueOr(t, "form")
  /\ UNCHANGED <<authVars, alert>>

\* All three handlers with an error.
Refused(t) ==
  /\ Stage(t) \in UnderWay /\ Runs(t, FALSE)
  /\ ShowErrorMessage(taps[t].screen)
  /\ Moves(t, IF Stage(t) = "entering" THEN "halfway" ELSE "refused")
  /\ UNCHANGED <<authVars, pile>>

\* Auth drops a user whose token the server refuses; no screen listens.
SignedOutByForce ==
  /\ currentUser # NoAccount
  /\ currentUser' = NoAccount
  /\ UNCHANGED <<registered, pile, alert, taps, main>>

-----------------------------------------------------------------------------
Handler(t) == LoggedIn(t) \/ SignInAgain(t) \/ SignedUp(t) \/ Refused(t)

Next ==
  \/ \E kind \in Kinds : Navigate(kind)
  \/ \E e \in Entry : TypeEntry(e)
  \/ OkayPressed
  \/ PerformToMain
  \/ EditBtnPressed
  \/ CancelBtnPressed
  \/ \E t \in Tap : \/ LoginBtnPressed(t)
                    \/ SignUpBtn(t)
                    \/ ServerCreates(t)
                    \/ AuthSucceeds(t)
                    \/ AuthFails(t)
                    \/ LoggedIn(t)
                    \/ SignInAgain(t)
                    \/ SignedUp(t)
                    \/ Refused(t)
  \/ SignedOutByForce
  \/ Relaunched

Spec == Init /\ [][Next]_vars

\* Requests of Auth time out, and the main queue runs its blocks.
Fairness ==
  \A t \in Tap : WF_vars(AuthSucceeds(t) \/ AuthFails(t)) /\ WF_vars(Handler(t))

FairSpec == Spec /\ Fairness

-----------------------------------------------------------------------------
(* Properties.                                                             *)

\* Somebody who is signed in and still has a sign-in screen in front, after
\* any order of taps, answers and alerts, is there for a reason that goes
\* back to one of his taps in this run: its handler has yet to run, its segue
\* was dropped by UIKit (SignInViewController 67, SignUpVC 57), the second
\* signIn of a sign-up failed (SignUpVC 53), or the first profile form was
\* cancelled.  In particular the next launch always leads past the sign-in
\* screens (SceneDelegate 18-24).
LetsIn(t) ==
  \/ Stage(t) \in {"entering", "swallowed", "halfway", "left"}
  \/ \E i \in 1..Len(main) : main[i] = [tap |-> t, ok |-> TRUE]

NobodyIsStranded ==
  currentUser # NoAccount /\ Front.kind \in SignInKinds => \E t \in Tap : LetsIn(t)

\* What covers a sign-in or sign-up screen for good was opened by exactly one
\* tap of that screen, however often its button was tapped and in whatever
\* order the answers came, and for an account that exists.
EntrancesAreEarned ==
  \A i \in 1..(Len(pile) - 1) :
    pile[i].kind \in {"signIn", "signUp"} /\ pile[i + 1].kind \in {"form", "tabBar"} =>
      \E t \in Tap :
        /\ Stage(t) = "in" /\ taps[t].screen = i /\ taps[t].email \in registered
        /\ \A s \in Tap : Stage(s) = "in" /\ taps[s].screen = i => s = t

\* No tap waits for ever for its segue or its alert.
TapsAreAnswered ==
  \A t \in Tap : Stage(t) \in UnderWay ~> Stage(t) \notin UnderWay
=============================================================================
