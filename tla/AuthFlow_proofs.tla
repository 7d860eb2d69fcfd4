--------------------------- MODULE AuthFlow_proofs ---------------------------
(***************************************************************************)
(* Proofs about the sign-in flow, for any accounts, any number of taps and *)
(* any pile of screens: type correctness, and the two safety invariants.   *)
(* They lean on one another: that cancelling the first profile form does   *)
(* not strand anybody needs that the form was opened by a tap of the       *)
(* screen under it.                                                        *)
(***************************************************************************)
EXTENDS AuthFlow, SequenceTheorems, TLAPS

-----------------------------------------------------------------------------
(* The inductive invariant.                                                *)

ScreenType == [kind : Kinds, entry : Entry]
CallType == [tap : Tap, ok : BOOLEAN]

\* The first screen is a root, and no form covers the login screen.
PileInv ==
  /\ pile[1].kind \in {"login", "tabBar"}
  /\ \A i \in 1..(Len(pile) - 1) : pile[i + 1].kind = "form" => pile[i].kind # "login"

\* A request under way belongs to a screen of its kind that is still there;
\* a segue that was performed is still covered by something.
TapOK(t) ==
  /\ Stage(t) \in UnderWay =>
       /\ taps[t].screen < MaxPile /\ taps[t].screen <= Len(pile)
       /\ pile[taps[t].screen].kind \in {"signIn", "signUp"}
  /\ Stage(t) = "creating" => taps[t].email \in Account
  /\ Stage(t) = "created" => taps[t].email \in registered
  /\ Stage(t) = "in" => taps[t].screen < Len(pile)

TapInv == \A t \in Tap : TapOK(t)

\* Each request under way has at most one handler on the main queue, and one
\* without an error is for an account of the server.
MainInv ==
  /\ \A i \in 1..Len(main) :
       /\ Stage(main[i].tap) \in UnderWay
       /\ main[i].ok => taps[main[i].tap].email \in registered
  /\ \A i, j \in 1..Len(main) : main[i].tap = main[j].tap => i = j

IInv == TypeOK /\ PileInv /\ TapInv /\ MainInv /\ NobodyIsStranded /\ EntrancesAreEarned

-----------------------------------------------------------------------------
(* Piles and queues.                                                       *)

\* What appending does to a sequence.
LEMMA Appended ==
  ASSUME NEW S, NEW p \in Seq(S), NEW e \in S, NEW q, q = Append(p, e)
  PROVE  /\ q \in Seq(S) /\ Len(p) \in Nat /\ Len(q) = Len(p) + 1
         /\ \A i \in 1..Len(p) : q[i] = p[i]
         /\ q[Len(p) + 1] = e
  OBVIOUS

\* What taking the last element does to a sequence.
LEMMA Shortened ==
  ASSUME NEW S, NEW p \in Seq(S), Len(p) > 1, NEW q, q = SubSeq(p, 1, Len(p) - 1)
  PROVE  /\ q \in Seq(S) /\ Len(p) \in Nat /\ Len(q) = Len(p) - 1
         /\ \A i \in 1..Len(q) : q[i] = p[i]
  OBVIOUS

\* The types of the variables, one by one.
LEMMA Types ==
  ASSUME TypeOK
  PROVE  /\ pile \in Seq(ScreenType) /\ Len(pile) \in Nat \ {0} /\ Len(pile) <= MaxPile
         /\ Front \in ScreenType /\ MaxPile \in Nat \ {0}
         /\ main \in Seq(CallType) /\ Len(main) \in Nat
         /\ \A i \in 1..Len(main) : main[i] \in CallType
         /\ \A i \in 1..Len(pile) : pile[i] \in ScreenType
         /\ \A t \in Tap : /\ taps[t].screen \in 1..MaxPile /\ taps[t].stage \in Stages
                           /\ taps[t].email \in Entry
<1>1. pile \in Seq(ScreenType) /\ Len(pile) \in 1..MaxPile /\ main \in Seq(CallType)
  BY DEF TypeOK, ScreenType, CallType
<1>2. Len(pile) \in Nat \ {0} /\ Len(pile) <= MaxPile /\ MaxPile \in Nat \ {0}
  BY <1>1, MaxPileAssumption
<1>3. \A i \in 1..Len(pile) : pile[i] \in ScreenType
  BY <1>1
<1>4. \A i \in 1..Len(main) : main[i] \in CallType
  BY <1>1
<1>5. Front \in ScreenType
  BY <1>2, <1>3 DEF Front
<1>6. \A t \in Tap : /\ taps[t].screen \in 1..MaxPile /\ taps[t].stage \in Stages
                     /\ taps[t].email \in Entry
  BY DEF TypeOK
<1> QED
  BY <1>1, <1>2, <1>3, <1>4, <1>5, <1>6

\* A new screen is on top of all others and takes nothing from them.
LEMMA Presented ==
  ASSUME TypeOK, NEW k \in Kinds, pile' = Append(pile, Screen(k))
  PROVE  /\ pile' \in Seq(ScreenType) /\ Len(pile') = Len(pile) + 1
         /\ \A i \in 1..Len(pile) : pile'[i] = pile[i]
         /\ pile'[Len(pile) + 1].kind = k /\ Front'.kind = k
<1>1. Screen(k) \in ScreenType /\ Screen(k).kind = k
  BY DEF Screen, ScreenType, Entry
<1>2. pile \in Seq(ScreenType) /\ Len(pile) \in Nat
  BY Types
<1>3. /\ pile' \in Seq(ScreenType) /\ Len(pile') = Len(pile) + 1
      /\ \A i \in 1..Len(pile) : pile'[i] = pile[i]
      /\ pile'[Len(pile) + 1] = Screen(k)
  BY <1>1, <1>2, Appended
<1> QED
  BY <1>1, <1>3 DEF Front

-----------------------------------------------------------------------------
(* Screens that lead to another.                                           *)

\* Presenting another screen keeps the invariant: no form over the login
\* screen, none and no tab bar over a screen that has sent nothing.
LEMMA PresentsAnother ==
  ASSUME IInv, NEW k \in Kinds, RoomForOne, pile' = Append(pile, Screen(k)),
         UNCHANGED <<authVars, alert, taps, main>>,
         k = "form" => Front.kind # "login",
         k \in {"form", "tabBar"} => Front.kind \notin {"signIn", "signUp"},
         k \in SignInKinds => Front.kind \in SignInKinds
  PROVE  IInv'
<1> USE DEF IInv
<1>1. /\ pile' \in Seq(ScreenType) /\ Len(pile') = Len(pile) + 1
      /\ \A i \in 1..Len(pile) : pile'[i] = pile[i]
      /\ pile'[Len(pile) + 1].kind = k /\ Front'.kind = k
  BY Presented
<1>2. Len(pile) \in Nat \ {0} /\ MaxPile \in Nat
  BY Types
<1>3. TypeOK'
  BY <1>1, <1>2 DEF TypeOK, authVars, RoomForOne, ScreenType
<1>4. PileInv'
  BY <1>1, <1>2 DEF PileInv, Front
<1>5. TapInv'
  BY <1>1, <1>2, Types DEF TapInv, TapOK, Stage, authVars
<1>6. MainInv'
  BY DEF MainInv, Stage, authVars
<1>7. NobodyIsStranded'
  BY <1>1 DEF NobodyIsStranded, LetsIn, Stage, authVars
<1>8. EntrancesAreEarned'
  <2> SUFFICES ASSUME NEW i \in 1..(Len(pile') - 1), pile'[i].kind \in {"signIn", "signUp"},
                      pile'[i + 1].kind \in {"form", "tabBar"}
               PROVE  i \in 1..(Len(pile) - 1) /\ pile'[i] = pile[i] /\ pile'[i + 1] = pile[i + 1]
    BY DEF EntrancesAreEarned, Stage, authVars
  <2> QED
    BY <1>1, <1>2 DEF Front
<1> QED
  BY <1>3, <1>4, <1>5, <1>6, <1>7, <1>8

\* The buttons between the login, sign-in and sign-up screens.
LEMMA NavigateInv ==
  ASSUME IInv, NEW kind \in Kinds, Navigate(kind)
  PROVE  IInv'
<1>1. Front.kind \in Kinds
  BY Types DEF IInv, ScreenType
<1>2. kind \in SignInKinds /\ Front.kind \in SignInKinds
  BY <1>1 DEF Navigate, Goes, Kinds, SignInKinds
<1>3. pile' = Append(pile, Screen(kind)) /\ RoomForOne /\ UNCHANGED <<authVars, alert, taps, main>>
  BY DEF Navigate, PerformSegue, CanPresent, Touchable
<1> QED
  BY <1>2, <1>3, PresentsAnother DEF SignInKinds

\* A profile form leads to the tab bar.
LEMMA PerformToMainInv ==
  ASSUME IInv, PerformToMain
  PROVE  IInv'
<1>1. pile' = Append(pile, Screen("tabBar")) /\ RoomForOne /\ UNCHANGED <<authVars, alert, taps, main>>
  BY DEF PerformToMain, PerformSegue, CanPresent, Touchable
<1>2. Front.kind = "form" /\ "tabBar" \in Kinds
  BY DEF PerformToMain, Kinds
<1> QED
  BY <1>1, <1>2, PresentsAnother DEF SignInKinds

\* The tab bar leads to a profile form.
LEMMA EditBtnPressedInv ==
  ASSUME IInv, EditBtnPressed
  PROVE  IInv'
<1>1. pile' = Append(pile, Screen("form")) /\ RoomForOne /\ UNCHANGED <<authVars, alert, taps, main>>
  BY DEF EditBtnPressed, PerformSegue, CanPresent, Touchable
<1>2. Front.kind = "tabBar" /\ "form" \in Kinds
  BY DEF EditBtnPressed, Kinds
<1> QED
  BY <1>1, <1>2, PresentsAnother DEF SignInKinds

\* Typing changes no kind.
LEMMA TypeEntryInv ==
  ASSUME IInv, NEW e \in Entry, TypeEntry(e)
  PROVE  IInv'
<1> USE DEF IInv
<1>1. pile \in Seq(ScreenType) /\ Len(pile) \in Nat \ {0}
  BY Types
<1>2. /\ pile' = [pile EXCEPT ![Len(pile)].entry = e]
      /\ UNCHANGED <<authVars, alert, taps, main>>
  BY DEF TypeEntry
<1>3. pile' \in Seq(ScreenType) /\ Len(pile') = Len(pile)
  <2>1. [Front EXCEPT !.entry = e] \in ScreenType
    BY Types DEF ScreenType
  <2>2. pile' = [pile EXCEPT ![Len(pile)] = [Front EXCEPT !.entry = e]]
    BY <1>2 DEF Front
  <2> QED
    BY <1>1, <2>1, <2>2
<1>4. \A i \in 1..Len(pile) : pile'[i].kind = pile[i].kind
  BY <1>1, <1>2, Types DEF ScreenType
<1>5. TypeOK'
  BY <1>2, <1>3 DEF TypeOK, authVars, ScreenType
<1>6. PileInv'
  BY <1>1, <1>3, <1>4 DEF PileInv
<1>7. TapInv'
  BY <1>1, <1>2, <1>3, <1>4, Types DEF TapInv, TapOK, Stage, authVars
<1>8. MainInv'
  BY <1>2 DEF MainInv, Stage, authVars
<1>9. NobodyIsStranded'
  BY <1>1, <1>2, <1>3, <1>4 DEF NobodyIsStranded, LetsIn, Stage, authVars, Front
<1>10. EntrancesAreEarned'
  BY <1>1, <1>2, <1>3, <1>4 DEF EntrancesAreEarned, Stage, authVars
<1> QED
  BY <1>5, <1>6, <1>7, <1>8, <1>9, <1>10

\* What changes neither pile nor taps nor handlers, and signs nobody in.
LEMMA QuietInv ==
  ASSUME IInv, UNCHANGED <<registered, pile, taps, main>>, alert' \in BOOLEAN,
         currentUser' \in {currentUser, NoAccount}
  PROVE  IInv'
<1> USE DEF IInv
<1>1. TypeOK'
  BY DEF TypeOK
<1>2. PileInv' /\ MainInv' /\ EntrancesAreEarned'
  BY DEF PileInv, MainInv, EntrancesAreEarned, Stage
<1>4. TapInv'
  BY DEF TapInv, TapOK, Stage
<1>3. NobodyIsStranded'
  BY DEF NobodyIsStranded, LetsIn, Stage, Front
<1> QED
  BY <1>1, <1>2, <1>3, <1>4

\* Cancel on a profile form: whoever comes back to a sign-in screen is there
\* because a tap of that screen opened the form.
LEMMA CancelBtnPressedInv ==
  ASSUME IInv, CancelBtnPressed
  PROVE  IInv'
<1> USE DEF IInv
<1> DEFINE n == Len(pile)
<1>1. Front.kind = "form" /\ UNCHANGED <<authVars, alert, main>>
  BY DEF CancelBtnPressed
<1>2. n \in Nat \ {0} /\ n <= MaxPile /\ MaxPile \in Nat /\ pile \in Seq(ScreenType)
  BY Types
<1>3. n > 1
  BY <1>1, <1>2 DEF PileInv, Front
<1>4. /\ pile' \in Seq(ScreenType) /\ Len(pile') = n - 1
      /\ \A i \in 1..(n - 1) : pile'[i] = pile[i]
  BY <1>2, <1>3, Shortened DEF CancelBtnPressed
<1>5. \A t \in Tap : taps'[t] = IF Stage(t) = "in" /\ taps[t].screen = n - 1
                                  THEN [taps[t] EXCEPT !.stage = "left"] ELSE taps[t]
  BY DEF CancelBtnPressed
<1>6. taps' \in [Tap -> [stage : Stages, screen : 1..MaxPile, email : Entry]]
  BY DEF CancelBtnPressed, TypeOK, Stages
<1>7. TypeOK'
  BY <1>1, <1>2, <1>3, <1>4, <1>6 DEF TypeOK, authVars, ScreenType
<1>8. PileInv'
  BY <1>2, <1>3, <1>4 DEF PileInv
<1>9. \A t \in Tap :
        \/ taps'[t] = taps[t] /\ ~(Stage(t) = "in" /\ taps[t].screen = n - 1)
        \/ /\ Stage(t) = "in" /\ taps[t].screen = n - 1
           /\ taps'[t].stage = "left" /\ taps'[t].screen = taps[t].screen
  BY <1>5 DEF TypeOK
<1>10. TapInv'
  <2> SUFFICES ASSUME NEW t \in Tap
               PROVE  TapOK(t)'
    BY DEF TapInv
  <2>1. CASE taps'[t] = taps[t] /\ ~(Stage(t) = "in" /\ taps[t].screen = n - 1)
    <3>1. Stage(t)' = Stage(t) /\ taps[t].screen \in Nat \ {0}
      BY <2>1, Types DEF Stage
    <3>2. Stage(t) \in UnderWay => taps[t].screen # n
      BY <1>1 DEF TapInv, TapOK, Front
    <3>3. TapOK(t)
      BY DEF TapInv
    <3> HIDE DEF IInv
    <3> QED
      BY <1>1, <1>2, <1>4, <2>1, <3>1, <3>2, <3>3 DEF TapOK, authVars
  <2>2. CASE taps'[t].stage = "left"
    BY <2>2 DEF TapOK, Stage, UnderWay
  <2> QED
    BY <1>9, <2>1, <2>2
<1>11. \A i \in 1..Len(main) : taps'[main[i].tap] = taps[main[i].tap]
  BY <1>9, Types DEF MainInv, Stage, UnderWay, CallType
<1>12. MainInv'
  BY <1>1, <1>11 DEF MainInv, Stage, authVars
<1>13. NobodyIsStranded'
  <2> SUFFICES ASSUME Front'.kind \in SignInKinds
               PROVE  \E t \in Tap : LetsIn(t)'
    BY DEF NobodyIsStranded
  <2>1. Front' = pile[n - 1] /\ pile[n - 1 + 1].kind = "form" /\ n - 1 \in 1..(Len(pile) - 1)
    BY <1>1, <1>2, <1>3, <1>4 DEF Front
  <2>2. pile[n - 1].kind \in {"signIn", "signUp"}
    BY <2>1 DEF PileInv, SignInKinds
  <2>3. PICK t \in Tap : Stage(t) = "in" /\ taps[t].screen = n - 1
    BY <2>1, <2>2 DEF EntrancesAreEarned
  <2>4. Stage(t)' = "left"
    BY <1>9, <2>3 DEF Stage
  <2> QED
    BY <2>4 DEF LetsIn
<1>14. EntrancesAreEarned'
  <2> SUFFICES ASSUME NEW i \in 1..(Len(pile') - 1), pile'[i].kind \in {"signIn", "signUp"},
                      pile'[i + 1].kind \in {"form", "tabBar"}
               PROVE  \E t \in Tap :
                        /\ Stage(t)' = "in" /\ taps'[t].screen = i /\ taps'[t].email \in registered'
                        /\ \A s \in Tap : Stage(s)' = "in" /\ taps'[s].screen = i => s = t
    BY DEF EntrancesAreEarned
  <2>1. i \in 1..(Len(pile) - 1) /\ i < n - 1 /\ pile'[i] = pile[i] /\ pile'[i + 1] = pile[i + 1]
    BY <1>2, <1>3, <1>4
  <2>2. PICK t \in Tap :
          /\ Stage(t) = "in" /\ taps[t].screen = i /\ taps[t].email \in registered
          /\ \A s \in Tap : Stage(s) = "in" /\ taps[s].screen = i => s = t
    BY <2>1 DEF EntrancesAreEarned
  <2>3. taps'[t] = taps[t]
    BY <1>2, <1>9, <2>1, <2>2
  <2>4. \A s \in Tap : Stage(s)' = "in" => taps'[s] = taps[s]
    BY <1>9 DEF Stage
  <2> QED
    BY <1>1, <2>2, <2>3, <2>4 DEF Stage, authVars
<1> QED
  BY <1>7, <1>8, <1>10, <1>12, <1>13, <1>14

-----------------------------------------------------------------------------
(* Requests.                                                               *)

\* A tap that sends its request is new to everyone.
LEMMA SendsInv ==
  ASSUME IInv, NEW t \in Tap, NEW kind \in {"signIn", "signUp"},
         NEW stage \in {"signingIn", "creating"}, Sends(t, kind, stage)
  PROVE  IInv'
<1> USE DEF IInv
<1> DEFINE new == [stage |-> stage, screen |-> Len(pile), email |-> Front.entry]
<1>1. /\ Stage(t) = "unused" /\ Front.kind = kind /\ RoomForOne
      /\ taps' = [taps EXCEPT ![t] = new]
      /\ UNCHANGED <<authVars, pile, alert, main>>
  BY DEF Sends
<1>2. Len(pile) \in Nat \ {0} /\ MaxPile \in Nat /\ Len(pile) < MaxPile /\ Front.entry \in Entry
  BY <1>1, Types DEF RoomForOne, ScreenType
<1>14. Front.entry \in Account
  BY <1>2 DEF Sends, Entry
<1>3. new \in [stage : Stages, screen : 1..MaxPile, email : Entry]
  BY <1>2 DEF Stages
<1>4. \A s \in Tap : taps'[s] = IF s = t THEN new ELSE taps[s]
  BY <1>1 DEF TypeOK
<1>5. TypeOK'
  BY <1>1, <1>3 DEF TypeOK, authVars
<1>6. PileInv'
  BY <1>1 DEF PileInv
<1>7. TapInv'
  <2> SUFFICES ASSUME NEW s \in Tap
               PROVE  TapOK(s)'
    BY DEF TapInv
  <2>1. CASE s = t
    BY <1>1, <1>2, <1>4, <1>14, <2>1 DEF TapOK, Stage, Front
  <2>2. CASE s # t
    BY <1>1, <1>4, <2>2 DEF TapInv, TapOK, Stage, authVars
  <2> QED
    BY <2>1, <2>2
<1>8. \A i \in 1..Len(main) : main[i].tap # t /\ taps'[main[i].tap] = taps[main[i].tap]
  BY <1>1, <1>4, Types DEF MainInv, UnderWay, CallType
<1>9. MainInv'
  BY <1>1, <1>8 DEF MainInv, Stage, authVars
<1>10. \A s \in Tap : LetsIn(s) => LetsIn(s)'
  BY <1>1, <1>4 DEF LetsIn, Stage
<1>11. NobodyIsStranded'
  BY <1>1, <1>10 DEF NobodyIsStranded, authVars, Front
<1>12. \A s \in Tap : /\ Stage(s) = "in" => taps'[s] = taps[s]
                      /\ Stage(s)' = "in" => taps'[s] = taps[s]
  BY <1>1, <1>4 DEF Stage
<1>13. EntrancesAreEarned'
  BY <1>1, <1>12 DEF EntrancesAreEarned, Stage, authVars
<1> QED
  BY <1>5, <1>6, <1>7, <1>9, <1>11, <1>13

\* A new account takes nothing away.
LEMMA ServerCreatesInv ==
  ASSUME IInv, NEW t \in Tap, ServerCreates(t)
  PROVE  IInv'
<1> USE DEF IInv
<1>1. /\ Stage(t) = "creating" /\ registered' = registered \cup {taps[t].email}
      /\ taps' = [taps EXCEPT ![t].stage = "created"]
      /\ UNCHANGED <<currentUser, pile, alert, main>>
  BY DEF ServerCreates, Moves
<1>2. \A s \in Tap : /\ taps'[s].screen = taps[s].screen /\ taps'[s].email = taps[s].email
                     /\ Stage(s)' = IF s = t THEN "created" ELSE Stage(s)
  BY <1>1 DEF TypeOK, Stage
<1>3. taps[t].email \in Account
  BY <1>1 DEF TapInv, TapOK
<1>4. registered \subseteq registered' /\ registered' \in SUBSET Account
  BY <1>1, <1>3 DEF TypeOK
<1>5. TypeOK'
  BY <1>1, <1>4 DEF TypeOK, Stages
<1>6. PileInv'
  BY <1>1 DEF PileInv
<1>7. TapInv'
  BY <1>1, <1>2, <1>4 DEF TapInv, TapOK, Stage, UnderWay
<1>8. \A i \in 1..Len(main) : main[i].tap \in Tap
  BY Types DEF CallType
<1>9. MainInv'
  BY <1>1, <1>2, <1>4, <1>8 DEF MainInv, UnderWay
<1>10. \A s \in Tap : LetsIn(s) => LetsIn(s)'
  BY <1>1, <1>2 DEF LetsIn
<1>11. NobodyIsStranded'
  BY <1>1, <1>10 DEF NobodyIsStranded, Front
<1>12. \A s \in Tap : (Stage(s)' = "in") = (Stage(s) = "in")
  BY <1>1, <1>2
<1>13. EntrancesAreEarned'
  BY <1>1, <1>2, <1>4, <1>12 DEF EntrancesAreEarned
<1> QED
  BY <1>5, <1>6, <1>7, <1>9, <1>11, <1>13

\* An answer is posted once, and with success only for an account.
LEMMA CompletesInv ==
  ASSUME IInv, NEW t \in Tap, NEW ok \in BOOLEAN, Stage(t) \in UnderWay, ~Posted(t),
         ok => taps[t].email \in registered, Completes(t, ok),
         currentUser' \in Account \cup {NoAccount}, ok \/ UNCHANGED currentUser,
         UNCHANGED <<registered, pile, alert, taps>>
  PROVE  IInv'
<1> USE DEF IInv
<1> DEFINE new == [tap |-> t, ok |-> ok]
<1>1. main \in Seq(CallType) /\ new \in CallType /\ main' = Append(main, new)
  BY Types DEF CallType, Completes
<1>2. /\ main' \in Seq(CallType) /\ Len(main) \in Nat /\ Len(main') = Len(main) + 1
      /\ \A i \in 1..Len(main) : main'[i] = main[i]
      /\ main'[Len(main) + 1] = new
  BY <1>1, Appended
<1>3. \A i \in 1..Len(main') : i \in 1..Len(main) \/ i = Len(main) + 1
  BY <1>2
<1>4. TypeOK'
  BY <1>2 DEF TypeOK, CallType
<1>5. PileInv' /\ EntrancesAreEarned'
  BY DEF PileInv, EntrancesAreEarned, Stage
<1>6. TapInv'
  BY DEF TapInv, TapOK, Stage
<1>7. MainInv'
  <2>1. ASSUME NEW i \in 1..Len(main')
        PROVE  /\ taps'[main'[i].tap].stage \in UnderWay
               /\ main'[i].ok => taps'[main'[i].tap].email \in registered'
    BY <1>2, <1>3 DEF MainInv, Stage
  <2>2. \A i \in 1..Len(main) : main[i].tap # t
    BY DEF Posted
  <2>3. ASSUME NEW i \in 1..Len(main'), NEW j \in 1..Len(main'), main'[i].tap = main'[j].tap
        PROVE  i = j
    BY <1>2, <1>3, <2>2, <2>3 DEF MainInv
  <2> QED
    BY <2>1, <2>3 DEF MainInv, Stage
<1>8. NobodyIsStranded'
  <2>1. CASE ok
    <3>1. Len(main) + 1 \in 1..Len(main') /\ main'[Len(main) + 1] = [tap |-> t, ok |-> TRUE]
      BY <1>2, <2>1
    <3> QED
      BY <3>1 DEF NobodyIsStranded, LetsIn
  <2>2. CASE ~ok
    <3>1. ASSUME NEW s \in Tap, NEW i \in 1..Len(main), main[i] = [tap |-> s, ok |-> TRUE]
          PROVE  LetsIn(s)'
      <4>1. i \in 1..Len(main') /\ main'[i] = [tap |-> s, ok |-> TRUE]
        BY <1>2, <3>1
      <4> QED
        BY <4>1 DEF LetsIn
    <3>2. \A s \in Tap : LetsIn(s) => LetsIn(s)'
      BY <3>1 DEF LetsIn, Stage
    <3> QED
      BY <2>2, <3>2 DEF NobodyIsStranded, Front
  <2> QED
    BY <2>1, <2>2
<1> QED
  BY <1>4, <1>5, <1>6, <1>7, <1>8

\* Who is signed in by an answer has a handler that will let him in.
LEMMA AuthSucceedsInv ==
  ASSUME IInv, NEW t \in Tap, AuthSucceeds(t)
  PROVE  IInv'
<1>1. Stage(t) \in UnderWay /\ taps[t].email \in registered
  BY DEF AuthSucceeds, UnderWay, IInv, TapInv, TapOK
<1>2. registered \subseteq Account
  BY DEF IInv, TypeOK
<1> QED
  BY <1>1, <1>2, CompletesInv DEF AuthSucceeds

\* An error signs nobody in and strands nobody.
LEMMA AuthFailsInv ==
  ASSUME IInv, NEW t \in Tap, AuthFails(t)
  PROVE  IInv'
<1>1. currentUser \in Account \cup {NoAccount}
  BY DEF IInv, TypeOK
<1> QED
  BY <1>1, CompletesInv DEF AuthFails, authVars

-----------------------------------------------------------------------------
(* Completion handlers.                                                    *)

\* A handler leaves the main queue for good: no other is about its tap.
LEMMA HandlerRuns ==
  ASSUME IInv, NEW t \in Tap, NEW ok \in BOOLEAN, Runs(t, ok), UNCHANGED registered,
         \A s \in Tap \ {t} : taps'[s] = taps[s]
  PROVE  /\ Stage(t) \in UnderWay /\ (ok => taps[t].email \in registered)
         /\ main' \in Seq([tap : Tap, ok : BOOLEAN]) /\ MainInv'
         /\ \A s \in Tap \ {t} : LetsIn(s) => LetsIn(s)'
<1> USE DEF IInv
<1>1. main # <<>> /\ Head(main) = [tap |-> t, ok |-> ok] /\ main' = Tail(main)
  BY DEF Runs
<1>2. /\ main' \in Seq(CallType) /\ Len(main) \in Nat \ {0} /\ Len(main') = Len(main) - 1
      /\ \A i \in 1..Len(main') : main'[i] = main[i + 1]
      /\ main[1] = [tap |-> t, ok |-> ok]
  <2>1. main \in Seq(CallType)
    BY Types
  <2>2. Len(main) \in Nat \ {0}
    BY <1>1, <2>1, EmptySeq
  <2>3. /\ Tail(main) \in Seq(CallType) /\ Len(Tail(main)) = Len(main) - 1
        /\ \A i \in 1..Len(Tail(main)) : Tail(main)[i] = main[i + 1]
    BY <1>1, <2>1, HeadTailProperties
  <2>4. Head(main) = main[1]
    BY <2>1, <2>2
  <2> QED
    BY <1>1, <2>2, <2>3, <2>4
<1>3. Stage(t) \in UnderWay /\ (ok => taps[t].email \in registered)
  BY <1>2 DEF MainInv
<1>4. \A i \in 1..Len(main') : /\ i + 1 \in 1..Len(main) /\ main'[i] = main[i + 1]
                               /\ main[i + 1].tap \in Tap \ {t}
  BY <1>2, Types DEF MainInv, CallType
<1>5. MainInv'
  <2>1. ASSUME NEW i \in 1..Len(main')
        PROVE  /\ taps'[main'[i].tap].stage \in UnderWay
               /\ main'[i].ok => taps'[main'[i].tap].email \in registered'
    BY <1>4 DEF MainInv, Stage
  <2>2. ASSUME NEW i \in 1..Len(main'), NEW j \in 1..Len(main'), main'[i].tap = main'[j].tap
        PROVE  i = j
    <3>1. i + 1 = j + 1
      BY <1>4, <2>2 DEF MainInv
    <3> QED
      BY <3>1, <1>2
  <2> QED
    BY <2>1, <2>2 DEF MainInv, Stage
<1>6. ASSUME NEW s \in Tap \ {t}, LetsIn(s)
      PROVE  LetsIn(s)'
  <2>1. CASE Stage(s) \in {"entering", "swallowed", "halfway", "left"}
    BY <2>1 DEF LetsIn, Stage
  <2>2. ASSUME NEW i \in 1..Len(main), main[i] = [tap |-> s, ok |-> TRUE]
        PROVE  LetsIn(s)'
    <3>1. i # 1
      BY <1>2, <2>2
    <3>2. i - 1 \in 1..Len(main') /\ main'[i - 1] = main[i]
      BY <1>2, <3>1
    <3> QED
      BY <2>2, <3>2 DEF LetsIn
  <2> QED
    BY <1>6, <2>1, <2>2 DEF LetsIn
<1> QED
  BY <1>2, <1>3, <1>5, <1>6 DEF CallType

\* What moving a tap to another stage leaves alone.
LEMMA Moved ==
  ASSUME TypeOK, NEW t \in Tap, NEW stage \in Stages, Moves(t, stage)
  PROVE  /\ taps' \in [Tap -> [stage : Stages, screen : 1..MaxPile, email : Entry]]
         /\ \A s \in Tap \ {t} : taps'[s] = taps[s]
         /\ taps'[t].stage = stage /\ taps'[t].screen = taps[t].screen
         /\ taps'[t].email = taps[t].email
BY DEF TypeOK, Moves

\* A handler without an error performs its segue from the front screen, where
\* nobody else's segue was performed, or has it dropped.
LEMMA SegueInv ==
  ASSUME IInv, NEW t \in Tap, NEW k \in {"form", "tabBar"}, Runs(t, TRUE), SegueOr(t, k),
         UNCHANGED <<authVars, alert>>
  PROVE  IInv'
<1> USE DEF IInv
<1> DEFINE c == taps[t].screen
<1> DEFINE stage == IF CanPresent(c) THEN "in" ELSE "swallowed"
<1>1. Moves(t, stage) /\ stage \in Stages /\ stage \notin UnderWay
  BY DEF SegueOr, Stages, UnderWay
<1>2. /\ taps' \in [Tap -> [stage : Stages, screen : 1..MaxPile, email : Entry]]
      /\ \A s \in Tap \ {t} : taps'[s] = taps[s]
      /\ taps'[t].stage = stage /\ taps'[t].screen = c /\ taps'[t].email = taps[t].email
  BY <1>1, Moved
<1>3. /\ Stage(t) \in UnderWay /\ taps[t].email \in registered
      /\ main' \in Seq([tap : Tap, ok : BOOLEAN]) /\ MainInv'
      /\ \A s \in Tap \ {t} : LetsIn(s) => LetsIn(s)'
  BY <1>2, HandlerRuns DEF authVars
<1>4. /\ c < MaxPile /\ c <= Len(pile) /\ pile[c].kind \in {"signIn", "signUp"}
      /\ c \in Nat \ {0} /\ Len(pile) \in Nat \ {0} /\ MaxPile \in Nat
  BY <1>3, Types DEF TapInv, TapOK
<1>5. \A s \in Tap \ {t} : TapOK(s)
  BY DEF TapInv
<1>6. CASE CanPresent(c)
  <2>1. c = Len(pile) /\ pile' = Append(pile, Screen(k)) /\ k \in Kinds
    BY <1>6 DEF SegueOr, PerformSegue, CanPresent, Kinds
  <2>2. /\ pile' \in Seq(ScreenType) /\ Len(pile') = Len(pile) + 1
        /\ \A i \in 1..Len(pile) : pile'[i] = pile[i]
        /\ pile'[Len(pile) + 1].kind = k /\ Front'.kind = k
    BY <2>1, Presented
  <2>3. TypeOK'
    BY <1>2, <1>3, <1>4, <2>1, <2>2 DEF TypeOK, authVars, ScreenType
  <2>4. PileInv'
    BY <1>4, <2>1, <2>2 DEF PileInv
  <2>5. TapInv'
    <3> SUFFICES ASSUME NEW s \in Tap
                 PROVE  TapOK(s)'
      BY DEF TapInv
    <3>1. CASE s = t
      BY <1>2, <1>4, <1>6, <2>1, <2>2, <3>1 DEF TapOK, Stage, UnderWay
    <3>2. CASE s # t
      BY <1>2, <1>4, <1>5, <2>2, <3>2, Types DEF TapOK, Stage, authVars
    <3> QED
      BY <3>1, <3>2
  <2>6. NobodyIsStranded'
    BY <2>2 DEF NobodyIsStranded, SignInKinds
  <2>7. EntrancesAreEarned'
    <3> SUFFICES ASSUME NEW i \in 1..(Len(pile') - 1), pile'[i].kind \in {"signIn", "signUp"},
                        pile'[i + 1].kind \in {"form", "tabBar"}
                 PROVE  \E u \in Tap :
                          /\ Stage(u)' = "in" /\ taps'[u].screen = i /\ taps'[u].email \in registered'
                          /\ \A s \in Tap : Stage(s)' = "in" /\ taps'[s].screen = i => s = u
      BY DEF EntrancesAreEarned
    <3>1. CASE i = c
      <4>1. \A s \in Tap \ {t} : Stage(s) = "in" => taps[s].screen # c
        BY <1>4, <1>5, <2>1 DEF TapOK
      <4>2. Stage(t)' = "in" /\ taps'[t].screen = i /\ taps'[t].email \in registered'
        BY <1>2, <1>3, <1>6, <3>1 DEF Stage, authVars
      <4> QED
        BY <1>2, <3>1, <4>1, <4>2 DEF Stage
    <3>2. CASE i # c
      <4>1. i \in 1..(Len(pile) - 1) /\ pile'[i] = pile[i] /\ pile'[i + 1] = pile[i + 1]
        BY <1>4, <2>1, <2>2, <3>2
      <4>2. PICK u \in Tap :
              /\ Stage(u) = "in" /\ taps[u].screen = i /\ taps[u].email \in registered
              /\ \A s \in Tap : Stage(s) = "in" /\ taps[s].screen = i => s = u
        BY <4>1 DEF EntrancesAreEarned
      <4>3. u # t
        BY <1>3, <4>2 DEF UnderWay
      <4> QED
        BY <1>2, <3>2, <4>2, <4>3 DEF Stage, authVars
    <3> QED
      BY <3>1, <3>2
  <2> QED
    BY <1>3, <2>3, <2>4, <2>5, <2>6, <2>7
<1>7. CASE ~CanPresent(c)
  <2>1. pile' = pile /\ Stage(t)' = "swallowed"
    BY <1>2, <1>7 DEF SegueOr, PerformSegue, Stage
  <2>2. TypeOK'
    BY <1>2, <1>3, <2>1 DEF TypeOK, authVars
  <2>3. PileInv'
    BY <2>1 DEF PileInv
  <2>4. TapInv'
    BY <1>2, <1>5, <2>1 DEF TapInv, TapOK, Stage, UnderWay, authVars
  <2>5. NobodyIsStranded'
    BY <2>1 DEF NobodyIsStranded, LetsIn
  <2>6. \A s \in Tap : /\ Stage(s)' = "in" => s # t /\ taps'[s] = taps[s]
                       /\ Stage(s) = "in" => s # t /\ taps'[s] = taps[s]
    BY <1>2, <1>3, <2>1 DEF UnderWay
  <2>7. EntrancesAreEarned'
    BY <2>1, <2>6 DEF EntrancesAreEarned, Stage, authVars
  <2> QED
    BY <1>3, <2>2, <2>3, <2>4, <2>5, <2>7
<1> QED
  BY <1>6, <1>7

\* A handler that performs no segue and opens nothing.
LEMMA NoSegueInv ==
  ASSUME IInv, NEW t \in Tap, NEW ok \in BOOLEAN, Runs(t, ok),
         NEW stage \in {"entering", "refused", "halfway"}, NEW e \in Entry,
         taps' = [taps EXCEPT ![t].stage = stage, ![t].email = e],
         LetsIn(t) \/ ok => stage # "refused",
         UNCHANGED <<authVars, pile>>, alert' \in BOOLEAN
  PROVE  IInv'
<1> USE DEF IInv
<1>1. /\ taps' \in [Tap -> [stage : Stages, screen : 1..MaxPile, email : Entry]]
      /\ \A s \in Tap \ {t} : taps'[s] = taps[s]
      /\ taps'[t].stage = stage /\ taps'[t].screen = taps[t].screen
  BY DEF TypeOK, Stages
<1>2. /\ Stage(t) \in UnderWay
      /\ main' \in Seq([tap : Tap, ok : BOOLEAN]) /\ MainInv'
      /\ \A s \in Tap \ {t} : LetsIn(s) => LetsIn(s)'
  BY <1>1, HandlerRuns DEF authVars
<1>3. TypeOK'
  BY <1>1, <1>2 DEF TypeOK, authVars
<1>4. PileInv'
  BY DEF PileInv
<1>5. TapInv'
  BY <1>1, <1>2 DEF TapInv, TapOK, Stage, UnderWay, authVars
<1>6. LetsIn(t) => LetsIn(t)'
  BY <1>1 DEF LetsIn, Stage
<1>7. NobodyIsStranded'
  BY <1>2, <1>6 DEF NobodyIsStranded, Front, authVars
<1>8. \A s \in Tap : /\ Stage(s)' = "in" => taps'[s] = taps[s]
                     /\ Stage(s) = "in" => taps'[s] = taps[s]
  BY <1>1, <1>2 DEF UnderWay, Stage
<1>9. EntrancesAreEarned'
  <2>1. pile' = pile /\ registered' = registered
    BY DEF authVars
  <2>2. \A s \in Tap : /\ Stage(s)' = "in" => taps'[s] = taps[s] /\ Stage(s) = "in"
                       /\ Stage(s) = "in" => taps'[s] = taps[s] /\ Stage(s)' = "in"
    BY <1>8 DEF Stage
  <2>3. EntrancesAreEarned
    OBVIOUS
  <2>4. \A s \in Tap : Stage(s)' = "in" => Stage(s) = "in" /\ taps'[s].screen = taps[s].screen
    BY <2>2
  <2> HIDE DEF IInv
  <2> SUFFICES ASSUME NEW i \in 1..(Len(pile') - 1), pile'[i].kind \in {"signIn", "signUp"},
                      pile'[i + 1].kind \in {"form", "tabBar"}
               PROVE  \E u \in Tap :
                        /\ Stage(u)' = "in" /\ taps'[u].screen = i
                        /\ taps'[u].email \in registered'
                        /\ \A s \in Tap : Stage(s)' = "in" /\ taps'[s].screen = i => s = u
    BY DEF EntrancesAreEarned
  <2>5. PICK u \in Tap :
          /\ Stage(u) = "in" /\ taps[u].screen = i /\ taps[u].email \in registered
          /\ \A s \in Tap : Stage(s) = "in" /\ taps[s].screen = i => s = u
    BY <2>1, <2>3 DEF EntrancesAreEarned
  <2>6. Stage(u)' = "in" /\ taps'[u].screen = i /\ taps'[u].email \in registered'
    <3>1. taps'[u] = taps[u] /\ Stage(u)' = "in"
      BY <2>2, <2>5
    <3>2. taps'[u].screen = i
      BY <2>5, <3>1
    <3>3. taps'[u].email \in registered
      BY <2>5, <3>1
    <3> QED
      BY <2>1, <3>1, <3>2, <3>3
  <2>7. \A s \in Tap : Stage(s)' = "in" /\ taps'[s].screen = i => s = u
    BY <2>4, <2>5
  <2> QED
    BY <2>6, <2>7, Zenon
<1> QED
  BY <1>2, <1>3, <1>4, <1>5, <1>7, <1>9

\* createUser's handler: the request of the nested signIn takes over.
LEMMA SignInAgainInv ==
  ASSUME IInv, NEW t \in Tap, SignInAgain(t)
  PROVE  IInv'
<1>1. Runs(t, TRUE) /\ UNCHANGED <<authVars, pile, alert>> /\ Stage(t) = "created"
  BY DEF SignInAgain
<1>2. taps[t].screen \in 1..Len(pile)
  BY <1>1, Types DEF IInv, TapInv, TapOK, UnderWay
<1>3. pile[taps[t].screen].entry \in Entry
  BY <1>2, Types DEF IInv, ScreenType
<1>4. alert' \in BOOLEAN
  BY <1>1 DEF IInv, TypeOK
<1> QED
  BY <1>1, <1>3, <1>4, NoSegueInv DEF SignInAgain

\* A handler with an error: a sign-up whose account exists ends halfway.
LEMMA RefusedInv ==
  ASSUME IInv, NEW t \in Tap, Refused(t)
  PROVE  IInv'
<1> DEFINE stage == IF Stage(t) = "entering" THEN "halfway" ELSE "refused"
<1>1. /\ Runs(t, FALSE) /\ UNCHANGED <<authVars, pile>> /\ Stage(t) \in UnderWay
      /\ Moves(t, stage)
  BY DEF Refused
<1>2. alert' \in BOOLEAN
  BY DEF Refused, ShowErrorMessage, CanPresent, IInv, TypeOK
<1>3. taps[t].email \in Entry
  BY Types DEF IInv
<1>4. taps' = [taps EXCEPT ![t].stage = stage, ![t].email = taps[t].email]
  BY <1>1 DEF Moves, IInv, TypeOK
<1>5. LetsIn(t) => Stage(t) = "entering"
  <2>1. main # <<>> /\ Head(main) = [tap |-> t, ok |-> FALSE]
    BY <1>1 DEF Runs
  <2>2. main \in Seq(CallType)
    BY Types DEF IInv
  <2>3. Len(main) \in Nat \ {0}
    BY <2>1, <2>2, EmptySeq
  <2>4. Head(main) = main[1]
    BY <2>1, <2>2
  <2>5. 1 \in 1..Len(main) /\ main[1].tap = t /\ main[1].ok = FALSE
    BY <2>1, <2>3, <2>4
  <2>6. \A i \in 1..Len(main) : main[i] # [tap |-> t, ok |-> TRUE]
    BY <2>5 DEF IInv, MainInv
  <2> QED
    BY <1>1, <2>6 DEF LetsIn, UnderWay
<1>6. stage \in {"entering", "refused", "halfway"} /\ (LetsIn(t) => stage # "refused")
  BY <1>5
<1> QED
  BY <1>1, <1>2, <1>3, <1>4, <1>6, NoSegueInv

-----------------------------------------------------------------------------
(* Launches, and the theorems.                                             *)

\* A pile with a root only, no handlers and no request under way.
\* A sequence of one element.
LEMMA Alone ==
  ASSUME NEW S, NEW e \in S, NEW q, q = <<e>>
  PROVE  q \in Seq(S) /\ Len(q) = 1 /\ q[1] = e
  OBVIOUS

\* A pile with a root only, no handlers and no request under way.
AtRoot ==
  /\ registered \in SUBSET Account /\ currentUser \in Account \cup {NoAccount}
  /\ pile = RootFor(currentUser) /\ alert = FALSE /\ main = <<>>
  /\ taps \in [Tap -> [stage : Stages, screen : 1..MaxPile, email : Entry]]
  /\ \A t \in Tap : taps[t].stage \in {"unused", "lost"}

\* Whatever the server and Auth remember, a launch satisfies the invariant.
LEMMA AtLaunch == AtRoot => IInv
<1> SUFFICES ASSUME AtRoot PROVE IInv
  OBVIOUS
<1>1. PICK k \in {"tabBar", "login"} :
        /\ pile = <<Screen(k)>>
        /\ currentUser # NoAccount => k = "tabBar"
  BY DEF AtRoot, RootFor
<1>2. Screen(k) \in ScreenType /\ Screen(k).kind = k
  BY DEF Screen, ScreenType, Kinds, Entry
<1>3. pile \in Seq(ScreenType) /\ Len(pile) = 1 /\ pile[1] = Screen(k)
  BY <1>1, <1>2, Alone
<1>4. pile[1].kind = k /\ Front.kind = k
  BY <1>2, <1>3 DEF Front
<1>5. main \in Seq(CallType) /\ Len(main) = 0
  BY DEF AtRoot
<1>6. TypeOK
  <2>1. Len(pile) \in 1..MaxPile
    BY <1>3, MaxPileAssumption
  <2> QED
    BY <1>3, <1>5, <2>1 DEF AtRoot, TypeOK, ScreenType, CallType
<1>7. PileInv
  BY <1>3, <1>4 DEF PileInv
<1>8. TapInv
  BY DEF AtRoot, TapInv, TapOK, UnderWay, Stage
<1>9. MainInv
  BY <1>5 DEF MainInv
<1>10. NobodyIsStranded
  <2>1. Front.kind \in SignInKinds => k # "tabBar"
    BY <1>4 DEF SignInKinds
  <2>2. Front.kind \in SignInKinds => currentUser = NoAccount
    BY <1>1, <2>1
  <2> QED
    BY <2>2 DEF NobodyIsStranded
<1>11. EntrancesAreEarned
  BY <1>3 DEF EntrancesAreEarned
<1> QED
  BY <1>6, <1>7, <1>8, <1>9, <1>10, <1>11 DEF IInv

\* The first launch.
LEMMA InitInv == Init => IInv
<1> SUFFICES ASSUME Init PROVE AtRoot
  BY AtLaunch
<1> QED
  BY MaxPileAssumption DEF Init, AtRoot, Stages, Entry

\* A launch after the process died with any requests under way.
LEMMA RelaunchedInv ==
  ASSUME IInv, Relaunched
  PROVE  IInv'
<1>1. taps' \in [Tap -> [stage : Stages, screen : 1..MaxPile, email : Entry]]
  BY DEF Relaunched, IInv, TypeOK, Stages, Stage
<1>2. \A t \in Tap : taps'[t].stage \in {"unused", "lost"}
  BY DEF Relaunched, IInv, TypeOK, Stage
<1>3. RootFor(currentUser)' = RootFor(currentUser)
  BY DEF Relaunched, RootFor, authVars
<1>4. AtRoot'
  BY <1>1, <1>2, <1>3 DEF AtRoot, Relaunched, authVars, IInv, TypeOK
<1>5. AtRoot' => IInv'
  BY AtLaunch, PTL
<1> QED
  BY <1>4, <1>5

\* The two handlers that perform a segue.
LEMMA LoggedInInv ==
  ASSUME IInv, NEW t \in Tap, LoggedIn(t) \/ SignedUp(t)
  PROVE  IInv'
<1>1. CASE LoggedIn(t)
  BY <1>1, SegueInv DEF LoggedIn
<1>2. CASE SignedUp(t)
  BY <1>2, SegueInv DEF SignedUp
<1> QED
  BY <1>1, <1>2

\* Every step keeps the invariant: one case for each action.
LEMMA NextInv == IInv /\ [Next]_vars => IInv'
<1> SUFFICES ASSUME IInv, [Next]_vars PROVE IInv'
  OBVIOUS
<1>1. ASSUME NEW kind \in Kinds, Navigate(kind) PROVE IInv'
  BY <1>1, NavigateInv
<1>2. ASSUME NEW e \in Entry, TypeEntry(e) PROVE IInv'
  BY <1>2, TypeEntryInv
<1>3. CASE OkayPressed
  BY <1>3, QuietInv DEF OkayPressed, authVars
<1>4. CASE PerformToMain
  BY <1>4, PerformToMainInv
<1>5. CASE EditBtnPressed
  BY <1>5, EditBtnPressedInv
<1>6. CASE CancelBtnPressed
  BY <1>6, CancelBtnPressedInv
<1>7. ASSUME NEW t \in Tap, LoginBtnPressed(t) \/ SignUpBtn(t) PROVE IInv'
  BY <1>7, SendsInv DEF LoginBtnPressed, SignUpBtn
<1>8. ASSUME NEW t \in Tap, ServerCreates(t) PROVE IInv'
  BY <1>8, ServerCreatesInv
<1>9. ASSUME NEW t \in Tap, AuthSucceeds(t) PROVE IInv'
  BY <1>9, AuthSucceedsInv
<1>10. ASSUME NEW t \in Tap, AuthFails(t) PROVE IInv'
  BY <1>10, AuthFailsInv
<1>11. ASSUME NEW t \in Tap, LoggedIn(t) \/ SignedUp(t) PROVE IInv'
  BY <1>11, LoggedInInv
<1>12. ASSUME NEW t \in Tap, SignInAgain(t) PROVE IInv'
  BY <1>12, SignInAgainInv
<1>13. ASSUME NEW t \in Tap, Refused(t) PROVE IInv'
  BY <1>13, RefusedInv
<1>14. CASE SignedOutByForce
  BY <1>14, QuietInv DEF SignedOutByForce, IInv, TypeOK
<1>15. CASE Relaunched
  BY <1>15, RelaunchedInv
<1>16. CASE UNCHANGED vars
  BY <1>16, QuietInv DEF vars, authVars, IInv, TypeOK
<1> QED
  BY <1>1, <1>2, <1>3, <1>4, <1>5, <1>6, <1>7, <1>8, <1>9, <1>10, <1>11, <1>12, <1>13,
     <1>14, <1>15, <1>16 DEF Next

\* The invariant holds in every state the app can be in.
THEOREM Invariant == Spec => []IInv
<1> QED
  BY InitInv, NextInv, PTL DEF Spec

\* The variables keep their types, however many taps are under way: no
\* handler writes to a screen that is not in the pile.
THEOREM TypeCorrect == Spec => []TypeOK
<1>1. IInv => TypeOK
  BY DEF IInv
<1> QED
  BY <1>1, Invariant, PTL

\* Whoever is signed in behind a sign-in screen is there because of one of
\* his taps (LetsIn), for any number of taps and any depth of the pile.
THEOREM NobodyIsStrandedHolds == Spec => []NobodyIsStranded
<1>1. IInv => NobodyIsStranded
  BY DEF IInv
<1> QED
  BY <1>1, Invariant, PTL

\* Exactly one tap opened what covers a sign-in or sign-up screen for good,
\* for any number of taps and any depth of the pile.
THEOREM EntrancesAreEarnedHolds == Spec => []EntrancesAreEarned
<1>1. IInv => EntrancesAreEarned
  BY DEF IInv
<1> QED
  BY <1>1, Invariant, PTL
=============================================================================
