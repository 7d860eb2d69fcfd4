------------------------------ MODULE CreateVC ------------------------------
(***************************************************************************)
(* The compose sheet of BookSelf (Controllers/CreateVC.swift): its form,   *)
(* what it presents, and what the handlers of its shares do to it when     *)
(* they run, which may be long after the sheet has left the screen.        *)
(*                                                                         *)
(* Every action is one turn of the main queue (a tap, a delegate call, a   *)
(* completion handler) or one step of the world outside: Firebase, the     *)
(* operating system, and the sign-in screens, whose late answers may       *)
(* change the current user at any moment.                                  *)
(***************************************************************************)
EXTENDS UploadPipeline

\* A Screen is a compose sheet, an Upload a tap of Share, and the Content of a
\* document its caption, taken from the texts of captionTextView.
CONSTANTS
  Image,         \* what the image view may show
  DefaultImage,  \* the asset "imagePlaceholder"
  Blank,         \* ""
  Placeholder    \* "Enter your comment..."

\* A Picture is an image that jpegData can encode.
ASSUME ImageAssumption == DefaultImage \in Picture /\ Picture \subseteq Image
ASSUME CaptionAssumption == {Blank, Placeholder} \subseteq Content /\ Blank # Placeholder

VARIABLES
  app,      \* the process and what it shows: "dead", "login" or "main"
  sheet,    \* life of each compose sheet
  cover,    \* what each sheet itself presents
  text,     \* captionTextView.text
  editing,  \* captionTextView is the first responder
  image     \* imageView.image

formVars == <<sheet, cover, text, editing, image>>
vars == <<app, formVars, pipelineVars>>

FormTypeOK ==
  /\ app \in {"dead", "login", "main"}
  /\ sheet \in [Screen -> {"unopened", "open", "gone", "completed"}]
  /\ cover \in [Screen -> {"none", "picker", "alert"}]
  /\ text \in [Screen -> Content]
  /\ editing \in [Screen -> BOOLEAN]
  /\ image \in [Screen -> Image]

TypeOK == FormTypeOK /\ PipelineTypeOK

Init ==
  /\ PipelineInit
  /\ currentUser # NoAccount
  /\ origin \in {[s \in Upload |-> c] : c \in Screen}
  /\ data = [s \in Upload |-> DefaultImage]
  /\ app = "main"
  /\ sheet = [c \in Screen |-> "unopened"]
  /\ cover = [c \in Screen |-> "none"]
  /\ text = [c \in Screen |-> Placeholder]
  /\ editing = [c \in Screen |-> FALSE]
  /\ image = [c \in Screen |-> DefaultImage]

-----------------------------------------------------------------------------
(* The sheet.                                                              *)

\* A control of the sheet can be touched: it is on screen and uncovered.
Touchable(c) == app = "main" /\ sheet[c] = "open" /\ cover[c] = "none"

\* FeedVC.addBtnPressed: the segue instantiates a sheet; UIKit presents one
\* at a time.
AddBtnPressed(c) ==
  /\ app = "main"
  /\ \A d \in Screen : sheet[d] # "open"
  /\ sheet[c] = "unopened"
  /\ sheet' = [sheet EXCEPT ![c] = "open"]
  /\ UNCHANGED <<app, cover, text, editing, image, pipelineVars>>

TextViewDidBeginEditing(c) ==
  /\ Touchable(c) /\ ~editing[c]
  /\ editing' = [editing EXCEPT ![c] = TRUE]
  /\ text' = [text EXCEPT ![c] = IF @ = Placeholder THEN Blank ELSE @]
  /\ UNCHANGED <<app, sheet, cover, image, pipelineVars>>

TypeText(c, t) ==
  /\ Touchable(c) /\ editing[c]
  /\ text' = [text EXCEPT ![c] = t]
  /\ UNCHANGED <<app, sheet, cover, editing, image, pipelineVars>>

\* The text a field shows once it has resigned as first responder.
AfterEditing(c) == IF editing[c] /\ text[c] = Blank THEN Placeholder ELSE text[c]

\* A tap outside the field, or a presentation that takes the keyboard away.
TextViewDidEndEditing(c) ==
  /\ app = "main" /\ sheet[c] = "open" /\ editing[c]
  /\ editing' = [editing EXCEPT ![c] = FALSE]
  /\ text' = [text EXCEPT ![c] = AfterEditing(c)]
  /\ UNCHANGED <<app, sheet, cover, image, pipelineVars>>

SelectImage(c) ==
  /\ Touchable(c)
  /\ cover' = [cover EXCEPT ![c] = "picker"]
  /\ UNCHANGED <<app, sheet, text, editing, image, pipelineVars>>

\* The handler's self.dismiss closes what the sheet presents: the picker.
DidFinishPicking(c, p) ==
  /\ app = "main" /\ cover[c] = "picker"
  /\ image' = [image EXCEPT ![c] = p]
  /\ cover' = [cover EXCEPT ![c] = "none"]
  /\ UNCHANGED <<app, sheet, text, editing, pipelineVars>>

\* The picker's own Cancel and the alert's OK, both left to UIKit.
CoverClosed(c) ==
  /\ app = "main" /\ cover[c] # "none"
  /\ cover' = [cover EXCEPT ![c] = "none"]
  /\ UNCHANGED <<app, sheet, text, editing, image, pipelineVars>>

\* Cancel (or a swipe down) closes the sheet and stops no share of it; a
\* field that was being edited resigns.
CancelBtnPressed(c) ==
  /\ Touchable(c)
  /\ sheet' = [sheet EXCEPT ![c] = "gone"]
  /\ editing' = [editing EXCEPT ![c] = FALSE]
  /\ text' = [text EXCEPT ![c] = AfterEditing(c)]
  /\ UNCHANGED <<app, cover, image, pipelineVars>>

\* Neither button is disabled while earlier shares of the sheet are under way.
ShareBtnPressed(c, s) ==
  /\ Touchable(c)
  /\ image[c] \in Picture
  /\ PutData(c, s, image[c])
  /\ UNCHANGED <<app, formVars>>

-----------------------------------------------------------------------------
(* The handlers of a share.                                                *)

\* present() of an alert: nothing happens when the sheet has left the screen
\* or already presents something.
ShowErrorMessage(c) ==
  /\ cover' = [cover EXCEPT ![c] = IF sheet[c] = "open" /\ @ = "none" THEN "alert" ELSE @]
  /\ UNCHANGED <<sheet, text, editing, image>>

ImageStored(s) == StorageReceives(s) /\ UNCHANGED <<app, formVars>>

PutDataDone(s) == PutDataSucceeds(s) /\ UNCHANGED <<app, formVars>>

PutDataFailed(s) ==
  /\ PutDataFails(s)
  /\ ShowErrorMessage(origin[s])
  /\ UNCHANGED app

DownloadURLFailed(s) == DownloadURLFails(s) /\ UNCHANGED <<app, formVars>>

\* Mutant of the next operator: the prompt is taken for a caption.
VerbatimCaption(c) == text[c]

\* The caption is read when the URL has come, not when Share was pressed.
PostedCaption(c) == IF text[c] = Placeholder THEN Blank ELSE text[c]

DownloadURLDone(s) ==
  LET c == origin[s] IN
  /\ AddDocument(s, PostedCaption(c))
  /\ text' = [text EXCEPT ![c] = PostedCaption(c)]
  /\ UNCHANGED <<app, sheet, cover, editing, image>>

\* Mutant of the next operator: it works on the sheet that is open.
ClearFrontSheet(c) ==
  \E d \in Screen :
    /\ IF \E e \in Screen : sheet[e] = "open" THEN sheet[d] = "open" ELSE d = c
    /\ text' = [text EXCEPT ![d] = Placeholder]
    /\ image' = [image EXCEPT ![d] = DefaultImage]
    /\ UNCHANGED <<sheet, cover, editing>>

\* addDocument's handler without an error: reset the form, then self.dismiss,
\* which closes what the sheet presents if it presents anything and the sheet
\* itself otherwise.
ClearAndDismiss(c) ==
  /\ text' = [text EXCEPT ![c] = Placeholder]
  /\ image' = [image EXCEPT ![c] = DefaultImage]
  /\ cover' = [cover EXCEPT ![c] = "none"]
  /\ IF sheet[c] = "open" /\ cover[c] = "none"
     THEN /\ sheet' = [sheet EXCEPT ![c] = "completed"]
          /\ editing' = [editing EXCEPT ![c] = FALSE]
     ELSE UNCHANGED <<sheet, editing>>

PostApplied(u) == ServerApplies(u) /\ UNCHANGED <<app, formVars>>

PostCreated(u) ==
  /\ app # "dead"
  /\ WriteAcknowledged(u)
  /\ IF HasHandler(u) THEN ClearAndDismiss(FirstScreen(u)) ELSE UNCHANGED formVars
  /\ UNCHANGED app

\* Mutant of the next action: the handler takes the error for a success.
RefusalIgnored(u) ==
  /\ app # "dead"
  /\ WriteRejected(u)
  /\ IF HasHandler(u) THEN ClearAndDismiss(FirstScreen(u)) ELSE UNCHANGED formVars
  /\ UNCHANGED app

PostRefused(u) ==
  /\ app # "dead"
  /\ WriteRejected(u)
  /\ IF HasHandler(u) THEN ShowErrorMessage(FirstScreen(u)) ELSE UNCHANGED formVars
  /\ UNCHANGED app

-----------------------------------------------------------------------------
(* The session and the process.                                            *)

\* The tab bar may or may not come with a sign-in answer; an open sheet stays.
UserSignedIn(a) ==
  /\ app # "dead"
  /\ SignedIn(a)
  /\ app' \in {app, "main"}
  /\ UNCHANGED formVars

UserSignedOut == app # "dead" /\ SignedOut /\ UNCHANGED <<app, formVars>>

ClientNotified == app # "dead" /\ CredentialChanged /\ UNCHANGED <<app, formVars>>

\* The process dies, and its sheets and handlers with it.
Die ==
  /\ ProcessDies
  /\ app' = "dead"
  /\ sheet' = [c \in Screen |-> IF sheet[c] = "open" THEN "gone" ELSE sheet[c]]
  /\ cover' = [c \in Screen |-> "none"]
  /\ editing' = [c \in Screen |-> FALSE]
  /\ UNCHANGED <<text, image>>

\* Auth.auth().currentUser! traps when the user is nil.
UnwrapsNilUser(s) == stage[s] = "resolving" /\ currentUser = NoAccount /\ Die

Killed == app # "dead" /\ Die

\* Mutant of the next action: it takes up the uploads that died.
ResumesUploads ==
  /\ app = "dead"
  /\ app' = IF currentUser # NoAccount THEN "main" ELSE "login"
  /\ client' = currentUser
  /\ stage' = [s \in Upload |-> IF stage[s] = "lost" THEN "uploading" ELSE stage[s]]
  /\ UNCHANGED <<formVars, currentUser, origin, data, storeVars>>

\* SceneDelegate: the tab bar if a user is still signed in, else the login
\* screen of the storyboard.
Relaunched ==
  /\ app = "dead"
  /\ app' = IF currentUser # NoAccount THEN "main" ELSE "login"
  /\ client' = currentUser
  /\ UNCHANGED <<formVars, currentUser, uploadVars, storeVars>>

-----------------------------------------------------------------------------
Sheet(c) ==
  \/ AddBtnPressed(c)
  \/ TextViewDidBeginEditing(c)
  \/ \E t \in Content : TypeText(c, t)
  \/ TextViewDidEndEditing(c)
  \/ SelectImage(c)
  \/ \E p \in Image : DidFinishPicking(c, p)
  \/ CoverClosed(c)
  \/ CancelBtnPressed(c)
  \/ \E s \in Upload : ShareBtnPressed(c, s)

PutDataAnswers(s) == PutDataDone(s) \/ PutDataFailed(s)
DownloadURLAnswers(s) == DownloadURLDone(s) \/ DownloadURLFailed(s) \/ UnwrapsNilUser(s)
Share(s) == ImageStored(s) \/ PutDataAnswers(s) \/ DownloadURLAnswers(s)

Stream(u) == PostApplied(u) \/ PostCreated(u) \/ PostRefused(u)

Next ==
  \/ \E c \in Screen : Sheet(c)
  \/ \E s \in Upload : Share(s)
  \/ \E u \in User : Stream(u)
  \/ \E a \in Account : UserSignedIn(a)
  \/ UserSignedOut
  \/ ClientNotified
  \/ Killed
  \/ Relaunched

Spec == Init /\ [][Next]_vars

\* FirebaseStorage gives up after maxUploadRetryTime (600 s) or
\* maxOperationRetryTime (120 s), so its handlers always run; Firestore
\* retries a write for as long as its user is signed in and the app lives;
\* the main queue runs what is posted to it.  Nothing is assumed of the user,
\* of the sign-in screens or of the system.
Fairness ==
  /\ \A s \in Upload : WF_vars(PutDataAnswers(s)) /\ WF_vars(DownloadURLAnswers(s))
  /\ \A u \in User : WF_vars(app # "dead" /\ StreamOpen(u) /\ Stream(u))
  /\ WF_vars(ClientNotified)

FairSpec == Spec /\ Fairness

-----------------------------------------------------------------------------
(* Properties.                                                             *)

\* The prompt "Enter your comment..." never becomes a caption, though an
\* earlier share of the sheet may put it back into the field while a later
\* one is still uploading (88-90 against 98).
PromptIsNeverPosted == \A d \in Documents : d.content # Placeholder

\* The sheet closes itself only over a post of its own on the server (97-101).
ClosedOnlyOverItsPost ==
  \A c \in Screen :
    sheet[c] = "completed" => \E d \in collection : origin[d.url] = c

\* A late answer never clears the form of another sheet: what the user has
\* picked is replaced by the placeholder image only by the user or over a
\* post of the same sheet.
FormClearedOnlyByOwnPost ==
  [][\A c \in Screen :
       image'[c] # image[c] =>
         cover[c] = "picker" \/ \E d \in collection : origin[d.url] = c]_vars

\* Whatever the sheet, the user and the system do, the shares go through the
\* pipeline: none starts twice, skips a step or goes on in a dead process.
SharesFollowThePipeline == PipelineSpec

\* Every upload is answered: the share becomes a write, fails or is lost with
\* the process.
UploadsSettle ==
  \A s \in Upload :
    stage[s] = "uploading" ~> stage[s] \notin {"uploading", "resolving"}

\* The queue of an account that stays signed in is emptied, whatever was left
\* in it by earlier sessions and earlier runs of the app.
QueueDrains ==
  \A a \in Account :
    <>[](app # "dead" /\ currentUser = a) => []<>(queue[a] = <<>>)
=============================================================================
