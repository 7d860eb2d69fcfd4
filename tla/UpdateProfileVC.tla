--------------------------- MODULE UpdateProfileVC ---------------------------
(***************************************************************************)
(* The profile form of BookSelf (Controllers/UpdateProfileVC.swift): a     *)
(* full-screen controller that a new user reaches from SignUpVC and any    *)
(* user from the Edit button of ProfileVC.  Done uploads the profile       *)
(* image and adds a document to "Users"; when the write has succeeded the  *)
(* segue toMain presents a new tab bar over the form, from which another   *)
(* form can be opened: the presentations pile up until the process dies.   *)
(***************************************************************************)
EXTENDS UploadPipeline

\* A Screen is one form, an Upload a tap of Done.
CONSTANTS
  Text,        \* what a text field may hold
  Blank,       \* ""
  Image,       \* what the profile image view may show
  PPPlaceholder  \* the asset the storyboard gives it

\* A Picture is an image that jpegData can encode.
ASSUME ProfileImageAssumption == PPPlaceholder \in Picture /\ Picture \subseteq Image
ASSUME FieldsAssumption == Blank \in Text /\ Content = [username : Text, bio : Text]

VARIABLES
  app,       \* the process and what it was launched into: "dead", "login", "main"
  form,      \* life of each form
  cover,     \* what each form itself presents
  buttonID,  \* which image the picker is for: 0 the profile's, 1 the banner's
  fields,    \* usernameTextField.text and bioTextField.text
  image      \* profileImageView.image

formVars == <<form, cover, buttonID, fields, image>>
vars == <<app, formVars, pipelineVars>>

FormTypeOK ==
  /\ app \in {"dead", "login", "main"}
  /\ form \in [Screen -> {"unopened", "open", "gone"}]
  /\ cover \in [Screen -> {"none", "picker", "tabBar"}]
  /\ buttonID \in [Screen -> {0, 1}]
  /\ fields \in [Screen -> Content]
  /\ image \in [Screen -> Image]

TypeOK == FormTypeOK /\ PipelineTypeOK

Init ==
  /\ PipelineInit
  /\ origin \in {[s \in Upload |-> c] : c \in Screen}
  /\ data = [s \in Upload |-> PPPlaceholder]
  /\ app = IF currentUser # NoAccount THEN "main" ELSE "login"
  /\ form = [c \in Screen |-> "unopened"]
  /\ cover = [c \in Screen |-> "none"]
  /\ buttonID = [c \in Screen |-> 0]
  /\ fields = [c \in Screen |-> [username |-> Blank, bio |-> Blank]]
  /\ image = [c \in Screen |-> PPPlaceholder]

-----------------------------------------------------------------------------
(* The form.                                                               *)

\* The form is the top of the pile of presentations.
Touchable(c) == app # "dead" /\ form[c] = "open" /\ cover[c] = "none"

NoFormInFront == \A d \in Screen : form[d] = "open" => cover[d] = "tabBar"

\* The segue toUpdate: from ProfileVC, under a tab bar that no form covers,
\* or from SignUpVC, whose handler of signIn (AuthFlow) checks no user: by then
\* the new account may have been signed out again.
PerformToUpdate(c) ==
  /\ app # "dead"
  /\ NoFormInFront
  /\ form[c] = "unopened"
  /\ form' = [form EXCEPT ![c] = "open"]
  /\ UNCHANGED <<app, cover, buttonID, fields, image, pipelineVars>>

TypeText(c, f, t) ==
  /\ Touchable(c)
  /\ fields' = [fields EXCEPT ![c][f] = t]
  /\ UNCHANGED <<app, form, cover, buttonID, image, pipelineVars>>

ImageSelect(c, tag) ==
  /\ Touchable(c)
  /\ buttonID' = [buttonID EXCEPT ![c] = tag]
  /\ cover' = [cover EXCEPT ![c] = "picker"]
  /\ UNCHANGED <<app, form, fields, image, pipelineVars>>

\* The picked image goes where buttonID says; the banner is never uploaded.
DidFinishPicking(c, p) ==
  /\ app # "dead" /\ cover[c] = "picker"
  /\ image' = [image EXCEPT ![c] = IF buttonID[c] = 0 THEN p ELSE @]
  /\ cover' = [cover EXCEPT ![c] = "none"]
  /\ UNCHANGED <<app, form, buttonID, fields, pipelineVars>>

\* The picker's own Cancel, left to UIKit.
PickerClosed(c) ==
  /\ app # "dead" /\ cover[c] = "picker"
  /\ cover' = [cover EXCEPT ![c] = "none"]
  /\ UNCHANGED <<app, form, buttonID, fields, image, pipelineVars>>

\* Cancel closes the form and stops no upload of it.
CancelBtnPressed(c) ==
  /\ Touchable(c)
  /\ form' = [form EXCEPT ![c] = "gone"]
  /\ UNCHANGED <<app, cover, buttonID, fields, image, pipelineVars>>

\* doneBtnPressed calls updateProfile; nothing tells the user that a field is
\* empty, and nothing disables the button while an upload is under way.
UpdateProfile(c, s) ==
  /\ Touchable(c)
  /\ fields[c].username # Blank /\ fields[c].bio # Blank
  /\ image[c] \in Picture
  /\ PutData(c, s, image[c])
  /\ UNCHANGED <<app, formVars>>

-----------------------------------------------------------------------------
(* The handlers of an upload.                                              *)

ImageStored(s) == StorageReceives(s) /\ UNCHANGED <<app, formVars>>

PutDataDone(s) == PutDataSucceeds(s) /\ UNCHANGED <<app, formVars>>

\* The errors of putData and addDocument are printed, not shown.
PutDataFailed(s) == PutDataFails(s) /\ UNCHANGED <<app, formVars>>

DownloadURLFailed(s) == DownloadURLFails(s) /\ UNCHANGED <<app, formVars>>

\* The fields are read when the URL has come, and not checked again.
DownloadURLDone(s) ==
  /\ AddDocument(s, fields[origin[s]])
  /\ UNCHANGED <<app, formVars>>

\* The segue toMain: UIKit presents the tab bar unless the form has gone or
\* already presents something, and says nothing if it does not.
PerformToMain(c) ==
  /\ IF form[c] = "open" /\ cover[c] = "none"
     THEN cover' = [cover EXCEPT ![c] = "tabBar"] /\ app' = "main"
     ELSE UNCHANGED <<app, cover>>
  /\ UNCHANGED <<form, buttonID, fields, image>>

ProfileApplied(u) == ServerApplies(u) /\ UNCHANGED <<app, formVars>>

ProfileAdded(u) ==
  /\ app # "dead"
  /\ WriteAcknowledged(u)
  /\ IF HasHandler(u) THEN PerformToMain(FirstScreen(u)) ELSE UNCHANGED <<app, formVars>>

\* Mutant of the next action: the segue is performed whatever the answer.
ErrorIgnored(u) ==
  /\ app # "dead"
  /\ WriteRejected(u)
  /\ IF HasHandler(u) THEN PerformToMain(FirstScreen(u)) ELSE UNCHANGED <<app, formVars>>

ProfileRefused(u) ==
  /\ app # "dead"
  /\ WriteRejected(u)
  /\ UNCHANGED <<app, formVars>>

-----------------------------------------------------------------------------
(* The session and the process, as in CreateVC.                            *)

\* The tab bar may come with a sign-in answer, but not over a form: the screen
\* that asked is then covered, and its segue does nothing.
UserSignedIn(a) ==
  /\ app # "dead"
  /\ SignedIn(a)
  /\ app' \in {app, IF NoFormInFront THEN "main" ELSE app}
  /\ UNCHANGED formVars

UserSignedOut == app # "dead" /\ SignedOut /\ UNCHANGED <<app, formVars>>

ClientNotified == app # "dead" /\ CredentialChanged /\ UNCHANGED <<app, formVars>>

\* The process dies, and with it the forms and what they present.
Die ==
  /\ ProcessDies
  /\ app' = "dead"
  /\ form' = [c \in Screen |-> IF form[c] = "open" THEN "gone" ELSE form[c]]
  /\ cover' = [c \in Screen |-> "none"]
  /\ UNCHANGED <<buttonID, fields, image>>

\* Auth.auth().currentUser! traps when the user is nil.
UnwrapsNilUser(s) == stage[s] = "resolving" /\ currentUser = NoAccount /\ Die

Killed == app # "dead" /\ Die

Relaunched ==
  /\ app = "dead"
  /\ app' = IF currentUser # NoAccount THEN "main" ELSE "login"
  /\ client' = currentUser
  /\ UNCHANGED <<formVars, currentUser, uploadVars, storeVars>>

-----------------------------------------------------------------------------
Form(c) ==
  \/ PerformToUpdate(c)
  \/ \E f \in {"username", "bio"}, t \in Text : TypeText(c, f, t)
  \/ \E tag \in {0, 1} : ImageSelect(c, tag)
  \/ \E p \in Image : DidFinishPicking(c, p)
  \/ PickerClosed(c)
  \/ CancelBtnPressed(c)
  \/ \E s \in Upload : UpdateProfile(c, s)

Handlers(s) ==
  \/ ImageStored(s)
  \/ PutDataDone(s)
  \/ PutDataFailed(s)
  \/ DownloadURLFailed(s)
  \/ DownloadURLDone(s)
  \/ UnwrapsNilUser(s)

Stream(u) == ProfileApplied(u) \/ ProfileAdded(u) \/ ProfileRefused(u)

Next ==
  \/ \E c \in Screen : Form(c)
  \/ \E s \in Upload : Handlers(s)
  \/ \E u \in User : Stream(u)
  \/ \E a \in Account : UserSignedIn(a)
  \/ UserSignedOut
  \/ ClientNotified
  \/ Killed
  \/ Relaunched

Spec == Init /\ [][Next]_vars

-----------------------------------------------------------------------------
(* Properties.                                                             *)

\* A form gives way to the tab bar only over a profile of its own on the
\* server (97-101), whatever uploads of other forms and the picker have done
\* meanwhile; by then another account, or none, may be signed in.
MainOnlyOverItsProfile ==
  \A c \in Screen :
    cover[c] = "tabBar" => \E d \in collection : origin[d.url] = c

\* Whatever the form, the user and the system do, the profile's uploads go
\* through the pipeline: none starts twice, skips a step or goes on in a dead
\* process.
ProfilesFollowThePipeline == PipelineSpec

\* "POST USER INFO TO DB ~ CREATE FIRST TIME" (77): the document is created
\* for an account once.
OneProfilePerAccount ==
  \A d, e \in collection : d.email = e.email => d = e
=============================================================================
