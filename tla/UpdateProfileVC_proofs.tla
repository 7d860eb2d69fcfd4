----------------------- MODULE UpdateProfileVC_proofs -----------------------
(***************************************************************************)
(* Proofs about the profile form, for any forms, uploads, accounts, images *)
(* and texts: it keeps its types, its uploads follow the pipeline, and a   *)
(* form gives way to the tab bar only over a profile of its own.           *)
(***************************************************************************)
EXTENDS UpdateProfileVC, UploadPipeline_proofs

-----------------------------------------------------------------------------
(* Type correctness of the form.                                           *)

\* A field that is typed in leaves the form's content well formed.
LEMMA TypedContent ==
  ASSUME NEW x \in Content, NEW f \in {"username", "bio"}, NEW t \in Text
  PROVE  [x EXCEPT ![f] = t] \in Content
BY FieldsAssumption

\* What the user and UIKit do to a form keeps its types.
LEMMA FormStepTypeOK ==
  ASSUME FormTypeOK, NEW c \in Screen, Form(c)
  PROVE  FormTypeOK'
<1> USE DEF FormTypeOK, formVars
<1>1. CASE PerformToUpdate(c)
  BY <1>1 DEF PerformToUpdate
<1>2. ASSUME NEW f \in {"username", "bio"}, NEW t \in Text, TypeText(c, f, t)
      PROVE  FormTypeOK'
  <2>1. [fields[c] EXCEPT ![f] = t] \in Content
    BY TypedContent
  <2> QED
    BY <1>2, <2>1 DEF TypeText
<1>3. ASSUME NEW tag \in {0, 1}, ImageSelect(c, tag) PROVE FormTypeOK'
  BY <1>3 DEF ImageSelect
<1>4. ASSUME NEW p \in Image, DidFinishPicking(c, p) PROVE FormTypeOK'
  BY <1>4 DEF DidFinishPicking
<1>5. CASE PickerClosed(c)
  BY <1>5 DEF PickerClosed
<1>6. CASE CancelBtnPressed(c)
  BY <1>6 DEF CancelBtnPressed
<1>7. ASSUME NEW s \in Upload, UpdateProfile(c, s) PROVE FormTypeOK'
  BY <1>7 DEF UpdateProfile
<1> QED
  BY <1>1, <1>2, <1>3, <1>4, <1>5, <1>6, <1>7 DEF Form

\* So does the death of the process, whatever causes it.
LEMMA DieTypeOK ==
  ASSUME FormTypeOK, Die
  PROVE  FormTypeOK'
BY DEF FormTypeOK, Die

\* So do the handlers of the image's upload.
LEMMA HandlersTypeOK ==
  ASSUME FormTypeOK, NEW s \in Upload, Handlers(s)
  PROVE  FormTypeOK'
<1>1. CASE UnwrapsNilUser(s)
  BY <1>1, DieTypeOK DEF UnwrapsNilUser
<1>2. CASE ~UnwrapsNilUser(s)
  BY <1>2 DEF FormTypeOK, formVars, Handlers, ImageStored, PutDataDone, PutDataFailed,
     DownloadURLFailed, DownloadURLDone
<1> QED
  BY <1>1, <1>2

\* So do the handlers of the document's write.
LEMMA StreamTypeOK ==
  ASSUME TypeOK, NEW u \in User, Stream(u)
  PROVE  FormTypeOK'
<1> USE DEF TypeOK, FormTypeOK, formVars
<1>1. CASE ProfileApplied(u) \/ ProfileRefused(u)
  BY <1>1 DEF ProfileApplied, ProfileRefused
<1>2. CASE ProfileAdded(u)
  <2>1. FirstScreen(u) \in Screen
    BY <1>2, FirstScreenType DEF ProfileAdded, WriteAcknowledged, StreamOpen
  <2> QED
    BY <1>2, <2>1 DEF ProfileAdded, PerformToMain
<1> QED
  BY <1>1, <1>2 DEF Stream

\* Every step keeps the types of the form.
LEMMA FormNextTypeOK ==
  ASSUME TypeOK, [Next]_vars
  PROVE  FormTypeOK'
<1> USE DEF TypeOK, FormTypeOK, formVars
<1>1. ASSUME NEW a \in Account, UserSignedIn(a) PROVE FormTypeOK'
  BY <1>1 DEF UserSignedIn
<1>2. CASE UserSignedOut \/ ClientNotified
  BY <1>2 DEF UserSignedOut, ClientNotified
<1>3. CASE Killed
  BY <1>3, DieTypeOK DEF Killed
<1>4. CASE Relaunched
  BY <1>4 DEF Relaunched
<1>5. CASE UNCHANGED vars
  BY <1>5 DEF vars
<1> QED
  BY <1>1, <1>2, <1>3, <1>4, <1>5, FormStepTypeOK, HandlersTypeOK, StreamTypeOK DEF Next

-----------------------------------------------------------------------------
(* The uploads follow the pipeline.                                        *)

\* The form starts well typed and the pipeline in its initial state.
LEMMA InitFollowsPipeline == Init => FormTypeOK /\ PipelineInit
<1>1. [username |-> Blank, bio |-> Blank] \in Content /\ PPPlaceholder \in Image
  BY FieldsAssumption, ProfileImageAssumption
<1> QED
  BY <1>1 DEF Init, FormTypeOK

\* What the user does to a form starts an upload or leaves the pipeline alone.
LEMMA FormFollowsPipeline ==
  ASSUME NEW c \in Screen, Form(c)
  PROVE  [PipelineNext]_pipelineVars
<1>1. ASSUME NEW s \in Upload, UpdateProfile(c, s) PROVE PipelineNext
  BY <1>1 DEF UpdateProfile, PipelineNext
<1>2. CASE ~\E s \in Upload : UpdateProfile(c, s)
  BY <1>2 DEF Form, PerformToUpdate, TypeText, ImageSelect, DidFinishPicking,
     PickerClosed, CancelBtnPressed
<1> QED
  BY <1>1, <1>2

\* The handlers of an upload are the pipeline's.
LEMMA HandlersFollowPipeline ==
  ASSUME TypeOK, NEW s \in Upload, Handlers(s)
  PROVE  [PipelineNext]_pipelineVars
<1>1. ASSUME DownloadURLDone(s) PROVE PipelineNext
  <2>1. fields[origin[s]] \in Content
    BY DEF TypeOK, FormTypeOK, PipelineTypeOK
  <2> QED
    BY <1>1, <2>1 DEF DownloadURLDone, PipelineNext
<1>2. CASE ~DownloadURLDone(s)
  BY <1>2 DEF Handlers, ImageStored, PutDataDone, PutDataFailed, DownloadURLFailed,
     UnwrapsNilUser, Die, PipelineNext
<1> QED
  BY <1>1, <1>2

\* Every step of the app is a step of the pipeline or leaves it alone.
LEMMA NextFollowsPipeline ==
  ASSUME TypeOK, [Next]_vars
  PROVE  [PipelineNext]_pipelineVars
<1>1. ASSUME NEW u \in User, Stream(u) PROVE PipelineNext
  BY <1>1 DEF Stream, ProfileApplied, ProfileAdded, ProfileRefused, PipelineNext
<1>2. ASSUME NEW a \in Account, UserSignedIn(a) PROVE PipelineNext
  BY <1>2 DEF UserSignedIn, PipelineNext
<1>3. CASE UserSignedOut \/ ClientNotified \/ Killed
  BY <1>3 DEF UserSignedOut, ClientNotified, Killed, Die, PipelineNext
<1>4. CASE Relaunched
  <2>1. CASE client = currentUser
    BY <1>4, <2>1 DEF Relaunched, pipelineVars, session
  <2>2. CASE client # currentUser
    BY <1>4, <2>2 DEF Relaunched, CredentialChanged, PipelineNext
  <2> QED
    BY <2>1, <2>2
<1>5. CASE UNCHANGED vars
  BY <1>5 DEF vars
<1> QED
  BY <1>1, <1>2, <1>3, <1>4, <1>5, FormFollowsPipeline, HandlersFollowPipeline DEF Next

\* TypeOK is an invariant of the profile form: no profile is ever queued or
\* stored for nobody, though the account is read when the URL has come
\* (UpdateProfileVC.swift 96).
THEOREM TypeCorrect == Spec => []TypeOK
<1>1. Init => TypeOK
  BY InitFollowsPipeline, InitInv DEF TypeOK, PipelineInv
<1>2. TypeOK /\ [Next]_vars => TypeOK'
  BY FormNextTypeOK, NextFollowsPipeline, NextTypeOK DEF TypeOK
<1> QED
  BY <1>1, <1>2, PTL DEF Spec

\* The form of UpdateProfileVC.swift implements the upload pipeline, whatever
\* the user does to the form while its uploads are under way.
THEOREM ProfilesFollowThePipelineHolds == Spec => ProfilesFollowThePipeline
<1>1. Init => PipelineInit
  BY InitFollowsPipeline
<1>2. TypeOK /\ [Next]_vars => [PipelineNext]_pipelineVars
  BY NextFollowsPipeline
<1> QED
  BY <1>1, <1>2, TypeCorrect, PTL DEF Spec, ProfilesFollowThePipeline, PipelineSpec

\* So profiles inherit the guarantees of the pipeline: no profile names a
\* picture that is missing or is not the one of its form, one tap of Done
\* makes at most one profile, and a profile once added survives the process; a
\* failed upload has left no profile if Firestore reports failures only of
\* writes the server has refused.
THEOREM PipelineGuarantees ==
  /\ Spec => /\ [](DocumentsShowTheirPicture /\ OneDocumentPerUpload)
             /\ WritesAreDurable
             /\ ImplementsPublication
  /\ WriteNoticesEnd = FALSE => (Spec => []FailedUploadLeavesNoDocument)
<1>1. Spec => /\ [](DocumentsShowTheirPicture /\ OneDocumentPerUpload)
              /\ WritesAreDurable
              /\ ImplementsPublication
  BY ProfilesFollowThePipelineHolds, DocumentsShowTheirPictureHolds, OneDocumentPerUploadHolds,
     WritesAreDurableHolds, ImplementsPublicationHolds, PTL DEF ProfilesFollowThePipeline
<1>2. ASSUME WriteNoticesEnd = FALSE
      PROVE  Spec => []FailedUploadLeavesNoDocument
  <2>1. PipelineSpec => []FailedUploadLeavesNoDocument
    BY <1>2, FailedUploadLeavesNoDocumentHolds
  <2> QED
    BY <2>1, ProfilesFollowThePipelineHolds, PTL DEF ProfilesFollowThePipeline
<1> QED
  BY <1>1, <1>2

-----------------------------------------------------------------------------
(* The way to the tab bar.                                                 *)

\* Only the handler of an acknowledged write brings the tab bar over a form.
LEMMA WhoShowsTheTabBar ==
  ASSUME TypeOK, [Next]_vars, NEW c \in Screen,
         cover'[c] = "tabBar", cover[c] # "tabBar"
  PROVE  \E u \in User : WriteAcknowledged(u) /\ FirstScreen(u) = c
<1> USE DEF TypeOK, FormTypeOK, formVars
<1>1. ASSUME NEW u \in User, ProfileAdded(u)
      PROVE  WriteAcknowledged(u) /\ FirstScreen(u) = c
  BY <1>1 DEF ProfileAdded, PerformToMain
<1>2. ASSUME NEW u \in User, ProfileApplied(u) \/ ProfileRefused(u) PROVE FALSE
  BY <1>2 DEF ProfileApplied, ProfileRefused
<1>3. ASSUME NEW d \in Screen, Form(d) PROVE FALSE
  BY <1>3 DEF Form, PerformToUpdate, TypeText, ImageSelect, DidFinishPicking,
     PickerClosed, CancelBtnPressed, UpdateProfile
<1>4. ASSUME NEW s \in Upload, Handlers(s) PROVE FALSE
  BY <1>4 DEF Handlers, ImageStored, PutDataDone, PutDataFailed, DownloadURLFailed,
     DownloadURLDone, UnwrapsNilUser, Die
<1>5. ASSUME NEW a \in Account, UserSignedIn(a) PROVE FALSE
  BY <1>5 DEF UserSignedIn
<1>6. CASE UserSignedOut \/ ClientNotified \/ Killed \/ Relaunched \/ UNCHANGED vars
  BY <1>6 DEF UserSignedOut, ClientNotified, Killed, Relaunched, Die, vars
<1> QED
  BY <1>1, <1>2, <1>3, <1>4, <1>5, <1>6 DEF Next, Stream

\* Every form that shows the tab bar does so over a profile of its own that is
\* on the server (UpdateProfileVC.swift 97-101).
THEOREM MainOnlyOverItsProfileHolds == Spec => []MainOnlyOverItsProfile
<1>1. Init => MainOnlyOverItsProfile
  BY DEF Init, MainOnlyOverItsProfile
<1>2. ASSUME TypeOK, PipelineInv, MainOnlyOverItsProfile, [Next]_vars
      PROVE  MainOnlyOverItsProfile'
  <2> SUFFICES ASSUME NEW c \in Screen, cover'[c] = "tabBar"
               PROVE  \E d \in collection' : origin'[d.url] = c
    BY DEF MainOnlyOverItsProfile
  <2>1. CASE cover[c] = "tabBar"
    BY <1>2, <2>1, NextFollowsPipeline, DocumentsKeepTheirScreen DEF MainOnlyOverItsProfile
  <2>2. CASE cover[c] # "tabBar"
    BY <1>2, <2>2, WhoShowsTheTabBar, AcknowledgedDocument
  <2> QED
    BY <2>1, <2>2
<1> QED
  BY <1>1, <1>2, TypeCorrect, ProfilesFollowThePipelineHolds, PipelineInvariant, PTL
     DEF Spec, ProfilesFollowThePipeline
=============================================================================
