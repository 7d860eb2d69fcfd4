--------------------------- MODULE CreateVC_proofs ---------------------------
(***************************************************************************)
(* Proofs about the compose sheet, for any sheets, shares, accounts,       *)
(* images and texts: it keeps its types, its shares follow the upload      *)
(* pipeline (so that all that UploadPipeline_proofs proves holds of them), *)
(* and the safety properties of CreateVC.                                  *)
(***************************************************************************)
EXTENDS CreateVC, UploadPipeline_proofs

-----------------------------------------------------------------------------
(* Type correctness of the form.                                           *)

\* What the user and UIKit do to a sheet keeps the types of the form.
LEMMA SheetTypeOK ==
  ASSUME FormTypeOK, NEW c \in Screen, Sheet(c)
  PROVE  FormTypeOK'
<1> USE DEF FormTypeOK, formVars
<1>1. CASE AddBtnPressed(c)
  BY <1>1 DEF AddBtnPressed
<1>2. CASE TextViewDidBeginEditing(c)
  BY <1>2, CaptionAssumption DEF TextViewDidBeginEditing
<1>3. ASSUME NEW t \in Content, TypeText(c, t) PROVE FormTypeOK'
  BY <1>3 DEF TypeText
<1>4. CASE TextViewDidEndEditing(c)
  BY <1>4, CaptionAssumption DEF TextViewDidEndEditing, AfterEditing
<1>5. CASE SelectImage(c)
  BY <1>5 DEF SelectImage
<1>6. ASSUME NEW p \in Image, DidFinishPicking(c, p) PROVE FormTypeOK'
  BY <1>6 DEF DidFinishPicking
<1>7. CASE CoverClosed(c)
  BY <1>7 DEF CoverClosed
<1>8. CASE CancelBtnPressed(c)
  BY <1>8, CaptionAssumption DEF CancelBtnPressed, AfterEditing
<1>9. ASSUME NEW s \in Upload, ShareBtnPressed(c, s) PROVE FormTypeOK'
  BY <1>9 DEF ShareBtnPressed
<1> QED
  BY <1>1, <1>2, <1>3, <1>4, <1>5, <1>6, <1>7, <1>8, <1>9 DEF Sheet

\* So does the death of the process, whatever causes it.
LEMMA DieTypeOK ==
  ASSUME FormTypeOK, Die
  PROVE  FormTypeOK'
BY DEF FormTypeOK, Die

\* So do the handlers of the image's upload.
LEMMA ShareTypeOK ==
  ASSUME TypeOK, NEW s \in Upload, Share(s)
  PROVE  FormTypeOK'
<1> USE DEF TypeOK, FormTypeOK, formVars
<1>1. origin[s] \in Screen
  BY DEF PipelineTypeOK
<1>2. CASE ImageStored(s) \/ PutDataDone(s) \/ DownloadURLFailed(s)
  BY <1>2 DEF ImageStored, PutDataDone, DownloadURLFailed
<1>3. CASE PutDataFailed(s)
  BY <1>1, <1>3 DEF PutDataFailed, ShowErrorMessage
<1>4. CASE DownloadURLDone(s)
  BY <1>1, <1>4, CaptionAssumption DEF DownloadURLDone, PostedCaption
<1>5. CASE UnwrapsNilUser(s)
  BY <1>5, DieTypeOK DEF UnwrapsNilUser
<1> QED
  BY <1>2, <1>3, <1>4, <1>5 DEF Share, PutDataAnswers, DownloadURLAnswers

\* So do the handlers of the document's write.
LEMMA StreamTypeOK ==
  ASSUME TypeOK, NEW u \in User, Stream(u)
  PROVE  FormTypeOK'
<1> USE DEF TypeOK, FormTypeOK, formVars
<1>1. CASE PostApplied(u)
  BY <1>1 DEF PostApplied
<1>2. CASE PostCreated(u)
  <2>1. FirstScreen(u) \in Screen
    BY <1>2, FirstScreenType DEF PostCreated, WriteAcknowledged, StreamOpen
  <2>2. CASE ClearAndDismiss(FirstScreen(u))
    BY <1>2, <2>1, <2>2, CaptionAssumption, ImageAssumption DEF PostCreated, ClearAndDismiss
  <2>3. CASE UNCHANGED formVars
    BY <1>2, <2>3 DEF PostCreated
  <2> QED
    BY <1>2, <2>2, <2>3 DEF PostCreated
<1>3. CASE PostRefused(u)
  <2>1. FirstScreen(u) \in Screen
    BY <1>3, FirstScreenType DEF PostRefused, WriteRejected, StreamOpen
  <2>2. CASE ShowErrorMessage(FirstScreen(u))
    BY <1>3, <2>1, <2>2 DEF PostRefused, ShowErrorMessage
  <2>3. CASE UNCHANGED formVars
    BY <1>3, <2>3 DEF PostRefused
  <2> QED
    BY <1>3, <2>2, <2>3 DEF PostRefused
<1> QED
  BY <1>1, <1>2, <1>3 DEF Stream

\* Every step keeps the types of the form.
LEMMA FormNextTypeOK ==
  ASSUME TypeOK, [Next]_vars
  PROVE  FormTypeOK'
<1> USE DEF TypeOK, FormTypeOK, formVars
<1>1. ASSUME NEW a \in Account, UserSignedIn(a) PROVE FormTypeOK'
  BY <1>1 DEF UserSignedIn
<1>2. CASE UserSignedOut
  BY <1>2 DEF UserSignedOut
<1>3. CASE ClientNotified
  BY <1>3 DEF ClientNotified
<1>4. CASE Killed
  BY <1>4, DieTypeOK DEF Killed
<1>5. CASE Relaunched
  BY <1>5 DEF Relaunched
<1>6. CASE UNCHANGED vars
  BY <1>6 DEF vars
<1> QED
  BY <1>1, <1>2, <1>3, <1>4, <1>5, <1>6, SheetTypeOK, ShareTypeOK, StreamTypeOK DEF Next

-----------------------------------------------------------------------------
(* The shares follow the pipeline.                                         *)

\* The form starts well typed and the pipeline in its initial state.
LEMMA InitFollowsPipeline == Init => FormTypeOK /\ PipelineInit
BY CaptionAssumption, ImageAssumption DEF Init, FormTypeOK

\* What the user does to a sheet starts an upload or leaves the pipeline alone.
LEMMA SheetFollowsPipeline ==
  ASSUME NEW c \in Screen, Sheet(c)
  PROVE  [PipelineNext]_pipelineVars
<1>1. ASSUME NEW s \in Upload, ShareBtnPressed(c, s) PROVE PipelineNext
  BY <1>1 DEF ShareBtnPressed, PipelineNext
<1>2. CASE ~\E s \in Upload : ShareBtnPressed(c, s)
  BY <1>2 DEF Sheet, AddBtnPressed, TextViewDidBeginEditing, TypeText,
     TextViewDidEndEditing, SelectImage, DidFinishPicking, CoverClosed, CancelBtnPressed
<1> QED
  BY <1>1, <1>2

\* The handlers of a share are the pipeline's.
LEMMA ShareFollowsPipeline ==
  ASSUME TypeOK, NEW s \in Upload, Share(s)
  PROVE  [PipelineNext]_pipelineVars
<1>1. ASSUME DownloadURLDone(s) PROVE PipelineNext
  <2>1. PostedCaption(origin[s]) \in Content
    BY CaptionAssumption DEF TypeOK, FormTypeOK, PipelineTypeOK, PostedCaption
  <2>2. AddDocument(s, PostedCaption(origin[s]))
    BY <1>1 DEF DownloadURLDone
  <2> QED
    BY <2>1, <2>2 DEF PipelineNext
<1>2. CASE ~DownloadURLDone(s)
  BY <1>2 DEF Share, PutDataAnswers, DownloadURLAnswers, ImageStored, PutDataDone,
     PutDataFailed, DownloadURLFailed, UnwrapsNilUser, Die, PipelineNext
<1> QED
  BY <1>1, <1>2

\* Every step of the app is a step of the pipeline or leaves it alone.
LEMMA NextFollowsPipeline ==
  ASSUME TypeOK, [Next]_vars
  PROVE  [PipelineNext]_pipelineVars
<1>1. ASSUME NEW u \in User, Stream(u) PROVE PipelineNext
  BY <1>1 DEF Stream, PostApplied, PostCreated, PostRefused, PipelineNext
<1>2. ASSUME NEW a \in Account, UserSignedIn(a) PROVE PipelineNext
  BY <1>2 DEF UserSignedIn, PipelineNext
<1>3. CASE UserSignedOut \/ ClientNotified \/ Killed
  BY <1>3 DEF UserSignedOut, ClientNotified, Killed, Die, PipelineNext
<1>4. CASE Relaunched
  <2>1. CASE client = currentUser
    BY <1>4, <2>1 DEF Relaunched, pipelineVars, session
  <2>2. CASE client # currentUser
    BY <1>4, <2>2 DEF Relaunched, CredentialChanged, PipelineNext
  <2> QED
    BY <2>1, <2>2
<1>5. CASE UNCHANGED vars
  BY <1>5 DEF vars
<1> QED
  BY <1>1, <1>2, <1>3, <1>4, <1>5, SheetFollowsPipeline, ShareFollowsPipeline DEF Next

\* TypeOK is an invariant of the compose sheet: in particular no document is
\* ever queued or stored for nobody, though the account is read long after
\* Share was pressed and may be gone by then (CreateVC.swift 92).
THEOREM TypeCorrect == Spec => []TypeOK
<1>1. Init => TypeOK
  BY InitFollowsPipeline, InitInv DEF TypeOK, PipelineInv
<1>2. TypeOK /\ [Next]_vars => TypeOK'
  BY FormNextTypeOK, NextFollowsPipeline, NextTypeOK DEF TypeOK
<1> QED
  BY <1>1, <1>2, PTL DEF Spec

\* The sheet of CreateVC.swift implements the upload pipeline, whatever the
\* user does to the sheet while its shares are under way.
THEOREM SharesFollowThePipelineHolds == Spec => SharesFollowThePipeline
<1>1. Init => PipelineInit
  BY InitFollowsPipeline
<1>2. TypeOK /\ [Next]_vars => [PipelineNext]_pipelineVars
  BY NextFollowsPipeline
<1> QED
  BY <1>1, <1>2, TypeCorrect, PTL DEF Spec, SharesFollowThePipeline, PipelineSpec

\* So the posts of the app inherit the guarantees of the pipeline: every post
\* shows its own picture, one tap of Share makes at most one, and none is lost
\* once added.  If Firestore reports failures only of writes the server has
\* refused, a share that failed has left no post, and trying it again, as the
\* alert of CreateVC.swift 96 asks, makes no duplicate of it.
THEOREM PipelineGuarantees ==
  /\ Spec => /\ [](DocumentsShowTheirPicture /\ OneDocumentPerUpload)
             /\ WritesAreDurable
             /\ ImplementsPublication
  /\ WriteNoticesEnd = FALSE => (Spec => []FailedUploadLeavesNoDocument)
<1>1. Spec => /\ [](DocumentsShowTheirPicture /\ OneDocumentPerUpload)
              /\ WritesAreDurable
              /\ ImplementsPublication
  BY SharesFollowThePipelineHolds, DocumentsShowTheirPictureHolds, OneDocumentPerUploadHolds,
     WritesAreDurableHolds, ImplementsPublicationHolds, PTL DEF SharesFollowThePipeline
<1>2. ASSUME WriteNoticesEnd = FALSE
      PROVE  Spec => []FailedUploadLeavesNoDocument
  <2>1. PipelineSpec => []FailedUploadLeavesNoDocument
    BY <1>2, FailedUploadLeavesNoDocumentHolds
  <2> QED
    BY <2>1, SharesFollowThePipelineHolds, PTL DEF SharesFollowThePipeline
<1> QED
  BY <1>1, <1>2

-----------------------------------------------------------------------------
(* The captions.                                                           *)

\* addDocument makes no document but its own.
LEMMA AddDocumentAddsOne ==
  ASSUME PipelineTypeOK, NEW s \in Upload, NEW x \in Content, AddDocument(s, x),
         NEW d \in Documents'
  PROVE  d \in Documents \/ d = Written(s, x)
<1>1. /\ client \in User /\ Written(s, x) \in Document
      /\ queue' = [queue EXCEPT ![client] = Append(@, Written(s, x))]
      /\ collection' = collection
  BY DEF AddDocument, Written, Document, User, PipelineTypeOK
<1>2. \A u \in User : \A i \in 1..Len(queue'[u]) :
        \/ queue'[u][i] = Written(s, x)
        \/ i \in 1..Len(queue[u]) /\ queue'[u][i] = queue[u][i]
  BY <1>1, AppendWrite DEF PipelineTypeOK
<1> QED
  BY <1>1, <1>2 DEF Documents, QueuedDocuments

\* The server and its answers make no new document.
LEMMA StreamAddsNone ==
  ASSUME PipelineTypeOK, NEW u \in User,
         ServerApplies(u) \/ WriteAcknowledged(u) \/ WriteRejected(u),
         NEW d \in Documents'
  PROVE  d \in Documents
<1>1. CASE ServerApplies(u)
  BY <1>1 DEF ServerApplies, Documents, QueuedDocuments
<1>2. CASE WriteAcknowledged(u) \/ WriteRejected(u)
  <2>1. /\ queue[u] # <<>> /\ collection' = collection
        /\ queue' = [queue EXCEPT ![u] = Tail(@)]
    BY <1>2 DEF WriteAcknowledged, WriteRejected, StreamOpen, Answer
  <2>2. \A v \in User : \A i \in 1..Len(queue'[v]) :
          \/ v = u /\ i + 1 \in 1..Len(queue[u]) /\ queue'[v][i] = queue[u][i + 1]
          \/ v # u /\ i \in 1..Len(queue[v]) /\ queue'[v][i] = queue[v][i]
    BY <2>1, RemoveFirstWrite DEF PipelineTypeOK
  <2>3. ASSUME d \notin collection PROVE d \in QueuedDocuments
    <3>1. PICK v \in User : \E i \in 1..Len(queue'[v]) : d = queue'[v][i]
      BY <2>1, <2>3 DEF Documents, QueuedDocuments
    <3>2. PICK i \in 1..Len(queue'[v]) : d = queue'[v][i]
      BY <3>1
    <3>3. CASE v = u /\ i + 1 \in 1..Len(queue[u]) /\ d = queue[u][i + 1]
      BY <3>3 DEF QueuedDocuments
    <3>4. CASE i \in 1..Len(queue[v]) /\ d = queue[v][i]
      BY <3>4 DEF QueuedDocuments
    <3> QED
      BY <2>2, <3>2, <3>3, <3>4
  <2> QED
    BY <2>3 DEF Documents
<1> QED
  BY <1>1, <1>2

\* A new document of the app carries the caption the sheet posts, not its prompt.
LEMMA NewCaption ==
  ASSUME TypeOK, [Next]_vars, NEW d \in Documents'
  PROVE  d \in Documents \/ d.content # Placeholder
<1>1. ASSUME NEW s \in Upload, DownloadURLDone(s)
      PROVE  d \in Documents \/ d.content # Placeholder
  <2>1. PICK x \in Content : x = PostedCaption(origin[s]) /\ x # Placeholder
    BY CaptionAssumption DEF TypeOK, FormTypeOK, PipelineTypeOK, PostedCaption
  <2>2. AddDocument(s, x)
    BY <1>1, <2>1 DEF DownloadURLDone
  <2>3. Written(s, x).content = x
    BY DEF Written
  <2> QED
    BY <2>1, <2>2, <2>3, AddDocumentAddsOne DEF TypeOK
<1>2. ASSUME NEW u \in User, Stream(u) PROVE d \in Documents
  BY <1>2, StreamAddsNone DEF Stream, PostApplied, PostCreated, PostRefused, TypeOK
<1>3. ASSUME UNCHANGED <<queue, collection>> PROVE d \in Documents
  BY <1>3 DEF Documents, QueuedDocuments
<1>4. ASSUME NEW c \in Screen, Sheet(c) PROVE UNCHANGED <<queue, collection>>
  BY <1>4 DEF Sheet, AddBtnPressed, TextViewDidBeginEditing, TypeText,
     TextViewDidEndEditing, SelectImage, DidFinishPicking, CoverClosed, CancelBtnPressed,
     ShareBtnPressed, PutData, pipelineVars, storeVars
<1>5. ASSUME NEW s \in Upload, Share(s), ~DownloadURLDone(s)
      PROVE  UNCHANGED <<queue, collection>>
  BY <1>5 DEF Share, PutDataAnswers, DownloadURLAnswers, ImageStored, PutDataDone,
     PutDataFailed, DownloadURLFailed, UnwrapsNilUser, Die, StorageReceives,
     PutDataSucceeds, PutDataFails, DownloadURLFails, ProcessDies, storeVars
<1>6. ASSUME NEW a \in Account, UserSignedIn(a) PROVE UNCHANGED <<queue, collection>>
  BY <1>6 DEF UserSignedIn, SignedIn, storeVars
<1>7. ASSUME UserSignedOut \/ ClientNotified \/ Killed \/ Relaunched
      PROVE  UNCHANGED <<queue, collection>>
  BY <1>7 DEF UserSignedOut, ClientNotified, Killed, Relaunched, SignedOut,
     CredentialChanged, Die, ProcessDies, storeVars
<1>8. CASE UNCHANGED vars
  BY <1>3, <1>8 DEF vars, pipelineVars, storeVars
<1> QED
  BY <1>1, <1>2, <1>3, <1>4, <1>5, <1>6, <1>7, <1>8 DEF Next

\* The prompt of the caption field is never posted (CreateVC.swift 88-90),
\* whatever other shares of the sheet have put into the field meanwhile.
THEOREM PromptIsNeverPostedHolds == Spec => []PromptIsNeverPosted
<1>1. Init => PromptIsNeverPosted
  BY DEF Init, PipelineInit, PromptIsNeverPosted, Documents, QueuedDocuments
<1>2. TypeOK /\ PromptIsNeverPosted /\ [Next]_vars => PromptIsNeverPosted'
  BY NewCaption DEF PromptIsNeverPosted
<1> QED
  BY <1>1, <1>2, TypeCorrect, PTL DEF Spec

-----------------------------------------------------------------------------
(* Closing and clearing a sheet.                                           *)

\* Only the handler of an acknowledged write closes a sheet by itself.
LEMMA WhoClosesASheet ==
  ASSUME TypeOK, [Next]_vars, NEW c \in Screen,
         sheet'[c] = "completed", sheet[c] # "completed"
  PROVE  \E u \in User : WriteAcknowledged(u) /\ FirstScreen(u) = c
<1> USE DEF TypeOK, FormTypeOK, formVars
<1>1. ASSUME NEW u \in User, PostCreated(u)
      PROVE  WriteAcknowledged(u) /\ FirstScreen(u) = c
  BY <1>1 DEF PostCreated, ClearAndDismiss
<1>2. ASSUME NEW u \in User, PostApplied(u) \/ PostRefused(u) PROVE FALSE
  BY <1>2 DEF PostApplied, PostRefused, ShowErrorMessage
<1>3. ASSUME NEW d \in Screen, Sheet(d) PROVE FALSE
  BY <1>3 DEF Sheet, AddBtnPressed, TextViewDidBeginEditing, TypeText,
     TextViewDidEndEditing, SelectImage, DidFinishPicking, CoverClosed, CancelBtnPressed,
     ShareBtnPressed
<1>4. ASSUME NEW s \in Upload, Share(s) PROVE FALSE
  BY <1>4 DEF Share, PutDataAnswers, DownloadURLAnswers, ImageStored, PutDataDone,
     PutDataFailed, DownloadURLDone, DownloadURLFailed, ShowErrorMessage, UnwrapsNilUser, Die
<1>5. ASSUME NEW a \in Account, UserSignedIn(a) PROVE FALSE
  BY <1>5 DEF UserSignedIn
<1>6. CASE UserSignedOut \/ ClientNotified \/ Killed \/ Relaunched \/ UNCHANGED vars
  BY <1>6 DEF UserSignedOut, ClientNotified, Killed, Relaunched, Die, vars
<1> QED
  BY <1>1, <1>2, <1>3, <1>4, <1>5, <1>6 DEF Next, Stream

\* Every sheet that closed itself did so over a post of its own that is on the
\* server (CreateVC.swift 97-101).
THEOREM ClosedOnlyOverItsPostHolds == Spec => []ClosedOnlyOverItsPost
<1>1. Init => ClosedOnlyOverItsPost
  BY DEF Init, ClosedOnlyOverItsPost
<1>2. ASSUME TypeOK, PipelineInv, ClosedOnlyOverItsPost, [Next]_vars
      PROVE  ClosedOnlyOverItsPost'
  <2> SUFFICES ASSUME NEW c \in Screen, sheet'[c] = "completed"
               PROVE  \E d \in collection' : origin'[d.url] = c
    BY DEF ClosedOnlyOverItsPost
  <2>1. CASE sheet[c] = "completed"
    BY <1>2, <2>1, NextFollowsPipeline, DocumentsKeepTheirScreen DEF ClosedOnlyOverItsPost
  <2>2. CASE sheet[c] # "completed"
    BY <1>2, <2>2, WhoClosesASheet, AcknowledgedDocument
  <2> QED
    BY <2>1, <2>2
<1> QED
  BY <1>1, <1>2, TypeCorrect, SharesFollowThePipelineHolds, PipelineInvariant, PTL
     DEF Spec, SharesFollowThePipeline

\* No step clears the image of a sheet but the user's choice and the success
\* of a share of that sheet.
LEMMA WhoClearsAForm ==
  ASSUME TypeOK, PipelineInv, [Next]_vars, NEW c \in Screen, image'[c] # image[c]
  PROVE  cover[c] = "picker" \/ \E d \in collection : origin[d.url] = c
<1> USE DEF TypeOK, FormTypeOK, formVars
<1>1. ASSUME NEW u \in User, PostCreated(u)
      PROVE  \E d \in collection : origin[d.url] = c
  BY <1>1 DEF PostCreated, ClearAndDismiss, WriteAcknowledged, FirstScreen
<1>2. ASSUME NEW u \in User, PostApplied(u) \/ PostRefused(u) PROVE FALSE
  BY <1>2 DEF PostApplied, PostRefused, ShowErrorMessage
<1>3. ASSUME NEW d \in Screen, NEW p \in Image, DidFinishPicking(d, p)
      PROVE  cover[c] = "picker"
  BY <1>3 DEF DidFinishPicking
<1>4. ASSUME NEW d \in Screen, Sheet(d), ~\E p \in Image : DidFinishPicking(d, p)
      PROVE  FALSE
  BY <1>4 DEF Sheet, AddBtnPressed, TextViewDidBeginEditing, TypeText,
     TextViewDidEndEditing, SelectImage, CoverClosed, CancelBtnPressed, ShareBtnPressed
<1>5. ASSUME NEW s \in Upload, Share(s) PROVE FALSE
  BY <1>5 DEF Share, PutDataAnswers, DownloadURLAnswers, ImageStored, PutDataDone,
     PutDataFailed, DownloadURLDone, DownloadURLFailed, ShowErrorMessage, UnwrapsNilUser, Die
<1>6. ASSUME NEW a \in Account, UserSignedIn(a) PROVE FALSE
  BY <1>6 DEF UserSignedIn
<1>7. CASE UserSignedOut \/ ClientNotified \/ Killed \/ Relaunched \/ UNCHANGED vars
  BY <1>7 DEF UserSignedOut, ClientNotified, Killed, Relaunched, Die, vars
<1> QED
  BY <1>1, <1>2, <1>3, <1>4, <1>5, <1>6, <1>7 DEF Next, Stream

\* What WhoClearsAForm says of a step, for the temporal theorem.
OwnClearing ==
  \A c \in Screen :
    image'[c] # image[c] => cover[c] = "picker" \/ \E d \in collection : origin[d.url] = c

\* The late answer of a share clears its own sheet and no other
\* (CreateVC.swift 98-99).
THEOREM FormClearedOnlyByOwnPostHolds == Spec => FormClearedOnlyByOwnPost
<1>1. TypeOK /\ PipelineInv /\ [Next]_vars => OwnClearing
  BY WhoClearsAForm DEF OwnClearing
<1> QED
  BY <1>1, TypeCorrect, SharesFollowThePipelineHolds, PipelineInvariant, PTL
     DEF Spec, SharesFollowThePipeline, FormClearedOnlyByOwnPost, OwnClearing
=============================================================================
