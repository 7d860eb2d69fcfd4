\* One sheet, two shares, two accounts, two pictures, no symmetry: the sheet
\* against the pipeline, and what must happen in the end.
SPECIFICATION FairSpec
CONSTANTS
  c1 = c1
  c2 = c2
  s1 = s1
  s2 = s2
  a1 = a1
  a2 = a2
  photo = photo
  broken = broken
  note = note
  Screen = {c1}
  Upload = {s1, s2}
  Account = {a1, a2}
  NoAccount = NoAccount
  Picture = {DefaultImage, photo}
  NoBlob = NoBlob
  WriteNoticesEnd = FALSE
  Content = {Blank, Placeholder}
  Image = {DefaultImage, photo}
  DefaultImage = DefaultImage
  Blank = Blank
  Placeholder = Placeholder
INVARIANTS
  PipelineInv
  DocumentsShowTheirPicture
  OneDocumentPerUpload
  FailedUploadLeavesNoDocument
PROPERTIES
  WritesAreDurable
  ImplementsPublication
  UploadsSettle
  QueueDrains
