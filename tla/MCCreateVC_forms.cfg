\* Two sheets and two shares of one account: late answers against the forms.
SPECIFICATION Spec
CONSTANTS
  c1 = c1
  c2 = c2
  s1 = s1
  s2 = s2
  a1 = a1
  a2 = a2
  photo = photo
  broken = broken
  note = note
  Screen = {c1, c2}
  Upload = {s1, s2}
  Account = {a1}
  NoAccount = NoAccount
  Picture = {DefaultImage, photo}
  NoBlob = NoBlob
  WriteNoticesEnd = TRUE
  Content = {Blank, Placeholder, note}
  Image = {DefaultImage, photo}
  DefaultImage = DefaultImage
  Blank = Blank
  Placeholder = Placeholder
SYMMETRY Symmetry
INVARIANTS
  TypeOK
  PromptIsNeverPosted
  ClosedOnlyOverItsPost
PROPERTIES
  FormClearedOnlyByOwnPost
