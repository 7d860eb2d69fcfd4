\* Two forms and two uploads of one account: late answers against the pile of forms.
SPECIFICATION Spec
CONSTANTS
  c1 = c1
  c2 = c2
  s1 = s1
  s2 = s2
  a1 = a1
  a2 = a2
  face = face
  broken = broken
  word = word
  Screen = {c1, c2}
  Upload = {s1, s2}
  Account = {a1}
  NoAccount = NoAccount
  Picture = {PPPlaceholder}
  NoBlob = NoBlob
  WriteNoticesEnd = TRUE
  Content <- Profiles
  Text = {Blank, word}
  Blank = Blank
  Image = {PPPlaceholder}
  PPPlaceholder = PPPlaceholder
SYMMETRY Symmetry
INVARIANTS
  TypeOK
  MainOnlyOverItsProfile
