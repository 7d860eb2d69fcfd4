SPECIFICATION FairSpec
CONSTANTS
  a1 = a1
  a2 = a2
  t1 = t1
  t2 = t2
  Account = {a1, a2}
  NoAccount = NoAccount
  Blank = Blank
  Tap = {t1, t2}
  MaxPile = 4
INVARIANTS
  TypeOK
  NobodyIsStranded
  EntrancesAreEarned
PROPERTIES
  TapsAreAnswered
