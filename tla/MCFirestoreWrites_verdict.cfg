\* Four writes; a failed write operation may notice the end of a call before
\* its last answers are read.
SPECIFICATION Spec
CONSTANTS
  u1 = u1
  u2 = u2
  d1 = d1
  d2 = d2
  d3 = d3
  d4 = d4
  User = {u1, u2}
  Doc = {d1, d2, d3, d4}
  NoToken = NoToken
  MaxPendingWrites = 4
  WriteNoticesEnd = TRUE
SYMMETRY Symmetry
INVARIANTS
  FailedIsRefused
