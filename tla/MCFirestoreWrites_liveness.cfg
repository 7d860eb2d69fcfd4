\* Two writes, two users, room for one write in the pipeline; failed write
\* operations notice the end of calls.
SPECIFICATION FairSpec
CONSTANTS
  u1 = u1
  u2 = u2
  d1 = d1
  d2 = d2
  d3 = d3
  d4 = d4
  User = {u1, u2}
  Doc = {d1, d2}
  NoToken = NoToken
  MaxPendingWrites = 1
  WriteNoticesEnd = TRUE
PROPERTIES
  WritesAreAnswered
