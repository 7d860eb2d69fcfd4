\* Three writes, two users, a pipeline of two: the third write waits for room.
SPECIFICATION Spec
CONSTANTS
  u1 = u1
  u2 = u2
  d1 = d1
  d2 = d2
  d3 = d3
  d4 = d4
  User = {u1, u2}
  Doc = {d1, d2, d3}
  NoToken = NoToken
  MaxPendingWrites = 2
  WriteNoticesEnd = FALSE
SYMMETRY Symmetry
INVARIANTS
  TypeOK
  IdsAreUnique
  PipelineIsFull
  AnswersFollowPipeline
  AssertionsHold
  SavedIsCommitted
  FailedIsRefused
PROPERTIES
  ImplementsDurableWrites
