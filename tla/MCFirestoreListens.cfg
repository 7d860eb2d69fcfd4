\* One query, two documents, three versions of the database, room for one
\* document in limbo; the server may refuse the query.
SPECIFICATION FairSpec
CONSTANTS
  posts = posts
  d1 = d1
  d2 = d2
  Doc = {d1, d2}
  Query = {posts}
  Matches <- AllMatch
  MaxConcurrentLimboResolutions = 1
  MaxVersion = 3
  MaxLimboTargets = 2
  StaleReads = FALSE
  Refusable = {posts}
INVARIANTS
  TypeOK
  ResumeIsSafe
  LimboIsResolved
  WatchesInStep
  AssertionsHold
PROPERTIES
  SyncedUnlessFilterFails
  ListenersConverge
