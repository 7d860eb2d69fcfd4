\* One query, two documents: what the disk keeps after an existence filter that
\* did not match.
SPECIFICATION Spec
CONSTANTS
  posts = posts
  d1 = d1
  d2 = d2
  Doc = {d1, d2}
  Query = {posts}
  Matches <- AllMatch
  MaxConcurrentLimboResolutions = 1
  MaxVersion = 2
  MaxLimboTargets = 2
  StaleReads = FALSE
  Refusable = {}
INVARIANTS
  KeysFollowToken
