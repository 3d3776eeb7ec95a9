SPECIFICATION FairSpec
CONSTANTS
  Keys = {k1, k2}
  Values = {v, w}
  None = None
  NumGroups = 2
  GroupOf <- MCGroupOf
  BufSize = 2
  SyncSize = 1
  SeqSize = 2
INVARIANTS CacheIsTable AnswersMatch
PROPERTIES CacheSettles CacheServiceKept
