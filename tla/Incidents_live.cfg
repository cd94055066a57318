SPECIFICATION FairCSpec
CONSTANTS
  Ids = {i1}
  Bodies = {b1, b2}
  None = None
  Handlers = {h1}
  MaxAttempts = 2
  CacheRetrySize = 1
  Disturbances = {"redis", "postgres", "client", "process"}
INVARIANTS IInv CohInv
PROPERTIES RequestsFinish BacklogDrains RequestsAdvance BacklogShrinks ImplementsTableButTainted
