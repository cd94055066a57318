SPECIFICATION Spec
CONSTANTS
  Ids = {i1}
  Bodies = {b1, b2}
  None = None
  Handlers = {h1}
  MaxAttempts = 1
  CacheRetrySize = 1
  Disturbances = {"redis"}
PROPERTY RetryKeepsCacheFresh
