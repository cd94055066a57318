SPECIFICATION CSpec
CONSTANTS
  Ids = {i1}
  Bodies = {b1, b2}
  None = None
  Handlers = {h1, h2}
  MaxAttempts = 1
  CacheRetrySize = 0
  Disturbances = {"redis", "postgres", "process"}
SYMMETRY Symmetry
INVARIANTS BackedByRow StaleOnlyThroughDoors
PROPERTIES KeepsRows RetryKeepsCacheFreshButTainted ImplementsTableButTainted
