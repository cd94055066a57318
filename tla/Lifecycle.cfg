SPECIFICATION FairSpec
CONSTANTS
  Handlers = {h1}
  MaxCalls = 2
  MaxAttempts = 2
  BuffSize = 2
  Thresholds = {"info", "error"}
INVARIANTS LifecycleInv CleanExit SilencedOnlyAtStop
PROPERTIES RequestsEnd StopEnds StopNeedsNoDeadline FailureIsWritten
CHECK_DEADLOCK FALSE
