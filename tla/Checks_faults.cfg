SPECIFICATION LSpec
CONSTANTS
  Checks = {c1, c2}
  Zones = {z1}
  MaxAttempts = 2
  MaxResends = 1
  Disturbances = {"redis", "postgres", "receiver", "process"}
SYMMETRY Symmetry
INVARIANTS
  CheckInv AccountInv ReportsMatchChecks DeliveriesBounded
  NothingVanishes AttemptsWithinBudget StopLosesAtMostOne
PROPERTIES KeepsAlertPromise CirclesOnlyWithoutRedis
