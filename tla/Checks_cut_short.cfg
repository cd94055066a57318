SPECIFICATION Spec
CONSTANTS
  Checks = {c1}
  Zones = {z1}
  MaxAttempts = 1
  MaxResends = 0
  Disturbances = {"postgres"}
INVARIANT AnswersComplete
