SPECIFICATION FairTrafficSpec
CONSTANTS
  Checks = {c1, c2}
  Zones = {z1}
  MaxAttempts = 1
  MaxResends = 0
  Disturbances = {}
PROPERTY DangerReachesPortal
