SPECIFICATION FairTrafficSpec
CONSTANTS
  Checks = {c1, c2}
  Zones = {z1}
  MaxAttempts = 2
  MaxResends = 0
  Disturbances = {"redis", "postgres", "client", "receiver", "process"}
PROPERTIES ChecksFinish StopEnds QueueDrains DangerIsReported
