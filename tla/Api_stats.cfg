SPECIFICATION Spec
CONSTANTS
  Ids = {i1}
  Bodies = {b1, b2}
  None = None
  Users = {u1, u2}
  Window = 2
  Zones = {0}
  DBZone = 0
  MaxClock = 4
  MaxHistory = 2
SYMMETRY Symmetry
PROPERTY StatsCountIncidents
