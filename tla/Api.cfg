SPECIFICATION Spec
CONSTANTS
  Ids = {i1}
  Bodies = {b1, b2}
  None = None
  Users = {u1, u2}
  Window = 2
  Zones = {0, 1}
  DBZone = 0
  MaxClock = 4
  MaxHistory = 2
SYMMETRY Symmetry
INVARIANTS StatsWithinSkew DocumentedAnswers 
PROPERTY RefusedChangesNothing
