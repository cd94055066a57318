SPECIFICATION Spec
CONSTANTS
  Ids = {i1, i2, i3, i4}
  Times = {1, 2, 3}
  MaxInt = 7
  DefaultLimit = 2
  WalkLimits = {1, 2}
SYMMETRY Symmetry
INVARIANTS TypeOK WalkMissesNothing WalkRepeatsOnlyAfterInserts PagesAreHonest
