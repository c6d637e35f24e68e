SPECIFICATION Spec
CONSTANTS
  Requests = {r1, r2}
  MaxArrivals = 3
  MaxForeign = 1
  Names <- MCNames
  Lower <- MCLower
  Props <- MCProps
  Foreign <- MCForeign
  None = None
SYMMETRY Symmetry
INVARIANTS TypeOK SourceHasTable
PROPERTIES TakesEffect NothingLost
CHECK_DEADLOCK FALSE
