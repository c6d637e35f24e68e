SPECIFICATION Spec
CONSTANTS
  Requests = {r1}
  MaxArrivals = 3
  MaxForeign = 1
  Names <- MCNames
  Lower <- MCLower
  Props <- MCProps
  Foreign <- MCForeign
  None = None
PROPERTIES ReplacementRecorded
CHECK_DEADLOCK FALSE
