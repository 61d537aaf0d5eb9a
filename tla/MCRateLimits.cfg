CONSTANTS
  d1 = d1  d2 = d2
  Domain = {d1, d2}
  HourLength = 2
  DayLength = 5
  Policies <- MCPolicies
  MaxTime = 7
  MaxRows = 3
  MaxPolicies = 1
SPECIFICATION Spec
INVARIANT PacingHolds
INVARIANT ReadinessIsHonest
CHECK_DEADLOCK FALSE
