CONSTANTS
  None = None
  MaxStages = 2
  MaxApps = 3
  Setups <- MCSetups
  Limit = 1
  MaxTime = 2
  MaxRare = 1
  MaxChanges = 4
  MaxRequests = 2
SPECIFICATION Spec
INVARIANT ListIsPrefix
INVARIANT HistoryIsPath
CHECK_DEADLOCK FALSE
