CONSTANTS
  k1 = k1  k2 = k2  x1 = x1  env = env
  Call = {k1, k2}
  Key = {x1}
  LaunchKey = env
  None = None
  MaxStarts = 3
  MaxFaults = 1
  MaxLog = 2
SPECIFICATION FairSpec
INVARIANT VaultTypeOK
INVARIANT RestoreIsExclusive
INVARIANT AuditVerifies
INVARIANT ResetHitsItsWorkspace
INVARIANT AgentKeyIsTheVaults
PROPERTY RestoredVaultStays
PROPERTY VaultCallsEnd
CHECK_DEADLOCK FALSE
