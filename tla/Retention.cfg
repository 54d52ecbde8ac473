CONSTANTS
  Null = Null
  MaxBackups = 2
  MaxTime = 1
  MaxFaults = 1
  PolicySets <- MCPolicySets
SPECIFICATION FairSpec
INVARIANT TypeOK
INVARIANT RowHasObject
PROPERTY NewestKept
PROPERTY PolicyIsEnforced
CHECK_DEADLOCK FALSE
