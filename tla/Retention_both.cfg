CONSTANTS
  Null = Null
  MaxBackups = 2
  MaxTime = 1
  MaxFaults = 0
  PolicySets <- MCBothRules
SPECIFICATION Spec
CHECK_DEADLOCK FALSE
PROPERTY BothRulesAgree
