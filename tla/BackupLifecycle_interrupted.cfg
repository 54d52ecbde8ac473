CONSTANTS
  b1 = b1
  b2 = b2
  None = None
  Backups <- MCOneBackup
  Spares <- MCNoSpares
  MaxConns = 2
  MaxIncidents = 0
SPECIFICATION Spec
INVARIANT InterruptedIsNotRunning
CHECK_DEADLOCK FALSE
