CONSTANTS
  j1 = j1
  j2 = j2
  None = None
  Jobs <- MCOneJob
  CmdCap = 1
  ProgressCap = 0
  MaxConns = 1
SPECIFICATION FairSpec
CHECK_DEADLOCK FALSE
PROPERTY WatchdogEnds
