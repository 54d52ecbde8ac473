CONSTANTS
  j1 = j1
  j2 = j2
  None = None
  Jobs <- MCJobs
  CmdCap = 1
  ProgressCap = 1
  MaxConns = 2
SPECIFICATION FairSpec
INVARIANT TypeOK
INVARIANT OneAtATime
PROPERTY HungIsForever
PROPERTY OnlyHungStops
CHECK_DEADLOCK FALSE
