CONSTANTS
  b1 = b1
  b2 = b2
  None = None
  Backups <- MCBackups
  Spares <- MCSpares
  MaxConns = 2
  MaxIncidents = 1
SPECIFICATION FairSpec
INVARIANT TypeOK
INVARIANT CompletedIsDownloadable
PROPERTY DemotedOnlyByStaleRead
PROPERTY RecordKept
PROPERTY InProgressEnds
CHECK_DEADLOCK FALSE
