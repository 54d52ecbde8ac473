SPECIFICATION UptimeSpec
CONSTANTS
  Day = 2
  Days = 3
  Heartbeat = 5
INVARIANT UptimeCountsAll
