CONSTANTS
  s1 = s1
  s2 = s2
  j1 = j1
  j2 = j2
  j3 = j3
  j4 = j4
  j5 = j5
  j6 = j6
  Instances <- MCOneInstance
  Jobs <- MCJobs
  CronOf <- MCCronOf
  Clock <- MCClock
  MaxConcurrent = 2
  MaxMinute = 1
  MaxCrashes = 1
  MaxSocks = 2
  Sessions = {e1, e2}
SPECIFICATION ServerSpec
INVARIANT TypeOK
INVARIANT SlotsConserved
INVARIANT PendingMirrorsQueue
INVARIANT OnlyWhenDue
INVARIANT LinkTypeOK
INVARIANT NeverInvisible
INVARIANT RevokedIsCutOff
PROPERTY QueueIsPool
PROPERTY WaitingIsServed
PROPERTY DeadEntryGoes
CHECK_DEADLOCK FALSE
