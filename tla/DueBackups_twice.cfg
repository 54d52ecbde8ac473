CONSTANTS
  s1 = s1
  s2 = s2
  j1 = j1
  j2 = j2
  j3 = j3
  j4 = j4
  j5 = j5
  j6 = j6
  Instances <- MCTwoInstances
  Jobs <- MCOneJob
  CronOf <- MCCronOf
  Clock <- MCClock
  MaxConcurrent = 1
  MaxMinute = 1
  MaxCrashes = 0
SPECIFICATION Spec
INVARIANT OnePerMinute
CHECK_DEADLOCK FALSE
