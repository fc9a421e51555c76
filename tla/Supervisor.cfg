SPECIFICATION FairSpec
CONSTANTS
  Calls = {s1, s2}
  MaxChildren = 1
  MaxRestarts = 1
  Window = 1
  WallClock = 2
  HeartbeatTimeout = 1
  MaxTime = 4
INVARIANTS
  LiveWithinPermits
  ReportsAreEarned
  RestartRate
PROPERTIES
  CancelEnds
CHECK_DEADLOCK FALSE
