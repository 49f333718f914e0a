SPECIFICATION FairSpec
CONSTANTS
  Timers <- MCTimers
  Blocks <- MCBlocks
  OwnerOf <- MCOwnerOf
  Period <- MCPeriod
  Sources <- MCNoSource
  Clocks <- MCWall
  MaxTime = 2
  MaxStarts = 2
  NoTimer = NoTimer
  t1 = t1
  t2 = t2
  k1 = k1
  k2 = k2
  s1 = s1
PROPERTY DueTimersFire
CHECK_DEADLOCK FALSE
