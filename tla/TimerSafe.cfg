SPECIFICATION FairSpec
CONSTANTS
  Timers <- MCTimers
  Blocks <- MCBlocks
  OwnerOf <- MCOwnerOf
  Period <- MCPeriod
  Sources <- MCOneSource
  Clocks <- MCBothClocks
  MaxTime = 2
  MaxStarts = 2
  NoTimer = NoTimer
  t1 = t1
  t2 = t2
  k1 = k1
  k2 = k2
  s1 = s1
INVARIANTS TypeOK OneShotOnce NoDanglingTimer DownIsQuiet
PROPERTIES FirstRunFires StopBmReturns 
CHECK_DEADLOCK FALSE
