SPECIFICATION TimedSpec
CONSTANTS
  Senders <- MCSenders
  Qlen = 2
  MaxSend = 6
  s1 = s1
  s2 = s2
INVARIANTS TypeOK Accounted
PROPERTIES  StopFreesSenders
CHECK_DEADLOCK FALSE
