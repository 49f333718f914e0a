SPECIFICATION FairTimelySpec
CONSTANTS
  p1 = p1
  p2 = p2
  p3 = p3
  NoMsg = NoMsg
  Producers <- MCTwo
  Qlen = 2
  SlotSpan = 1024
  MaxPush = 4
INVARIANTS TypeOK SlotExclusion FifoPerProducer
PROPERTIES MsgQueueSpec EveryMessageDelivered
