SPECIFICATION FairNormalSpec
CONSTANTS
  Pools <- MCOne
  Size <- MCTwoThreads
  Blocks <- MCThreeBlocks
  NoBlock = NoBlock
  NoPool = NoPool
  b1 = b1
  b2 = b2
  b3 = b3
PROPERTY StopReturns
