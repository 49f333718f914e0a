SPECIFICATION FairSettledSpec
CONSTANTS
  Pools <- MCPools
  Size <- MCSize
  Blocks <- MCThreeBlocks
  NoBlock = NoBlock
  NoPool = NoPool
  b1 = b1
  b2 = b2
  b3 = b3
INVARIANT Quiescent
PROPERTIES NoStarvation StopReturns
