SPECIFICATION Spec
CONSTANTS
  Pools <- MCPools
  Size <- MCSize
  Blocks <- MCTwoBlocks
  NoBlock = NoBlock
  NoPool = NoPool
  b1 = b1
  b2 = b2
  b3 = b3
INVARIANTS TypeOK ExclusiveRun
