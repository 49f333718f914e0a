SPECIFICATION Spec
CONSTANTS
  a = a
  b = b
  Names <- MCNames
  Links <- MCLinks
  Pools = {p, q}
  MaxObjs = 3
  MaxPeers = 1
  None = None
SYMMETRY Symmetry
INVARIANT KnownBlocksExist
CHECK_DEADLOCK FALSE
