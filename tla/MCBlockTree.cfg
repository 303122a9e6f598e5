CONSTANTS
  g = g
  a1 = a1
  a2 = a2
  a3 = a3
  b1 = b1
  b2 = b2
  c2 = c2
  x2 = x2
  Blocks <- MCBlocks
  Genesis = g
  PrevHash <- MCPrevHash
  HeightOf <- MCHeightOf
  Stakes <- MCStakes
SPECIFICATION TreeSpec
INVARIANTS
  HeaviestTip
  NoConflictingBranch
PROPERTY ImplementsFinality
