CONSTANTS
  g = g
  a1 = a1
  a2 = a2
  a3 = a3
  a4 = a4
  b3 = b3
  b4 = b4
  c1 = c1
  c2 = c2
  c3 = c3
  x2 = x2
  v1 = v1
  v2 = v2
  v3 = v3
  Blocks <- MCBlocks
  Genesis = g
  PrevHash <- MCPrevHash
  HeightOf <- MCHeightOf
  EpochLength = 2
  EpochStake <- MCEpochStake
  MaxU64 = 8
  NoBlock = NoBlock
  Valid <- MCValid
  StakeOf <- MCStakeOf
  MaxReorgDepth = 2
  AsyncPersistence = TRUE
  Me = v1
  Votes <- MCVotes
  MaxRestarts = 1
SPECIFICATION Spec
INVARIANTS
  
  RecordsAgree
  ChainEpochsAreFrozen
