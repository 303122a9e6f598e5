CONSTANTS
  g = g
  a1 = a1
  a2 = a2
  b2 = b2
  a3 = a3
  a4 = a4
  v1 = v1
  v2 = v2
  v3 = v3
  Blocks <- MCBlocks
  Genesis = g
  PrevHash <- MCPrevHash
  HeightOf <- MCHeightOf
  EpochLength = 2
  EpochStake <- MCEpochStake
  MaxU64 = 8
  NoBlock = NoBlock
  Votes <- MCVotes
SPECIFICATION Spec
INVARIANTS
  QuorumBehindFinality
  OneVotePerHeight
  NoQuorumLeftBehind
