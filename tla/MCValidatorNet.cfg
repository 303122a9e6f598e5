CONSTANTS
  g = g
  a1 = a1
  a2 = a2
  b1 = b1
  b2 = b2
  b3 = b3
  v1 = v1
  v2 = v2
  v3 = v3
  Blocks <- MCBlocks
  Genesis = g
  PrevHash <- MCPrevHash
  HeightOf <- MCHeightOf
  EpochLength = 1
  EpochStake <- MCEpochStake
  MaxU64 = 6
  NoBlock = NoBlock
  Valid <- ShortValid
  StakeOf <- EqualStakeOf
  MaxReorgDepth = 64
  AsyncPersistence = TRUE
  Validators = {v1, v2, v3}
  Proposer <- MCProposer
SPECIFICATION Spec
INVARIANTS
  OneSignedVotePerHeight
  SameHeightAgreement
