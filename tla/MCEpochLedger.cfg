CONSTANTS
  a1 = a1
  a2 = a2
  a3 = a3
  Addresses = {a1, a2, a3}
  SortedAddresses <- MCSorted
  GenesisBalance <- MCBalance
  GenesisStake <- MCStake
  MinimumStake = 2
  EpochLength = 2
  UnstakeDelay = 2
  BlockReward = 1
  BlockGasLimit = 2
  CurUnit = 2
  RewardRate = 1
  PenaltyRate = 1
  GraceEpochs = 1
  SlashPercent = 33
  JailDuration = 3
  MaxReorgDepth = 3
  Nodes = {a1, a2}
  Scenarios <- MCScenarios
  MaxHeight = 6
  MaxWait = 2
SPECIFICATION Spec
INVARIANTS
  ReplayMatchesLive
  ProducedIsAccepted
  SlotIsFilled
  BroadcastIsAccepted
 
CHECK_DEADLOCK FALSE
