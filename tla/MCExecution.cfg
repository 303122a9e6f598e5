SPECIFICATION Spec
CONSTANTS
  GAS_BASE_TX = 2
  GAS_DEPLOY = 2
  GAS_CALL = 1
  GAS_PER_BYTE = 1
  GAS_STORAGE_READ = 1
  GAS_STORAGE_WRITE = 2
  GAS_LOG = 1
  VOTING_PERIOD_EPOCHS = 1
  QUORUM_PERCENT = 50
  APPROVAL_PERCENT = 67
  MIN_EXECUTION_DELAY_BLOCKS = 1
  MinimumStake = 3
  EpochLength = 1
  UnstakeDelay = 1
  InitialBaseFee = 1
  BaseFeeChangeDenominator = 8
  BlockReward = 2
  BlockGasLimit = 40
  ChainId = ChainId
  NoData = NoData
  Empty = Empty
  Nobody <- MCNobody
  ZeroAddress <- MCZero
  Addresses <- MCAddresses
  Rejected <- MCRejected
  GenesisBalance <- MCBalance
  GenesisStake <- MCStake
  Proposer <- carol
  Menus <- MCMenus
INVARIANTS
  
  TokenSupplyIsHeld
  ContractStorageIsConsistent
  VotesAreBacked
CHECK_DEADLOCK FALSE
