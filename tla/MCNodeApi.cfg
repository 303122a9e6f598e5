SPECIFICATION Spec
CONSTANTS
  GAS_BASE_TX = 2
  GAS_DEPLOY = 2
  GAS_CALL = 1
  GAS_PER_BYTE = 1
  GAS_STORAGE_READ = 1
  GAS_STORAGE_WRITE = 2
  GAS_LOG = 1
  VOTING_PERIOD_EPOCHS = 1
  QUORUM_PERCENT = 50
  APPROVAL_PERCENT = 67
  MIN_EXECUTION_DELAY_BLOCKS = 1
  MinimumStake = 3
  EpochLength = 1
  UnstakeDelay = 1
  InitialBaseFee = 1
  BaseFeeChangeDenominator = 1
  BlockReward = 2
  BlockGasLimit = 6
  ChainId = ChainId
  NoData = NoData
  Empty = Empty
  Nobody <- MCNobody
  ZeroAddress <- MCZero
  Addresses <- MCAddresses
  Rejected <- MCRejected
  GenesisBalance <- MCBalance
  Proposer <- carol
  RESERVED_SYSTEM_SLOTS = 1
  MAX_PENDING_TRANSACTIONS_USER = 3
  MAX_PENDING_TRANSACTIONS_PER_ACCOUNT = 2
  MAX_PENDING_GAS_BUDGET_MULTIPLIER = 2
  MAX_PENDING_GAS_PER_ACCOUNT_MULTIPLIER = 2
  MAX_PENDING_NONCE_GAP = 1
  MAX_PENDING_TX_AGE_SECS = 1
  MAX_FUTURE_TX_TIME_SECS = 1
  MAX_CONTRACT_CODE_BYTES = 4
  PriorityGasUnit = 6
  SurchargeGasUnit = 3
  FaucetAddress <- tap
  FAUCET_AMOUNT = 5
  FaucetFee = 2
  FAUCET_COOLDOWN_SECS = 3
  FaucetIpCooldownSecs = 2
  Scenarios <- MCScenarios
INVARIANTS
  
  
  FaucetPaysOncePerCooldown
PROPERTIES
  NothingPendsForever
CHECK_DEADLOCK FALSE
