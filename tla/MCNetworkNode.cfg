SPECIFICATION Spec
CONSTANTS
    SYNC_BATCH_SIZE = 2
    MAX_SYNC_RETRIES = 2
    SYNC_STABLE_TICKS_BEFORE_PRODUCTION = 2
    MAX_BUFFERED_PRE_MANIFEST_CHUNKS = 2
    MAX_PENDING_BROADCASTS = 2
    ChunkBlocks = 2
    Checkpoints <- MCCheckpoints
    Upgrades = {6}
    PEER_RATE_LIMIT_WINDOW_SECS = 1
    PEER_MAX_MESSAGES_PER_WINDOW = 2
    PEER_BAN_DURATION_SECS = 2
    PEER_MAX_TRACKED = 1
    PEER_SCORE_INITIAL = 2
    PEER_SCORE_MAX = 3
    PEER_SCORE_MIN <- MC_PEER_SCORE_MIN
    PEER_SCORE_BAN_THRESHOLD <- MC_PEER_SCORE_BAN_THRESHOLD
    PEER_SCORE_DECAY_PER_TICK = 1
    SCORE_VALID_BLOCK = 1
    SCORE_VALID_TX = 1
    SCORE_INVALID_BLOCK <- MC_SCORE_INVALID_BLOCK
    SCORE_INVALID_TX <- MC_SCORE_INVALID_TX
    SCORE_RATE_LIMITED <- MC_SCORE_RATE_LIMITED
    STALE_SCORE_SECS = 3
    PEERSTORE_MAX_PEERS = 2
    Scenarios <- MCScenarios
    OwnMark = "b"
INVARIANTS
    SyncedChainIsLinked
    PeersAreHeldToTheRate
PROPERTIES
    
    PeerstoreKeepsTheNewest
    NodeCatchesUp
CHECK_DEADLOCK FALSE
