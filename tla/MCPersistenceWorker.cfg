CONSTANTS
  Capacity = 2
  NoState = NoState
  MaxBlocks = 2
  MaxFinalized = 2
  MaxPending = 1
  MaxEvidence = 1
  MaxFailures = 1
  MaxCrashes = 1
SPECIFICATION FairSpec
INVARIANTS
  NoSleepingSlot
  
PROPERTIES
  StoredChainNeverOlder
  FullStateReachesDisk
CHECK_DEADLOCK FALSE
