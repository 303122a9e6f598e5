SPECIFICATION Spec
CONSTANTS
    Scenarios <- MCScenarios
    EpochLength = 2
    HeaderLimit = 1
    TrieDepth = 3
    StateAt <- MCStateAt
INVARIANTS
    
    
    
    LightHeadersAreAChain
    ProofsBindTheState
    RootsTellStatesApart
PROPERTIES
    LightCatchesUp
CHECK_DEADLOCK FALSE
