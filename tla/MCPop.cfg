CONSTANTS
    Letter = {l1, l2, l3}
    PopWorlds <- Worlds
    None = None
SYMMETRY Symmetry
SPECIFICATION PopSpec
INVARIANTS
    NumbersAreOfSession
    CacheIsOfMessage
PROPERTIES
    RemovedWereMarked
    
