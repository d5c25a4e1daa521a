CONSTANTS
    MaxEmail = 4
    MaxId = 4
    Worlds <- All
SPECIFICATION Spec
INVARIANTS
    NoCycle
    EmptyHaveChildren
    UnlinksFromTop
    AllListed
    OwnHeaderDecides
    
