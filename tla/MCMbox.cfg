CONSTANTS
    Message = {m1, m2, m3}
    Length <- TwoBlocks
    LockType = "flock"
    Environments <- Both
SYMMETRY Symmetry
SPECIFICATION Spec
INVARIANTS
    NoMailLost
    ViewMatchesFile
    SyncFindsChange
PROPERTY SyncWritesView
