CONSTANTS
    Message = {m1, m2}
    Length <- TwoBlocks
    LockType = "fcntl"
    Environments <- Saved
SYMMETRY Symmetry
SPECIFICATION Spec
INVARIANT NoMailLost
