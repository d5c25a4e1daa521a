CONSTANTS
    Letter = {l1, l2}
    MaxNum = 4
    MhWorlds <- Worlds
    None = None
SYMMETRY Symmetry
SPECIFICATION MhSpec
INVARIANTS
    MailKept
    UnseenKept
    AllShown
