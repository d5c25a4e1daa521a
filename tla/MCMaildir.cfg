CONSTANTS
    Letter = {l1, l2}
    MdWorlds <- Worlds
SYMMETRY Symmetry
SPECIFICATION MaildirSpec
INVARIANTS
    LettersKept
    AllShown
