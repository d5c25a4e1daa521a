CONSTANTS
    Letter = {l1, l2}
    MdWorlds <- Moving
SYMMETRY Symmetry
SPECIFICATION MaildirSpec
INVARIANT DisappearedAreGone
