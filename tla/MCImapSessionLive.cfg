CONSTANTS
    Slots = 6
    SeqMod = 6
    Ops = {"sync", "poll"}
    Results = {"OK", "NO"}
    Orders = {TRUE}
    DONE = DONE
    Nil = Nil
SPECIFICATION LiveSpec
PROPERTY OperationsEnd
