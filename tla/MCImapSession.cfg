CONSTANTS
    Slots = 3
    SeqMod = 4
    Ops = {"sync", "queue", "flush", "poll", "loop"}
    Results = {"OK", "NO"}
    Orders = {TRUE, FALSE}
    DONE = DONE
    Nil = Nil
SPECIFICATION Spec
INVARIANTS
    TypeOK
    AwaitedAreOwed
    ExecWaitsForAnswer
    OneRecovery
    
    RingInv
PROPERTY
    ImplementsPipeline
