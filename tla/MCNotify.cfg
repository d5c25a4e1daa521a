CONSTANTS
    Handler = {h1, h2}
    Callback = {f, g}
    Type = {t, u}
    NT_ALL = NT_ALL
    Node = {n1, n2, n3, n4}
    Null = Null
    MaxDepth = 3
    Disciplined = TRUE
SPECIFICATION Spec
SYMMETRY Symmetry
INVARIANTS
    OneNodePerCallback
    WalksAllocatedNodes
    EveryObserverCalled
PROPERTY OnlyOwedCalled
