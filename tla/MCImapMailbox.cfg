CONSTANTS
    MaxUid = 3
    Old = 1
    MaxWire = 2
    Scenarios <- Scens
SPECIFICATION LiveSpec
INVARIANTS
    NumbersAgree
    TableMatchesIndex
    SyncedFlags
    LocalChangesKept
PROPERTIES
    UndeletedSurvive
    NewMailShown
