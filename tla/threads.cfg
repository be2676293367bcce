SPECIFICATION FairSpec
CONSTANTS
    User = {main, u}
    Main = main
    Net = net
    Free = free
    Layer = "network"
    May <- Upwards
    MaxCalls = 7
INVARIANTS
    TypeOK
    LocksAscend
    WalkedListsRest
    RunReturnsRunning
    NothingOutlivesIt
PROPERTIES
    CallsReturn
CHECK_DEADLOCK FALSE
