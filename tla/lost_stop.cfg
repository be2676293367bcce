SPECIFICATION FairSpec
CONSTANTS
    User = {main}
    Main = main
    Net = net
    Free = free
    Layer = "peer_manager"
    May <- Upwards
    MaxCalls = 2
PROPERTY DisconnectStops
CHECK_DEADLOCK FALSE
