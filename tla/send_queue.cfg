SPECIFICATION FairSpec
CONSTANTS
    MaxConnections = 3
    MaxSent = 3
INVARIANTS
    TypeOK
    OneChain
    OwnInOrder
PROPERTIES
    FirstIsStream
    QueueEmpties
CHECK_DEADLOCK FALSE
