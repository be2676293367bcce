SPECIFICATION SerialSpec
CONSTANTS
    a = a
    b = b
    c = c
    Peer = {a, b, c}
    NoPeer = NoPeer
    Reach <- AllPairs
    Rejects = {}
    Senders = {}
    MaxSent = 0
    MaxLeaves = 1
    MaxTimeouts = 0
    MaxCrashes = 1
PROPERTIES
    Converges
    DepartedIsForgotten
CHECK_DEADLOCK FALSE
