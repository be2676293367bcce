SPECIFICATION Spec
CONSTANTS
    a = a
    b = b
    c = c
    Peer = {a, b, c}
    NoPeer = NoPeer
    Reach <- AllPairs
    Rejects = {}
    Senders = {a}
    MaxSent = 2
    MaxLeaves = 0
    MaxTimeouts = 0
    MaxCrashes = 0
INVARIANTS
    DeliveredInOrder
    NoSelfCrash
CHECK_DEADLOCK FALSE
