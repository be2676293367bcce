SPECIFICATION Spec
CONSTANTS
    a = a
    b = b
    c = c
    Peer = {a, b, c}
    NoPeer = NoPeer
    Reach <- Apart
    Rejects = {}
    Senders = {}
    MaxSent = 0
    MaxLeaves = 0
    MaxTimeouts = 0
    MaxCrashes = 0
INVARIANTS
    NoSelfCrash
CHECK_DEADLOCK FALSE
