SPECIFICATION Spec
CONSTANTS
    a = a
    b = b
    c = c
    Peer = {a, b, c}
    NoPeer = NoPeer
    Reach <- OneWay
    Rejects = {}
    Senders = {a}
    MaxSent = 2
    MaxLeaves = 0
    MaxTimeouts = 0
    MaxCrashes = 1
INVARIANTS
    BridgesArePaired
    PrivateOnce
CHECK_DEADLOCK FALSE
