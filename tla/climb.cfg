SPECIFICATION ClimbSpec
CONSTANTS
    Peer <- Peers
    NoPeer = NoPeer
    Reach <- NotToSeven
    Rejects = {}
    Senders = {}
    MaxSent = 0
    MaxLeaves = 0
    MaxTimeouts = 0
    MaxCrashes = 0
INVARIANTS
    DistanceBounded
CHECK_DEADLOCK FALSE
