SPECIFICATION Spec
CONSTANTS
    a = a
    b = b
    c = c
    Peer = {a, b, c}
    NoPeer = NoPeer
    Reach <- AllPairs
    Rejects <- Refusal
    Senders = {a}
    MaxSent = 1
    MaxLeaves = 1
    MaxTimeouts = 1
    MaxCrashes = 1
INVARIANTS
    TypeOK
    KeysAgree
    ThreadState
    EofIsLast
    HalfOpenEnds
    NoStrayConnection
    OneConnectionPerPair
CHECK_DEADLOCK FALSE
