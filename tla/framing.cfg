SPECIFICATION FairSpec
CONSTANTS
    SubMax = 2
    BufferLength = 6
    Packet <- Packets_
    MaxSent = 3
INVARIANTS
    TypeOK
    EveryByteCounts
PROPERTIES
    PacketStream
CHECK_DEADLOCK FALSE
