SPECIFICATION FairSpec
CONSTANTS
    Bits = 2
    CharOne = 3
    CharZero = 2
    Exponent <- Exponent_
    Mantissa <- Mantissa_
    User = {u}
    Net = net
    Free = free
    Class <- Class_
    Object <- Object_
    ObjectOctets <- ObjectOctets_
    HashOf <- HashOf_
    PacketHash <- PacketHash_
    Message <- Message_
    Registrar = {u, net}
    MaxSent = 2
    MaxIds = 2
    MaxSelf = 1
    MaxRest = 2
INVARIANTS
    TypeOK
    ListsAgree
    RemovalIsConfirmed
    WalksOwnList
PROPERTIES
    ObjectsAreDelivered
    AllHandled
CHECK_DEADLOCK FALSE
