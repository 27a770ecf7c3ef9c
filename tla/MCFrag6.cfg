CONSTANTS
    k1 = k1
    k2 = k2
    Key = {k1, k2}
    Unfrg <- MCUnfrg
    Total <- MCTotal
    MaxPacket = 3
    FragTtl = 2
    Ecn <- MCEcn
    PacketLimit <- MCPacketLimit
    FragLimit <- MCFragLimit
    MaxLost = 1
    NoQueue = NoQueue
    NoPacket = NoPacket
SPECIFICATION FairSpec
INVARIANTS FragsDisjoint  EcnKept FragsCounted
PROPERTIES OldestFirst QueueEnds
CHECK_DEADLOCK FALSE
