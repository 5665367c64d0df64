CONSTANTS
    Packets <- OnePacket
    Datagrams <- SomeAndEmpty
    Garbage <- NoGarbage
    Mtu = 3
    MaxFrames = 1
    MaxDgrams = 2
    MaxFaults = 1
SPECIFICATION FairSpec
PROPERTIES
    BothDirectionsProgress
CHECK_DEADLOCK FALSE
