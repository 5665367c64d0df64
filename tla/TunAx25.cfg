CONSTANTS
    Packets <- SomePackets
    Datagrams <- SomeAndEmpty
    Garbage <- BadFrames
    Mtu = 4
    MaxFrames = 2
    MaxDgrams = 2
    MaxFaults = 1
SPECIFICATION Spec
INVARIANTS
    FramesInOrderUpToCommand
    NoFrameLost
    PtyStreamDecodes
CHECK_DEADLOCK FALSE
