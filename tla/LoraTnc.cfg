CONSTANTS
    Packets <- OnePacket
    Garbage <- BadFrames
    MaxFrames = 2
    MaxHeard = 1
    MaxRefusals = 1
    MaxErrors = 1
SPECIFICATION FairSpec
INVARIANTS
    EveryFrameReachesSend
    TransmittedAreFrames
    HeardReachesPty
    DeafOnlyAfterRefusalOrSwallow
    FlagIsTrueAtRest
PROPERTIES
    TransmissionEnds
CHECK_DEADLOCK FALSE
