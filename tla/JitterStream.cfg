SPECIFICATION FairSpec
CONSTANTS
    NumSpace = 16
    NoSeq = NoSeq
    StartFill = 2
    PopFrames = 2
    GapFrames = 2
    FirstSeqs = {15}
    PacketSizes = {1, 2, 3}
    MaxRecv = 2
    MaxPackets = 4
    MaxPushes = 3
    MaxRestarts = 1
INVARIANTS
    TypeOK
    StatsAddUp
PROPERTIES
    PlaysForward
    SkipsOnlyRepeats
    NewestIsKept
    KeepsTime
    QuitEnds
CHECK_DEADLOCK FALSE
