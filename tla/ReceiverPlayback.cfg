SPECIFICATION FairSpec
CONSTANTS
    Capacity = 3
    StartFill = 3
    Period = 2
    Buffer = 4
    DefaultTimeout = 2
    Configured = {0, 1}
    SecondTicks = 2
    MaxPacket = 2
    MaxCrashes = 1
INVARIANTS
    TypeOK
    StartsFilled
PROPERTIES
    IdleNotEarly
    GoesIdle
    AudioIsShown
    WritesReturn
    ExitEndsIfFed
