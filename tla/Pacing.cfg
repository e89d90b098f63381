SPECIFICATION Spec
CONSTANTS
    PacketSizes = {4, 5}
    FramesPerMs = 2
    HostMs = 4
    RingFrames = 18
    IOFrames = 3
    MaxIOLate = 2
    MaxLate = 9
INVARIANTS
    TypeOK
    BacklogNeverGrows
PROPERTIES
    NothingDropped
