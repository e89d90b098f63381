SPECIFICATION FairSpec
CONSTANTS
    N = 4
    Frame = {f1, f2}
    Silence = f1
    MaxPacket = 3
    MaxRead = 3
INVARIANTS
    TypeOK
    NoOverlap
PROPERTIES
    ImplementsFifo
    OldestIsReleased
