SPECIFICATION FairSpec
CONSTANTS
    None = None
    RingFrames = 2
    PacketFrames = 1
    MaxWrite = 1
    Engine = {e1, e2}
    Thread = {t1, t2}
    Client = {c1}
INVARIANTS
    StreamingStopped
CHECK_DEADLOCK FALSE
