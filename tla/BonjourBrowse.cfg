SPECIFICATION FairSpec
CONSTANTS
    Receiver = {r1, r2}
    None = None
    ManualChoices = {FALSE, TRUE}
    Faults = {"error"}
    MaxChanges = 2
    MaxIO = 1
    MaxEdits = 1
    MaxAttempts = 2
INVARIANTS
    TypeOK
    TargetIsOnes
PROPERTIES
    
    DeadDeviceGoes
    ReleaseReturns
    ListFollows
    ShownWithoutIO
CHECK_DEADLOCK FALSE
