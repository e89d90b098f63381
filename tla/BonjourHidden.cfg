SPECIFICATION FairSpec
CONSTANTS
    Receiver = {r1}
    None = None
    ManualChoices = {FALSE}
    Faults = {}
    MaxChanges = 2
    MaxIO = 1
    MaxEdits = 0
    MaxAttempts = 2
PROPERTIES
    ReceiverIsShown
CHECK_DEADLOCK FALSE
