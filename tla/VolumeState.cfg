SPECIFICATION Spec
CONSTANTS
    Levels = {0, 3, 9}
    Full = 8
    Grain = 2
INVARIANTS
    TypeOK
    SavedWhenStopped
    NeverInvented
PROPERTIES
    GainIsSteady
