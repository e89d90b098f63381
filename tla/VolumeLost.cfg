SPECIFICATION Spec
CONSTANTS
    Levels = {3}
    Full = 8
    Grain = 2
INVARIANTS
    VolumeSurvives
