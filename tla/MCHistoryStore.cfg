SPECIFICATION Spec
CONSTANTS
    Sectors = 4
    Slots = 3
    MaxSeq = 15
    MaxSamples = 6
INVARIANTS
    SavedIsFound
    LastSaveSurvives
    FitInWindow
    FitAfterPowerLoss
PROPERTY
    Implements
CHECK_DEADLOCK FALSE
