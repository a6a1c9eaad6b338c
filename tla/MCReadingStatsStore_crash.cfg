SPECIFICATION StoreSpec
CONSTANTS
    Books = {b1, b2}
    Touch = FALSE
    FaultKinds = {"write", "skip"}
    MaxRead = 2
    MaxFailures = 1
SYMMETRY Symmetry
INVARIANTS
    StoreTypeOK
    SavedTimeSurvives
    ResetIsFinal
PROPERTIES
    SuspendedStoreIsNotWritten
CHECK_DEADLOCK FALSE
