SPECIFICATION StoreSpec
CONSTANTS
    Books = {b1, b2}
    Touch = TRUE
    FaultKinds = {}
    MaxRead = 2
    MaxFailures = 0
SYMMETRY Symmetry
INVARIANTS
    SavedTimeSurvives
CHECK_DEADLOCK FALSE
