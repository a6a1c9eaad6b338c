SPECIFICATION FairSpec
CONSTANTS
    BadData <- AllBadData
    Deaths = {"panic", "watchdogSilent"}
    Garbage <- ColdStages
    MaxFaults = 2
    MaxActs = 3
INVARIANTS
    NothingIsRetriedForever
PROPERTIES
    AfterACrashNothingResumes
    CulpritIsSkipped
    BootSettles
CHECK_DEADLOCK FALSE
