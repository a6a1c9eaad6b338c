SPECIFICATION Spec
CONSTANTS
    BadData <- BadSettings
    Deaths = {"watchdogCaptured"}
    Garbage <- ColdStages
    MaxFaults = 0
    MaxActs = 0
INVARIANT PanicBootEntersRecovery
CHECK_DEADLOCK FALSE
