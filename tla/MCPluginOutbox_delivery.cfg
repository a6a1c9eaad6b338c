SPECIFICATION FairSpec
CONSTANTS
    NumSubs = 2
    Kinds = {"k1", "k2"}
    Sizes = {2, 3}
    LineMax = 2
    Cap = 2
    MaxRun = 2
    MaxEvents = 3
    MaxFaults = 1
    MaxEdits = 1
INVARIANTS
    DeliveryIsReliable
    OutboxStaysReadable
PROPERTIES
    QueuesEmpty
CHECK_DEADLOCK FALSE
