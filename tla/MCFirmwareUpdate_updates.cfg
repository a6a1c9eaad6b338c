SPECIFICATION FairSpec
CONSTANTS
  Versions = {1, 2}
  MaxUpdates = 2
  MaxFaults = 2
INVARIANTS
  NeverBricked
  ReportedBoots
PROPERTIES
  UpdateIsAtomic
  ComesUpAgain
CHECK_DEADLOCK FALSE
