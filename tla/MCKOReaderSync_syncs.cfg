SPECIFICATION FairSpec
CONSTANTS
  b1 = b1
  b2 = b2
  Books = {b1, b2}
  NoBook = NoBook
  Settings <- TwoSettings
  MaxPos = 1
  MaxFaults = 1
  MaxOthers = 1
INVARIANTS
  TypeOK
  HandoffServesOneSync
PROPERTIES
  OpensWhereItWasLeft
  ServerIsNotPutBack
  SyncsEnd
