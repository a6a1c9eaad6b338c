SPECIFICATION FairSpec
CONSTANTS
  p1 = p1
  p2 = p2
  p3 = p3
  Paths = {p1, p2, p3}
  Sizes = {1}
  Times = {0, 1}
  Cards <- TwoBooks
  SeenLimit = 16
  MaxChanges = 2
  MaxFaults = 2
INVARIANTS
  ShelfIsCurrent
PROPERTIES
  IndexIsNeverLost
  ArrivalsAreKept
  TransfersReachTheShelf
CHECK_DEADLOCK FALSE
