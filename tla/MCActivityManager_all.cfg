CONSTANTS
  home = home
  menu = menu
  reader = reader
  stats = stats
  usb = usb
  Nil = Nil
  Activity = {home, reader, stats, usb}
  Reader <- MCReader
  StatsScreen <- MCStatsScreen
  Exclusive <- MCExclusive
SPECIFICATION FairSpec
INVARIANTS
  DrawsOnlyTheCurrent OneOwner
  SleepScreenAlone SessionRunsWhileReading
PROPERTIES
  ResultsReachTheirHandler ExclusiveIsNeverLeft ImplementsScreenStack
  WaitReturns RequestedUpdateIsDrawn
