SPECIFICATION FairSpec
CONSTANTS
  v1 = v1
  v2 = v2
  Disciplines = {"json", "cards", "plain", "backed", "swap"}
  Values = {v1, v2}
  MaxFaults = 3
INVARIANTS
  CanonicalIsNeverTorn
  ReportedIsSaved
PROPERTIES
  LoadableMovesOnlyByTheSave
  SavesKeepSucceeding
