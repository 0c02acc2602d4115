SPECIFICATION MCSpec
CONSTANTS
  NumCases = 4
  Concurrency = 3
  StopOnFailure = FALSE
  CaseId <- UniqueIds
  UseBaseline = TRUE
  SaveResults = TRUE
  HasTestInfo = TRUE
  Procs = {p1, p2}
  OldRuns = 4
  HistoryLimit = 3
  UseStore = TRUE
  AutoTracking = TRUE
INVARIANTS RejectedNotAttached DeltaExplained NoDuplicates
PROPERTIES RunSettles ImplementsLedger NewestKept ReportDespiteStore
CHECK_DEADLOCK FALSE
