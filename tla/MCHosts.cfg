SPECIFICATION MCSpec
CONSTANTS
  NumServers = 2
  MaxToolCalls = 2
  NumRuns = 2
  Concurrency = 2
  MaxSessions = 3
  MaxEvents = 5
  Labels <- TwoLabels
  Tools = {"t", "u"}
  Overridden <- SomeOverridden
  Budget = 2
INVARIANTS EndsClean HighMeansOwn NotOverlooked
PROPERTIES HostsEndInTime NothingLeftOpen
CHECK_DEADLOCK FALSE
