SPECIFICATION FairSpec
CONSTANTS
  Calls = {c1, c2}
  MaxRetries = 2
INVARIANTS RetryDiscipline AgentReleased ReportsWhatReturned
PROPERTIES CallsSettle
CHECK_DEADLOCK FALSE
