SPECIFICATION FairSpec
CONSTANTS
  Batches = {b1, b2}
  NumManifests = 2
  NumArms = 2
  Workers = 1
  SkipExisting = TRUE
  MaxRuns = 2
  MaxVersions = 2
INVARIANTS SkippedWasComplete
PROPERTIES Immutable BatchReturnsEventually
CHECK_DEADLOCK FALSE
