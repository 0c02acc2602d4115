SPECIFICATION MCSpec
CONSTANTS
  MaxIterations = 3
  ThresholdNum = 2
  ThresholdDen = 3
  External = TRUE
  ExpectsTools = TRUE
  ExpectsOther = FALSE
  MaxReps = 2
  MaxScore = 2
  Inputs <- MCInputs
  Plans <- ThreePlans
  Hooks <- FourHooks
  Fresh = {"p"}
  MaxLoads = 4
  Savers = {"p", "q"}
  Kinds = {"eval-runs", "eval-summaries"}
  ArtifactIds = {"i", "a/b"}
  Nested = {"a/b"}
  ListLimits = {1, 2}
  ComparedIds <- SomeDatasets
  DatasetIds <- TwoCases
  MaxToolMetric = 1
  Rounds = {0, 1, 2}
  MinImprovements = {0, 1}
  MaxVariants = 2
  CaseIds <- SomeIds
  DatasetNames = {"d", "e"}
  JudgeEntries <- SomeEntries
  Specs <- SomeSpecs
  MaxCases = 3
  Digits <- SixDigits
  Manifests <- SomeManifests
  Trees <- SomeTrees
  Types = {"known", "claude-cli"}
INVARIANTS VerdictEarned StrictOrderExact JudgesUnanimous ComparisonsAgree
  ApplyIsBest EveryCaseCounts PluginsLoadOnce AppliedOnce StoredIsFound
CHECK_DEADLOCK FALSE
