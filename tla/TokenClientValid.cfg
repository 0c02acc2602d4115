SPECIFICATION Spec
CONSTANTS
  Procs = {p1, p2}
  Modes = {"try"}
  Rotates = TRUE
  Faults = FALSE
  Configs = {0}
  Known = 1
  Confidential = {}
  Starts <- OneLogin
  MaxGrants = 3
  MaxClients = 1
INVARIANTS ReturnsValid
CHECK_DEADLOCK FALSE
