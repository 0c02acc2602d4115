SPECIFICATION Spec
CONSTANTS
  Procs = {p1}
  Modes = {"get", "try"}
  Rotates = FALSE
  Faults = FALSE
  Configs = {0}
  Known = 1
  Confidential = {}
  Starts <- OneLogin
  MaxGrants = 3
  MaxClients = 1
INVARIANTS StaysRefreshable
CHECK_DEADLOCK FALSE
