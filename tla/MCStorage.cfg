SPECIFICATION MCSpec
CONSTANTS
  short = short
  long = long
  None = None
  Procs = {p1, p2, p3}
  Writers = {p1}
  Values = {short, long}
  Size <- Lengths
  Inodes = {i1, i2, i3, i4}
  Workers = {w1, w2}
  Modes = {"try", "get", "force"}
  Rotates = TRUE
  Faults = TRUE
  Configs = {0, 2}
  Known = 3
  Confidential = {2}
  Starts <- SomeStarts
  MaxGrants = 3
  MaxClients = 4
INVARIANTS NoTornLoad FileRefreshLive OwnClient
PROPERTIES ImplementsRegister NeverBackwards
SYMMETRY Symmetry
CHECK_DEADLOCK FALSE
