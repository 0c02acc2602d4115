SPECIFICATION Spec
CONSTANTS
  Files = 2
  MaxPresses = 2
INVARIANT InstallsAsAsked
CHECK_DEADLOCK FALSE
