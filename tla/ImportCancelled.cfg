SPECIFICATION Spec
CONSTANTS
  Jobs = {j1}
  HasCover = {j1}
  MaxDirs = 3
  MaxCrashes = 2
  MaxFaults = 1
INVARIANT RestartSettles
CHECK_DEADLOCK FALSE
