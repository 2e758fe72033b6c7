SPECIFICATION Spec
CONSTANTS
  Jobs = {j1, j2}
  HasCover = {j1, j2}
  MaxDirs = 3
  MaxCrashes = 2
  MaxFaults = 1
INVARIANT ArtworkIsThere
CHECK_DEADLOCK FALSE
