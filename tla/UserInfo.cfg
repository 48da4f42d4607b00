SPECIFICATION Spec
CONSTANTS
  Boxes = {b1}
  Versions = {v1, v2}
  None = None
  MaxEvents = 3
  MaxLoad = 4
  MaxAttempts = 2
  Faults = {"lose", "fail", "again"}
INVARIANT UiTypeOK
INVARIANT FirstOpenIsFirst
INVARIANT LatestVersion
INVARIANT UpgradesKept
SYMMETRY Symmetry
CHECK_DEADLOCK FALSE
