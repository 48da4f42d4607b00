SPECIFICATION Spec
CONSTANTS
  Spouts = {s1}
  Files = {f1}
  Records = 3
  MaxPending = 2
  MaxOutstanding = 2
  None = None
  Faults = {}
  MaxCrashes = 0
INVARIANT PausedForAcks
CHECK_DEADLOCK FALSE
