SPECIFICATION Spec
CONSTANTS
  Spouts = {s1, s2}
  Files = {f1}
  Records = 3
  MaxPending = 4
  MaxOutstanding = 2
  None = None
  Faults = {"fail", "crash", "torn", "stale"}
  MaxCrashes = 2
SYMMETRY MCSymmetry
INVARIANT SpTypeOK
INVARIANT OneReader
INVARIANT NoneSkipped
INVARIANT ArchivedIsAcked
CHECK_DEADLOCK FALSE
