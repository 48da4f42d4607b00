SPECIFICATION Spec
CONSTANTS
  t1 = t1
  t2 = t2
  t3 = t3
  t4 = t4
  k1 = k1
  k2 = k2
  Tuples = {t1, t2, t3}
  Keys = {k1}
  KeyOf <- MCKeyOf
  MaxOpenFiles = 1
  SyncCount = 2
  FileRetryCount = 2
  Rotates = TRUE
  MaxRecords = 2
  Ttl = TRUE
  Kind = "seq"
  Faults = {}
INVARIANT AckedIsDurable
CHECK_DEADLOCK FALSE
