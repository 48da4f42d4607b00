SPECIFICATION Spec
CONSTANTS
  t1 = t1
  t2 = t2
  t3 = t3
  t4 = t4
  k1 = k1
  k2 = k2
  Tuples = {t1, t2, t3}
  Keys = {k1, k2}
  KeyOf <- MCKeyOf
  MaxOpenFiles = 2
  SyncCount = 3
  FileRetryCount = 2
  Rotates = FALSE
  MaxRecords = 2
  Ttl = TRUE
  Kind = "seq"
  Faults = {"create", "write", "sync", "close"}
INVARIANT HbTypeOK
INVARIANT AckedIsDurable
INVARIANT AnsweredOnce
PROPERTY SinkRefined
CHECK_DEADLOCK FALSE
