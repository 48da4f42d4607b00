SPECIFICATION FairSpec
CONSTANTS
  t1 = t1
  t2 = t2
  t3 = t3
  t4 = t4
  k1 = k1
  k2 = k2
  Tuples = {t1, t2, t3}
  Keys = {k1, k2}
  KeyOf <- MCKeyOf
  MaxOpenFiles = 1
  SyncCount = 4
  FileRetryCount = 2
  Rotates = TRUE
  MaxRecords = 2
  Ttl = TRUE
  Kind = "text"
  Faults = {}
PROPERTY BatchSettles
CHECK_DEADLOCK FALSE
