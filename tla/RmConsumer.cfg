SPECIFICATION FairSpec
CONSTANTS
  p1 = p1
  p2 = p2
  m1 = m1
  m2 = m2
  m3 = m3
  m4 = m4
  Partners = {p1, p2}
  StartOrder <- MCStartOrder
  Implemented = {p1}
  Msgs = {m1, m2, m3}
  PartnerOf <- MCPartnerOf
  HasRow = {m1, m2}
  Capacity = 1
  LimitNum = 1
  PoolSize = 1
  NoMsg = NoMsg
  Faults = {"mysql", "cassandra", "channel", "crash"}
  MaxCrashes = 1
INVARIANT RmTypeOK
INVARIANT EachMessageOnce
 
CHECK_DEADLOCK FALSE
