SPECIFICATION RtFairSpec
CONSTANTS
  m1 = m1
  m2 = m2
  p1 = p1
  p2 = p2
  k1 = k1
  k2 = k2
  Macs = {m1}
  Channels = {c1, c2}
  Partners = {p1}
  PartnersOf <- MCOneEach
  Ans = {a1}
  VideoTypes = {"3"}
  PlayTypes = {"0", "2"}
  MacTasks = {b1}
  MacTaskOf <- MCMacTaskOf
  Threads = {t1}
  None = None
  Faults = {}
  MaxEvents = 2
  CountTasks = {k1, k2}
  CountTaskOf <- MCCountTaskOf
  MaxExposure = 0
PROPERTY AudienceDrains
CHECK_DEADLOCK FALSE
