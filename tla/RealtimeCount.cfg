SPECIFICATION RtSpec
CONSTANTS
  m1 = m1
  m2 = m2
  p1 = p1
  p2 = p2
  k1 = k1
  k2 = k2
  Macs = {m1, m2}
  Channels = {c1, c2}
  Partners = {p1, p2}
  PartnersOf <- MCOneEach
  Ans = {a1}
  VideoTypes = {"3"}
  PlayTypes = {"0", "1", "2", "3", "5"}
  MacTasks = {b1}
  MacTaskOf <- MCMacTaskOf
  Threads = {t1}
  None = None
  Faults = {"call", "answer", "notify", "tuple", "flush", "worker"}
  MaxEvents = 2
  CountTasks = {k1, k2}
  CountTaskOf <- MCCountTaskOf
  MaxExposure = 1
INVARIANT RtTypeOK
INVARIANT TotalsAccounted
INVARIANT PartnersAccounted
CHECK_DEADLOCK FALSE
