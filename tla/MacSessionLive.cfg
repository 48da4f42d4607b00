SPECIFICATION FairSpec
CONSTANTS
  Macs = {m1, m2}
  Channels = {c1}
  Partners = {p1}
  PartnersOf <- MCPartnersOf
  Ans = {a1}
  VideoTypes = {"3"}
  PlayTypes = {"0", "2", "5"}
  MacTasks = {b1}
  MacTaskOf <- MCMacTaskOf
  Threads = {t1, t2}
  None = None
  Faults = {"answer"}
  MaxEvents = 3
INVARIANT ExpiredSessionCovered
PROPERTY SilentBoxesLeave
CHECK_DEADLOCK FALSE
