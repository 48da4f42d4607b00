SPECIFICATION Spec
CONSTANTS
  Macs = {m1, m2}
  Channels = {c1, c2}
  Partners = {p1}
  PartnersOf <- MCPartnersOf
  Ans = {a1}
  VideoTypes = {"3"}
  PlayTypes = {"0", "1", "3", "5"}
  MacTasks = {b1}
  MacTaskOf <- MCMacTaskOf
  Threads = {t1, t2}
  None = None
  Faults = {"call", "notify"}
  MaxEvents = 5
SYMMETRY MCSymmetry
INVARIANT TypeOK
INVARIANT ReadStillTrue
INVARIANT BooksBalance
PROPERTY AudienceRefined
CHECK_DEADLOCK FALSE
