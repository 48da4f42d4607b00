SPECIFICATION FairSpec
CONSTANTS
  Loads = 2
  Calls = {c1, c2}
  NoLoad = NoLoad
  Faults = {"connect", "drop", "answer", "unload"}
  MaxSurprises = 1
INVARIANT RpcTypeOK
INVARIANT NoLostWakeUp
INVARIANT ResponsesFindTheirCall
PROPERTY CallsEnd
PROPERTY MainComesUp
CHECK_DEADLOCK FALSE
