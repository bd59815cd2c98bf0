SPECIFICATION FairSpec
CONSTANTS
  Subs = {s1}
  NoSub = NoSub
  MaxReqId = 2
  MaxCid = 4
  MaxBatch = 0
  MaxFaults = 2
PROPERTY Settles
PROPERTY Acknowledged
CHECK_DEADLOCK FALSE
