SPECIFICATION Spec
CONSTANTS
  Subs = {s1}
  NoSub = NoSub
  MaxReqId = 2
  MaxCid = 3
  MaxBatch = 0
  MaxFaults = 2
INVARIANT NoLostSubscription
CHECK_DEADLOCK FALSE
