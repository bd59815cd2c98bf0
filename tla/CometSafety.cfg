SPECIFICATION Spec
CONSTANTS
  Subs = {s1}
  NoSub = NoSub
  MaxReqId = 2
  MaxCid = 4
  MaxBatch = 1
  MaxFaults = 3
INVARIANT NetStateAgrees
INVARIANT NothingLost
INVARIANT HandledOnce
PROPERTY StopsOnlyWhenTold
CHECK_DEADLOCK FALSE
