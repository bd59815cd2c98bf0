SPECIFICATION BothSpec
CONSTANTS
  Icons = {i1, i2}
  Keys = {k1, k2}
  RemoteKeys = {k2}
  NoKey = NoKey
  MaxFetches = 2
  MaxQueue = 2
  MaxFaults = 3
  Pictures = {"a", "b", "c", "d"}
  Absent = Absent
  Loading = Loading
  Sizes = {1, 2, 4}
  Limit = 3
  MaxEntries = 4

INVARIANT ArtworkAgrees
INVARIANT CacheIntact
PROPERTY FreesLeastRecent

