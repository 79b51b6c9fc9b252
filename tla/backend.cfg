SPECIFICATION FairSpec
CONSTANTS
  Sse = {s1}
  Ws = {w1}
  Nobody = Nobody
  MaxQueue = 2
  MaxMessages = 3
  MaxDevices = 2
  Allowed = 1
  Creators = 2
  Calls = {k1}
  Batch = 3
INVARIANTS TypeOK LimitHolds SkipsBounded StreamInOrder
PROPERTIES AlertsGoOut
CHECK_DEADLOCK FALSE
