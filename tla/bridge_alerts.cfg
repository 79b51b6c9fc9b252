SPECIFICATION FairSpec
CONSTANTS
    Users = {alice, bob}
    Shards = {s1}
    QueueDepth = 1
    BatchMax = 2
    MaxEvents = 3
    Nothing = Nothing
INVARIANTS AlertsAccounted
PROPERTIES EveryCallReturns
CHECK_DEADLOCK FALSE
