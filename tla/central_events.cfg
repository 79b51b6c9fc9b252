SPECIFICATION FairSpec
CONSTANTS
    Events = {"a1", "a2", "b1", "b2"}
    Users = {"alice", "bob"}
    UserOf <- MCUserOf
    NumWorkers = 2
    Partition <- MCPartition
    FetchLimit = 2
    MaxUserQueue = 1
    NoUser = NoUser
    NoWorker = NoWorker
    MaxFaults = 2
INVARIANTS NothingLostWithoutFaults
PROPERTIES RefinesEventOnce EventuallyRecorded
CHECK_DEADLOCK FALSE
