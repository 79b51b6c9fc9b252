SPECIFICATION FairSpec
CONSTANTS
    NShards = 1
    Keys = {"host1"}
    Route <- RouteToOne
    QueueDepth = 2
    Policies = {"Drop", "Priority", "Block", "Sample"}
    SampleRate = 2
    AutoRestart = TRUE
    MaxMissedBeats = 2
    Producers = {"p1", "p2"}
    CanHang = TRUE
    MaxEvents = 2
    MaxFlushes = 1
    MaxThreads = 3
INVARIANTS TypeOK EntityFifo OfferedAccounted OneWorker
PROPERTIES StoppedStaysStopped ShutdownTerminates NothingStranded
CHECK_DEADLOCK FALSE
