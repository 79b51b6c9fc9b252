SPECIFICATION FairSpec
CONSTANTS
    Forwarding = {FALSE}
    Serving = {FALSE}
    MaxPackets = 2
PROPERTIES GracefulShutdown
CHECK_DEADLOCK FALSE
