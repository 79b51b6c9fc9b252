SPECIFICATION FairSpec
CONSTANTS
    Forwarding = {TRUE, FALSE}
    Serving = {TRUE, FALSE}
    MaxPackets = 2
INVARIANTS UploadedInOrder
PROPERTIES EventuallyPosted ProcessExits
CHECK_DEADLOCK FALSE
