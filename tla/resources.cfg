\* Two processes at a time, three in all, and two resources; modes read, write
\* (which creates) and exclusive.  The pools have room for two descriptors.
SPECIFICATION Spec
CONSTANTS
    MAX_NUM_PROCESSES = 2
    LogFile = FALSE
    Calls = {"spawn", "wait", "exit", "openResource", "closeResource", "destroyResource"}
    SleepTimes = {1}
    WaitArgs = {0}
    MaxPid = 2
    MAX_NUM_RESOURCES = 2
    ResourceId = {0, 1}
    ResourceType = {10, 11}
    OpenModes = {2, 3, 4}
    LastFd = 1
INVARIANTS
    TypeOK
    BlocksAccounted
    DescriptorsAgree
PROPERTY
    OpenStaysOpen
