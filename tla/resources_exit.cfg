\* A child that opens a resource and exits while its parent is ready, and is reaped later.
SPECIFICATION Spec
CONSTANTS
    MAX_NUM_PROCESSES = 2
    LogFile = FALSE
    Calls = {"spawn", "wait", "exit", "openResource"}
    SleepTimes = {1}
    WaitArgs = {0}
    MaxPid = 1
    MAX_NUM_RESOURCES = 1
    ResourceId = {0}
    ResourceType = {10}
    OpenModes = {3}
    LastFd = 0
INVARIANT
    TerminatedHoldsNothing
