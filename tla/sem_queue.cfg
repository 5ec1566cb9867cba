\* Two numbers but one semaphore at a time, and three processes: two can wait
\* while the third posts, or the third gets the block of the second, whose
\* descriptors are still on the list of the semaphore.
SPECIFICATION Spec
CONSTANTS
    MAX_NUM_PROCESSES = 6
    LogFile = FALSE
    Calls = {"spawn", "wait", "exit", "semOpen", "semClose", "semWait", "semPost"}
    SleepTimes = {1}
    WaitArgs = {0}
    MaxPid = 2
    MAX_NUM_SEMAPHORES = 1
    SemNum = {7, 8}
    InitialValues = {0}
    MaxFd = 0
    MaxCount = 1
INVARIANTS
    OnePlace
    WaitersExact
    WaitersBlocked
    DescriptorsAgree
PROPERTY
    ImplementsCountingSemaphore
