\* Two semaphores, and pointers for two opens and half of a third: the pools run
\* out, descriptors are leaked, semaphores are unlinked and opened again.
SPECIFICATION Spec
CONSTANTS
    MAX_NUM_PROCESSES = 5
    LogFile = FALSE
    Calls = {"preempt", "shutdown", "spawn", "exit", "semOpen", "semClose", "semWait", "semPost"}
    SleepTimes = {1}
    WaitArgs = {0}
    MaxPid = 1
    MAX_NUM_SEMAPHORES = 2
    SemNum = {7, 8}
    InitialValues = {0}
    MaxFd = 2
    MaxCount = 1
INVARIANTS
    TypeOK
    DescriptorsAgree
    UnlinkedIsQuiet
