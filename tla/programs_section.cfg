SPECIFICATION ProgramSpec
CONSTANTS
    MAX_NUM_PROCESSES = 24
    LogFile = FALSE
    Calls = {"spawn", "wait", "exit", "shutdown", "semOpen", "semClose", "semWait", "semPost"}
    SleepTimes = {1}
    WaitArgs = {0}
    MaxPid = 4
    MAX_NUM_SEMAPHORES = 4
    SemNum = {0, 1, 2, 3, 10, 30}
    InitialValues = {0, 1, 3}
    MaxFd = 4
    MaxCount = 9
    Tests = {4}
    BUFFER_LENGTH = 3
    ITERATIONS = 2
    HowMany = {2}
    Longer = 1
INVARIANT
    AloneInSection
