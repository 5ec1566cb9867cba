SPECIFICATION ProgramSpec
CONSTANTS
    MAX_NUM_PROCESSES = 24
    LogFile = FALSE
    Calls = {"spawn", "wait", "exit", "shutdown", "semOpen", "semClose", "semWait", "semPost"}
    SleepTimes = {1}
    WaitArgs = {0}
    MaxPid = 4
    MAX_NUM_SEMAPHORES = 4
    SemNum = {0, 1, 2, 3, 10, 30}
    InitialValues = {0, 1, 2}
    MaxFd = 4
    MaxCount = 9
    Tests = {0, 1, 2, 3, 4, 5}
    BUFFER_LENGTH = 2
    ITERATIONS = 1
    HowMany = {1, 2}
    Longer = 4
INVARIANTS
    ProgramTypeOK
    RingInOrder
    MutexAccounted
    OneInSection
    SemaphoresStay
PROPERTY
    TestEnds
