\* Five processes in three blocks: a block is reused while a child still points
\* to it as its parent, and both pools run out.
SPECIFICATION KernelSpec
CONSTANTS
    MAX_NUM_PROCESSES = 3
    LogFile = FALSE
    Calls = {"preempt", "shutdown", "spawn", "sleep", "wait", "exit"}
    SleepTimes = {1, 2}
    WaitArgs = {0, 1, 2}
    MaxPid = 4
INVARIANTS
    KernelTypeOK
    OnePlace
    StatusTellsPlace
    FamilyTree
    WaitersHaveCause
    SleepersOnTime
    HungUpAreInits
    ReportedAreGone
PROPERTIES
    InTurn
    WaitersAreAnswered
