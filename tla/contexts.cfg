\* Three processes; a sleeper that is alone makes disastrOS_start begin again.
SPECIFICATION ContextsSpec
CONSTANTS
    MAX_NUM_PROCESSES = 3
    LogFile = FALSE
    Calls = {"preempt", "shutdown", "spawn", "sleep", "wait", "exit"}
    SleepTimes = {1}
    WaitArgs = {0}
    MaxPid = 2
INVARIANTS
    ContextsTypeOK
    OwnStack
    CallsReturnOnce
PROPERTY
    AlarmsGetThrough
