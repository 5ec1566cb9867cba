\* Three processes: two can keep the processor busy while the third is ready.
SPECIFICATION KernelFairSpec
CONSTANTS
    MAX_NUM_PROCESSES = 3
    LogFile = FALSE
    Calls = {"preempt", "shutdown", "spawn", "sleep", "wait", "exit"}
    SleepTimes = {1, 2}
    WaitArgs = {0, 1, 2}
    MaxPid = 2
PROPERTIES
    EveryReadyRuns
    EverySleeperWakes
