SPECIFICATION KernelSpec
CONSTANTS
    MAX_NUM_PROCESSES = 3
    LogFile = FALSE
    Calls = {"spawn","sleep","wait","exit"}
    SleepTimes = {1, 2}
    WaitArgs = {0, 1, 2}
    MaxPid = 3
INVARIANT NoMissedChild
