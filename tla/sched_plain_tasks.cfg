SPECIFICATION Spec
CONSTANTS
    MAX_TASKS = 2
    HEAP_STACKS = 2
    TickModulus = 4
    StartTick = 2
    Intervals = {2}
    SleepTicks = {1, 2}
    MainCalls = {"create", "sleep", "wake", "clear_inactive", "run_pending", "run_switched", "run_now"}
    TaskCalls = {"create", "sleep", "yield", "rejected"}
    MaxTaskId = 3
    MaxDepth = 1
INVARIANTS  OnLiveStack StacksClean CompletedHasRun SleepExact NoOvertaking
PROPERTIES OneShotRunsOnce NoEarlyWake
