SPECIFICATION Spec
CONSTANTS
    MAX_TASKS = 2
    HEAP_STACKS = 2
    TickModulus = 2
    StartTick = 0
    Intervals = {1}
    SleepTicks = {1}
    MainCalls = {"create", "run_switched", "preempt"}
    TaskCalls = {}
    MaxTaskId = 3
    MaxDepth = 2
PROPERTIES OneShotRunsOnce
