SPECIFICATION FairSpec
CONSTANTS
    MAX_TASKS = 2
    HEAP_STACKS = 2
    TickModulus = 3
    StartTick = 0
    Intervals = {1}
    SleepTicks = {1}
    MainCalls = {"create", "preempt", "sleep"}
    TaskCalls = {}
    MaxTaskId = 3
    MaxDepth = 1
PROPERTIES ReadyTaskRuns SleeperWakes
