SPECIFICATION Spec
CONSTANTS
    MAX_TASKS = 2
    HEAP_STACKS = 2
    TickModulus = 2
    StartTick = 0
    Intervals = {1}
    SleepTicks = {1}
    MainCalls = {"create", "run_switched", "preempt", "repair", "switch_test", "workload"}
    TaskCalls = {"create", "disable", "run_switched", "preempt"}
    MaxTaskId = 3
    MaxDepth = 3
INVARIANTS TypeOK StackOwnership RunningIsExecuting LockDiscipline TimerDispatchSound
PROPERTIES RepairLeavesNoIssue
CHECK_DEADLOCK FALSE
