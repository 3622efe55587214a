------------------------------ MODULE Scheduler ------------------------------
(***************************************************************************)
(* The i386 kernel-task scheduler (core/kernel/core/scheduler.c), the      *)
(* timer interrupt that drives it (drivers/timer.c, arch/i386/idt.c) and   *)
(* the context switch it uses (arch/i386/context_switch.asm).              *)
(*                                                                         *)
(* There is one CPU.  Control is a stack of frames: the kernel thread at   *)
(* the bottom, and above it one frame per task whose entry function has    *)
(* been called and has not returned.  Operations that run with interrupts  *)
(* off are single steps.  A task run on its own kernel stack has the       *)
(* interrupt flag set (its context holds EFLAGS 0x202), although the       *)
(* scheduler lock is held, so the timer interrupt can arrive at any point  *)
(* of it; that run is therefore cut into enter, body, exit and return.     *)
(*                                                                         *)
(* Counters that nothing reads back (run_count, trampoline_entries, ...)   *)
(* and the register images are left out.                                   *)
(*                                                                         *)
(* An operator whose name starts with Wrong is a plausible bug in the      *)
(* definition that follows it; no specification uses it.  It shows that a  *)
(* property would notice that bug.                                         *)
(***************************************************************************)
EXTENDS Integers, Sequences, FiniteSets

CONSTANTS
    MAX_TASKS,      \* SCHEDULER_MAX_TASKS
    HEAP_STACKS,    \* how many kernel stacks the heap can hold at once
    TickModulus,    \* 2^32 in the code: timer_ticks is a uint32_t
    StartTick,      \* value of timer_ticks in the initial state
    Intervals,      \* interval_ticks of recurring tasks
    SleepTicks,     \* sleep_ticks arguments
    MainCalls,      \* operations the kernel thread calls
    TaskCalls,      \* operations task entry functions call
    MaxTaskId,      \* bound on the ids handed out
    MaxDepth        \* bound on nested task entries

Stacks == 1 .. HEAP_STACKS
NoStack == 0
NoTask == -1

Slots == 0 .. MAX_TASKS - 1

Calls == {"create", "disable", "sleep", "wake", "yield", "run_now",
          "run_switched", "run_pending", "clear_inactive", "repair",
          "preempt", "workload", "switch_test", "rejected"}

ASSUME SchedulerAssumption ==
    /\ MAX_TASKS \in Nat \ {0}
    /\ HEAP_STACKS \in Nat
    /\ TickModulus \in Nat \ {0, 1}
    /\ StartTick \in 0 .. TickModulus - 1
    /\ Intervals \subseteq 1 .. TickModulus - 1
    /\ SleepTicks \subseteq 1 .. TickModulus - 1
    /\ MainCalls \subseteq Calls
    /\ TaskCalls \subseteq Calls
    /\ MaxTaskId \in Nat \ {0}
    /\ MaxDepth \in Nat

VARIABLES
    tasks,              \* scheduler_tasks
    heap,               \* the kernel stacks currently allocated from the heap
    counts,             \* scheduler_stats.{active,running,...}_tasks
    next_task_id,       \* scheduler_stats.next_task_id
    current_task_index, \* scheduler_stats.current_task_index
    ready_queue,        \* the snapshot: pairs <<slot, task id>>
    current_running,    \* scheduler_current_running_task
    current_switched,   \* scheduler_current_switched_task
    on_task_stack,      \* scheduler_running_on_task_stack
    main_context,       \* depth of the frame scheduler_main_context resumes
    preempt,            \* scheduler_preempt_test_info
    lock,               \* scheduler_lock_info.{depth, saved_flags & IF}
    irq,                \* the CPU's interrupt flag
    frames,             \* task entries in progress, innermost last
    ticks,              \* timer_ticks
    workload_id,        \* test_workload_task_id
    test_stack,         \* switch_test_info.test_stack_base
    passed              \* history: slots dispatched over a waiting ready slot

table == <<tasks, heap, counts, next_task_id>>
dispatch == <<current_task_index, ready_queue, passed>>
running == <<current_running, current_switched, on_task_stack, main_context>>
control == <<lock, irq, frames>>
extras == <<workload_id, test_stack>>
vars == <<table, dispatch, running, control, extras, preempt, ticks>>

-----------------------------------------------------------------------------
(* Tick arithmetic, modulo the width of the counter.                       *)

Minus(a, b) == IF a >= b THEN a - b ELSE a - b + TickModulus
Plus(a, b) == IF a + b < TickModulus THEN a + b ELSE a + b - TickModulus
HalfRange == TickModulus \div 2

(* The slot after i, and how far slot i lies from the scan's start index.  *)
WrongNextSlot(i) == i + 1   \* does not wrap
WrongStuckSlot(i) == i      \* does not move on
NextSlot(i) == IF i + 1 = MAX_TASKS THEN 0 ELSE i + 1
Distance(from, i) == IF i >= from THEN i - from ELSE i - from + MAX_TASKS

-----------------------------------------------------------------------------
(* The task table.  Two fields are histories: "ran" says the entry has     *)
(* been called since the task was created, "due" counts down the ticks a   *)
(* sleeper still asked for.                                                *)

States == {"unused", "active", "running", "disabled", "completed", "sleeping"}
Counted == States \ {"unused"}
Modes == {"recurring", "oneshot"}

Task == [used : BOOLEAN, id : 0 .. MaxTaskId, state : States, mode : Modes,
         interval : 0 .. TickModulus - 1, last_run : 0 .. TickModulus - 1,
         wake_tick : 0 .. TickModulus - 1, stack : Stacks \cup {NoStack},
         entry : {"none", "client", "workload"},
         ran : BOOLEAN, due : 0 .. TickModulus - 1]

ClearedTask == [used |-> FALSE, id |-> 0, state |-> "unused",
                mode |-> "recurring", interval |-> 0, last_run |-> 0,
                wake_tick |-> 0, stack |-> NoStack, entry |-> "none",
                ran |-> FALSE, due |-> 0]

TaskCounts(t) ==
    [s \in Counted |-> Cardinality({i \in Slots : t[i].used /\ t[i].state = s})]

recalculate_task_counts == counts' = TaskCounts(tasks')

Live(t) == t.used /\ t.state \in {"active", "running", "sleeping"}
Inactive(t) == t.used /\ t.state \in {"disabled", "completed"}

(* kmalloc is first fit, and every block the scheduler takes has the same  *)
(* size: with the blocks in h taken it returns the lowest other one.       *)
IsFirstFit(h, s) == s \in Stacks \ h /\ \A r \in Stacks \ h : s <= r

(* scheduler_free_kernel_stack: releases the stack if there is one.        *)
WrongFreed(h, t) == h   \* the pointer is dropped, the block is not freed
Freed(h, t) == h \ {t.stack}
WithoutStack(t) == [t EXCEPT !.stack = NoStack]

WrongAvailable(i) == ~Live(tasks[i]) \/ tasks[i].state = "running"
available(i) == ~tasks[i].used \/ tasks[i].state = "unused" \/ Inactive(tasks[i])
IsAvailableSlot(i) == available(i) /\ \A j \in Slots : available(j) => i <= j

is_ready_to_run(t, now) ==
    /\ t.used /\ t.state = "active"
    /\ t.mode = "oneshot" \/ Minus(now, t.last_run) >= t.interval

ReadySlots(t, now) == {i \in Slots : is_ready_to_run(t[i], now)}

(* Slot i is the first of the slots in R that the round-robin scan meets.  *)
IsFirst(R, i) ==
    /\ i \in R
    /\ \A j \in R : Distance(current_task_index, i) <= Distance(current_task_index, j)

(* scheduler_wake_sleeping_tasks, on table t at tick now.                  *)
WrongWoken(t, now) ==   \* compares the ticks without regard to the wrap
    {i \in Slots : /\ t[i].used /\ t[i].state = "sleeping"
                   /\ now >= t[i].wake_tick}

WrongWokenLate(t, now) ==   \* misses the tick the sleeper waits for
    {i \in Slots : /\ t[i].used /\ t[i].state = "sleeping"
                   /\ Minus(now, t[i].wake_tick) \in 1 .. HalfRange - 1}

Woken(t, now) ==
    {i \in Slots : /\ t[i].used /\ t[i].state = "sleeping"
                   /\ Minus(now, t[i].wake_tick) < HalfRange}

AfterWake(t, now) ==
    [i \in Slots |-> IF i \in Woken(t, now)
                     THEN [t[i] EXCEPT !.state = "active", !.wake_tick = 0]
                     ELSE t[i]]

WrongCountsAfterWake(t, now) == counts   \* no recalculation

CountsAfterWake(t, now) ==
    IF Woken(t, now) = {} THEN counts ELSE TaskCounts(AfterWake(t, now))

(* The history "due" after one more tick.                                  *)
Elapsed(t) ==
    [i \in Slots |-> [t[i] EXCEPT !.due = IF @ > 0 THEN @ - 1 ELSE 0]]

-----------------------------------------------------------------------------
(* The interrupt-saving lock, and who may call.                            *)

(* A call made under the lock: scheduler_lock ... scheduler_unlock with    *)
(* nothing in between that leaves the CPU.  The flags are saved and        *)
(* restored only by the outermost lock, so a call from inside a task       *)
(* leaves interrupts off.                                                  *)
WithLock ==
    /\ irq' = (irq /\ lock.depth = 0)
    /\ UNCHANGED lock

WrongLock(flag) == lock' = [depth |-> lock.depth + 1, saved |-> flag]

scheduler_lock(flag) ==
    lock' = [depth |-> lock.depth + 1,
             saved |-> IF lock.depth = 0 THEN flag ELSE lock.saved]

(* scheduler_unlock, in a context whose interrupt flag is flag.            *)
scheduler_unlock(flag) ==
    /\ lock' = [depth |-> lock.depth - 1,
                saved |-> IF lock.depth = 1 THEN FALSE ELSE lock.saved]
    /\ irq' = IF lock.depth = 1 THEN lock.saved ELSE flag

Top == frames[Len(frames)]
Lower == SubSeq(frames, 1, Len(frames) - 1)
SetPhase(p) == frames' = [frames EXCEPT ![Len(frames)].phase = p]
Pushed(i, kind) == Append(frames, [slot |-> i, kind |-> kind, phase |-> "enter"])

(* An operation is called by the kernel thread, or by the innermost task.  *)
CanCall(op) ==
    \/ frames = <<>> /\ op \in MainCalls
    \/ frames # <<>> /\ Top.phase = "body" /\ op \in TaskCalls

(* idt_irq_handler sends the end-of-interrupt only after the handler has   *)
(* returned: until then the PIC holds back the next timer interrupt.       *)
WrongInService == FALSE   \* end-of-interrupt sent before the handler runs

TimerInService == \E k \in 1 .. Len(frames) : frames[k].kind = "timer"

-----------------------------------------------------------------------------
(* Operations on the table.                                                *)

create_task(i, mode, interval, entry) ==
    LET h == Freed(heap, tasks[i])
        new == [ClearedTask EXCEPT !.used = TRUE, !.id = next_task_id,
                                   !.state = "active", !.mode = mode,
                                   !.interval = interval, !.last_run = ticks,
                                   !.entry = entry]
    IN  /\ next_task_id < MaxTaskId
        /\ IsAvailableSlot(i)
        /\ \/ \E s \in Stacks :
                /\ IsFirstFit(h, s)
                /\ tasks' = [tasks EXCEPT ![i] = [new EXCEPT !.stack = s]]
                /\ heap' = h \cup {s}
                /\ next_task_id' = next_task_id + 1
           \/ /\ Stacks \subseteq h
              /\ tasks' = [tasks EXCEPT ![i] = ClearedTask]
              /\ heap' = h
              /\ UNCHANGED next_task_id
        /\ recalculate_task_counts

create_kernel_task ==
    /\ CanCall("create")
    /\ \E i \in Slots :
         \/ \E n \in Intervals : create_task(i, "recurring", n, "client")
         \/ create_task(i, "oneshot", 0, "client")
    /\ WithLock
    /\ UNCHANGED <<dispatch, running, frames, extras, preempt, ticks>>

(* scheduler_disable_task_unlocked on the task in slot i.                  *)
disable(i) ==
    /\ tasks[i].used /\ tasks[i].state \in {"active", "running"}
    /\ tasks' = [tasks EXCEPT ![i] = [WithoutStack(tasks[i]) EXCEPT !.state = "disabled"]]
    /\ heap' = Freed(heap, tasks[i])
    /\ recalculate_task_counts

disable_task ==
    /\ CanCall("disable")
    /\ \E i \in Slots : disable(i)
    /\ WithLock
    /\ UNCHANGED <<next_task_id, dispatch, running, frames, extras, preempt, ticks>>

sleep_task ==
    /\ CanCall("sleep")
    /\ \E i \in Slots, n \in SleepTicks :
         /\ tasks[i].used /\ tasks[i].state = "active"
         /\ tasks' = [tasks EXCEPT ![i] = [tasks[i] EXCEPT !.state = "sleeping",
                                                    !.wake_tick = Plus(ticks, n),
                                                    !.due = n]]
    /\ recalculate_task_counts
    /\ WithLock
    /\ UNCHANGED <<heap, next_task_id, dispatch, running, frames, extras, preempt, ticks>>

wake_task ==
    /\ CanCall("wake")
    /\ \E i \in Slots :
         /\ tasks[i].used /\ tasks[i].state = "sleeping"
         /\ tasks' = [tasks EXCEPT ![i] = [tasks[i] EXCEPT !.state = "active",
                                                    !.wake_tick = 0]]
    /\ recalculate_task_counts
    /\ WithLock
    /\ UNCHANGED <<heap, next_task_id, dispatch, running, frames, extras, preempt, ticks>>

(* scheduler_yield_task_unlocked on the task in slot i.                    *)
yield(i) ==
    /\ tasks[i].used /\ tasks[i].state \in {"active", "running"}
    /\ tasks' = [tasks EXCEPT ![i].last_run = ticks]

yield_task ==
    /\ CanCall("yield")
    /\ \E i \in Slots : yield(i)
    /\ WithLock
    /\ UNCHANGED <<heap, counts, next_task_id, dispatch, running, frames,
                   extras, preempt, ticks>>

(* scheduler_yield_current_task takes no lock.                             *)
yield_current_task ==
    /\ CanCall("yield")
    /\ current_running # NoTask
    /\ yield(current_running)
    /\ UNCHANGED <<heap, counts, next_task_id, dispatch, running, control,
                   extras, preempt, ticks>>

clear_inactive_tasks ==
    /\ CanCall("clear_inactive")
    /\ tasks' = [i \in Slots |-> IF Inactive(tasks[i]) THEN ClearedTask ELSE tasks[i]]
    /\ heap' = heap \ {tasks[i].stack : i \in {j \in Slots : Inactive(tasks[j])}}
    /\ ready_queue' = {}
    /\ recalculate_task_counts
    /\ WithLock
    /\ UNCHANGED <<next_task_id, current_task_index, passed, running, frames,
                   extras, preempt, ticks>>

(* What scheduler_repair_unlocked turns a table entry into.                *)
WrongRepaired(t) ==   \* overlooks the stack of a disabled or completed task
    IF ~t.used THEN WithoutStack(t)
    ELSE IF Live(t) /\ (t.entry = "none" \/ t.stack = NoStack)
         THEN [WithoutStack(t) EXCEPT !.state = "disabled"]
    ELSE IF t.state = "sleeping" /\ t.wake_tick = 0
         THEN [t EXCEPT !.state = "active"]
    ELSE t

Repaired(t) ==
    IF ~t.used \/ Inactive(t) THEN WithoutStack(t)
    ELSE IF Live(t) /\ (t.entry = "none" \/ t.stack = NoStack)
         THEN [WithoutStack(t) EXCEPT !.state = "disabled"]
    ELSE IF t.state = "sleeping" /\ t.wake_tick = 0
         THEN [t EXCEPT !.state = "active"]
    ELSE t

repair ==
    /\ CanCall("repair")
    /\ tasks' = [i \in Slots |-> Repaired(tasks[i])]
    /\ heap' = heap \ {tasks[i].stack :
                         i \in {j \in Slots : Repaired(tasks[j]).stack = NoStack}}
    /\ ready_queue' = {}
    /\ recalculate_task_counts
    /\ WithLock
    /\ UNCHANGED <<next_task_id, current_task_index, passed, running, frames,
                   extras, preempt, ticks>>

(* A call that an early return rejects: no such id, a null argument, a     *)
(* task in another state, a full table.                                    *)
rejected_call ==
    /\ CanCall("rejected")
    /\ WithLock
    /\ UNCHANGED <<table, dispatch, running, frames, extras, preempt, ticks>>

-----------------------------------------------------------------------------
(* The timer-dispatch test, the built-in workload and the switch test.     *)

ClearedPreempt == [enabled |-> FALSE, in_timer_dispatch |-> FALSE,
                   interval |-> 0, last |-> 0]

set_preempt_test ==
    /\ CanCall("preempt")
    /\ \/ \E n \in Intervals :  \* scheduler_enable_preempt_test
            preempt' = [preempt EXCEPT !.enabled = TRUE, !.interval = n,
                                       !.last = ticks]
       \/ preempt' = [preempt EXCEPT !.enabled = FALSE,
                                     !.in_timer_dispatch = FALSE]
       \/ preempt' = IF preempt.enabled  \* scheduler_reset_preempt_test
                     THEN [preempt EXCEPT !.in_timer_dispatch = FALSE,
                                          !.last = ticks]
                     ELSE ClearedPreempt
    /\ WithLock
    /\ UNCHANGED <<table, dispatch, running, frames, extras, ticks>>

WorkloadIn(states) ==
    \E i \in Slots : /\ tasks[i].used /\ tasks[i].id = workload_id
                     /\ tasks[i].state \in states

create_test_workload ==
    /\ CanCall("workload")
    /\ workload_id = 0 \/ ~WorkloadIn({"active"})
    /\ \E i \in Slots, n \in Intervals : create_task(i, "recurring", n, "workload")
    /\ workload_id' = IF next_task_id' = next_task_id THEN workload_id
                      ELSE next_task_id
    /\ WithLock
    /\ UNCHANGED <<dispatch, running, frames, test_stack, preempt, ticks>>

disable_test_workload ==
    /\ CanCall("workload")
    /\ workload_id # 0
    /\ workload_id' = 0
    /\ \/ \E i \in Slots : tasks[i].id = workload_id /\ disable(i)
       \/ ~WorkloadIn({"active", "running"}) /\ UNCHANGED <<tasks, heap, counts>>
    /\ WithLock
    /\ UNCHANGED <<next_task_id, dispatch, running, frames, test_stack, preempt, ticks>>

(* scheduler_run_switch_test: its own stack, taken once and kept until     *)
(* the reset; the round trip itself leaves nothing behind.  Neither takes  *)
(* the scheduler lock.                                                     *)
run_switch_test ==
    /\ CanCall("switch_test")
    /\ test_stack = NoStack
    /\ \E s \in Stacks : /\ IsFirstFit(heap, s)
                        /\ test_stack' = s
                        /\ heap' = heap \cup {s}
    /\ UNCHANGED <<tasks, counts, next_task_id, dispatch, running, control,
                   workload_id, preempt, ticks>>

reset_switch_test ==
    /\ CanCall("switch_test")
    /\ test_stack # NoStack
    /\ heap' = heap \ {test_stack}
    /\ test_stack' = NoStack
    /\ UNCHANGED <<tasks, counts, next_task_id, dispatch, running, control,
                   workload_id, preempt, ticks>>

-----------------------------------------------------------------------------
(* Running tasks.                                                          *)

(* scheduler_run_task_now on the task in slot i.                           *)
run_task_now ==
    /\ CanCall("run_now")
    /\ Len(frames) < MaxDepth
    /\ \E i \in Slots :
         /\ tasks[i].used /\ tasks[i].state = "active"
         /\ tasks' = [tasks EXCEPT ![i].last_run = ticks]
         /\ frames' = Pushed(i, "now")
    /\ scheduler_lock(irq)
    /\ irq' = FALSE
    /\ UNCHANGED <<heap, counts, next_task_id, dispatch, running, extras,
                   preempt, ticks>>

(* scheduler_run_task_with_context_switch: the switch into the task loads  *)
(* EFLAGS 0x202, so the task starts with interrupts on.                    *)
run_task_with_context_switch ==
    /\ CanCall("run_switched")
    /\ Len(frames) < MaxDepth
    /\ \E i \in Slots :
         /\ tasks[i].used /\ tasks[i].state = "active"
         /\ tasks[i].stack # NoStack
         /\ tasks' = [tasks EXCEPT ![i].last_run = ticks]
         /\ current_switched' = i
         /\ frames' = Pushed(i, "switched")
    /\ on_task_stack' = TRUE
    /\ main_context' = Len(frames)
    /\ scheduler_lock(irq)
    /\ irq' = TRUE
    /\ UNCHANGED <<heap, counts, next_task_id, dispatch, current_running,
                   extras, preempt, ticks>>

(* scheduler_run_pending_unlocked on table t at tick now, when no task is  *)
(* ready, and when the scan selects slot i.                                *)
SelectNone(t, now) ==
    /\ ReadySlots(t, now) = {}
    /\ tasks' = t
    /\ ready_queue' = {}
    /\ passed' = [s \in Slots |-> {}]
    /\ UNCHANGED <<current_task_index, frames>>

Select(t, now, i, kind) ==
    LET R == ReadySlots(t, now)
    IN  /\ IsFirst(R, i)
        /\ Len(frames) < MaxDepth
        /\ tasks' = [t EXCEPT ![i].last_run = now]
        /\ ready_queue' = {<<j, t[j].id>> : j \in R}
        /\ current_task_index' = NextSlot(i)
        /\ passed' = [s \in Slots |-> IF s \in R \ {i} THEN passed[s] \cup {i} ELSE {}]
        /\ frames' = Pushed(i, kind)

run_pending ==
    /\ CanCall("run_pending")
    /\ counts' = CountsAfterWake(tasks, ticks)
    /\ \/ /\ SelectNone(AfterWake(tasks, ticks), ticks)
          /\ WithLock
       \/ /\ \E i \in Slots : Select(AfterWake(tasks, ticks), ticks, i, "pending")
          /\ scheduler_lock(irq)
          /\ irq' = FALSE
    /\ UNCHANGED <<heap, next_task_id, running, extras, preempt, ticks>>

DispatchDue(now) ==
    /\ preempt.enabled
    /\ ~preempt.in_timer_dispatch
    /\ Minus(now, preempt.last) >= preempt.interval

(* timer_irq_handler and scheduler_on_timer_tick.  The interrupt gate      *)
(* turns interrupts off and the return from the handler turns them on.     *)
timer_tick ==
    LET now == Plus(ticks, 1)
        t == AfterWake(Elapsed(tasks), now)
    IN  /\ irq
        /\ ~TimerInService
        /\ ticks' = now
        /\ counts' = CountsAfterWake(tasks, now)
        /\ \/ /\ ~DispatchDue(now)
              /\ tasks' = t
              /\ UNCHANGED <<control, dispatch, preempt>>
           \/ /\ DispatchDue(now)
              /\ SelectNone(t, now)
              /\ preempt' = [preempt EXCEPT !.last = now]
              /\ UNCHANGED <<lock, irq>>
           \/ /\ DispatchDue(now)
              /\ \E i \in Slots : Select(t, now, i, "timer")
              /\ preempt' = [preempt EXCEPT !.in_timer_dispatch = TRUE, !.last = now]
              /\ scheduler_lock(FALSE)
              /\ irq' = FALSE
        /\ UNCHANGED <<heap, next_task_id, running, extras>>

(* scheduler_task_trampoline up to the call of the entry function.  A slot *)
(* cleared since it was selected has no entry and is not run.              *)
trampoline_enter ==
    LET i == Top.slot
    IN  /\ frames # <<>> /\ Top.phase = "enter"
        /\ \/ /\ tasks[i].entry = "none"
              /\ SetPhase("return")
              /\ UNCHANGED <<tasks, counts, current_running>>
           \/ /\ tasks[i].entry # "none"
              /\ tasks' = [tasks EXCEPT ![i].state = "running", ![i].ran = TRUE]
              /\ current_running' = i
              /\ recalculate_task_counts
              /\ SetPhase("body")
        /\ UNCHANGED <<heap, next_task_id, dispatch, current_switched, on_task_stack,
                       main_context, lock, irq, extras, preempt, ticks>>

(* scheduler_task_trampoline after the entry function has returned.        *)
WrongStateAfterRun(t) == IF t.mode = "oneshot" THEN "completed" ELSE t.state
WrongOneShotAgain(t) == "active"
StateAfterRun(t) == IF t.mode = "oneshot" THEN "completed" ELSE "active"
WrongKeepsStack(t) == t.mode # "oneshot"   \* frees the stack it runs on
KeepsStack(t) == t.mode # "oneshot" \/ on_task_stack

trampoline_exit ==
    LET i == Top.slot
        keep == KeepsStack(tasks[i])
        kept == IF keep THEN tasks[i] ELSE WithoutStack(tasks[i])
    IN  /\ frames # <<>> /\ Top.phase = "body"
        /\ tasks' = [tasks EXCEPT ![i] = [kept EXCEPT !.state = StateAfterRun(tasks[i])]]
        /\ heap' = IF keep THEN heap ELSE Freed(heap, tasks[i])
        /\ current_running' = NoTask
        /\ recalculate_task_counts
        /\ SetPhase("return")
        /\ UNCHANGED <<next_task_id, dispatch, current_switched, on_task_stack,
                       main_context, lock, irq, extras, preempt, ticks>>

(* Back in scheduler_run_task_now or scheduler_run_pending.                *)
direct_return ==
    /\ frames # <<>> /\ Top.phase = "return" /\ Top.kind \in {"now", "pending"}
    /\ frames' = Lower
    /\ scheduler_unlock(irq)
    /\ UNCHANGED <<table, dispatch, running, extras, preempt, ticks>>

(* Back in scheduler_on_timer_tick, then the return from the interrupt.    *)
timer_return ==
    /\ frames # <<>> /\ Top.phase = "return" /\ Top.kind = "timer"
    /\ frames' = Lower
    /\ preempt' = [preempt EXCEPT !.in_timer_dispatch = FALSE]
    /\ lock' = [depth |-> lock.depth - 1,
                saved |-> IF lock.depth = 1 THEN FALSE ELSE lock.saved]
    /\ irq' = TRUE
    /\ UNCHANGED <<table, dispatch, running, extras, ticks>>

(* scheduler_switched_task_entry switches to scheduler_main_context.  That *)
(* is the caller's, unless another switched run has been started meanwhile *)
(* and overwritten it: the CPU then resumes in a call that has returned    *)
(* already, and nothing after that is defined ("lost").                    *)
WrongFreedAfterSwitch(t) == FALSE
FreedAfterSwitch(t) == t.state = "completed"

switched_return ==
    LET i == Top.slot
        done == FreedAfterSwitch(tasks[i])
    IN  /\ frames # <<>> /\ Top.phase = "return" /\ Top.kind = "switched"
        /\ \/ /\ main_context = Len(frames) - 1
              /\ frames' = Lower
              /\ on_task_stack' = FALSE
              /\ current_switched' = NoTask
              /\ tasks' = IF done THEN [tasks EXCEPT ![i] = WithoutStack(tasks[i])]
                          ELSE tasks
              /\ heap' = IF done THEN Freed(heap, tasks[i]) ELSE heap
              /\ recalculate_task_counts
              /\ scheduler_unlock(FALSE)
           \/ /\ main_context # Len(frames) - 1
              /\ SetPhase("lost")
              /\ irq' = FALSE
              /\ UNCHANGED <<tasks, heap, counts, on_task_stack, current_switched, lock>>
        /\ UNCHANGED <<next_task_id, dispatch, current_running, main_context,
                       extras, preempt, ticks>>

-----------------------------------------------------------------------------
(* The innermost task entry goes on.                                       *)
proceed ==
    \/ trampoline_enter \/ trampoline_exit
    \/ direct_return \/ timer_return \/ switched_return

(* scheduler_initialize, at boot; the kernel thread runs with interrupts   *)
(* on.                                                                     *)
Init ==
    /\ tasks = [i \in Slots |-> ClearedTask]
    /\ heap = {}
    /\ counts = [s \in Counted |-> 0]
    /\ next_task_id = 1
    /\ current_task_index = 0
    /\ ready_queue = {}
    /\ current_running = NoTask
    /\ current_switched = NoTask
    /\ on_task_stack = FALSE
    /\ main_context = 0
    /\ preempt = ClearedPreempt
    /\ lock = [depth |-> 0, saved |-> FALSE]
    /\ irq = TRUE
    /\ frames = <<>>
    /\ ticks = StartTick
    /\ workload_id = 0
    /\ test_stack = NoStack
    /\ passed = [s \in Slots |-> {}]

Next ==
    \/ create_kernel_task \/ disable_task \/ sleep_task \/ wake_task
    \/ yield_task \/ yield_current_task
    \/ clear_inactive_tasks \/ repair \/ rejected_call
    \/ set_preempt_test \/ create_test_workload \/ disable_test_workload
    \/ run_switch_test \/ reset_switch_test
    \/ run_task_now \/ run_task_with_context_switch \/ run_pending \/ timer_tick
    \/ proceed

Spec == Init /\ [][Next]_vars

(* Entry functions return, and the code that follows them runs on.  A      *)
(* timer interrupt that finds interrupts off stays latched in the PIC, so  *)
(* it is delivered if interrupts are on again and again (strong fairness). *)
FairSpec ==
    /\ Spec
    /\ WF_vars(proceed)
    /\ SF_vars(timer_tick)

-----------------------------------------------------------------------------
(* Properties that hold whatever the callers do.                           *)

Kinds == {"now", "pending", "timer", "switched"}
Phases == {"enter", "body", "return", "lost"}
Frame == [slot : Slots, kind : Kinds, phase : Phases]

(* Every variable keeps its type: in particular the pointers into the task *)
(* table always point into it, and the scan index stays below MAX_TASKS.   *)
TypeOK ==
    /\ tasks \in [Slots -> Task]
    /\ heap \subseteq Stacks
    /\ counts \in [Counted -> Nat]
    /\ next_task_id \in 1 .. MaxTaskId
    /\ current_task_index \in Slots
    /\ ready_queue \subseteq Slots \X (0 .. MaxTaskId)
    /\ current_running \in Slots \cup {NoTask}
    /\ current_switched \in Slots \cup {NoTask}
    /\ on_task_stack \in BOOLEAN
    /\ main_context \in Nat
    /\ preempt \in [enabled : BOOLEAN, in_timer_dispatch : BOOLEAN,
                    interval : 0 .. TickModulus - 1, last : 0 .. TickModulus - 1]
    /\ lock \in [depth : Int, saved : BOOLEAN]
    /\ irq \in BOOLEAN
    /\ frames \in Seq(Frame)
    /\ ticks \in 0 .. TickModulus - 1
    /\ workload_id \in 0 .. MaxTaskId
    /\ test_stack \in Stacks \cup {NoStack}
    /\ passed \in [Slots -> SUBSET Slots]

(* Kernel stacks are neither leaked, shared nor freed twice: each stack    *)
(* taken from the heap is held by exactly one table entry or by the switch *)
(* test, and an entry holds only stacks that are still allocated.          *)
StackOwnership ==
    /\ \A i \in Slots : tasks[i].stack # NoStack =>
          /\ tasks[i].stack \in heap
          /\ tasks[i].stack # test_stack
          /\ \A j \in Slots \ {i} : tasks[j].stack # tasks[i].stack
    /\ test_stack # NoStack => test_stack \in heap
    /\ \A s \in heap : s = test_stack \/ \E i \in Slots : tasks[i].stack = s

(* The statistics the shell shows are those of the table, at every point   *)
(* where another context can look: each operation that changes a state     *)
(* calls scheduler_recalculate_task_counts before it lets go.              *)
CountsAgree == counts = TaskCounts(tasks)

(* A task marked RUNNING is being executed: some frame holds its slot and  *)
(* is inside its entry function.  A task can therefore not be left RUNNING *)
(* (and never be selected again) by any order of nested dispatches.        *)
RunningIsExecuting ==
    \A i \in Slots : tasks[i].state = "running" =>
        \E k \in 1 .. Len(frames) : frames[k].slot = i /\ frames[k].phase = "body"

(* Round robin: a slot that was dispatched while slot s stood ready is     *)
(* scanned only after s from then on, so no slot is dispatched twice over  *)
(* the head of one that waits.                                             *)
NoOvertaking ==
    \A s \in Slots : \A i \in passed[s] :
        Distance(current_task_index, s) < Distance(current_task_index, i)

(* The lock nests with the dispatches; interrupts are on under the lock    *)
(* only while a task runs on its own stack, and the kernel thread always   *)
(* gets back the interrupt flag it had.                                    *)
LockDiscipline ==
    (\A k \in 1 .. Len(frames) : frames[k].phase # "lost") =>
        /\ lock.depth = Len(frames)
        /\ irq => frames = <<>> \/ Top.kind = "switched"
        /\ frames = <<>> => irq

(* Timer dispatches do not nest, and the in_timer_dispatch flag is not     *)
(* left set once the dispatch is over (which would stop them for good).    *)
TimerDispatchSound ==
    /\ \A j, k \in 1 .. Len(frames) :
          frames[j].kind = "timer" /\ frames[k].kind = "timer" => j = k
    /\ preempt.in_timer_dispatch => \E k \in 1 .. Len(frames) : frames[k].kind = "timer"

(* The issues scheduler_audit_unlocked counts: about stacks and entries,   *)
(* about sleepers, and about the ready-queue snapshot.                     *)
StackIssues ==
    {i \in Slots :
        \/ ~tasks[i].used /\ tasks[i].stack # NoStack
        \/ Live(tasks[i]) /\ (tasks[i].stack = NoStack \/ tasks[i].entry = "none")
        \/ Inactive(tasks[i]) /\ tasks[i].stack # NoStack}

SleepIssues ==
    {i \in Slots : /\ tasks[i].used /\ tasks[i].state = "sleeping"
                   /\ tasks[i].wake_tick = 0}

QueueIssues == {e \in ready_queue : ~tasks[e[1]].used \/ tasks[e[1]].id # e[2]}

(* scheduler_repair leaves nothing for scheduler_audit to report, from any *)
(* state the callers can bring the table into.                             *)
RepairLeavesNoIssue ==
    [][repair => StackIssues' = {} /\ SleepIssues' = {} /\ QueueIssues' = {}]_vars

-----------------------------------------------------------------------------
(* Properties of tasks whose entry functions leave the running tasks and   *)
(* the table's free slots alone.                                           *)

(* While no task is running, the audit has nothing to report about stacks: *)
(* live tasks have one, disabled, completed and unused entries have none.  *)
StacksClean == frames = <<>> => StackIssues = {}

(* A task running on its own kernel stack still owns that stack.           *)
OnLiveStack ==
    \A k \in 1 .. Len(frames) :
        frames[k].kind = "switched" =>
            \/ tasks[frames[k].slot].stack # NoStack
            \/ frames[k].phase = "lost"

(* A task is marked COMPLETED only after its entry function was called.    *)
CompletedHasRun ==
    \A i \in Slots : tasks[i].state = "completed" => tasks[i].ran

(* The entry function of a one-shot task is called at most once.           *)
OneShotRunsOnce ==
    [][\A i \in Slots :
         tasks[i].mode = "oneshot" /\ tasks[i].ran /\ tasks'[i].id = tasks[i].id
         => (tasks'[i].state = "running" => tasks[i].state = "running")]_vars

(* A sleeper's wake tick is always as many ticks ahead as it still has to  *)
(* sleep, across the wrap of the tick counter: so the timer neither wakes  *)
(* it early nor leaves it asleep.                                          *)
SleepExact ==
    \A i \in Slots : tasks[i].state = "sleeping" =>
        tasks[i].due > 0 /\ tasks[i].wake_tick = Plus(ticks, tasks[i].due)

(* Only scheduler_wake_task ends a sleep before its time.                  *)
NoEarlyWake ==
    [][~wake_task => \A i \in Slots :
         tasks[i].state = "sleeping" /\ tasks'[i].state # "sleeping"
         => tasks'[i].due = 0]_vars

(* A sleeping task is eventually woken, by the timer if by nobody else.    *)
SleeperWakes ==
    \A i \in Slots : tasks[i].state = "sleeping" ~> tasks[i].state # "sleeping"

(* While the timer dispatches tasks, every ready one-shot task gets to run *)
(* and completes, however many others are ready.                           *)
ReadyTaskRuns ==
    \A i \in Slots : tasks[i].state = "active" /\ tasks[i].mode = "oneshot"
        ~> tasks[i].state \in {"completed", "sleeping"} \/ ~preempt.enabled
=============================================================================
