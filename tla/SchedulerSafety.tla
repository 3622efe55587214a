--------------------------- MODULE SchedulerSafety ---------------------------
(***************************************************************************)
(* The safety properties of Scheduler, proved for every number of slots    *)
(* and stacks, every width of the tick counter and whatever the callers    *)
(* do: type correctness, ownership of kernel stacks, the meaning of        *)
(* RUNNING, the order of dispatches, the statistics, the repair command,   *)
(* the nesting of timer dispatches and the interrupt lock.                 *)
(***************************************************************************)
EXTENDS Scheduler, FiniteSetTheorems, SequenceTheorems, TLAPS

-----------------------------------------------------------------------------
(* Types.                                                                  *)

(* Tick arithmetic stays within the width of the counter.                  *)
LEMMA TickRange ==
    ASSUME NEW a \in 0 .. TickModulus - 1, NEW b \in 0 .. TickModulus - 1
    PROVE  Plus(a, b) \in 0 .. TickModulus - 1 /\ Minus(a, b) \in 0 .. TickModulus - 1
  BY SchedulerAssumption DEF Plus, Minus

LEMMA TickSuccessor ==
    ASSUME NEW a \in 0 .. TickModulus - 1
    PROVE  Plus(a, 1) \in 0 .. TickModulus - 1
  BY SchedulerAssumption DEF Plus

(* The updates the code makes to a table entry yield table entries.        *)
LEMMA ClearedTaskType == ClearedTask \in Task
  BY SchedulerAssumption DEF ClearedTask, Task, States, Modes, NoStack

LEMMA TaskUpdates ==
    ASSUME NEW t \in Task, NEW s \in States, NEW n \in 0 .. TickModulus - 1
    PROVE  /\ [t EXCEPT !.state = s] \in Task
           /\ [t EXCEPT !.last_run = n] \in Task
           /\ [t EXCEPT !.state = s, !.wake_tick = n] \in Task
           /\ [t EXCEPT !.state = s, !.ran = TRUE] \in Task
           /\ [t EXCEPT !.due = n] \in Task
           /\ WithoutStack(t) \in Task
           /\ WithoutStack(t).stack = NoStack
           /\ [WithoutStack(t) EXCEPT !.state = s] \in Task
  BY ZenonT(30) DEF Task, WithoutStack

LEMMA NewTaskType ==
    ASSUME NEW id \in 0 .. MaxTaskId, NEW mode \in Modes,
           NEW interval \in 0 .. TickModulus - 1, NEW now \in 0 .. TickModulus - 1,
           NEW entry \in {"client", "workload"}, NEW s \in Stacks
    PROVE  [[ClearedTask EXCEPT !.used = TRUE, !.id = id, !.state = "active",
                                !.mode = mode, !.interval = interval,
                                !.last_run = now, !.entry = entry]
              EXCEPT !.stack = s] \in Task
  BY ClearedTaskType, Zenon DEF Task, ClearedTask, States

(* Updates of the whole table.                                             *)
LEMMA TableUpdates ==
    ASSUME NEW t \in [Slots -> Task], NEW now \in 0 .. TickModulus - 1
    PROVE  /\ AfterWake(t, now) \in [Slots -> Task]
           /\ Elapsed(t) \in [Slots -> Task]
           /\ [i \in Slots |-> IF Inactive(t[i]) THEN ClearedTask ELSE t[i]] \in [Slots -> Task]
           /\ [i \in Slots |-> Repaired(t[i])] \in [Slots -> Task]
           /\ TaskCounts(t) \in [Counted -> Nat]
<1>1. AfterWake(t, now) \in [Slots -> Task]
  <2>1. 0 \in 0 .. TickModulus - 1 /\ "active" \in States
    BY SchedulerAssumption DEF States
  <2>2. \A i \in Slots : [t[i] EXCEPT !.state = "active", !.wake_tick = 0] \in Task
    BY <2>1, TaskUpdates, Zenon
  <2>. QED BY <2>2, Zenon DEF AfterWake
<1>2. Elapsed(t) \in [Slots -> Task]
  <2>1. ASSUME NEW i \in Slots
        PROVE  [t[i] EXCEPT !.due = IF t[i].due > 0 THEN t[i].due - 1 ELSE 0] \in Task
    <3>1. t[i] \in Task BY Zenon
    <3>2. (IF t[i].due > 0 THEN t[i].due - 1 ELSE 0) \in 0 .. TickModulus - 1
      BY <3>1, SchedulerAssumption DEF Task
    <3>. QED BY <3>1, <3>2, TaskUpdates, Zenon DEF States
  <2>. QED BY <2>1, Zenon DEF Elapsed
<1>3. [i \in Slots |-> IF Inactive(t[i]) THEN ClearedTask ELSE t[i]] \in [Slots -> Task]
  BY ClearedTaskType, Zenon
<1>4. [i \in Slots |-> Repaired(t[i])] \in [Slots -> Task]
  <2>1. ASSUME NEW i \in Slots PROVE Repaired(t[i]) \in Task
    <3>1. t[i] \in Task BY Zenon
    <3>2. /\ WithoutStack(t[i]) \in Task
          /\ [WithoutStack(t[i]) EXCEPT !.state = "disabled"] \in Task
          /\ [t[i] EXCEPT !.state = "active"] \in Task
      BY <3>1, TaskUpdates, SchedulerAssumption, Zenon DEF States
    <3>. QED BY <3>1, <3>2, Zenon DEF Repaired
  <2>. QED BY <2>1, Zenon
<1>5. TaskCounts(t) \in [Counted -> Nat]
  <2>1. ASSUME NEW s \in Counted
        PROVE  Cardinality({i \in Slots : t[i].used /\ t[i].state = s}) \in Nat
    <3>1. IsFiniteSet(Slots)
      BY FS_Interval, SchedulerAssumption DEF Slots
    <3>2. IsFiniteSet({i \in Slots : t[i].used /\ t[i].state = s})
      BY <3>1, FS_Subset, Zenon
    <3>. QED BY <3>2, FS_CardinalityType, Zenon
  <2>. QED BY <2>1, Zenon DEF TaskCounts
<1>. QED BY <1>1, <1>2, <1>3, <1>4, <1>5, Zenon

(* Updates of the frame stack.                                             *)
LEMMA FrameUpdates ==
    ASSUME frames \in Seq(Frame)
    PROVE  /\ \A i \in Slots, kind \in Kinds : Pushed(i, kind) \in Seq(Frame)
           /\ frames # <<>> =>
                /\ Len(frames) \in Nat \ {0}
                /\ Top \in Frame
                /\ Lower \in Seq(Frame)
                /\ \A p \in Phases : SetPhase(p) => frames' \in Seq(Frame)
<1>1. \A i \in Slots, kind \in Kinds : Pushed(i, kind) \in Seq(Frame)
  BY DEF Pushed, Frame, Phases
<1>2. ASSUME frames # <<>>
      PROVE  /\ Len(frames) \in Nat \ {0}
             /\ Top \in Frame
             /\ Lower \in Seq(Frame)
             /\ \A p \in Phases : SetPhase(p) => frames' \in Seq(Frame)
  <2>1. Len(frames) \in Nat \ {0}
    BY <1>2
  <2>2. Top \in Frame
    BY <2>1 DEF Top
  <2>3. Lower \in Seq(Frame)
    BY <2>1 DEF Lower
  <2>4. ASSUME NEW p \in Phases, SetPhase(p) PROVE frames' \in Seq(Frame)
    <3>1. [Top EXCEPT !.phase = p] \in Frame
      BY <2>2, Zenon DEF Frame
    <3>2. frames' = [frames EXCEPT ![Len(frames)] = [Top EXCEPT !.phase = p]]
      BY <2>4, Zenon DEF SetPhase, Top
    <3>. QED BY <2>1, <3>1, <3>2
  <2>. QED BY <2>1, <2>2, <2>3, <2>4, Zenon
<1>. QED BY <1>1, <1>2, Zenon

-----------------------------------------------------------------------------
(* Type correctness.                                                       *)

(* What the operations on one table entry leave well typed.                *)
TableType ==
    /\ tasks \in [Slots -> Task]
    /\ heap \subseteq Stacks
    /\ counts \in [Counted -> Nat]
    /\ next_task_id \in 1 .. MaxTaskId

LEMMA RecalculateType ==
    ASSUME tasks' \in [Slots -> Task], recalculate_task_counts
    PROVE  counts' \in [Counted -> Nat]
<1>1. 0 \in 0 .. TickModulus - 1
  BY SchedulerAssumption
<1>. QED BY <1>1, TableUpdates, Zenon DEF recalculate_task_counts

LEMMA CreateType ==
    ASSUME TypeOK, NEW i \in Slots, NEW mode \in Modes,
           NEW interval \in 0 .. TickModulus - 1, NEW entry \in {"client", "workload"},
           create_task(i, mode, interval, entry)
    PROVE  TableType'
<1>. DEFINE h == Freed(heap, tasks[i])
            new == [ClearedTask EXCEPT !.used = TRUE, !.id = next_task_id,
                                       !.state = "active", !.mode = mode,
                                       !.interval = interval, !.last_run = ticks,
                                       !.entry = entry]
<1>1. h \subseteq Stacks
  BY Zenon DEF TypeOK, Freed
<1>2. next_task_id < MaxTaskId /\ next_task_id \in 1 .. MaxTaskId
  BY ZenonT(30) DEF create_task, TypeOK
<1>3. ASSUME NEW s \in Stacks PROVE [new EXCEPT !.stack = s] \in Task
  <2>1. next_task_id \in 0 .. MaxTaskId /\ ticks \in 0 .. TickModulus - 1
    BY SchedulerAssumption DEF TypeOK
  <2>. QED BY <2>1, NewTaskType, ZenonT(30)
<1>4. tasks' \in [Slots -> Task] /\ heap' \subseteq Stacks /\ next_task_id' \in 1 .. MaxTaskId
  <2>. HIDE DEF new
  <2>1. CASE \E s \in Stacks :
                /\ IsFirstFit(h, s)
                /\ tasks' = [tasks EXCEPT ![i] = [new EXCEPT !.stack = s]]
                /\ heap' = h \cup {s}
                /\ next_task_id' = next_task_id + 1
    <3>1. PICK s \in Stacks : /\ tasks' = [tasks EXCEPT ![i] = [new EXCEPT !.stack = s]]
                              /\ heap' = h \cup {s}
                              /\ next_task_id' = next_task_id + 1
      BY <2>1, Zenon
    <3>. DEFINE entered == [new EXCEPT !.stack = s]
    <3>2. entered \in Task
      BY <1>3, Zenon
    <3>3. tasks' = [tasks EXCEPT ![i] = entered]
      BY <3>1, Zenon
    <3>. HIDE DEF entered
    <3>4. tasks' \in [Slots -> Task]
      BY <3>2, <3>3, Zenon DEF TypeOK
    <3>5. heap' \subseteq Stacks
      BY <1>1, <3>1, Zenon
    <3>6. next_task_id' \in 1 .. MaxTaskId
      BY <1>2, <3>1, SchedulerAssumption
    <3>. QED BY <3>4, <3>5, <3>6, Zenon
  <2>2. CASE /\ tasks' = [tasks EXCEPT ![i] = ClearedTask]
             /\ heap' = h
             /\ UNCHANGED next_task_id
    BY <1>1, <1>2, <2>2, ClearedTaskType, Zenon DEF TypeOK
  <2>. QED BY <2>1, <2>2, Zenon DEF create_task, new
<1>5. counts' \in [Counted -> Nat]
  BY <1>4, RecalculateType, Zenon DEF create_task
<1>. QED BY <1>4, <1>5, Zenon DEF TableType

LEMMA DisableType ==
    ASSUME TypeOK, NEW i \in Slots, disable(i)
    PROVE  tasks' \in [Slots -> Task] /\ heap' \subseteq Stacks /\ counts' \in [Counted -> Nat]
<1>1. [WithoutStack(tasks[i]) EXCEPT !.state = "disabled"] \in Task
  BY TaskUpdates, SchedulerAssumption, Zenon DEF TypeOK, States
<1>2. tasks' \in [Slots -> Task] /\ heap' \subseteq Stacks
  BY <1>1, Zenon DEF TypeOK, disable, Freed
<1>. QED BY <1>2, RecalculateType, Zenon DEF disable

LEMMA LockType ==
    ASSUME TypeOK
    PROVE  /\ WithLock => lock' \in [depth : Int, saved : BOOLEAN] /\ irq' \in BOOLEAN
           /\ \A f \in BOOLEAN :
                /\ scheduler_lock(f) => lock' \in [depth : Int, saved : BOOLEAN]
                /\ scheduler_unlock(f) => /\ lock' \in [depth : Int, saved : BOOLEAN]
                                          /\ irq' \in BOOLEAN
<1>1. lock.depth \in Int /\ lock.saved \in BOOLEAN
  BY Zenon DEF TypeOK
<1>2. WithLock => lock' \in [depth : Int, saved : BOOLEAN] /\ irq' \in BOOLEAN
  BY Zenon DEF TypeOK, WithLock
<1>3. ASSUME NEW f \in BOOLEAN
      PROVE  /\ (IF lock.depth = 0 THEN f ELSE lock.saved) \in BOOLEAN
             /\ (IF lock.depth = 1 THEN FALSE ELSE lock.saved) \in BOOLEAN
             /\ (IF lock.depth = 1 THEN lock.saved ELSE f) \in BOOLEAN
  BY <1>1, Zenon
<1>4. ASSUME NEW f \in BOOLEAN, scheduler_lock(f)
      PROVE  lock' \in [depth : Int, saved : BOOLEAN]
  <2>1. lock.depth + 1 \in Int
    BY <1>1
  <2>. QED BY <1>3, <1>4, <2>1, Zenon DEF scheduler_lock
<1>5. ASSUME NEW f \in BOOLEAN, scheduler_unlock(f)
      PROVE  lock' \in [depth : Int, saved : BOOLEAN] /\ irq' \in BOOLEAN
  <2>1. lock.depth - 1 \in Int
    BY <1>1
  <2>. QED BY <1>3, <1>5, <2>1, Zenon DEF scheduler_unlock
<1>. QED BY <1>2, <1>4, <1>5, Zenon

LEMMA SelectType ==
    ASSUME TypeOK, NEW t \in [Slots -> Task], NEW now \in 0 .. TickModulus - 1
    PROVE  (SelectNone(t, now) \/ \E i \in Slots, kind \in Kinds : Select(t, now, i, kind))
              => /\ tasks' \in [Slots -> Task]
                 /\ current_task_index' \in Slots
                 /\ ready_queue' \subseteq Slots \X (0 .. MaxTaskId)
                 /\ passed' \in [Slots -> SUBSET Slots]
                 /\ frames' \in Seq(Frame)
<1>1. CASE SelectNone(t, now)
  BY <1>1, Zenon DEF SelectNone, TypeOK
<1>2. ASSUME NEW i \in Slots, NEW kind \in Kinds, Select(t, now, i, kind)
      PROVE  /\ tasks' \in [Slots -> Task]
             /\ current_task_index' \in Slots
             /\ ready_queue' \subseteq Slots \X (0 .. MaxTaskId)
             /\ passed' \in [Slots -> SUBSET Slots]
             /\ frames' \in Seq(Frame)
  <2>1. [t[i] EXCEPT !.last_run = now] \in Task
    BY TaskUpdates, Zenon DEF States
  <2>2. tasks' \in [Slots -> Task]
    BY <1>2, <2>1, Zenon DEF Select
  <2>3. current_task_index' \in Slots
    BY <1>2, SchedulerAssumption DEF Select, NextSlot, Slots
  <2>4. \A j \in Slots : t[j].id \in 0 .. MaxTaskId
    BY Zenon DEF Task
  <2>5. ready_queue' \subseteq Slots \X (0 .. MaxTaskId)
    BY <1>2, <2>4 DEF Select, ReadySlots
  <2>6. passed' \in [Slots -> SUBSET Slots]
    BY <1>2, Zenon DEF Select, TypeOK
  <2>7. frames' \in Seq(Frame)
    BY <1>2, FrameUpdates, Zenon DEF Select, TypeOK
  <2>. QED BY <2>2, <2>3, <2>5, <2>6, <2>7, Zenon
<1>. QED BY <1>1, <1>2, Zenon

LEMMA WakeType ==
    ASSUME TypeOK, NEW now \in 0 .. TickModulus - 1
    PROVE  /\ AfterWake(tasks, now) \in [Slots -> Task]
           /\ AfterWake(Elapsed(tasks), now) \in [Slots -> Task]
           /\ CountsAfterWake(tasks, now) \in [Counted -> Nat]
<1>1. /\ AfterWake(tasks, now) \in [Slots -> Task]
      /\ Elapsed(tasks) \in [Slots -> Task]
  BY TableUpdates, Zenon DEF TypeOK
<1>2. AfterWake(Elapsed(tasks), now) \in [Slots -> Task]
  BY <1>1, TableUpdates, ZenonT(30)
<1>3. TaskCounts(AfterWake(tasks, now)) \in [Counted -> Nat]
  BY <1>1, TableUpdates, Zenon
<1>. QED BY <1>1, <1>2, <1>3, Zenon DEF CountsAfterWake, TypeOK

(* Every step keeps the types.                                             *)
LEMMA TypeStep ==
    ASSUME TypeOK, [Next]_vars
    PROVE  TypeOK'
<1>. USE DEF TypeOK, dispatch, running, extras
<1>a. /\ 0 \in 0 .. TickModulus - 1
      /\ Intervals \subseteq 0 .. TickModulus - 1
      /\ SleepTicks \subseteq 0 .. TickModulus - 1
  BY SchedulerAssumption
<1>1. CASE create_kernel_task
  <2>1. TableType'
    BY <1>1, <1>a, CreateType, Zenon DEF create_kernel_task, Modes
  <2>. QED BY <1>1, <2>1, LockType, Zenon DEF create_kernel_task, TableType
<1>2. CASE disable_task
  <2>1. PICK i \in Slots : disable(i)
    BY <1>2, Zenon DEF disable_task
  <2>2. tasks' \in [Slots -> Task] /\ heap' \subseteq Stacks /\ counts' \in [Counted -> Nat]
    BY <2>1, DisableType, Zenon
  <2>. QED BY <1>2, <2>2, LockType, Zenon DEF disable_task
<1>3. CASE sleep_task
  <2>1. tasks' \in [Slots -> Task]
    <3>1. PICK i \in Slots, n \in SleepTicks :
             tasks' = [tasks EXCEPT ![i] = [tasks[i] EXCEPT !.state = "sleeping",
                                                            !.wake_tick = Plus(ticks, n),
                                                            !.due = n]]
      BY <1>3, Zenon DEF sleep_task
    <3>2. Plus(ticks, n) \in 0 .. TickModulus - 1
      BY <1>a, TickRange, Zenon
    <3>3. [tasks[i] EXCEPT !.state = "sleeping", !.wake_tick = Plus(ticks, n), !.due = n] \in Task
      <4>1. tasks[i] \in Task /\ n \in 0 .. TickModulus - 1 /\ "sleeping" \in States
        BY <1>a, Zenon DEF States
      <4>. QED BY <3>2, <4>1, ZenonT(30) DEF Task
    <3>. QED BY <3>1, <3>3, Zenon
  <2>2. counts' \in [Counted -> Nat]
    BY <1>3, <2>1, RecalculateType, Zenon DEF sleep_task
  <2>. QED BY <1>3, <2>1, <2>2, LockType, Zenon DEF sleep_task
<1>4. CASE wake_task
  <2>1. \A i \in Slots : [tasks[i] EXCEPT !.state = "active", !.wake_tick = 0] \in Task
    BY <1>a, TaskUpdates, Zenon DEF States
  <2>2. tasks' \in [Slots -> Task]
    <3>1. PICK i \in Slots : tasks' = [tasks EXCEPT ![i] = [tasks[i] EXCEPT !.state = "active",
                                                                          !.wake_tick = 0]]
      BY <1>4, Zenon DEF wake_task
    <3>. QED BY <1>a, <2>1, <3>1, Zenon
  <2>3. counts' \in [Counted -> Nat]
    BY <1>4, <2>2, RecalculateType, Zenon DEF wake_task
  <2>. QED BY <1>4, <2>2, <2>3, LockType, Zenon DEF wake_task
<1>b. ASSUME NEW i \in Slots PROVE [tasks[i] EXCEPT !.last_run = ticks] \in Task
  BY TaskUpdates, Zenon DEF States
<1>5. CASE yield_task
  <2>1. tasks' \in [Slots -> Task]
    BY <1>5, <1>b DEF yield_task, yield
  <2>. QED BY <1>5, <2>1, LockType, Zenon DEF yield_task
<1>6. CASE yield_current_task
  <2>1. current_running \in Slots
    BY <1>6, Zenon DEF yield_current_task
  <2>2. tasks' \in [Slots -> Task]
    BY <1>6, <1>b, <2>1, Zenon DEF yield_current_task, yield
  <2>. QED BY <1>6, <2>2, Zenon DEF yield_current_task, control
<1>7. CASE clear_inactive_tasks
  <2>1. tasks' \in [Slots -> Task]
    BY <1>7, <1>a, TableUpdates, Zenon DEF clear_inactive_tasks
  <2>2. counts' \in [Counted -> Nat]
    BY <1>7, <2>1, RecalculateType, Zenon DEF clear_inactive_tasks
  <2>. QED BY <1>7, <2>1, <2>2, LockType, Zenon DEF clear_inactive_tasks
<1>8. CASE repair
  <2>1. tasks' \in [Slots -> Task]
    BY <1>8, <1>a, TableUpdates, Zenon DEF repair
  <2>2. counts' \in [Counted -> Nat]
    BY <1>8, <2>1, RecalculateType, Zenon DEF repair
  <2>. QED BY <1>8, <2>1, <2>2, LockType, Zenon DEF repair
<1>9. CASE rejected_call
  BY <1>9, LockType, Zenon DEF rejected_call, table
<1>10. CASE set_preempt_test
  <2>1. preempt' \in [enabled : BOOLEAN, in_timer_dispatch : BOOLEAN,
                      interval : 0 .. TickModulus - 1, last : 0 .. TickModulus - 1]
    <3>1. /\ ClearedPreempt \in [enabled : BOOLEAN, in_timer_dispatch : BOOLEAN,
                                 interval : 0 .. TickModulus - 1, last : 0 .. TickModulus - 1]
          /\ \A n \in Intervals : n \in 0 .. TickModulus - 1
      BY <1>a, Zenon DEF ClearedPreempt
    <3>2. \/ \E n \in Intervals :
               preempt' = [preempt EXCEPT !.enabled = TRUE, !.interval = n, !.last = ticks]
          \/ preempt' = [preempt EXCEPT !.enabled = FALSE, !.in_timer_dispatch = FALSE]
          \/ preempt' = [preempt EXCEPT !.in_timer_dispatch = FALSE, !.last = ticks]
          \/ preempt' = ClearedPreempt
      BY <1>10, Zenon DEF set_preempt_test
    <3>. QED BY <3>1, <3>2, Zenon
  <2>. QED BY <1>10, <2>1, LockType, ZenonT(30) DEF set_preempt_test, table
<1>11. CASE create_test_workload
  <2>1. TableType'
    BY <1>11, <1>a, CreateType, Zenon DEF create_test_workload, Modes
  <2>2. workload_id' \in 0 .. MaxTaskId
    BY <1>11, SchedulerAssumption DEF create_test_workload
  <2>. QED BY <1>11, <2>1, <2>2, LockType, Zenon DEF create_test_workload, TableType
<1>12. CASE disable_test_workload
  <2>1. tasks' \in [Slots -> Task] /\ heap' \subseteq Stacks /\ counts' \in [Counted -> Nat]
    BY <1>12, DisableType, Zenon DEF disable_test_workload
  <2>2. workload_id' \in 0 .. MaxTaskId
    BY <1>12, SchedulerAssumption DEF disable_test_workload
  <2>. QED BY <1>12, <2>1, <2>2, LockType, Zenon DEF disable_test_workload
<1>13. CASE run_switch_test
  BY <1>13, Zenon DEF run_switch_test, control
<1>14. CASE reset_switch_test
  BY <1>14, Zenon DEF reset_switch_test, control
<1>15. CASE run_task_now
  <2>1. tasks' \in [Slots -> Task]
    BY <1>15, <1>b DEF run_task_now
  <2>2. frames' \in Seq(Frame)
    BY <1>15, FrameUpdates DEF run_task_now, Kinds
  <2>. QED BY <1>15, <2>1, <2>2, LockType, ZenonT(30) DEF run_task_now
<1>16. CASE run_task_with_context_switch
  <2>1. tasks' \in [Slots -> Task]
    BY <1>16, <1>b DEF run_task_with_context_switch
  <2>2. frames' \in Seq(Frame)
    BY <1>16, FrameUpdates DEF run_task_with_context_switch, Kinds
  <2>3. current_switched' \in Slots /\ main_context' \in Nat
    BY <1>16 DEF run_task_with_context_switch
  <2>. QED BY <1>16, <2>1, <2>2, <2>3, LockType, Zenon DEF run_task_with_context_switch
<1>17. CASE run_pending
  <2>1. counts' \in [Counted -> Nat]
    BY <1>17, WakeType, Zenon DEF run_pending
  <2>2. /\ tasks' \in [Slots -> Task]
        /\ current_task_index' \in Slots
        /\ ready_queue' \subseteq Slots \X (0 .. MaxTaskId)
        /\ passed' \in [Slots -> SUBSET Slots]
        /\ frames' \in Seq(Frame)
    <3>1. \/ SelectNone(AfterWake(tasks, ticks), ticks)
          \/ \E i \in Slots, kind \in Kinds : Select(AfterWake(tasks, ticks), ticks, i, kind)
      BY <1>17, Zenon DEF run_pending, Kinds
    <3>. QED BY <3>1, WakeType, SelectType, Zenon
  <2>3. lock' \in [depth : Int, saved : BOOLEAN] /\ irq' \in BOOLEAN
    BY <1>17, LockType, ZenonT(30) DEF run_pending
  <2>. QED BY <1>17, <2>1, <2>2, <2>3, Zenon DEF run_pending
<1>18. CASE timer_tick
  <2>. DEFINE now == Plus(ticks, 1)
              t == AfterWake(Elapsed(tasks), now)
  <2>1. now \in 0 .. TickModulus - 1
    BY TickSuccessor, Zenon
  <2>2. t \in [Slots -> Task] /\ CountsAfterWake(tasks, now) \in [Counted -> Nat]
    BY <2>1, WakeType, Zenon
  <2>. HIDE DEF now, t
  <2>3. /\ ticks' = now
        /\ counts' = CountsAfterWake(tasks, now)
        /\ UNCHANGED <<heap, next_task_id, running, extras>>
        /\ \/ /\ tasks' = t
              /\ UNCHANGED <<control, dispatch, preempt>>
           \/ /\ SelectNone(t, now)
              /\ preempt' = [preempt EXCEPT !.last = now]
              /\ UNCHANGED <<lock, irq>>
           \/ /\ \E i \in Slots, kind \in Kinds : Select(t, now, i, kind)
              /\ preempt' = [preempt EXCEPT !.in_timer_dispatch = TRUE, !.last = now]
              /\ scheduler_lock(FALSE)
              /\ irq' = FALSE
    BY <1>18, Zenon DEF timer_tick, Kinds, now, t
  <2>4. /\ tasks' \in [Slots -> Task]
        /\ current_task_index' \in Slots
        /\ ready_queue' \subseteq Slots \X (0 .. MaxTaskId)
        /\ passed' \in [Slots -> SUBSET Slots]
        /\ frames' \in Seq(Frame)
    BY <2>1, <2>2, <2>3, SelectType, Zenon DEF control
  <2>5. preempt' \in [enabled : BOOLEAN, in_timer_dispatch : BOOLEAN,
                      interval : 0 .. TickModulus - 1, last : 0 .. TickModulus - 1]
    BY <2>1, <2>3, Zenon
  <2>6. lock' \in [depth : Int, saved : BOOLEAN] /\ irq' \in BOOLEAN
    BY <2>3, LockType, Zenon DEF control
  <2>. QED BY <2>1, <2>2, <2>3, <2>4, <2>5, <2>6, Zenon
<1>19. CASE trampoline_enter
  <2>1. Top.slot \in Slots /\ (SetPhase("return") \/ SetPhase("body")) => frames' \in Seq(Frame)
    BY <1>19, FrameUpdates, Zenon DEF trampoline_enter, Phases
  <2>2. Top.slot \in Slots
    BY <1>19, FrameUpdates, Zenon DEF trampoline_enter, Frame
  <2>3. frames' \in Seq(Frame)
    BY <1>19, <2>1, <2>2, Zenon DEF trampoline_enter
  <2>4. [tasks[Top.slot] EXCEPT !.state = "running", !.ran = TRUE] \in Task
    BY <1>a, <2>2, TaskUpdates, Zenon DEF States
  <2>5. tasks' \in [Slots -> Task]
    <3>1. \/ tasks' = tasks
          \/ tasks' = [tasks EXCEPT ![Top.slot] =
                          [tasks[Top.slot] EXCEPT !.state = "running", !.ran = TRUE]]
      BY <1>19, <2>2, Zenon DEF trampoline_enter
    <3>. QED BY <2>4, <3>1, Zenon
  <2>6. counts' \in [Counted -> Nat]
    BY <1>19, <2>5, RecalculateType, Zenon DEF trampoline_enter
  <2>7. current_running' \in Slots \cup {NoTask}
    BY <1>19, <2>2, Zenon DEF trampoline_enter
  <2>. QED BY <1>19, <2>3, <2>5, <2>6, <2>7, Zenon DEF trampoline_enter
<1>20. CASE trampoline_exit
  <2>1. Top.slot \in Slots /\ frames' \in Seq(Frame)
    BY <1>20, FrameUpdates, Zenon DEF trampoline_exit, Phases, Frame
  <2>. DEFINE i == Top.slot
  <2>2. \A s \in States : /\ [tasks[i] EXCEPT !.state = s] \in Task
                          /\ [WithoutStack(tasks[i]) EXCEPT !.state = s] \in Task
    BY <1>a, <2>1, TaskUpdates, Zenon
  <2>3. StateAfterRun(tasks[i]) \in States
    BY Zenon DEF StateAfterRun, States
  <2>4. tasks' \in [Slots -> Task]
    BY <1>20, <2>1, <2>2, <2>3, Zenon DEF trampoline_exit
  <2>5. counts' \in [Counted -> Nat]
    BY <1>20, <2>4, RecalculateType, Zenon DEF trampoline_exit
  <2>. QED BY <1>20, <2>1, <2>4, <2>5, Zenon DEF trampoline_exit, Freed
<1>21. CASE direct_return
  BY <1>21, FrameUpdates, LockType DEF direct_return, table
<1>22. CASE timer_return
  <2>1. lock' \in [depth : Int, saved : BOOLEAN]
    <3>1. lock.depth - 1 \in Int /\ lock.saved \in BOOLEAN
      OBVIOUS
    <3>. QED BY <1>22, <3>1, Zenon DEF timer_return
  <2>. QED BY <1>22, <2>1, FrameUpdates, Zenon DEF timer_return, table
<1>23. CASE switched_return
  <2>1. Top.slot \in Slots /\ frames' \in Seq(Frame)
    BY <1>23, FrameUpdates, Zenon DEF switched_return, Phases, Frame
  <2>2. WithoutStack(tasks[Top.slot]) \in Task
    BY <1>a, <2>1, TaskUpdates, Zenon DEF States
  <2>3. tasks' \in [Slots -> Task]
    BY <1>23, <2>1, <2>2, Zenon DEF switched_return
  <2>4. counts' \in [Counted -> Nat]
    BY <1>23, <2>3, RecalculateType, Zenon DEF switched_return
  <2>5. lock' \in [depth : Int, saved : BOOLEAN] /\ irq' \in BOOLEAN
    BY <1>23, LockType, Zenon DEF switched_return
  <2>6. heap' \subseteq Stacks
    BY <1>23, Zenon DEF switched_return, Freed
  <2>. QED BY <1>23, <2>1, <2>3, <2>4, <2>5, <2>6, Zenon DEF switched_return
<1>24. CASE UNCHANGED vars
  BY <1>24, Zenon DEF vars, table, control
<1>. QED
  BY <1>1, <1>2, <1>3, <1>4, <1>5, <1>6, <1>7, <1>8, <1>9, <1>10, <1>11, <1>12,
     <1>13, <1>14, <1>15, <1>16, <1>17, <1>18, <1>19, <1>20, <1>21, <1>22, <1>23,
     <1>24, Zenon DEF Next, proceed

(* Every variable keeps its type; the slot pointers the code dereferences  *)
(* without a check and the scan index always lie inside the task table.    *)
THEOREM TypeCorrect == Spec => []TypeOK
<1>1. Init => TypeOK
  <2>1. SUFFICES ASSUME Init PROVE TypeOK
    BY Zenon
  <2>2. tasks \in [Slots -> Task] /\ current_task_index \in Slots
    BY <2>1, ClearedTaskType, SchedulerAssumption DEF Init, Slots
  <2>3. next_task_id \in 1 .. MaxTaskId /\ workload_id \in 0 .. MaxTaskId
    BY <2>1, SchedulerAssumption DEF Init
  <2>4. preempt \in [enabled : BOOLEAN, in_timer_dispatch : BOOLEAN,
                     interval : 0 .. TickModulus - 1, last : 0 .. TickModulus - 1]
    BY <2>1, SchedulerAssumption DEF Init, ClearedPreempt
  <2>5. /\ counts \in [Counted -> Nat]
        /\ passed \in [Slots -> SUBSET Slots]
        /\ frames \in Seq(Frame)
        /\ ticks \in 0 .. TickModulus - 1
    BY <2>1, SchedulerAssumption DEF Init
  <2>6. lock \in [depth : Int, saved : BOOLEAN] /\ irq \in BOOLEAN
    BY <2>1 DEF Init
  <2>. QED BY <2>1, <2>2, <2>3, <2>4, <2>5, <2>6, Zenon DEF Init, TypeOK
<1>2. TypeOK /\ [Next]_vars => TypeOK'
  BY TypeStep, Zenon
<1>. QED BY <1>1, <1>2, PTL DEF Spec


-----------------------------------------------------------------------------
(* Ownership of kernel stacks.                                             *)

(* The entries in F give up their stacks, the others keep them.            *)
Released(F) ==
    /\ \A i \in Slots : tasks'[i].stack = IF i \in F THEN NoStack ELSE tasks[i].stack
    /\ heap' = heap \ {tasks[i].stack : i \in F}
    /\ test_stack' = test_stack

LEMMA ReleaseKeepsOwnership ==
    ASSUME TypeOK, StackOwnership, NEW F \in SUBSET Slots, Released(F)
    PROVE  StackOwnership'
<1>1. ASSUME NEW i \in Slots, tasks'[i].stack # NoStack
      PROVE  /\ tasks'[i].stack \in heap'
             /\ tasks'[i].stack # test_stack'
             /\ \A j \in Slots \ {i} : tasks'[j].stack # tasks'[i].stack
  BY <1>1 DEF Released, StackOwnership
<1>2. test_stack' # NoStack => test_stack' \in heap'
  BY Zenon DEF Released, StackOwnership
<1>3. \A s \in heap' : s = test_stack' \/ \E i \in Slots : tasks'[i].stack = s
  BY DEF Released, StackOwnership
<1>. QED BY <1>1, <1>2, <1>3, Zenon DEF StackOwnership

LEMMA CreateKeepsOwnership ==
    ASSUME TypeOK, StackOwnership, NEW i \in Slots, NEW mode \in Modes,
           NEW interval, NEW entry,
           create_task(i, mode, interval, entry), test_stack' = test_stack
    PROVE  StackOwnership'
<1>1. ClearedTask.stack = NoStack
  BY Zenon DEF ClearedTask
<1>. DEFINE h == Freed(heap, tasks[i])
            new == [ClearedTask EXCEPT !.used = TRUE, !.id = next_task_id,
                                       !.state = "active", !.mode = mode,
                                       !.interval = interval, !.last_run = ticks,
                                       !.entry = entry]
<1>2. CASE \E s \in Stacks :
              /\ IsFirstFit(h, s)
              /\ tasks' = [tasks EXCEPT ![i] = [new EXCEPT !.stack = s]]
              /\ heap' = h \cup {s}
  <2>1. PICK s \in Stacks : /\ IsFirstFit(h, s)
                            /\ tasks' = [tasks EXCEPT ![i] = [new EXCEPT !.stack = s]]
                            /\ heap' = h \cup {s}
    BY <1>2, Zenon
  <2>2. [new EXCEPT !.stack = s].stack = s
    BY Zenon DEF ClearedTask
  <2>. HIDE DEF new
  <2>3. \A j \in Slots : tasks'[j].stack = IF j = i THEN s ELSE tasks[j].stack
    BY <2>1, <2>2, Zenon DEF TypeOK
  <2>4. s # NoStack /\ s \notin heap \ {tasks[i].stack}
    BY <2>1 DEF IsFirstFit, Stacks, NoStack, Freed
  <2>5. heap' = (heap \ {tasks[i].stack}) \cup {s}
    BY <2>1, Zenon DEF Freed
  <2>6. \A j \in Slots : tasks'[j].stack # NoStack =>
           /\ tasks'[j].stack \in heap'
           /\ tasks'[j].stack # test_stack'
           /\ \A k \in Slots \ {j} : tasks'[k].stack # tasks'[j].stack
    <3>1. ASSUME NEW j \in Slots, j # i, tasks[j].stack # NoStack
          PROVE  tasks[j].stack \in heap \ {tasks[i].stack}
      BY <3>1, Zenon DEF StackOwnership
    <3>2. test_stack # NoStack => test_stack \in heap \ {tasks[i].stack}
      BY Zenon DEF StackOwnership
    <3>. QED BY <2>3, <2>4, <2>5, <3>1, <3>2 DEF StackOwnership
  <2>7. test_stack' # NoStack => test_stack' \in heap'
    BY <2>5, Zenon DEF StackOwnership
  <2>8. \A r \in heap' : r = test_stack' \/ \E j \in Slots : tasks'[j].stack = r
    BY <2>3, <2>5, Zenon DEF StackOwnership
  <2>. QED BY <2>6, <2>7, <2>8, Zenon DEF StackOwnership
<1>3. CASE tasks' = [tasks EXCEPT ![i] = ClearedTask] /\ heap' = h
  <2>1. Released({i})
    <3>1. \A j \in Slots : tasks'[j] = IF j = i THEN ClearedTask ELSE tasks[j]
      BY <1>3, Zenon DEF TypeOK
    <3>2. \A j \in Slots : tasks'[j].stack = IF j \in {i} THEN NoStack ELSE tasks[j].stack
      BY <1>1, <3>1, Zenon
    <3>. QED BY <1>3, <3>2, Zenon DEF Released, Freed
  <2>. QED BY <2>1, ReleaseKeepsOwnership, Zenon
<1>. QED BY <1>2, <1>3, Zenon DEF create_task

LEMMA DisableReleases ==
    ASSUME TypeOK, NEW i \in Slots, disable(i), test_stack' = test_stack
    PROVE  Released({i})
<1>1. [WithoutStack(tasks[i]) EXCEPT !.state = "disabled"].stack = NoStack
  BY DEF TypeOK, Task, WithoutStack
<1>2. \A j \in Slots : tasks'[j].stack = IF j \in {i} THEN NoStack ELSE tasks[j].stack
  BY <1>1 DEF disable, TypeOK
<1>. QED BY <1>2, Zenon DEF Released, disable, Freed

(* Waking, the passing of time and a dispatch leave the stacks alone.      *)
LEMMA StacksKept ==
    ASSUME NEW t \in [Slots -> Task], NEW now, NEW i \in Slots
    PROVE  /\ AfterWake(t, now)[i].stack = t[i].stack
           /\ AfterWake(Elapsed(t), now)[i].stack = t[i].stack
           /\ \A j \in Slots : [t EXCEPT ![j].last_run = now][i].stack = t[i].stack
<1>1. t[i] \in Task /\ \A j \in Slots : t[j] \in Task
  BY Zenon
<1>2. AfterWake(t, now)[i].stack = t[i].stack
  BY <1>1, Zenon DEF AfterWake, Task
<1>3. Elapsed(t)[i].stack = t[i].stack
  BY <1>1, Zenon DEF Elapsed, Task
<1>4. AfterWake(Elapsed(t), now)[i].stack = Elapsed(t)[i].stack
  <2>1. Elapsed(t) \in [Slots -> Task]
    <3>1. 0 \in 0 .. TickModulus - 1
      BY SchedulerAssumption
    <3>. QED BY <3>1, TableUpdates, Zenon
  <2>2. Elapsed(t)[i] \in Task
    BY <2>1, Zenon
  <2>. QED BY <2>2, Zenon DEF AfterWake, Task
<1>5. \A j \in Slots : [t EXCEPT ![j].last_run = now][i].stack = t[i].stack
  BY <1>1, Zenon DEF Task
<1>. QED BY <1>2, <1>3, <1>4, <1>5, Zenon

(* Every step keeps the ownership of the kernel stacks.                    *)
LEMMA OwnershipStep ==
    ASSUME TypeOK, StackOwnership, [Next]_vars
    PROVE  StackOwnership'
<1>. USE DEF extras
<1>a. (test_stack' = test_stack /\ heap' = heap
         /\ \A i \in Slots : tasks'[i].stack = tasks[i].stack) => StackOwnership'
  BY DEF StackOwnership
<1>b. tasks \in [Slots -> Task] /\ \A i \in Slots : tasks[i] \in Task
  BY Zenon DEF TypeOK
<1>1. CASE create_kernel_task
  <2>1. Intervals \subseteq 0 .. TickModulus - 1
    BY SchedulerAssumption
  <2>. QED BY <1>1, <2>1, CreateKeepsOwnership, Zenon DEF create_kernel_task, Modes
<1>2. CASE disable_task
  BY <1>2, DisableReleases, ReleaseKeepsOwnership, Zenon DEF disable_task
<1>3. CASE sleep_task
  BY <1>3, <1>a, <1>b DEF sleep_task, Task
<1>4. CASE wake_task
  BY <1>4, <1>a, <1>b DEF wake_task, Task
<1>5. CASE yield_task
  BY <1>5, <1>a, <1>b, StacksKept DEF yield_task, yield
<1>6. CASE yield_current_task
  <2>1. current_running \in Slots
    BY <1>6, Zenon DEF yield_current_task, TypeOK
  <2>. QED BY <1>6, <1>a, <1>b, <2>1, StacksKept DEF yield_current_task, yield
<1>7. CASE clear_inactive_tasks
  <2>. DEFINE F == {j \in Slots : Inactive(tasks[j])}
  <2>1. \A i \in Slots : tasks'[i].stack = IF i \in F THEN NoStack ELSE tasks[i].stack
    BY <1>7, Zenon DEF clear_inactive_tasks, ClearedTask
  <2>2. Released(F)
    BY <1>7, <2>1, Zenon DEF clear_inactive_tasks, Released
  <2>. QED BY <2>2, ReleaseKeepsOwnership, Zenon
<1>8. CASE repair
  <2>. DEFINE F == {j \in Slots : Repaired(tasks[j]).stack = NoStack}
  <2>1. \A i \in Slots : Repaired(tasks[i]).stack \in {NoStack, tasks[i].stack}
    <3>1. ASSUME NEW t \in Task
          PROVE  /\ WithoutStack(t).stack = NoStack
                 /\ [WithoutStack(t) EXCEPT !.state = "disabled"].stack = NoStack
                 /\ [t EXCEPT !.state = "active"].stack = t.stack
      BY Zenon DEF Task, WithoutStack
    <3>. QED BY <1>b, <3>1, Zenon DEF Repaired
  <2>2. \A i \in Slots : tasks'[i].stack = IF i \in F THEN NoStack ELSE tasks[i].stack
    BY <1>8, <2>1, Zenon DEF repair
  <2>3. Released(F)
    BY <1>8, <2>2, Zenon DEF repair, Released
  <2>. QED BY <2>3, ReleaseKeepsOwnership, Zenon
<1>9. CASE rejected_call
  BY <1>9, <1>a, Zenon DEF rejected_call, table
<1>10. CASE set_preempt_test
  BY <1>10, <1>a, Zenon DEF set_preempt_test, table
<1>11. CASE create_test_workload
  BY <1>11, CreateKeepsOwnership, Zenon DEF create_test_workload, Modes
<1>12. CASE disable_test_workload
  BY <1>12, <1>a, DisableReleases, ReleaseKeepsOwnership, Zenon DEF disable_test_workload
<1>13. CASE run_switch_test
  <2>1. PICK s \in Stacks : /\ s \notin heap
                            /\ test_stack' = s
                            /\ heap' = heap \cup {s}
    BY <1>13, Zenon DEF run_switch_test, IsFirstFit
  <2>2. test_stack = NoStack /\ tasks' = tasks
    BY <1>13, Zenon DEF run_switch_test
  <2>. QED BY <2>1, <2>2 DEF StackOwnership, TypeOK, Stacks, NoStack
<1>14. CASE reset_switch_test
  BY <1>14, Zenon DEF reset_switch_test, StackOwnership
<1>15. CASE run_task_now
  BY <1>15, <1>a, <1>b, StacksKept DEF run_task_now
<1>16. CASE run_task_with_context_switch
  BY <1>16, <1>a, <1>b, StacksKept DEF run_task_with_context_switch
<1>c. ASSUME NEW t \in [Slots -> Task], NEW now, NEW kind,
             SelectNone(t, now) \/ \E i \in Slots : Select(t, now, i, kind)
      PROVE  \A i \in Slots : tasks'[i].stack = t[i].stack
  <2>1. CASE SelectNone(t, now)
    BY <2>1, Zenon DEF SelectNone
  <2>2. CASE \E i \in Slots : Select(t, now, i, kind)
    <3>1. PICK i \in Slots : tasks' = [t EXCEPT ![i].last_run = now]
      BY <2>2, Zenon DEF Select
    <3>. QED BY <3>1, StacksKept
  <2>. QED BY <1>c, <2>1, <2>2, Zenon
<1>17. CASE run_pending
  <2>1. AfterWake(tasks, ticks) \in [Slots -> Task]
    BY WakeType, Zenon DEF TypeOK
  <2>2. \/ SelectNone(AfterWake(tasks, ticks), ticks)
        \/ \E i \in Slots : Select(AfterWake(tasks, ticks), ticks, i, "pending")
    BY <1>17, Zenon DEF run_pending
  <2>3. \A i \in Slots : tasks'[i].stack = AfterWake(tasks, ticks)[i].stack
    BY <1>c, <2>1, <2>2, Zenon
  <2>4. heap' = heap /\ test_stack' = test_stack
    BY <1>17, Zenon DEF run_pending
  <2>. QED BY <1>a, <1>b, <2>3, <2>4, StacksKept
<1>18. CASE timer_tick
  <2>. DEFINE now == Plus(ticks, 1)
              t == AfterWake(Elapsed(tasks), now)
  <2>1. t \in [Slots -> Task]
    BY TickSuccessor, WakeType, Zenon DEF TypeOK
  <2>2. \/ tasks' = t
        \/ SelectNone(t, now) \/ \E i \in Slots : Select(t, now, i, "timer")
    BY <1>18, Zenon DEF timer_tick
  <2>3. \A i \in Slots : t[i].stack = tasks[i].stack
    BY <1>b, StacksKept, Zenon
  <2>4. heap' = heap /\ test_stack' = test_stack
    BY <1>18, Zenon DEF timer_tick
  <2>. HIDE DEF t, now
  <2>5. \A i \in Slots : tasks'[i].stack = t[i].stack
    BY <1>c, <2>1, <2>2, Zenon
  <2>. QED BY <1>a, <2>3, <2>4, <2>5, Zenon
<1>d. frames # <<>> => Top.slot \in Slots
  BY FrameUpdates, Zenon DEF TypeOK, Frame
<1>19. CASE trampoline_enter
  <2>1. Top.slot \in Slots
    BY <1>19, <1>d, Zenon DEF trampoline_enter
  <2>2. \A i \in Slots : tasks'[i].stack = tasks[i].stack
    <3>1. \/ tasks' = tasks
          \/ tasks' = [tasks EXCEPT ![Top.slot] =
                          [tasks[Top.slot] EXCEPT !.state = "running", !.ran = TRUE]]
      BY <1>19, <1>b, <2>1, Zenon DEF trampoline_enter
    <3>2. [tasks[Top.slot] EXCEPT !.state = "running", !.ran = TRUE].stack = tasks[Top.slot].stack
      BY <1>b, <2>1, Zenon DEF Task
    <3>. QED BY <1>b, <2>1, <3>1, <3>2, Zenon
  <2>. QED BY <1>19, <1>a, <2>2, Zenon DEF trampoline_enter
<1>20. CASE trampoline_exit
  <2>. DEFINE i == Top.slot
  <2>1. i \in Slots
    BY <1>20, <1>d, Zenon DEF trampoline_exit
  <2>2. \A s : /\ [tasks[i] EXCEPT !.state = s].stack = tasks[i].stack
               /\ [WithoutStack(tasks[i]) EXCEPT !.state = s].stack = NoStack
    BY <1>b, <2>1, Zenon DEF WithoutStack, Task
  <2>3. CASE KeepsStack(tasks[i])
    <3>1. \A j \in Slots : tasks'[j].stack = tasks[j].stack
      BY <1>20, <1>b, <2>1, <2>2, <2>3, Zenon DEF trampoline_exit
    <3>. QED BY <1>20, <1>a, <2>3, <3>1, Zenon DEF trampoline_exit
  <2>4. CASE ~KeepsStack(tasks[i])
    <3>1. \A j \in Slots : tasks'[j].stack = IF j \in {i} THEN NoStack ELSE tasks[j].stack
      BY <1>20, <1>b, <2>1, <2>2, <2>4, Zenon DEF trampoline_exit
    <3>2. Released({i})
      BY <1>20, <2>4, <3>1, Zenon DEF trampoline_exit, Released, Freed
    <3>. QED BY <2>1, <3>2, ReleaseKeepsOwnership, Zenon
  <2>. QED BY <2>3, <2>4, Zenon
<1>21. CASE direct_return
  BY <1>21, <1>a, Zenon DEF direct_return, table
<1>22. CASE timer_return
  BY <1>22, <1>a, Zenon DEF timer_return, table
<1>23. CASE switched_return
  <2>. DEFINE i == Top.slot
  <2>1. i \in Slots
    BY <1>23, <1>d, Zenon DEF switched_return
  <2>2. WithoutStack(tasks[i]).stack = NoStack
    BY <1>b, <2>1, Zenon DEF WithoutStack, Task
  <2>3. CASE tasks' = tasks /\ heap' = heap
    BY <1>23, <1>a, <2>3, Zenon DEF switched_return
  <2>4. CASE tasks' = [tasks EXCEPT ![i] = WithoutStack(tasks[i])] /\ heap' = Freed(heap, tasks[i])
    <3>1. \A j \in Slots : tasks'[j].stack = IF j \in {i} THEN NoStack ELSE tasks[j].stack
      BY <1>b, <2>1, <2>2, <2>4, Zenon
    <3>2. Released({i})
      BY <1>23, <2>4, <3>1 DEF switched_return, Released, Freed
    <3>. QED BY <2>1, <3>2, ReleaseKeepsOwnership, Zenon
  <2>. QED BY <1>23, <2>3, <2>4, Zenon DEF switched_return
<1>24. CASE UNCHANGED vars
  BY <1>24, <1>a, Zenon DEF vars, table
<1>. QED
  BY <1>1, <1>2, <1>3, <1>4, <1>5, <1>6, <1>7, <1>8, <1>9, <1>10, <1>11, <1>12,
     <1>13, <1>14, <1>15, <1>16, <1>17, <1>18, <1>19, <1>20, <1>21, <1>22, <1>23,
     <1>24, Zenon DEF Next, proceed

(* No order of creations, exits, interrupts, repairs and nested runs leaks *)
(* a kernel stack, gives one to two tasks or frees one twice.              *)
THEOREM StacksOwned == Spec => []StackOwnership
<1>1. Init => StackOwnership
  <2>1. SUFFICES ASSUME Init PROVE StackOwnership
    BY Zenon
  <2>2. \A i \in Slots : tasks[i].stack = NoStack
    BY <2>1, Zenon DEF Init, ClearedTask
  <2>. QED BY <2>1, <2>2, Zenon DEF Init, StackOwnership
<1>2. TypeOK /\ StackOwnership /\ [Next]_vars => StackOwnership'
  BY OwnershipStep, Zenon
<1>. QED BY <1>1, <1>2, TypeCorrect, PTL DEF Spec

-----------------------------------------------------------------------------
(* Frames and the RUNNING state.                                           *)

(* What the changes of the frame stack do to the frames in it.             *)
LEMMA FrameShape ==
    ASSUME frames \in Seq(Frame)
    PROVE  /\ \A i, kind : /\ Len(Pushed(i, kind)) = Len(frames) + 1
                           /\ \A k \in 1 .. Len(frames) : Pushed(i, kind)[k] = frames[k]
                           /\ Pushed(i, kind)[Len(frames) + 1] =
                                 [slot |-> i, kind |-> kind, phase |-> "enter"]
           /\ frames # <<>> =>
                /\ Len(frames) \in Nat \ {0}
                /\ Top = frames[Len(frames)]
                /\ Len(Lower) = Len(frames) - 1
                /\ \A k \in 1 .. Len(frames) - 1 : Lower[k] = frames[k]
                /\ \A p : SetPhase(p) =>
                     /\ Len(frames') = Len(frames)
                     /\ \A k \in 1 .. Len(frames) - 1 : frames'[k] = frames[k]
                     /\ frames'[Len(frames)].slot = Top.slot
                     /\ frames'[Len(frames)].kind = Top.kind
                     /\ frames'[Len(frames)].phase = p
<1>1. \A i, kind : /\ Len(Pushed(i, kind)) = Len(frames) + 1
                   /\ \A k \in 1 .. Len(frames) : Pushed(i, kind)[k] = frames[k]
                   /\ Pushed(i, kind)[Len(frames) + 1] =
                         [slot |-> i, kind |-> kind, phase |-> "enter"]
  BY DEF Pushed
<1>2. ASSUME frames # <<>>
      PROVE  /\ Len(frames) \in Nat \ {0}
             /\ Top = frames[Len(frames)]
             /\ Len(Lower) = Len(frames) - 1
             /\ \A k \in 1 .. Len(frames) - 1 : Lower[k] = frames[k]
  <2>1. Len(frames) \in Nat \ {0}
    BY <1>2, FrameUpdates, Zenon
  <2>2. \A k \in 1 .. Len(frames) - 1 : frames[k] \in Frame
    BY <2>1
  <2>3. /\ Len(Lower) = IF 1 <= Len(frames) - 1 THEN (Len(frames) - 1) - 1 + 1 ELSE 0
        /\ \A k \in 1 .. (Len(frames) - 1) - 1 + 1 : Lower[k] = frames[1 + k - 1]
    BY <2>1, <2>2, SubSeqProperties DEF Lower
  <2>4. /\ Len(Lower) = Len(frames) - 1
        /\ \A k \in 1 .. Len(frames) - 1 : Lower[k] = frames[k]
    <3>1. Len(Lower) = Len(frames) - 1
      <4>1. \A n \in Nat \ {0} : (IF 1 <= n - 1 THEN (n - 1) - 1 + 1 ELSE 0) = n - 1
        OBVIOUS
      <4>. QED BY <2>1, <2>3, <4>1, Zenon
    <3>2. ASSUME NEW k \in 1 .. Len(frames) - 1 PROVE Lower[k] = frames[k]
      <4>1. 1 + k - 1 = k /\ (Len(frames) - 1) - 1 + 1 = Len(frames) - 1
        BY <2>1
      <4>. QED BY <2>3, <4>1, Zenon
    <3>. QED BY <3>1, <3>2, Zenon
  <2>. QED BY <2>1, <2>4, Zenon DEF Top
<1>3. ASSUME frames # <<>>, NEW p, SetPhase(p)
      PROVE  /\ Len(frames') = Len(frames)
             /\ \A k \in 1 .. Len(frames) - 1 : frames'[k] = frames[k]
             /\ frames'[Len(frames)].slot = Top.slot
             /\ frames'[Len(frames)].kind = Top.kind
             /\ frames'[Len(frames)].phase = p
  <2>1. frames' = [frames EXCEPT ![Len(frames)] = [Top EXCEPT !.phase = p]]
    BY <1>3, Zenon DEF SetPhase, Top
  <2>2. Top \in Frame /\ Len(frames) \in 1 .. Len(frames)
    BY <1>2, <1>3, FrameUpdates
  <2>3. /\ [Top EXCEPT !.phase = p].slot = Top.slot
        /\ [Top EXCEPT !.phase = p].kind = Top.kind
        /\ [Top EXCEPT !.phase = p].phase = p
    BY <2>2, Zenon DEF Frame
  <2>4. Len(frames') = Len(frames) /\ DOMAIN frames = 1 .. Len(frames)
    BY <2>1
  <2>. QED BY <2>1, <2>2, <2>3, <2>4
<1>. QED BY <1>1, <1>2, <1>3

(* No task becomes RUNNING, and no entry function in progress is left.     *)
NoneStarted == \A i \in Slots : tasks'[i].state = "running" => tasks[i].state = "running"
NoneLeft ==
    \A k \in 1 .. Len(frames) : frames[k].phase = "body" =>
        /\ k \in 1 .. Len(frames')
        /\ frames'[k].slot = frames[k].slot
        /\ frames'[k].phase = "body"

LEMMA RunningKept ==
    ASSUME RunningIsExecuting, NoneStarted, NoneLeft
    PROVE  RunningIsExecuting'
  BY DEF RunningIsExecuting, NoneStarted, NoneLeft

(* A push leaves no entry function; nor does a change at the top when the  *)
(* top frame is not inside one.                                            *)
LEMMA FramesLeaveNone ==
    ASSUME TypeOK
    PROVE  /\ \A i, kind : frames' = Pushed(i, kind) => NoneLeft
           /\ \A p : frames # <<>> /\ Top.phase # "body" /\ SetPhase(p) => NoneLeft
           /\ frames # <<>> /\ Top.phase # "body" /\ frames' = Lower => NoneLeft
<1>1. frames \in Seq(Frame) /\ Len(frames) \in Nat
  BY DEF TypeOK
<1>2. ASSUME NEW i, NEW kind, frames' = Pushed(i, kind) PROVE NoneLeft
  <2>1. /\ Len(frames') = Len(frames) + 1
        /\ \A k \in 1 .. Len(frames) : frames'[k] = frames[k]
    BY <1>1, <1>2 DEF Pushed
  <2>. QED BY <1>1, <2>1 DEF NoneLeft
<1>3. ASSUME frames # <<>>, Top.phase # "body",
             frames' = Lower \/ \E p : SetPhase(p)
      PROVE  NoneLeft
  <2>1. /\ Top = frames[Len(frames)]
        /\ Len(frames') \in {Len(frames) - 1, Len(frames)}
        /\ \A k \in 1 .. Len(frames) - 1 : frames'[k] = frames[k]
    <3>1. CASE frames' = Lower
      BY <1>1, <1>3, <3>1, FrameShape, Zenon
    <3>2. CASE \E p : SetPhase(p)
      BY <1>1, <1>3, <3>2, FrameShape, Zenon
    <3>. QED BY <1>3, <3>1, <3>2, Zenon
  <2>2. ASSUME NEW k \in 1 .. Len(frames), frames[k].phase = "body"
        PROVE  k \in 1 .. Len(frames) - 1
    BY <1>1, <1>3, <2>1, <2>2
  <2>. QED BY <1>1, <2>1, <2>2, Zenon DEF NoneLeft
<1>. QED BY <1>2, <1>3, Zenon

(* The operations on the table start no task.                              *)
LEMMA TableOperationsStartNone ==
    ASSUME TypeOK
    PROVE  /\ \A i \in Slots : \A mode, interval, entry :
                 create_task(i, mode, interval, entry) => NoneStarted
           /\ \A i \in Slots : disable(i) => NoneStarted
           /\ \A i \in Slots : yield(i) => NoneStarted
           /\ \A i \in Slots : \A now : tasks' = [tasks EXCEPT ![i].last_run = now] => NoneStarted
<1>a. \A j \in Slots : tasks[j] \in Task
  BY Zenon DEF TypeOK
<1>b. tasks \in [Slots -> Task]
  BY Zenon DEF TypeOK
<1>1. ASSUME NEW i \in Slots, NEW mode, NEW interval, NEW entry,
             create_task(i, mode, interval, entry)
      PROVE  NoneStarted
  <2>. DEFINE new == [ClearedTask EXCEPT !.used = TRUE, !.id = next_task_id,
                                         !.state = "active", !.mode = mode,
                                         !.interval = interval, !.last_run = ticks,
                                         !.entry = entry]
  <2>1. \/ tasks' = [tasks EXCEPT ![i] = ClearedTask]
        \/ \E s \in Stacks : tasks' = [tasks EXCEPT ![i] = [new EXCEPT !.stack = s]]
    BY <1>1, Zenon DEF create_task
  <2>2. ASSUME NEW s PROVE [new EXCEPT !.stack = s].state = "active"
    BY Zenon DEF ClearedTask
  <2>3. ClearedTask.state = "unused"
    BY Zenon DEF ClearedTask
  <2>. HIDE DEF new
  <2>4. \A j \in Slots : tasks'[j] = tasks[j] \/ tasks'[j].state \in {"active", "unused"}
    <3>1. CASE tasks' = [tasks EXCEPT ![i] = ClearedTask]
      BY <1>b, <2>3, <3>1, Zenon
    <3>2. ASSUME NEW s \in Stacks, tasks' = [tasks EXCEPT ![i] = [new EXCEPT !.stack = s]]
          PROVE  \A j \in Slots : tasks'[j] = tasks[j] \/ tasks'[j].state = "active"
      BY <1>b, <2>2, <3>2, Zenon
    <3>. QED BY <2>1, <3>1, <3>2, Zenon
  <2>. QED BY <2>4, Zenon DEF NoneStarted
<1>2. ASSUME NEW i \in Slots, disable(i) PROVE NoneStarted
  <2>1. [WithoutStack(tasks[i]) EXCEPT !.state = "disabled"].state = "disabled"
    BY <1>a, Zenon DEF WithoutStack, Task
  <2>. QED BY <1>2, <1>b, <2>1, Zenon DEF NoneStarted, disable
<1>3. ASSUME NEW i \in Slots, NEW now, tasks' = [tasks EXCEPT ![i].last_run = now]
      PROVE  NoneStarted
  <2>1. \A j \in Slots : tasks'[j].state = tasks[j].state
    BY <1>3, <1>a, <1>b, Zenon DEF Task
  <2>. QED BY <2>1, Zenon DEF NoneStarted
<1>. QED BY <1>1, <1>2, <1>3, Zenon DEF yield

(* Neither do waking, the passing of time and the selection itself.        *)
LEMMA SelectionStartsNone ==
    ASSUME TypeOK, NEW t \in [Slots -> Task], NEW now, NEW kind,
           \A i \in Slots : t[i].state = "running" => tasks[i].state = "running",
           SelectNone(t, now) \/ \E i \in Slots : Select(t, now, i, kind)
    PROVE  NoneStarted /\ NoneLeft
<1>1. CASE SelectNone(t, now)
  BY <1>1, Zenon DEF SelectNone, NoneStarted, NoneLeft
<1>2. CASE \E i \in Slots : Select(t, now, i, kind)
  <2>1. PICK i \in Slots : tasks' = [t EXCEPT ![i].last_run = now] /\ frames' = Pushed(i, kind)
    BY <1>2, Zenon DEF Select
  <2>2. \A j \in Slots : t[j] \in Task
    BY Zenon
  <2>3. \A j \in Slots : tasks'[j].state = t[j].state
    BY <2>1, <2>2, Zenon DEF Task
  <2>4. NoneLeft
    BY <2>1, FramesLeaveNone, Zenon
  <2>. QED BY <2>3, <2>4, Zenon DEF NoneStarted
<1>. QED BY <1>1, <1>2, Zenon

LEMMA WakingStartsNone ==
    ASSUME TypeOK, NEW now, NEW i \in Slots
    PROVE  /\ AfterWake(tasks, now)[i].state = "running" => tasks[i].state = "running"
           /\ AfterWake(Elapsed(tasks), now)[i].state = "running" => tasks[i].state = "running"
<1>1. ASSUME NEW t \in [Slots -> Task]
      PROVE  AfterWake(t, now)[i].state = "running" => t[i].state = "running"
  <2>1. t[i] \in Task
    BY Zenon
  <2>. QED BY <2>1, Zenon DEF AfterWake, Task
<1>2. tasks \in [Slots -> Task] /\ tasks[i] \in Task /\ Elapsed(tasks) \in [Slots -> Task]
  <2>1. 0 \in 0 .. TickModulus - 1
    BY SchedulerAssumption
  <2>. QED BY <2>1, TableUpdates, Zenon DEF TypeOK
<1>3. Elapsed(tasks)[i].state = tasks[i].state
  BY <1>2, Zenon DEF Elapsed, Task
<1>. QED BY <1>1, <1>2, <1>3, Zenon

LEMMA RunningStep ==
    ASSUME TypeOK, RunningIsExecuting, [Next]_vars
    PROVE  RunningIsExecuting'
<1>a. tasks \in [Slots -> Task] /\ \A i \in Slots : tasks[i] \in Task
  BY Zenon DEF TypeOK
<1>b. frames' = frames => NoneLeft
  BY Zenon DEF NoneLeft
<1>c. \A i, kind : frames' = Pushed(i, kind) => NoneLeft
  BY FramesLeaveNone, Zenon
<1>d. tasks' = tasks => NoneStarted
  BY Zenon DEF NoneStarted
<1>1. CASE create_kernel_task
  BY <1>1, <1>b, TableOperationsStartNone, RunningKept, Zenon DEF create_kernel_task
<1>2. CASE disable_task
  BY <1>2, <1>b, TableOperationsStartNone, RunningKept, Zenon DEF disable_task
<1>3. CASE sleep_task
  <2>1. NoneStarted
    BY <1>3, <1>a DEF sleep_task, NoneStarted, Task
  <2>. QED BY <1>3, <1>b, <2>1, RunningKept, Zenon DEF sleep_task
<1>4. CASE wake_task
  <2>1. NoneStarted
    BY <1>4, <1>a, ZenonT(60) DEF wake_task, NoneStarted, Task
  <2>. QED BY <1>4, <1>b, <2>1, RunningKept, Zenon DEF wake_task
<1>5. CASE yield_task
  BY <1>5, <1>b, TableOperationsStartNone, RunningKept, Zenon DEF yield_task
<1>6. CASE yield_current_task
  <2>1. current_running \in Slots
    BY <1>6, Zenon DEF yield_current_task, TypeOK
  <2>. QED BY <1>6, <1>b, <2>1, TableOperationsStartNone, RunningKept, Zenon
           DEF yield_current_task, control
<1>7. CASE clear_inactive_tasks
  <2>1. NoneStarted
    BY <1>7, Zenon DEF clear_inactive_tasks, NoneStarted, ClearedTask
  <2>. QED BY <1>7, <1>b, <2>1, RunningKept, Zenon DEF clear_inactive_tasks
<1>8. CASE repair
  <2>1. ASSUME NEW t \in Task PROVE Repaired(t).state = "running" => t.state = "running"
    <3>1. /\ WithoutStack(t).state = t.state
          /\ [WithoutStack(t) EXCEPT !.state = "disabled"].state = "disabled"
          /\ [t EXCEPT !.state = "active"].state = "active"
      BY Zenon DEF Task, WithoutStack
    <3>. QED BY <3>1, Zenon DEF Repaired
  <2>2. NoneStarted
    BY <1>8, <1>a, <2>1, Zenon DEF repair, NoneStarted
  <2>. QED BY <1>8, <1>b, <2>2, RunningKept, Zenon DEF repair
<1>9. CASE rejected_call
  BY <1>9, <1>b, <1>d, RunningKept, Zenon DEF rejected_call, table
<1>10. CASE set_preempt_test
  BY <1>10, <1>b, <1>d, RunningKept, Zenon DEF set_preempt_test, table
<1>11. CASE create_test_workload
  BY <1>11, <1>b, TableOperationsStartNone, RunningKept, Zenon DEF create_test_workload
<1>12. CASE disable_test_workload
  BY <1>12, <1>b, <1>d, TableOperationsStartNone, RunningKept, Zenon DEF disable_test_workload
<1>13. CASE run_switch_test
  BY <1>13, <1>b, <1>d, RunningKept, Zenon DEF run_switch_test, control
<1>14. CASE reset_switch_test
  BY <1>14, <1>b, <1>d, RunningKept, Zenon DEF reset_switch_test, control
<1>15. CASE run_task_now
  BY <1>15, <1>c, TableOperationsStartNone, RunningKept, Zenon DEF run_task_now
<1>16. CASE run_task_with_context_switch
  BY <1>16, <1>c, TableOperationsStartNone, RunningKept, Zenon DEF run_task_with_context_switch
<1>17. CASE run_pending
  <2>1. AfterWake(tasks, ticks) \in [Slots -> Task]
    BY WakeType, Zenon DEF TypeOK
  <2>2. \/ SelectNone(AfterWake(tasks, ticks), ticks)
        \/ \E i \in Slots : Select(AfterWake(tasks, ticks), ticks, i, "pending")
    BY <1>17, Zenon DEF run_pending
  <2>. QED BY <2>1, <2>2, WakingStartsNone, SelectionStartsNone, RunningKept, Zenon
<1>18. CASE timer_tick
  <2>. DEFINE now == Plus(ticks, 1)
              t == AfterWake(Elapsed(tasks), now)
  <2>1. t \in [Slots -> Task]
    BY TickSuccessor, WakeType, Zenon DEF TypeOK
  <2>2. \/ tasks' = t /\ frames' = frames
        \/ SelectNone(t, now) \/ \E i \in Slots : Select(t, now, i, "timer")
    BY <1>18, Zenon DEF timer_tick, control
  <2>3. \A i \in Slots : t[i].state = "running" => tasks[i].state = "running"
    BY WakingStartsNone, Zenon
  <2>. HIDE DEF t, now
  <2>4. NoneStarted /\ NoneLeft
    <3>1. CASE tasks' = t /\ frames' = frames
      BY <1>b, <2>3, <3>1, Zenon DEF NoneStarted
    <3>2. CASE SelectNone(t, now) \/ \E i \in Slots : Select(t, now, i, "timer")
      BY <2>1, <2>3, <3>2, SelectionStartsNone, Zenon
    <3>. QED BY <2>2, <3>1, <3>2, Zenon
  <2>. QED BY <2>4, RunningKept, Zenon
<1>e. frames # <<>> => Top.slot \in Slots
  BY FrameUpdates, Zenon DEF TypeOK, Frame
<1>f. ASSUME NEW p, frames # <<>>, Top.phase # "body", SetPhase(p)
      PROVE  NoneLeft
  BY <1>f, FramesLeaveNone, Zenon
<1>19. CASE trampoline_enter
  <2>1. frames # <<>> /\ Top.phase = "enter" /\ Top.slot \in Slots
    BY <1>19, <1>e, Zenon DEF trampoline_enter
  <2>2. NoneLeft
    BY <1>19, <1>f, <2>1, Zenon DEF trampoline_enter
  <2>3. CASE tasks' = tasks
    BY <1>d, <2>2, <2>3, RunningKept, Zenon
  <2>4. CASE tasks' = [tasks EXCEPT ![Top.slot].state = "running", ![Top.slot].ran = TRUE]
             /\ SetPhase("body")
    <3>1. \A i \in Slots \ {Top.slot} : tasks'[i] = tasks[i]
      BY <1>a, <2>1, <2>4, Zenon
    <3>2. Len(frames) \in 1 .. Len(frames')
          /\ frames'[Len(frames)].slot = Top.slot /\ frames'[Len(frames)].phase = "body"
      BY <2>1, <2>4, FrameShape DEF TypeOK
    <3>3. ASSUME NEW i \in Slots, tasks'[i].state = "running"
          PROVE  \E k \in 1 .. Len(frames') : frames'[k].slot = i /\ frames'[k].phase = "body"
      <4>1. CASE i = Top.slot
        BY <3>2, <4>1, Zenon
      <4>2. CASE i # Top.slot
        BY <2>2, <3>1, <3>3, <4>2 DEF RunningIsExecuting, NoneLeft
      <4>. QED BY <4>1, <4>2, Zenon
    <3>. QED BY <3>3, Zenon DEF RunningIsExecuting
  <2>. QED BY <1>19, <2>3, <2>4, Zenon DEF trampoline_enter
<1>20. CASE trampoline_exit
  <2>. DEFINE n == Len(frames)
              i == Top.slot
  <2>1. frames # <<>> /\ i \in Slots
    BY <1>20, <1>e, Zenon DEF trampoline_exit
  <2>2. /\ \A j \in Slots \ {i} : tasks'[j] = tasks[j]
        /\ tasks'[i].state = StateAfterRun(tasks[i])
    <3>1. \A s : /\ [tasks[i] EXCEPT !.state = s].state = s
                 /\ [WithoutStack(tasks[i]) EXCEPT !.state = s].state = s
      BY <1>a, <2>1, Zenon DEF WithoutStack, Task
    <3>. QED BY <1>20, <1>a, <2>1, <3>1, Zenon DEF trampoline_exit
  <2>3. /\ n \in Nat \ {0} /\ Top = frames[n]
        /\ Len(frames') = n
        /\ \A k \in 1 .. n - 1 : frames'[k] = frames[k]
    BY <1>20, <2>1, FrameShape, Zenon DEF trampoline_exit, TypeOK
  <2>4. ASSUME NEW j \in Slots, tasks'[j].state = "running"
        PROVE  \E k \in 1 .. Len(frames') : frames'[k].slot = j /\ frames'[k].phase = "body"
    <3>1. j # i
      BY <2>2, <2>4, Zenon DEF StateAfterRun
    <3>2. PICK k \in 1 .. n : frames[k].slot = j /\ frames[k].phase = "body"
      BY <2>2, <2>4, <3>1, ZenonT(60) DEF RunningIsExecuting
    <3>3. k \in 1 .. n - 1
      BY <2>3, <3>1, <3>2
    <3>. QED BY <2>3, <3>2, <3>3, Zenon
  <2>. QED BY <2>4, Zenon DEF RunningIsExecuting
<1>g. ASSUME frames # <<>>, Top.phase # "body", frames' = Lower
      PROVE  NoneLeft
  BY <1>g, FramesLeaveNone, Zenon
<1>21. CASE direct_return
  BY <1>21, <1>d, <1>g, RunningKept, Zenon DEF direct_return, table
<1>22. CASE timer_return
  BY <1>22, <1>d, <1>g, RunningKept, Zenon DEF timer_return, table
<1>23. CASE switched_return
  <2>1. NoneLeft
    BY <1>23, <1>f, <1>g, Zenon DEF switched_return
  <2>2. Top.slot \in Slots
    BY <1>23, <1>e, Zenon DEF switched_return
  <2>3. WithoutStack(tasks[Top.slot]).state = tasks[Top.slot].state
    BY <1>a, <2>2, Zenon DEF WithoutStack, Task
  <2>4. NoneStarted
    BY <1>23, <1>a, <2>2, <2>3, Zenon DEF switched_return, NoneStarted
  <2>. QED BY <2>1, <2>4, RunningKept, Zenon
<1>24. CASE UNCHANGED vars
  BY <1>24, <1>b, <1>d, RunningKept, Zenon DEF vars, table, control
<1>. QED
  BY <1>1, <1>2, <1>3, <1>4, <1>5, <1>6, <1>7, <1>8, <1>9, <1>10, <1>11, <1>12,
     <1>13, <1>14, <1>15, <1>16, <1>17, <1>18, <1>19, <1>20, <1>21, <1>22, <1>23,
     <1>24, Zenon DEF Next, proceed

(* However dispatches nest, a task marked RUNNING is inside its entry      *)
(* function: none is left RUNNING, where the scan would never select it.   *)
THEOREM RunningTasksExecute == Spec => []RunningIsExecuting
<1>1. Init => RunningIsExecuting
  BY DEF Init, ClearedTask, RunningIsExecuting
<1>2. TypeOK /\ RunningIsExecuting /\ [Next]_vars => RunningIsExecuting'
  BY RunningStep, Zenon
<1>. QED BY <1>1, <1>2, TypeCorrect, PTL DEF Spec

-----------------------------------------------------------------------------
(* The order of dispatches.                                                *)

(* A dispatch of slot i out of the ready slots in R.                       *)
Dispatched(R, i) ==
    /\ IsFirst(R, i)
    /\ current_task_index' = NextSlot(i)
    /\ passed' = [s \in Slots |-> IF s \in R \ {i} THEN passed[s] \cup {i} ELSE {}]

(* The steps that select no task leave the scan alone, and the history     *)
(* too, unless they find that nobody is ready.                             *)
LEMMA DispatchCases ==
    ASSUME TypeOK, [Next]_vars
    PROVE  \/ UNCHANGED <<current_task_index, passed>>
           \/ passed' = [s \in Slots |-> {}]
           \/ \E R \in SUBSET Slots, i \in Slots : Dispatched(R, i)
<1>a. ASSUME NEW t, NEW now, NEW i \in Slots, NEW kind, Select(t, now, i, kind)
      PROVE  \E R \in SUBSET Slots, j \in Slots : Dispatched(R, j)
  <2>1. ReadySlots(t, now) \in SUBSET Slots
    BY Zenon DEF ReadySlots
  <2>2. Dispatched(ReadySlots(t, now), i)
    BY <1>a, Zenon DEF Select, Dispatched
  <2>. QED BY <2>1, <2>2, Zenon
<1>1. CASE run_pending
  BY <1>1, <1>a, Zenon DEF run_pending, SelectNone
<1>2. CASE timer_tick
  BY <1>2, <1>a, Zenon DEF timer_tick, dispatch, SelectNone
<1>3. CASE ~run_pending /\ ~timer_tick
  BY <1>3, Zenon DEF Next, proceed, create_kernel_task, disable_task, sleep_task, wake_task,
     yield_task, yield_current_task, clear_inactive_tasks, repair, rejected_call,
     set_preempt_test, create_test_workload, disable_test_workload, run_switch_test,
     reset_switch_test, run_task_now, run_task_with_context_switch, trampoline_enter,
     trampoline_exit, direct_return, timer_return, switched_return, vars, dispatch
<1>. QED BY <1>1, <1>2, <1>3, Zenon

(* Distances from the scan's start, before and after it moves past slot i. *)
LEMMA DistanceFacts ==
    ASSUME NEW c \in Slots, NEW i \in Slots
    PROVE  /\ \A s \in Slots : /\ Distance(c, s) \in 0 .. MAX_TASKS - 1
                               /\ Distance(c, s) = Distance(c, i) => s = i
                               /\ Distance(NextSlot(i), s) =
                                    IF Distance(c, s) > Distance(c, i)
                                    THEN Distance(c, s) - Distance(c, i) - 1
                                    ELSE Distance(c, s) - Distance(c, i) - 1 + MAX_TASKS
           /\ Distance(NextSlot(i), i) = MAX_TASKS - 1
  BY SchedulerAssumption DEF Slots, Distance, NextSlot

LEMMA OvertakingStep ==
    ASSUME TypeOK, NoOvertaking, [Next]_vars
    PROVE  NoOvertaking'
<1>1. CASE UNCHANGED <<current_task_index, passed>>
  BY <1>1, Zenon DEF NoOvertaking
<1>2. CASE passed' = [s \in Slots |-> {}]
  BY <1>2, Zenon DEF NoOvertaking
<1>3. ASSUME NEW R \in SUBSET Slots, NEW i \in Slots, Dispatched(R, i)
      PROVE  NoOvertaking'
  <2>. DEFINE c == current_task_index
  <2>1. /\ c \in Slots
        /\ c' = NextSlot(i)
        /\ passed' = [s \in Slots |-> IF s \in R \ {i} THEN passed[s] \cup {i} ELSE {}]
        /\ \A j \in R : Distance(c, i) <= Distance(c, j)
    BY <1>3, Zenon DEF Dispatched, IsFirst, TypeOK
  <2>2. ASSUME NEW s \in Slots, NEW j \in passed'[s]
        PROVE  Distance(NextSlot(i), s) < Distance(NextSlot(i), j)
    <3>1. s \in R \ {i} /\ j \in passed[s] \cup {i}
      BY <2>1, Zenon
    <3>2. j \in Slots
      BY <3>1, Zenon DEF TypeOK
    <3>3. Distance(c, s) > Distance(c, i)
      BY <2>1, <3>1, DistanceFacts
    <3>4. Distance(NextSlot(i), s) < MAX_TASKS - 1
      BY <2>1, <3>3, DistanceFacts, SchedulerAssumption
    <3>5. CASE j = i
      BY <2>1, <3>4, <3>5, DistanceFacts, Zenon
    <3>6. CASE j \in passed[s]
      <4>1. Distance(c, s) < Distance(c, j)
        BY <3>6, Zenon DEF NoOvertaking
      <4>. QED BY <2>1, <3>2, <3>3, <4>1, DistanceFacts
    <3>. QED BY <3>1, <3>5, <3>6, Zenon
  <2>. QED BY <2>1, <2>2, Zenon DEF NoOvertaking
<1>. QED BY <1>1, <1>2, <1>3, DispatchCases, Zenon

(* For any number of tasks, no slot is dispatched twice over the head of   *)
(* a ready one: a ready task waits for at most MAX_TASKS - 1 dispatches.   *)
THEOREM RoundRobin == Spec => []NoOvertaking
<1>1. Init => NoOvertaking
  BY Zenon DEF Init, NoOvertaking
<1>2. TypeOK /\ NoOvertaking /\ [Next]_vars => NoOvertaking'
  BY OvertakingStep, Zenon
<1>. QED BY <1>1, <1>2, TypeCorrect, PTL DEF Spec

-----------------------------------------------------------------------------
(* The statistics.                                                         *)

SameStates(t, u) == \A i \in Slots : t[i].used = u[i].used /\ t[i].state = u[i].state

LEMMA SameCounts ==
    ASSUME NEW t, NEW u, SameStates(t, u)
    PROVE  TaskCounts(t) = TaskCounts(u)
<1>1. ASSUME NEW s PROVE {i \in Slots : t[i].used /\ t[i].state = s}
                         = {i \in Slots : u[i].used /\ u[i].state = s}
  BY Zenon DEF SameStates
<1>. QED BY <1>1, Zenon DEF TaskCounts

LEMMA WakeCounts ==
    ASSUME TypeOK, CountsAgree, NEW now, NEW t \in [Slots -> Task], SameStates(t, AfterWake(tasks, now))
    PROVE  CountsAfterWake(tasks, now) = TaskCounts(t)
<1>1. CASE Woken(tasks, now) = {}
  <2>1. SameStates(t, tasks)
    BY <1>1, Zenon DEF SameStates, AfterWake
  <2>2. TaskCounts(t) = TaskCounts(tasks)
    BY <2>1, SameCounts, Zenon
  <2>. QED BY <1>1, <2>2, Zenon DEF CountsAfterWake, CountsAgree
<1>2. CASE Woken(tasks, now) # {}
  <2>1. TaskCounts(t) = TaskCounts(AfterWake(tasks, now))
    BY SameCounts, Zenon
  <2>. QED BY <1>2, <2>1, Zenon DEF CountsAfterWake
<1>. QED BY <1>1, <1>2, Zenon

LEMMA ElapsedStates ==
    ASSUME TypeOK, NEW now
    PROVE  SameStates(AfterWake(Elapsed(tasks), now), AfterWake(tasks, now))
<1>1. \A i \in Slots : /\ tasks[i] \in Task
                       /\ Elapsed(tasks)[i] \in Task
  <2>1. 0 \in 0 .. TickModulus - 1
    BY SchedulerAssumption
  <2>. QED BY <2>1, TableUpdates, Zenon DEF TypeOK
<1>2. \A i \in Slots : /\ Elapsed(tasks)[i].used = tasks[i].used
                       /\ Elapsed(tasks)[i].state = tasks[i].state
                       /\ Elapsed(tasks)[i].wake_tick = tasks[i].wake_tick
  BY <1>1, Zenon DEF Elapsed, Task
<1>3. Woken(Elapsed(tasks), now) = Woken(tasks, now)
  BY <1>2, Zenon DEF Woken
<1>4. ASSUME NEW a \in Task
      PROVE  /\ [a EXCEPT !.state = "active", !.wake_tick = 0].used = a.used
             /\ [a EXCEPT !.state = "active", !.wake_tick = 0].state = "active"
  BY Zenon DEF Task
<1>. QED BY <1>1, <1>2, <1>3, <1>4 DEF SameStates, AfterWake

LEMMA CountsStep ==
    ASSUME TypeOK, CountsAgree, [Next]_vars
    PROVE  CountsAgree'
<1>a. recalculate_task_counts => CountsAgree'
  BY Zenon DEF recalculate_task_counts, CountsAgree
<1>b. counts' = counts /\ SameStates(tasks', tasks) => CountsAgree'
  BY SameCounts, Zenon DEF CountsAgree
<1>c. UNCHANGED <<tasks, counts>> => CountsAgree'
  BY Zenon DEF CountsAgree
<1>d. ASSUME NEW t \in [Slots -> Task], NEW u, NEW i \in Slots, NEW now,
             u = [t EXCEPT ![i].last_run = now]
      PROVE  SameStates(u, t)
  <2>1. \A j \in Slots : t[j] \in Task
    BY Zenon
  <2>. QED BY <1>d, <2>1, Zenon DEF SameStates, Task
<1>e. tasks \in [Slots -> Task]
  BY Zenon DEF TypeOK
<1>1. CASE create_kernel_task \/ disable_task \/ sleep_task \/ wake_task
           \/ clear_inactive_tasks \/ repair \/ create_test_workload
  BY <1>1, <1>a, Zenon DEF create_kernel_task, disable_task, sleep_task, wake_task,
     clear_inactive_tasks, repair, create_test_workload, create_task, disable
<1>2. CASE disable_test_workload
  BY <1>2, <1>a, <1>c, Zenon DEF disable_test_workload, disable
<1>3. CASE yield_task
  BY <1>3, <1>b, <1>d, <1>e, Zenon DEF yield_task, yield
<1>4. CASE yield_current_task
  <2>1. current_running \in Slots
    BY <1>4, Zenon DEF yield_current_task, TypeOK
  <2>. QED BY <1>4, <1>b, <1>d, <1>e, <2>1, ZenonT(30) DEF yield_current_task, yield
<1>5. CASE rejected_call \/ set_preempt_test \/ run_switch_test \/ reset_switch_test
           \/ direct_return \/ timer_return \/ UNCHANGED vars
  BY <1>5, <1>c, Zenon DEF rejected_call, set_preempt_test, run_switch_test, reset_switch_test,
     direct_return, timer_return, vars, table
<1>6. CASE run_task_now
  BY <1>6, <1>b, <1>d, <1>e, Zenon DEF run_task_now
<1>7. CASE run_task_with_context_switch
  BY <1>7, <1>b, <1>d, <1>e, Zenon DEF run_task_with_context_switch
<1>f. ASSUME NEW t \in [Slots -> Task], NEW now, NEW kind,
             SelectNone(t, now) \/ \E i \in Slots : Select(t, now, i, kind)
      PROVE  SameStates(tasks', t)
  <2>1. CASE SelectNone(t, now)
    BY <2>1, Zenon DEF SelectNone, SameStates
  <2>2. CASE \E i \in Slots : Select(t, now, i, kind)
    BY <2>2, <1>d, Zenon DEF Select
  <2>. QED BY <1>f, <2>1, <2>2, Zenon
<1>8. CASE run_pending
  <2>. DEFINE t == AfterWake(tasks, ticks)
  <2>1. t \in [Slots -> Task] /\ tasks' \in [Slots -> Task]
    BY WakeType, TypeStep, Zenon DEF TypeOK
  <2>2. SelectNone(t, ticks) \/ \E i \in Slots : Select(t, ticks, i, "pending")
    BY <1>8, Zenon DEF run_pending
  <2>3. counts' = CountsAfterWake(tasks, ticks)
    BY <1>8, Zenon DEF run_pending
  <2>. HIDE DEF t
  <2>4. SameStates(tasks', t)
    BY <1>f, <2>1, <2>2, Zenon
  <2>. QED BY <2>1, <2>3, <2>4, WakeCounts, Zenon DEF CountsAgree, t
<1>9. CASE timer_tick
  <2>. DEFINE now == Plus(ticks, 1)
              t == AfterWake(Elapsed(tasks), now)
  <2>1. t \in [Slots -> Task] /\ tasks' \in [Slots -> Task]
    BY TickSuccessor, WakeType, TypeStep, Zenon DEF TypeOK
  <2>2. tasks' = t \/ SelectNone(t, now) \/ \E i \in Slots : Select(t, now, i, "timer")
    BY <1>9, Zenon DEF timer_tick
  <2>3. counts' = CountsAfterWake(tasks, now)
    BY <1>9, Zenon DEF timer_tick
  <2>4. SameStates(t, AfterWake(tasks, now))
    BY ElapsedStates, Zenon
  <2>. HIDE DEF t, now
  <2>5. SameStates(tasks', t)
    BY <1>f, <2>1, <2>2, Zenon DEF SameStates
  <2>6. SameStates(tasks', AfterWake(tasks, now))
    BY <2>4, <2>5, Zenon DEF SameStates
  <2>. QED BY <2>1, <2>3, <2>6, WakeCounts, Zenon DEF CountsAgree
<1>10. CASE trampoline_enter
  BY <1>10, <1>a, <1>c, Zenon DEF trampoline_enter
<1>11. CASE trampoline_exit
  BY <1>11, <1>a, Zenon DEF trampoline_exit
<1>12. CASE switched_return
  BY <1>12, <1>a, <1>c, Zenon DEF switched_return
<1>. QED BY <1>1, <1>2, <1>3, <1>4, <1>5, <1>6, <1>7, <1>8, <1>9, <1>10, <1>11,
            <1>12, Zenon DEF Next, proceed

(* The counters in scheduler_stats are those of the task table after every *)
(* step.                                                                   *)
THEOREM CountsCorrect == Spec => []CountsAgree
<1>1. Init => CountsAgree
  <2>1. SUFFICES ASSUME Init PROVE CountsAgree
    BY Zenon
  <2>2. ASSUME NEW s \in Counted
        PROVE  Cardinality({i \in Slots : tasks[i].used /\ tasks[i].state = s}) = 0
    <3>1. {i \in Slots : tasks[i].used /\ tasks[i].state = s} = {}
      BY <2>1, Zenon DEF Init, ClearedTask
    <3>. QED BY <3>1, FS_EmptySet, Zenon
  <2>. QED BY <2>1, <2>2, Zenon DEF Init, CountsAgree, TaskCounts
<1>2. TypeOK /\ CountsAgree /\ [Next]_vars => CountsAgree'
  BY CountsStep, Zenon
<1>. QED BY <1>1, <1>2, TypeCorrect, PTL DEF Spec

-----------------------------------------------------------------------------
(* Repair.                                                                 *)

(* From every reachable table scheduler_repair leaves one in which the     *)
(* audit finds no issue.                                                   *)
THEOREM RepairIsComplete == Spec => RepairLeavesNoIssue
<1>1. ASSUME TypeOK, repair
      PROVE  StackIssues' = {} /\ SleepIssues' = {} /\ QueueIssues' = {}
  <2>1. tasks' = [i \in Slots |-> Repaired(tasks[i])] /\ ready_queue' = {}
    BY <1>1, Zenon DEF repair
  <2>2. ASSUME NEW t \in Task
        PROVE  /\ ~(~Repaired(t).used /\ Repaired(t).stack # NoStack)
               /\ ~(Live(Repaired(t)) /\ (Repaired(t).stack = NoStack \/ Repaired(t).entry = "none"))
               /\ ~(Inactive(Repaired(t)) /\ Repaired(t).stack # NoStack)
               /\ ~(Repaired(t).used /\ Repaired(t).state = "sleeping" /\ Repaired(t).wake_tick = 0)
    BY Zenon DEF Repaired, WithoutStack, Live, Inactive, Task
  <2>3. \A i \in Slots : tasks[i] \in Task
    BY <1>1, Zenon DEF TypeOK
  <2>. QED BY <2>1, <2>2, <2>3, Zenon DEF StackIssues, SleepIssues, QueueIssues
<1>2. TypeOK /\ [Next]_vars =>
        [repair => StackIssues' = {} /\ SleepIssues' = {} /\ QueueIssues' = {}]_vars
  BY <1>1, Zenon
<1>. QED BY <1>2, TypeCorrect, PTL DEF Spec, RepairLeavesNoIssue

-----------------------------------------------------------------------------
(* The nesting of timer dispatches, and the lock.                          *)

(* How a step may change the frames: not at all, by a push, by a new phase *)
(* of the innermost frame, or by its removal.                              *)
FramesSame == frames' = frames
FramesPush(kind) ==
    /\ Len(frames') = Len(frames) + 1
    /\ \A k \in 1 .. Len(frames) : frames'[k] = frames[k]
    /\ frames'[Len(frames) + 1].kind = kind
    /\ frames'[Len(frames) + 1].phase = "enter"
FramesPhase ==
    /\ frames # <<>> /\ Len(frames') = Len(frames)
    /\ \A k \in 1 .. Len(frames) : frames'[k].kind = frames[k].kind
    /\ \A k \in 1 .. Len(frames) - 1 : frames'[k] = frames[k]
    /\ Top.phase # "lost"
FramesPop ==
    /\ frames # <<>> /\ Len(frames') = Len(frames) - 1
    /\ \A k \in 1 .. Len(frames) - 1 : frames'[k] = frames[k]
    /\ Top.phase = "return"

LEMMA FrameCases ==
    ASSUME TypeOK
    PROVE  /\ \A i, kind : frames' = Pushed(i, kind) => FramesPush(kind)
           /\ \A p : frames # <<>> /\ Top.phase # "lost" /\ SetPhase(p) => FramesPhase
           /\ frames # <<>> /\ Top.phase = "return" /\ frames' = Lower => FramesPop
<1>1. frames \in Seq(Frame) /\ Len(frames) \in Nat
  BY DEF TypeOK
<1>2. ASSUME NEW i, NEW kind, frames' = Pushed(i, kind) PROVE FramesPush(kind)
  BY <1>1, <1>2 DEF Pushed, FramesPush
<1>3. ASSUME NEW p, frames # <<>>, Top.phase # "lost", SetPhase(p) PROVE FramesPhase
  <2>1. /\ Len(frames') = Len(frames)
        /\ \A k \in 1 .. Len(frames) - 1 : frames'[k] = frames[k]
        /\ frames'[Len(frames)].kind = frames[Len(frames)].kind
    BY <1>1, <1>3, FrameShape, Zenon
  <2>2. \A k \in 1 .. Len(frames) : k = Len(frames) \/ k \in 1 .. Len(frames) - 1
    BY <1>1
  <2>3. \A k \in 1 .. Len(frames) : frames'[k].kind = frames[k].kind
    BY <2>1, <2>2, Zenon
  <2>. QED BY <1>3, <2>1, <2>3, Zenon DEF FramesPhase
<1>4. ASSUME frames # <<>>, Top.phase = "return", frames' = Lower PROVE FramesPop
  BY <1>1, <1>4, FrameShape, Zenon DEF FramesPop
<1>. QED BY <1>2, <1>3, <1>4, Zenon

LEMMA TimerDispatchStep ==
    ASSUME TypeOK, TimerDispatchSound, [Next]_vars
    PROVE  TimerDispatchSound'
<1>a. Len(frames) \in Nat
  BY DEF TypeOK
<1>b. ASSUME FramesSame \/ FramesPhase,
             preempt'.in_timer_dispatch => preempt.in_timer_dispatch
      PROVE  TimerDispatchSound'
  BY <1>b, Zenon DEF FramesSame, FramesPhase, TimerDispatchSound
<1>c. ASSUME NEW kind, FramesPush(kind), kind # "timer", preempt' = preempt
      PROVE  TimerDispatchSound'
  <2>1. /\ \A k \in 1 .. Len(frames') : k \in 1 .. Len(frames) \/ k = Len(frames) + 1
        /\ \A k \in 1 .. Len(frames) : k \in 1 .. Len(frames')
    BY <1>a, <1>c DEF FramesPush
  <2>. QED BY <1>c, <2>1, Zenon DEF FramesPush, TimerDispatchSound
<1>d. ASSUME FramesPush("timer"), ~TimerInService PROVE TimerDispatchSound'
  <2>1. /\ \A k \in 1 .. Len(frames') : k \in 1 .. Len(frames) \/ k = Len(frames) + 1
        /\ Len(frames) + 1 \in 1 .. Len(frames')
    BY <1>a, <1>d DEF FramesPush
  <2>. QED BY <1>d, <2>1, Zenon DEF FramesPush, TimerDispatchSound, TimerInService
<1>e. ASSUME FramesPop, Top.kind # "timer", preempt' = preempt PROVE TimerDispatchSound'
  <2>1. /\ \A k \in 1 .. Len(frames) : k \in 1 .. Len(frames') \/ k = Len(frames)
        /\ \A k \in 1 .. Len(frames') : k \in 1 .. Len(frames) - 1 /\ k \in 1 .. Len(frames)
    BY <1>a, <1>e DEF FramesPop
  <2>. QED BY <1>e, <2>1, Zenon DEF FramesPop, TimerDispatchSound, Top
<1>f. ASSUME FramesPop, Top.kind = "timer", ~preempt'.in_timer_dispatch
      PROVE  TimerDispatchSound'
  <2>1. \A k \in 1 .. Len(frames') : k \in 1 .. Len(frames) - 1 /\ k \in 1 .. Len(frames)
    BY <1>a, <1>f DEF FramesPop
  <2>. QED BY <1>f, <2>1, Zenon DEF FramesPop, TimerDispatchSound
<1>1. CASE create_kernel_task \/ disable_task \/ sleep_task \/ wake_task \/ yield_task
           \/ yield_current_task \/ clear_inactive_tasks \/ repair \/ rejected_call
           \/ create_test_workload \/ disable_test_workload
           \/ run_switch_test \/ reset_switch_test \/ UNCHANGED vars
  BY <1>1, <1>b, Zenon DEF create_kernel_task, disable_task, sleep_task, wake_task, yield_task,
     yield_current_task, clear_inactive_tasks, repair, rejected_call,
     create_test_workload, disable_test_workload, run_switch_test, reset_switch_test,
     FramesSame, control, vars
<1>2. CASE set_preempt_test
  <2>1. preempt'.in_timer_dispatch => preempt.in_timer_dispatch
    <3>1. /\ \A n : [preempt EXCEPT !.enabled = TRUE, !.interval = n, !.last = ticks]
                      .in_timer_dispatch = preempt.in_timer_dispatch
          /\ ~[preempt EXCEPT !.enabled = FALSE, !.in_timer_dispatch = FALSE].in_timer_dispatch
          /\ ~[preempt EXCEPT !.in_timer_dispatch = FALSE, !.last = ticks].in_timer_dispatch
          /\ ~ClearedPreempt.in_timer_dispatch
      BY Zenon DEF TypeOK, ClearedPreempt
    <3>. QED BY <1>2, <3>1, Zenon DEF set_preempt_test
  <2>. QED BY <1>2, <1>b, <2>1, Zenon DEF set_preempt_test, FramesSame
<1>3. CASE run_task_now
  BY <1>3, <1>c, FrameCases, Zenon DEF run_task_now
<1>4. CASE run_task_with_context_switch
  BY <1>4, <1>c, FrameCases, Zenon DEF run_task_with_context_switch
<1>5. CASE run_pending
  BY <1>5, <1>b, <1>c, FrameCases, Zenon DEF run_pending, SelectNone, Select, FramesSame
<1>6. CASE timer_tick
  <2>1. CASE FramesSame /\ preempt'.in_timer_dispatch = preempt.in_timer_dispatch
    BY <2>1, <1>b, Zenon
  <2>2. CASE FramesPush("timer")
    BY <1>6, <2>2, <1>d, Zenon DEF timer_tick
  <2>3. \A n : [preempt EXCEPT !.last = n].in_timer_dispatch = preempt.in_timer_dispatch
    BY Zenon DEF TypeOK
  <2>. QED BY <1>6, <2>1, <2>2, <2>3, FrameCases, Zenon
           DEF timer_tick, SelectNone, Select, FramesSame, control
<1>7. CASE trampoline_enter
  BY <1>7, <1>b, FrameCases, Zenon DEF trampoline_enter
<1>8. CASE trampoline_exit
  BY <1>8, <1>b, FrameCases, Zenon DEF trampoline_exit
<1>9. CASE direct_return
  BY <1>9, <1>e, FrameCases, Zenon DEF direct_return
<1>10. CASE timer_return
  <2>1. ~preempt'.in_timer_dispatch
    BY <1>10, Zenon DEF timer_return, TypeOK
  <2>. QED BY <1>10, <1>f, <2>1, FrameCases, Zenon DEF timer_return
<1>11. CASE switched_return
  BY <1>11, <1>b, <1>e, FrameCases, Zenon DEF switched_return
<1>. QED BY <1>1, <1>2, <1>3, <1>4, <1>5, <1>6, <1>7, <1>8, <1>9, <1>10, <1>11, Zenon
         DEF Next, proceed

(* The timer never dispatches inside a timer dispatch, and never leaves    *)
(* in_timer_dispatch set behind it: for any nesting of task runs.          *)
THEOREM TimerDispatchesDoNotNest == Spec => []TimerDispatchSound
<1>1. Init => TimerDispatchSound
  BY DEF Init, ClearedPreempt, TimerDispatchSound
<1>2. TypeOK /\ TimerDispatchSound /\ [Next]_vars => TimerDispatchSound'
  BY TimerDispatchStep, Zenon
<1>. QED BY <1>1, <1>2, TypeCorrect, PTL DEF Spec

(* The lock discipline with what makes it inductive: a timer frame lies at *)
(* the bottom or on a switched run, and the outermost lock saved a set     *)
(* interrupt flag unless a timer interrupt took it.                        *)
NoneLost == \A k \in 1 .. Len(frames) : frames[k].phase # "lost"
LockInv ==
    NoneLost =>
        /\ lock.depth = Len(frames)
        /\ irq => Len(frames) = 0 \/ frames[Len(frames)].kind = "switched"
        /\ Len(frames) = 0 => irq
        /\ \A k \in 2 .. Len(frames) : frames[k].kind = "timer" => frames[k - 1].kind = "switched"
        /\ Len(frames) > 0 /\ frames[1].kind # "timer" => lock.saved

LEMMA LockStep ==
    ASSUME TypeOK, LockInv, [Next]_vars
    PROVE  LockInv'
<1>a. Len(frames) \in Nat /\ lock.depth \in Int /\ (frames = <<>> <=> Len(frames) = 0)
  BY DEF TypeOK
<1>b. irq \in BOOLEAN /\ lock.saved \in BOOLEAN /\ irq' \in BOOLEAN /\ lock'.saved \in BOOLEAN
  <2>1. TypeOK'
    BY TypeStep, Zenon
  <2>. QED BY <2>1, Zenon DEF TypeOK
<1>c. ASSUME FramesSame, lock' = lock, irq' = irq \/ WithLock PROVE LockInv'
  BY <1>a, <1>b, <1>c, Zenon DEF FramesSame, WithLock, LockInv, NoneLost
<1>d. ASSUME NEW kind, NEW f \in BOOLEAN, FramesPush(kind), kind # "timer" => f = irq,
             kind = "timer" => irq,
             scheduler_lock(f), irq' = TRUE => kind = "switched", irq' \in BOOLEAN
      PROVE  LockInv'
  <2>. DEFINE n == Len(frames)
  <2>1. SUFFICES ASSUME NoneLost' PROVE LockInv'
    BY Zenon DEF LockInv
  <2>2. NoneLost
    BY <1>a, <1>d, <2>1 DEF FramesPush, NoneLost
  <2>3. lock'.depth = n + 1 /\ Len(frames') = n + 1
    BY <1>a, <1>d, <2>2, Zenon DEF FramesPush, scheduler_lock, LockInv
  <2>4. irq' => frames'[n + 1].kind = "switched"
    BY <1>d, Zenon DEF FramesPush
  <2>5. ASSUME NEW k \in 2 .. n + 1, frames'[k].kind = "timer"
        PROVE  frames'[k - 1].kind = "switched"
    <3>1. CASE k \in 2 .. n
      BY <1>a, <1>d, <2>2, <2>5, <3>1 DEF FramesPush, LockInv
    <3>2. CASE k = n + 1
      BY <1>a, <1>d, <2>2, <2>5, <3>2 DEF FramesPush, LockInv
    <3>. QED BY <1>a, <3>1, <3>2
  <2>6. frames'[1].kind # "timer" => lock'.saved
    <3>1. CASE n = 0
      <4>1. lock.depth = 0 /\ irq /\ frames'[1].kind = kind
        BY <1>a, <1>d, <2>2, <3>1 DEF FramesPush, LockInv
      <4>2. lock'.saved = f
        BY <1>d, <4>1, Zenon DEF scheduler_lock
      <4>. QED BY <1>d, <4>1, <4>2, Zenon
    <3>2. CASE n > 0
      <4>1. lock.depth # 0 /\ frames'[1] = frames[1]
        BY <1>a, <1>d, <2>2, <3>2 DEF FramesPush, LockInv
      <4>2. lock'.saved = lock.saved
        BY <1>d, <4>1, Zenon DEF scheduler_lock
      <4>. QED BY <1>a, <2>2, <3>2, <4>1, <4>2, Zenon DEF LockInv
    <3>. QED BY <1>a, <3>1, <3>2
  <2>. QED BY <1>a, <2>3, <2>4, <2>5, <2>6 DEF LockInv
<1>e. ASSUME FramesPhase, lock' = lock, irq' = irq PROVE LockInv'
  <2>1. NoneLost' => NoneLost
    BY <1>a, <1>e DEF FramesPhase, NoneLost, Top
  <2>. QED BY <1>a, <1>e, <2>1 DEF FramesPhase, LockInv
<1>f. ASSUME FramesPop,
             lock'.depth = lock.depth - 1,
             lock.depth # 1 => lock'.saved = lock.saved,
             lock.depth = 1 => irq',
             lock.depth > 1 => ~irq' \/ Top.kind = "timer"
      PROVE  LockInv'
  <2>. DEFINE n == Len(frames)
  <2>1. SUFFICES ASSUME NoneLost' PROVE LockInv'
    BY Zenon DEF LockInv
  <2>2. NoneLost
    BY <1>a, <1>f, <2>1 DEF FramesPop, NoneLost, Top
  <2>3. n > 0 /\ lock.depth = n /\ lock'.depth = n - 1 /\ Len(frames') = n - 1
    BY <1>a, <1>f, <2>2 DEF FramesPop, LockInv
  <2>4. CASE n = 1
    BY <1>f, <2>3, <2>4 DEF LockInv
  <2>5. CASE n > 1
    <3>1. frames'[1] = frames[1] /\ frames'[n - 1] = frames[n - 1]
      BY <1>a, <1>f, <2>5 DEF FramesPop
    <3>2. irq' => frames'[n - 1].kind = "switched"
      BY <1>a, <1>f, <2>2, <2>3, <2>5, <3>1 DEF LockInv, Top
    <3>3. \A k \in 2 .. n - 1 : frames'[k].kind = "timer" => frames'[k - 1].kind = "switched"
      BY <1>a, <1>f, <2>2 DEF FramesPop, LockInv
    <3>4. frames'[1].kind # "timer" => lock'.saved
      BY <1>a, <1>f, <2>2, <2>3, <2>5, <3>1 DEF LockInv
    <3>. QED BY <1>a, <2>3, <2>5, <3>2, <3>3, <3>4 DEF LockInv
  <2>. QED BY <1>a, <2>3, <2>4, <2>5
<1>g. ASSUME NEW f \in BOOLEAN, scheduler_unlock(f), FramesPop,
             NoneLost => ~f, NoneLost /\ lock.depth = 1 => lock.saved
      PROVE  LockInv'
  <2>1. lock'.depth = lock.depth - 1
    BY <1>g, Zenon DEF scheduler_unlock
  <2>2. lock.depth # 1 => lock'.saved = lock.saved /\ irq' = f
    BY <1>g, Zenon DEF scheduler_unlock
  <2>3. lock.depth = 1 => irq' = lock.saved
    BY <1>g, Zenon DEF scheduler_unlock
  <2>4. NoneLost' => NoneLost
    BY <1>a, <1>g DEF FramesPop, NoneLost, Top
  <2>5. CASE NoneLost
    <3>1. lock.depth > 1 => ~irq'
      BY <1>a, <1>g, <2>2, <2>5
    <3>. QED BY <1>f, <1>g, <2>1, <2>2, <2>3, <2>5, <3>1, Zenon
  <2>. QED BY <2>4, <2>5, Zenon DEF LockInv
<1>1. CASE create_kernel_task \/ disable_task \/ sleep_task \/ wake_task \/ yield_task
           \/ yield_current_task \/ clear_inactive_tasks \/ repair \/ rejected_call
           \/ create_test_workload \/ disable_test_workload \/ set_preempt_test
           \/ run_switch_test \/ reset_switch_test \/ UNCHANGED vars
  BY <1>1, <1>c, Zenon DEF create_kernel_task, disable_task, sleep_task, wake_task, yield_task,
     yield_current_task, clear_inactive_tasks, repair, rejected_call, set_preempt_test,
     create_test_workload, disable_test_workload, run_switch_test, reset_switch_test,
     FramesSame, control, vars, WithLock
<1>2. CASE run_task_now
  BY <1>2, <1>b, <1>d, FrameCases, Zenon DEF run_task_now
<1>3. CASE run_task_with_context_switch
  BY <1>3, <1>b, <1>d, FrameCases, Zenon DEF run_task_with_context_switch
<1>4. CASE run_pending
  <2>1. CASE WithLock /\ FramesSame
    BY <1>c, <2>1, Zenon DEF WithLock
  <2>2. CASE FramesPush("pending") /\ scheduler_lock(irq) /\ irq' = FALSE
    BY <1>b, <1>d, <2>2, Zenon
  <2>. QED BY <1>4, <2>1, <2>2, FrameCases, Zenon DEF run_pending, SelectNone, Select, FramesSame
<1>5. CASE timer_tick
  <2>1. CASE FramesSame /\ UNCHANGED <<lock, irq>>
    BY <1>c, <2>1, Zenon
  <2>2. CASE FramesPush("timer") /\ scheduler_lock(FALSE) /\ irq' = FALSE
    <3>1. irq
      BY <1>5, Zenon DEF timer_tick
    <3>. QED BY <1>b, <1>d, <2>2, <3>1, Zenon
  <2>. QED BY <1>5, <2>1, <2>2, FrameCases, Zenon
           DEF timer_tick, SelectNone, Select, FramesSame, control
<1>6. CASE trampoline_enter
  BY <1>6, <1>e, FrameCases, Zenon DEF trampoline_enter
<1>7. CASE trampoline_exit
  BY <1>7, <1>e, FrameCases, Zenon DEF trampoline_exit
<1>8. CASE direct_return
  <2>1. FramesPop /\ scheduler_unlock(irq) /\ Top.kind \in {"now", "pending"}
    BY <1>8, FrameCases, Zenon DEF direct_return
  <2>2. NoneLost => ~irq
    BY <1>a, <2>1, Zenon DEF LockInv, Top, FramesPop
  <2>3. NoneLost /\ lock.depth = 1 => lock.saved
    BY <1>a, <2>1 DEF LockInv, Top, FramesPop
  <2>. QED BY <1>b, <1>g, <2>1, <2>2, <2>3, Zenon
<1>9. CASE timer_return
  <2>1. FramesPop /\ Top.kind = "timer" /\ irq'
    BY <1>9, FrameCases, Zenon DEF timer_return
  <2>2. lock'.depth = lock.depth - 1
    BY <1>9, Zenon DEF timer_return
  <2>3. lock.depth # 1 => lock'.saved = lock.saved
    BY <1>9, Zenon DEF timer_return
  <2>. QED BY <1>f, <2>1, <2>2, <2>3, Zenon
<1>10. CASE switched_return
  <2>1. CASE FramesPop /\ scheduler_unlock(FALSE)
    <3>1. NoneLost /\ lock.depth = 1 => lock.saved
      BY <1>10, <1>a, <2>1 DEF LockInv, Top, FramesPop, switched_return
    <3>. QED BY <1>g, <2>1, <3>1, Zenon
  <2>2. CASE SetPhase("lost")
    <3>1. frames # <<>> /\ frames \in Seq(Frame)
      BY <1>10, Zenon DEF switched_return, TypeOK
    <3>2. Len(frames') = Len(frames) /\ frames'[Len(frames)].phase = "lost"
      BY <2>2, <3>1, FrameShape, Zenon
    <3>3. ~NoneLost'
      BY <1>a, <3>1, <3>2 DEF NoneLost
    <3>. QED BY <3>3, Zenon DEF LockInv
  <2>. QED BY <1>10, <2>1, <2>2, FrameCases, Zenon DEF switched_return
<1>. QED BY <1>1, <1>2, <1>3, <1>4, <1>5, <1>6, <1>7, <1>8, <1>9, <1>10, Zenon
         DEF Next, proceed

(* The lock depth is the number of task runs in progress, interrupts are   *)
(* on under the lock only on a task's own stack, and the kernel thread     *)
(* gets its interrupt flag back: unless a switched run has overwritten the *)
(* context another one returns to.                                         *)
THEOREM LockNests == Spec => []LockDiscipline
<1>1. Init => LockInv
  BY DEF Init, LockInv
<1>2. TypeOK /\ LockInv /\ [Next]_vars => LockInv'
  BY LockStep, Zenon
<1>3. TypeOK /\ LockInv => LockDiscipline
  <2>1. SUFFICES ASSUME TypeOK, LockInv, NoneLost PROVE LockDiscipline
    BY Zenon DEF LockDiscipline, NoneLost
  <2>2. frames = <<>> <=> Len(frames) = 0
    BY <2>1 DEF TypeOK
  <2>. QED BY <2>1, <2>2, Zenon DEF LockDiscipline, LockInv, Top
<1>. QED BY <1>1, <1>2, <1>3, TypeCorrect, PTL DEF Spec
=============================================================================
