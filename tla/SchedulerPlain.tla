---------------------------- MODULE SchedulerPlain ----------------------------
(***************************************************************************)
(* Properties of Scheduler that hold for well-behaved callers, proved for  *)
(* every number of slots and stacks and every width of the tick counter.   *)
(*                                                                         *)
(* The first part is about systems in which the timer dispatches no tasks  *)
(* and entry functions leave other runs and the free slots alone           *)
(* (PlainTasks): kernel stacks, COMPLETED and one-shot tasks.  There is    *)
(* then at most one task being run, and PlainInv says what its entry looks *)
(* like in each phase of the run.  The second part is about sleepers, with *)
(* any callers whose sleeps the wake test can express (ShortSleeps).       *)
(***************************************************************************)
EXTENDS SchedulerSafety

-----------------------------------------------------------------------------
(* Tasks that leave the running tasks and the table's free slots alone.    *)

(* The timer-dispatch test is off, and entry functions neither run other   *)
(* tasks nor disable, clear or repair any.                                 *)
PlainTasks ==
    /\ "preempt" \notin MainCalls \cup TaskCalls
    /\ TaskCalls \cap {"disable", "workload", "clear_inactive", "repair",
                       "run_now", "run_switched", "run_pending"} = {}

(* The audit has nothing to report about the stack of this task.           *)
CleanStack(t) ==
    /\ ~t.used \/ Inactive(t) => t.stack = NoStack
    /\ Live(t) => t.stack # NoStack /\ t.entry # "none"

(* What its state says of a task's history.                                *)
StateSound(t) ==
    /\ t.used <=> t.state # "unused"
    /\ t.state = "completed" => t.ran
    /\ t.mode = "oneshot" /\ t.ran => t.state \in {"running", "completed", "disabled"}

(* The task of the one frame there is, in each phase of its run.           *)
InRun(t, f) ==
    /\ f.kind # "timer" /\ f.phase # "lost"
    /\ t.entry # "none"
    /\ f.phase = "enter" => t.state = "active" /\ t.stack # NoStack
    /\ f.phase = "body" => t.state = "running" /\ t.stack # NoStack /\ t.ran
    /\ f.phase = "return" =>
         /\ t.state = IF t.mode = "oneshot" THEN "completed" ELSE "active"
         /\ t.ran
         /\ t.stack = NoStack <=> t.mode = "oneshot" /\ f.kind # "switched"

Busy(i) == frames # <<>> /\ frames[1].slot = i

PlainInv ==
    /\ ~preempt.enabled
    /\ Len(frames) <= 1
    /\ \A i \in Slots : StateSound(tasks[i])
    /\ \A i \in Slots : ~Busy(i) => CleanStack(tasks[i]) /\ tasks[i].state # "running"
    /\ frames = <<>> => ~on_task_stack
    /\ frames # <<>> => /\ InRun(tasks[frames[1].slot], frames[1])
                        /\ on_task_stack = (frames[1].kind = "switched")
                        /\ on_task_stack => main_context = 0

(* The entry of a task that is not being run.                              *)
Settled(t) == StateSound(t) /\ CleanStack(t) /\ t.state # "running"

(* As far as runs are concerned, the entry is unchanged.                   *)
SameRun(t, u) ==
    /\ u.used = t.used /\ u.state = t.state /\ u.mode = t.mode
    /\ u.stack = t.stack /\ u.entry = t.entry /\ u.ran = t.ran

(* What the operations on the table do to a settled entry.                 *)
LEMMA SettledUpdates ==
    ASSUME NEW t \in Task
    PROVE  /\ Settled(ClearedTask)
           /\ t.used /\ t.state # "sleeping" =>
                Settled([WithoutStack(t) EXCEPT !.state = "disabled"])
           /\ Settled(t) /\ t.state = "active" => \A w, d :
                Settled([t EXCEPT !.state = "sleeping", !.wake_tick = w, !.due = d])
           /\ Settled(t) /\ t.state = "sleeping" => \A w :
                Settled([t EXCEPT !.state = "active", !.wake_tick = w])
           /\ Settled(t) => Settled(Repaired(t))
           /\ \A n : SameRun(t, [t EXCEPT !.last_run = n])
           /\ \A n : SameRun(t, [t EXCEPT !.due = n])
<1>1. Settled(ClearedTask)
  BY Zenon DEF Settled, ClearedTask, StateSound, CleanStack, Live, Inactive
<1>2. t.used /\ t.state # "sleeping" => Settled([WithoutStack(t) EXCEPT !.state = "disabled"])
  BY Zenon DEF Settled, StateSound, CleanStack, Live, Inactive, WithoutStack, Task
<1>3. Settled(t) /\ t.state = "active" => \A w, d :
        Settled([t EXCEPT !.state = "sleeping", !.wake_tick = w, !.due = d])
  BY Zenon DEF Settled, StateSound, CleanStack, Live, Inactive, Task
<1>4. Settled(t) /\ t.state = "sleeping" => \A w :
        Settled([t EXCEPT !.state = "active", !.wake_tick = w])
  BY Zenon DEF Settled, StateSound, CleanStack, Live, Inactive, Task
<1>5. Settled(t) => Settled(Repaired(t))
  BY Zenon DEF Settled, StateSound, CleanStack, Live, Inactive, WithoutStack, Repaired, Task
<1>6. \A n : SameRun(t, [t EXCEPT !.last_run = n])
  BY Zenon DEF SameRun, Task
<1>7. \A n : SameRun(t, [t EXCEPT !.due = n])
  BY Zenon DEF SameRun, Task
<1>. QED BY <1>1, <1>2, <1>3, <1>4, <1>5, <1>6, <1>7, Zenon

(* The timer interrupt only ends sleeps.                                   *)
LEMMA WokenSettled ==
    ASSUME NEW t \in [Slots -> Task], NEW i \in Slots, NEW now
    PROVE  /\ SameRun(t[i], Elapsed(t)[i])
           /\ \/ AfterWake(t, now)[i] = t[i]
              \/ /\ t[i].state = "sleeping"
                 /\ AfterWake(t, now)[i] = [t[i] EXCEPT !.state = "active", !.wake_tick = 0]
<1>1. t[i] \in Task
  BY Zenon
<1>2. Elapsed(t)[i] = [t[i] EXCEPT !.due = IF @ > 0 THEN @ - 1 ELSE 0]
  BY Zenon DEF Elapsed
<1>3. SameRun(t[i], Elapsed(t)[i])
  <2> DEFINE n == IF t[i].due > 0 THEN t[i].due - 1 ELSE 0
  <2>1. Elapsed(t)[i] = [t[i] EXCEPT !.due = n]
    BY <1>2, Zenon
  <2> HIDE DEF n
  <2>2. SameRun(t[i], [t[i] EXCEPT !.due = n])
    BY <1>1, SettledUpdates, Zenon
  <2>. QED BY <2>1, <2>2, Zenon
<1>4. \/ AfterWake(t, now)[i] = t[i]
      \/ /\ t[i].state = "sleeping"
         /\ AfterWake(t, now)[i] = [t[i] EXCEPT !.state = "active", !.wake_tick = 0]
  BY Zenon DEF AfterWake, Woken
<1>. QED BY <1>3, <1>4, Zenon

(* Entries that are not being run are settled.                             *)
LEMMA IdleSettled ==
    ASSUME PlainInv, NEW i \in Slots, ~Busy(i)
    PROVE  Settled(tasks[i])
  BY Zenon DEF PlainInv, Settled

(* SameRun is all that the invariant needs to know.                        *)
LEMMA SameRunKeeps ==
    ASSUME NEW t, NEW u, SameRun(t, u)
    PROVE  /\ Settled(t) => Settled(u)
           /\ StateSound(t) => StateSound(u)
           /\ \A f : InRun(t, f) => InRun(u, f)
  BY Zenon DEF SameRun, Settled, StateSound, CleanStack, Live, Inactive, InRun

(* A step that neither starts nor ends a run and touches only entries that *)
(* are not being run.                                                      *)
LEMMA TableStep ==
    ASSUME TypeOK, PlainInv, UNCHANGED <<frames, on_task_stack, main_context>>, ~preempt'.enabled,
           \A i \in Slots : SameRun(tasks[i], tasks'[i]) \/ (~Busy(i) /\ Settled(tasks'[i]))
    PROVE  PlainInv'
<1>1. \A i \in Slots : Busy(i)' <=> Busy(i)
  BY Zenon DEF Busy
<1>2. ASSUME NEW i \in Slots PROVE StateSound(tasks'[i])
  BY SameRunKeeps, Zenon DEF PlainInv, Settled
<1>3. ASSUME NEW i \in Slots, ~Busy(i) PROVE Settled(tasks'[i])
  BY <1>3, IdleSettled, SameRunKeeps, Zenon
<1>4. ASSUME frames # <<>> PROVE InRun(tasks'[frames[1].slot], frames[1])
  <2>1. frames[1].slot \in Slots
    <3>1. Len(frames) \in Nat \ {0} /\ frames \in Seq(Frame)
      BY <1>4, FrameUpdates, Zenon DEF TypeOK
    <3>2. frames[1] \in Frame
      BY <3>1
    <3>. QED BY <3>2, Zenon DEF Frame
  <2>2. Busy(frames[1].slot)
    BY <1>4, Zenon DEF Busy
  <2>3. InRun(tasks[frames[1].slot], frames[1])
    BY <1>4, Zenon DEF PlainInv
  <2>. QED BY <2>1, <2>2, <2>3, SameRunKeeps, Zenon
<1>. QED BY <1>1, <1>2, <1>3, <1>4, Zenon DEF PlainInv, Settled

(* There is one frame, if any.                                             *)
LEMMA OneFrame ==
    ASSUME TypeOK, PlainInv, frames # <<>>
    PROVE  /\ Len(frames) = 1 /\ Top = frames[1] /\ Top \in Frame /\ Top.slot \in Slots
           /\ \A i : Busy(i) <=> i = Top.slot
           /\ InRun(tasks[Top.slot], Top)
<1>1. frames \in Seq(Frame) /\ Len(frames) \in Nat \ {0} /\ Top \in Frame
  BY FrameUpdates, Zenon DEF TypeOK
<1>2. Len(frames) = 1
  BY <1>1 DEF PlainInv
<1>. QED BY <1>1, <1>2, Zenon DEF Top, Busy, Frame, PlainInv

(* Who can call what.                                                      *)
LEMMA WhoCalls ==
    ASSUME TypeOK, PlainInv, NEW op, CanCall(op)
    PROVE  /\ op \in MainCalls \cup TaskCalls
           /\ op \notin TaskCalls => frames = <<>>
           /\ \A i \in Slots : Busy(i) => tasks[i].used /\ tasks[i].state = "running"
<1>1. ASSUME NEW i \in Slots, Busy(i) PROVE tasks[i].used /\ tasks[i].state = "running"
  <2>1. frames # <<>>
    BY <1>1, Zenon DEF Busy
  <2>2. Top.phase = "body" /\ i = Top.slot /\ InRun(tasks[i], Top)
    BY <1>1, <2>1, OneFrame, Zenon DEF CanCall
  <2>3. StateSound(tasks[i])
    BY Zenon DEF PlainInv
  <2>. QED BY <2>2, <2>3, Zenon DEF InRun, StateSound
<1>. QED BY <1>1, Zenon DEF CanCall

(* A run starts on a settled, active entry.                                *)
LEMMA RunStarts ==
    ASSUME TypeOK, PlainInv, frames = <<>>, ~preempt'.enabled,
           \A j \in Slots : Settled(tasks'[j]),
           NEW i \in Slots, tasks'[i].state = "active",
           NEW kind \in Kinds \ {"timer"}, frames' = Pushed(i, kind),
           on_task_stack' = (kind = "switched"),
           kind = "switched" => main_context' = 0
    PROVE  PlainInv'
<1>1. frames \in Seq(Frame) /\ Len(frames) = 0
  BY Zenon DEF TypeOK
<1>2. Len(frames') = 1 /\ frames'[1] = [slot |-> i, kind |-> kind, phase |-> "enter"]
  BY <1>1, FrameShape
<1>3. frames' # <<>>
  BY <1>2
<1>4. InRun(tasks'[i], frames'[1])
  <2>1. tasks'[i].used /\ Live(tasks'[i])
    BY Zenon DEF Settled, StateSound, Live
  <2>. QED BY <1>2, <2>1 DEF Settled, CleanStack, InRun, Kinds
<1>5. frames'[1].slot = i /\ frames'[1].kind = kind
  BY <1>2
<1>6. on_task_stack' = (frames'[1].kind = "switched") /\ (on_task_stack' => main_context' = 0)
  BY <1>5, Zenon
<1>. QED BY <1>2, <1>3, <1>4, <1>5, <1>6 DEF PlainInv, Settled

(* A run goes on: its entry and its phase change together.                 *)
LEMMA RunGoesOn ==
    ASSUME TypeOK, PlainInv, frames # <<>>, UNCHANGED <<preempt, on_task_stack, main_context>>,
           NEW p, SetPhase(p),
           \A j \in Slots \ {Top.slot} : tasks'[j] = tasks[j],
           StateSound(tasks'[Top.slot]),
           \A f : f.kind = Top.kind /\ f.phase = p => InRun(tasks'[Top.slot], f)
    PROVE  PlainInv'
<1>1. frames \in Seq(Frame) /\ Len(frames) = 1
  BY OneFrame, Zenon DEF TypeOK
<1>2. /\ Len(frames') = 1 /\ frames'[1].slot = Top.slot
      /\ frames'[1].kind = Top.kind /\ frames'[1].phase = p
  BY <1>1, FrameShape, Zenon
<1>3. frames' # <<>>
  BY <1>2
<1>4. InRun(tasks'[frames'[1].slot], frames'[1])
  BY <1>2, Zenon
<1>5. \A j \in Slots : StateSound(tasks'[j])
  BY Zenon DEF PlainInv
<1>6. \A j \in Slots : ~Busy(j)' => CleanStack(tasks'[j]) /\ tasks'[j].state # "running"
  BY <1>2, <1>3, OneFrame, Zenon DEF PlainInv, Busy
<1>. QED BY <1>2, <1>3, <1>4, <1>5, <1>6, OneFrame, Zenon DEF PlainInv

(* A run ends and leaves its entry settled.                                *)
LEMMA RunEnds ==
    ASSUME TypeOK, PlainInv, frames # <<>>, frames' = Lower, ~preempt'.enabled, ~on_task_stack',
           \A j \in Slots \ {Top.slot} : tasks'[j] = tasks[j],
           Settled(tasks'[Top.slot])
    PROVE  PlainInv'
<1>1. frames \in Seq(Frame) /\ Len(frames) = 1
  BY OneFrame, Zenon DEF TypeOK
<1>2. Lower \in Seq(Frame) /\ Len(Lower) = 0
  BY <1>1, FrameShape, FrameUpdates
<1>3. frames' = <<>> /\ Len(frames') = 0
  BY <1>2
<1>4. \A j \in Slots : Settled(tasks'[j])
  BY OneFrame, IdleSettled, Zenon
<1>. QED BY <1>3, <1>4 DEF PlainInv, Settled

(* Creating a task, whether or not there is a stack for it.                *)
LEMMA CreateSettled ==
    ASSUME TypeOK, PlainInv, \A k \in Slots : Busy(k) => tasks[k].used /\ tasks[k].state = "running",
           NEW i \in Slots, NEW mode \in Modes, NEW n, NEW entry \in {"client", "workload"},
           create_task(i, mode, n, entry)
    PROVE  \A j \in Slots : SameRun(tasks[j], tasks'[j]) \/ (~Busy(j) /\ Settled(tasks'[j]))
<1>1. ~Busy(i)
  BY Zenon DEF create_task, IsAvailableSlot, available, Inactive
<1>2. \A j \in Slots \ {i} : tasks'[j] = tasks[j]
  BY Zenon DEF create_task, TypeOK
<1>3. Settled(tasks'[i])
  <2> DEFINE new == [ClearedTask EXCEPT !.used = TRUE, !.id = next_task_id,
                                        !.state = "active", !.mode = mode,
                                        !.interval = n, !.last_run = ticks, !.entry = entry]
  <2>1. \/ \E s \in Stacks : tasks'[i] = [new EXCEPT !.stack = s]
        \/ tasks'[i] = ClearedTask
    BY Zenon DEF create_task, TypeOK
  <2>2. ASSUME NEW s \in Stacks, tasks'[i] = [new EXCEPT !.stack = s] PROVE Settled(tasks'[i])
    <3>1. /\ tasks'[i].used = TRUE /\ tasks'[i].state = "active" /\ tasks'[i].ran = FALSE
          /\ tasks'[i].stack = s /\ tasks'[i].entry = entry
      BY <2>2 DEF ClearedTask
    <3>2. s # NoStack
      BY SchedulerAssumption DEF Stacks, NoStack
    <3>. QED BY <3>1, <3>2, Zenon DEF Settled, StateSound, CleanStack, Live, Inactive
  <2>3. Settled(ClearedTask)
    BY Zenon DEF Settled, ClearedTask, StateSound, CleanStack, Live, Inactive
  <2>. QED BY <2>1, <2>2, <2>3, Zenon
<1>4. \A j \in Slots : SameRun(tasks[j], tasks[j])
  BY Zenon DEF SameRun
<1>. QED BY <1>1, <1>2, <1>3, <1>4, Zenon

(* Disabling a task that is not being run.                                 *)
LEMMA DisableSettled ==
    ASSUME TypeOK, PlainInv, frames = <<>>, NEW i \in Slots, disable(i)
    PROVE  \A j \in Slots : SameRun(tasks[j], tasks'[j]) \/ (~Busy(j) /\ Settled(tasks'[j]))
<1>1. \A j \in Slots \ {i} : tasks'[j] = tasks[j]
  BY Zenon DEF disable, TypeOK
<1>2. tasks'[i] = [WithoutStack(tasks[i]) EXCEPT !.state = "disabled"]
  BY Zenon DEF disable, TypeOK
<1>3. Settled(tasks'[i])
  <2>1. tasks[i] \in Task /\ tasks[i].used /\ tasks[i].state # "sleeping"
    BY Zenon DEF TypeOK, disable
  <2>. QED BY <1>2, <2>1, SettledUpdates, Zenon
<1>. QED BY <1>1, <1>3, Zenon DEF SameRun, Busy

(* Every step of a plain system.                                           *)
LEMMA PlainStep ==
    ASSUME PlainTasks, TypeOK, PlainInv, [Next]_vars
    PROVE  PlainInv'
<1> DEFINE Touches(j) == SameRun(tasks[j], tasks'[j]) \/ (~Busy(j) /\ Settled(tasks'[j]))
<1>a. tasks \in [Slots -> Task] /\ \A i \in Slots : tasks[i] \in Task
  BY Zenon DEF TypeOK
<1>b. \A i \in Slots : SameRun(tasks[i], tasks[i])
  BY Zenon DEF SameRun
<1>c. /\ \A op : CanCall(op) => op \in MainCalls \cup TaskCalls
      /\ \A op : CanCall(op) /\ op \notin TaskCalls => frames = <<>>
      /\ \A op : CanCall(op) =>
           \A i \in Slots : Busy(i) => tasks[i].used /\ tasks[i].state = "running"
  BY WhoCalls, Zenon
<1>d. ~preempt.enabled
  BY Zenon DEF PlainInv
<1>e. ASSUME UNCHANGED <<frames, running, preempt>>, \A j \in Slots : Touches(j) PROVE PlainInv'
  BY <1>d, <1>e, TableStep, Zenon DEF running
<1>f. ASSUME UNCHANGED tasks PROVE \A j \in Slots : Touches(j)
  BY <1>b, <1>f, Zenon
<1>g. ASSUME frames = <<>> PROVE \A i \in Slots : ~Busy(i) /\ Settled(tasks[i])
  BY <1>g, IdleSettled, Zenon DEF Busy
<1>1. CASE UNCHANGED vars
  BY <1>1, <1>e, <1>f, Zenon DEF vars, table, control
<1>2. CASE create_kernel_task
  <2>1. PICK i \in Slots, mode \in Modes, n \in Intervals \cup {0} : create_task(i, mode, n, "client")
    BY <1>2, Zenon DEF create_kernel_task, Modes
  <2>2. \A j \in Slots : Touches(j)
    BY <1>2, <1>c, <2>1, CreateSettled, Zenon DEF create_kernel_task
  <2>. QED BY <1>2, <1>e, <2>2, Zenon DEF create_kernel_task
<1>3. CASE disable_task
  <2>1. frames = <<>>
    BY <1>3, <1>c, Zenon DEF disable_task, PlainTasks
  <2>2. \A j \in Slots : Touches(j)
    BY <1>3, <2>1, DisableSettled, Zenon DEF disable_task
  <2>. QED BY <1>3, <1>e, <2>2, Zenon DEF disable_task
<1>4. CASE sleep_task
  <2>1. PICK i \in Slots, n \in SleepTicks :
          /\ tasks[i].used /\ tasks[i].state = "active"
          /\ tasks' = [tasks EXCEPT ![i] = [tasks[i] EXCEPT !.state = "sleeping",
                                                     !.wake_tick = Plus(ticks, n), !.due = n]]
    BY <1>4, Zenon DEF sleep_task
  <2>2. ~Busy(i)
    BY <1>4, <1>c, <2>1, Zenon DEF sleep_task
  <2>3. Settled(tasks'[i])
    BY <1>a, <2>1, <2>2, IdleSettled, SettledUpdates, Zenon
  <2>4. \A j \in Slots : Touches(j)
    BY <1>a, <1>b, <2>1, <2>2, <2>3, Zenon
  <2>. QED BY <1>4, <1>e, <2>4, Zenon DEF sleep_task
<1>5. CASE wake_task
  <2>1. PICK i \in Slots :
          /\ tasks[i].used /\ tasks[i].state = "sleeping"
          /\ tasks' = [tasks EXCEPT ![i] = [tasks[i] EXCEPT !.state = "active", !.wake_tick = 0]]
    BY <1>5, Zenon DEF wake_task
  <2>2. ~Busy(i)
    BY <1>5, <1>c, <2>1, Zenon DEF wake_task
  <2>3. Settled(tasks'[i])
    BY <1>a, <2>1, <2>2, IdleSettled, SettledUpdates, Zenon
  <2>4. \A j \in Slots : Touches(j)
    BY <1>a, <1>b, <2>1, <2>2, <2>3, Zenon
  <2>. QED BY <1>5, <1>e, <2>4, Zenon DEF wake_task
<1>6. CASE yield_task \/ yield_current_task
  <2>1. UNCHANGED <<frames, running, preempt>>
    BY <1>6, Zenon DEF yield_task, yield_current_task, control
  <2>2. PICK i : i \in Slots /\ tasks' = [tasks EXCEPT ![i].last_run = ticks]
    BY <1>6, Zenon DEF yield_task, yield_current_task, yield, TypeOK
  <2>3. tasks'[i] = [tasks[i] EXCEPT !.last_run = ticks]
    BY <1>a, <2>2, Zenon
  <2>4. SameRun(tasks[i], tasks'[i])
    BY <1>a, <2>2, <2>3, SettledUpdates, Zenon
  <2>5. \A j \in Slots : Touches(j)
    BY <1>a, <1>b, <2>2, <2>4, Zenon
  <2>. QED BY <1>e, <2>1, <2>5, Zenon
<1>7. CASE clear_inactive_tasks
  <2>1. frames = <<>>
    BY <1>7, <1>c, Zenon DEF clear_inactive_tasks, PlainTasks
  <2>2. \A j \in Slots : Touches(j)
    BY <1>7, <1>a, <1>b, <1>g, <2>1, SettledUpdates, Zenon DEF clear_inactive_tasks
  <2>. QED BY <1>7, <1>e, <2>2, Zenon DEF clear_inactive_tasks
<1>8. CASE repair
  <2>1. frames = <<>>
    BY <1>8, <1>c, Zenon DEF repair, PlainTasks
  <2>2. \A j \in Slots : tasks'[j] = Repaired(tasks[j])
    BY <1>8, Zenon DEF repair
  <2>3. \A j \in Slots : Touches(j)
    BY <1>a, <1>g, <2>1, <2>2, SettledUpdates, Zenon
  <2>. QED BY <1>8, <1>e, <2>3, Zenon DEF repair
<1>9. CASE rejected_call \/ run_switch_test \/ reset_switch_test
  <2>1. UNCHANGED <<frames, running, preempt, tasks>>
    BY <1>9, Zenon DEF rejected_call, run_switch_test, reset_switch_test, table, control
  <2>. QED BY <1>e, <1>f, <2>1, Zenon
<1>10. CASE set_preempt_test
  BY <1>10, <1>c, Zenon DEF set_preempt_test, PlainTasks
<1>11. CASE create_test_workload
  <2>1. PICK i \in Slots, n \in Intervals : create_task(i, "recurring", n, "workload")
    BY <1>11, Zenon DEF create_test_workload
  <2>2. \A j \in Slots : Touches(j)
    BY <1>11, <1>c, <2>1, CreateSettled, Zenon DEF create_test_workload, Modes
  <2>. QED BY <1>11, <1>e, <2>2, Zenon DEF create_test_workload
<1>12. CASE disable_test_workload
  <2>1. frames = <<>>
    BY <1>12, <1>c, Zenon DEF disable_test_workload, PlainTasks
  <2>2. \A j \in Slots : Touches(j)
    BY <1>12, <1>f, <2>1, DisableSettled, Zenon DEF disable_test_workload
  <2>. QED BY <1>12, <1>e, <2>2, Zenon DEF disable_test_workload
<1>13. CASE run_task_now
  <2>1. PICK i \in Slots : /\ tasks[i].used /\ tasks[i].state = "active"
                           /\ tasks' = [tasks EXCEPT ![i].last_run = ticks]
                           /\ frames' = Pushed(i, "now")
    BY <1>13, Zenon DEF run_task_now
  <2>2. frames = <<>> /\ ~on_task_stack /\ UNCHANGED <<running, preempt>>
    BY <1>13, <1>c, Zenon DEF run_task_now, PlainTasks, PlainInv
  <2>3. tasks'[i] = [tasks[i] EXCEPT !.last_run = ticks]
    BY <1>a, <2>1, Zenon
  <2>4. SameRun(tasks[i], tasks'[i])
    BY <1>a, <2>1, <2>3, SettledUpdates, Zenon
  <2>5. \A j \in Slots : Settled(tasks'[j])
    BY <1>a, <1>g, <2>1, <2>2, <2>4, SameRunKeeps, Zenon
  <2>6. tasks'[i].state = "active"
    BY <2>1, <2>4, Zenon DEF SameRun
  <2>7. on_task_stack' = ("now" = "switched")
    BY <2>2, Zenon DEF running, TypeOK
  <2>. QED BY <1>d, <2>1, <2>2, <2>5, <2>6, <2>7, RunStarts, Zenon DEF Kinds
<1>14. CASE run_task_with_context_switch
  <2>1. PICK i \in Slots : /\ tasks[i].used /\ tasks[i].state = "active"
                           /\ tasks' = [tasks EXCEPT ![i].last_run = ticks]
                           /\ frames' = Pushed(i, "switched")
    BY <1>14, Zenon DEF run_task_with_context_switch
  <2>2. frames = <<>> /\ on_task_stack' = TRUE /\ UNCHANGED preempt /\ main_context' = Len(frames)
    BY <1>14, <1>c, Zenon DEF run_task_with_context_switch, PlainTasks
  <2>3. tasks'[i] = [tasks[i] EXCEPT !.last_run = ticks]
    BY <1>a, <2>1, Zenon
  <2>4. SameRun(tasks[i], tasks'[i])
    BY <1>a, <2>1, <2>3, SettledUpdates, Zenon
  <2>5. \A j \in Slots : Settled(tasks'[j])
    BY <1>a, <1>g, <2>1, <2>2, <2>4, SameRunKeeps, Zenon
  <2>6. tasks'[i].state = "active" /\ main_context' = 0
    BY <2>1, <2>2, <2>4, Zenon DEF SameRun
  <2>7. on_task_stack' = ("switched" = "switched")
    BY <2>2, Zenon
  <2>. QED BY <1>d, <2>1, <2>2, <2>5, <2>6, <2>7, RunStarts, Zenon DEF Kinds
<1>h. ASSUME NEW now, NEW t, t \in [Slots -> Task], \A j \in Slots : SameRun(tasks[j], t[j]),
             \A j \in Slots : Busy(j) => tasks[j].state # "sleeping"
      PROVE  \A j \in Slots : \/ SameRun(tasks[j], AfterWake(t, now)[j])
                              \/ ~Busy(j) /\ Settled(AfterWake(t, now)[j])
  <2> SUFFICES ASSUME NEW j \in Slots
               PROVE  \/ SameRun(tasks[j], AfterWake(t, now)[j])
                      \/ ~Busy(j) /\ Settled(AfterWake(t, now)[j])
    BY Zenon
  <2>1. CASE AfterWake(t, now)[j] = t[j]
    BY <1>h, <2>1, Zenon
  <2>2. CASE /\ t[j].state = "sleeping"
             /\ AfterWake(t, now)[j] = [t[j] EXCEPT !.state = "active", !.wake_tick = 0]
    <3>1. ~Busy(j) /\ Settled(t[j])
      BY <1>h, <2>2, IdleSettled, SameRunKeeps, Zenon DEF SameRun
    <3>2. t[j] \in Task
      BY <1>h, Zenon
    <3>3. t[j].state = "sleeping"
      BY <2>2, Zenon
    <3>4. Settled([t[j] EXCEPT !.state = "active", !.wake_tick = 0])
      BY <3>1, <3>2, <3>3, SettledUpdates, Zenon
    <3>. QED BY <2>2, <3>1, <3>4, Zenon
  <2>. QED BY <1>h, <2>1, <2>2, WokenSettled, ZenonT(40)
<1>15. CASE run_pending
  <2> DEFINE t == AfterWake(tasks, ticks)
  <2>0. frames = <<>> /\ ~on_task_stack /\ UNCHANGED <<running, preempt>>
    BY <1>15, <1>c, Zenon DEF run_pending, PlainTasks, PlainInv
  <2>1. \A j \in Slots : Settled(t[j])
    <3>1. \A j \in Slots : ~Busy(j) /\ Settled(tasks[j])
      BY <1>g, <2>0, Zenon
    <3>2. \A j \in Slots : SameRun(tasks[j], t[j]) \/ (~Busy(j) /\ Settled(t[j]))
      <4>1. \A j \in Slots : Busy(j) => tasks[j].state # "sleeping"
        BY <3>1, Zenon
      <4>2. \A j \in Slots : SameRun(tasks[j], tasks[j])
        BY <1>b, Zenon
      <4>. QED BY <1>a, <1>h, <4>1, <4>2, Zenon
    <3> HIDE DEF t
    <3>. QED BY <3>1, <3>2, SameRunKeeps, Zenon
  <2>2. t \in [Slots -> Task]
    BY <1>a, TableUpdates, Zenon DEF TypeOK
  <2> HIDE DEF t
  <2>3. CASE SelectNone(t, ticks)
    <3>1. tasks' = t /\ frames' = frames
      BY <2>3, Zenon DEF SelectNone
    <3>2. \A j \in Slots : Touches(j)
      BY <1>g, <2>0, <2>1, <3>1, Zenon
    <3>. QED BY <1>e, <2>0, <3>1, <3>2, Zenon
  <2>4. CASE \E i \in Slots : Select(t, ticks, i, "pending")
    <3>1. PICK i \in Slots : Select(t, ticks, i, "pending")
      BY <2>4, Zenon
    <3>2. /\ tasks' = [t EXCEPT ![i].last_run = ticks] /\ frames' = Pushed(i, "pending")
          /\ t[i].state = "active"
      BY <3>1, Zenon DEF Select, IsFirst, ReadySlots, is_ready_to_run
    <3>3. tasks'[i] = [t[i] EXCEPT !.last_run = ticks]
      BY <2>2, <3>2, Zenon
    <3>4. SameRun(t[i], tasks'[i])
      <4>1. t[i] \in Task
        BY <2>2, Zenon
      <4>2. SameRun(t[i], [t[i] EXCEPT !.last_run = ticks])
        BY <4>1, SettledUpdates, Zenon
      <4>. QED BY <3>3, <4>2, Zenon
    <3>5. \A j \in Slots : Settled(tasks'[j])
      BY <2>1, <2>2, <3>2, <3>4, SameRunKeeps, Zenon
    <3>6. tasks'[i].state = "active"
      BY <3>2, <3>4, Zenon DEF SameRun
    <3>7. on_task_stack' = ("pending" = "switched")
      BY <2>0, Zenon DEF running, TypeOK
    <3>. QED BY <1>d, <2>0, <3>2, <3>5, <3>6, <3>7, RunStarts, Zenon DEF Kinds
  <2>. QED BY <1>15, <2>3, <2>4, Zenon DEF run_pending, t
<1>16. CASE timer_tick
  <2> DEFINE now == Plus(ticks, 1)
             t == AfterWake(Elapsed(tasks), now)
  <2>1. tasks' = t /\ UNCHANGED <<control, preempt, running>>
    BY <1>16, <1>d, Zenon DEF timer_tick, DispatchDue
  <2>2. \A j \in Slots : Busy(j) => tasks[j].state # "sleeping"
    <3> SUFFICES ASSUME NEW j \in Slots, Busy(j) PROVE tasks[j].state # "sleeping"
      BY Zenon
    <3>1. frames # <<>>
      BY Zenon DEF Busy
    <3>2. j = Top.slot /\ InRun(tasks[j], Top) /\ Top \in Frame
      BY <3>1, OneFrame, Zenon
    <3>. QED BY <3>2, Zenon DEF InRun, Frame, Phases
  <2>3. \A j \in Slots : SameRun(tasks[j], Elapsed(tasks)[j])
    BY <1>a, WokenSettled, Zenon
  <2>4. Elapsed(tasks) \in [Slots -> Task]
    BY <1>a, TableUpdates, Zenon DEF TypeOK
  <2>5. \A j \in Slots : Touches(j)
    BY <1>h, <2>1, <2>2, <2>3, <2>4, Zenon
  <2>. QED BY <1>e, <2>1, <2>5, Zenon DEF control
<1>17. CASE trampoline_enter
  <2> DEFINE i == Top.slot
             u == [[tasks[i] EXCEPT !.state = "running"] EXCEPT !.ran = TRUE]
  <2>1. frames # <<>> /\ Top.phase = "enter"
    BY <1>17, Zenon DEF trampoline_enter
  <2>2. /\ Top \in Frame /\ i \in Slots /\ InRun(tasks[i], Top)
    BY <2>1, OneFrame, Zenon
  <2>3. tasks[i].entry # "none" /\ tasks[i].state = "active" /\ tasks[i].stack # NoStack
    BY <2>1, <2>2, Zenon DEF InRun
  <2>4. /\ tasks' = [tasks EXCEPT ![i].state = "running", ![i].ran = TRUE]
        /\ SetPhase("body") /\ UNCHANGED <<preempt, on_task_stack, main_context>>
    BY <1>17, <2>3, Zenon DEF trampoline_enter
  <2>5. tasks'[i] = u /\ \A j \in Slots \ {i} : tasks'[j] = tasks[j]
    BY <1>a, <2>2, <2>4, Zenon
  <2>6. /\ u.state = "running" /\ u.ran = TRUE /\ u.used = tasks[i].used
        /\ u.stack = tasks[i].stack /\ u.entry = tasks[i].entry
    BY <1>a, <2>2 DEF Task
  <2> HIDE DEF u
  <2>7. StateSound(u)
    BY <2>2, <2>3, <2>6, Zenon DEF StateSound, PlainInv
  <2>8. \A f : f.kind = Top.kind /\ f.phase = "body" => InRun(u, f)
    BY <2>2, <2>3, <2>6, Zenon DEF InRun
  <2>. QED BY <2>1, <2>4, <2>5, <2>7, <2>8, RunGoesOn, Zenon
<1>18. CASE trampoline_exit
  <2> DEFINE i == Top.slot
             t == tasks[i]
             kept == IF KeepsStack(t) THEN t ELSE WithoutStack(t)
             u == [kept EXCEPT !.state = StateAfterRun(t)]
  <2>1. frames # <<>> /\ Top.phase = "body"
    BY <1>18, Zenon DEF trampoline_exit
  <2>2. /\ Top \in Frame /\ i \in Slots /\ InRun(t, Top) /\ t \in Task
    BY <1>a, <2>1, OneFrame, Zenon
  <2>3. t.entry # "none" /\ t.state = "running" /\ t.stack # NoStack /\ t.ran
    BY <2>1, <2>2, Zenon DEF InRun
  <2>4. /\ tasks' = [tasks EXCEPT ![i] = u]
        /\ SetPhase("return") /\ UNCHANGED <<preempt, on_task_stack, main_context>>
    BY <1>18, Zenon DEF trampoline_exit
  <2>5. tasks'[i] = u /\ \A j \in Slots \ {i} : tasks'[j] = tasks[j]
    BY <1>a, <2>2, <2>4, Zenon
  <2>6. /\ u.state = (IF t.mode = "oneshot" THEN "completed" ELSE "active")
        /\ u.ran = t.ran /\ u.used = t.used /\ u.mode = t.mode
        /\ u.entry = t.entry
        /\ u.stack = IF t.mode # "oneshot" \/ on_task_stack THEN t.stack ELSE NoStack
    BY <2>2, Zenon DEF Task, KeepsStack, WithoutStack, StateAfterRun
  <2>7. on_task_stack = (Top.kind = "switched") /\ StateSound(t)
    BY <2>1, <2>2, OneFrame, Zenon DEF PlainInv
  <2> HIDE DEF u, t
  <2>8. StateSound(u)
    BY <2>3, <2>6, <2>7, Zenon DEF StateSound
  <2>9. \A f : f.kind = Top.kind /\ f.phase = "return" => InRun(u, f)
    BY <2>2, <2>3, <2>6, <2>7, Zenon DEF InRun
  <2>. QED BY <2>1, <2>4, <2>5, <2>8, <2>9, RunGoesOn, Zenon
<1>19. CASE direct_return
  <2>1. /\ frames # <<>> /\ Top.phase = "return" /\ Top.kind \in {"now", "pending"}
        /\ frames' = Lower /\ UNCHANGED <<tasks, preempt, running>>
    BY <1>19, Zenon DEF direct_return, table
  <2>2. /\ Top.slot \in Slots /\ InRun(tasks[Top.slot], Top) /\ StateSound(tasks[Top.slot])
        /\ ~on_task_stack
    BY <2>1, OneFrame, Zenon DEF PlainInv
  <2>3. Settled(tasks[Top.slot])
    BY <2>1, <2>2, Zenon DEF InRun, Settled, StateSound, CleanStack, Live, Inactive
  <2>. QED BY <1>d, <2>1, <2>2, <2>3, RunEnds, Zenon DEF running
<1>20. CASE timer_return
  BY <1>20, OneFrame, Zenon DEF timer_return, InRun
<1>21. CASE switched_return
  <2> DEFINE i == Top.slot
             t == tasks[i]
  <2>1. frames # <<>> /\ Top.phase = "return" /\ Top.kind = "switched"
    BY <1>21, Zenon DEF switched_return
  <2>2. /\ i \in Slots /\ InRun(t, Top) /\ StateSound(t) /\ Len(frames) = 1
        /\ main_context = 0 /\ t \in Task
    BY <1>a, <2>1, OneFrame, Zenon DEF PlainInv
  <2>3. /\ frames' = Lower /\ on_task_stack' = FALSE /\ UNCHANGED preempt
        /\ tasks' = IF t.state = "completed" THEN [tasks EXCEPT ![i] = WithoutStack(t)] ELSE tasks
    BY <1>21, <2>2 DEF switched_return, FreedAfterSwitch
  <2>4. \A j \in Slots \ {i} : tasks'[j] = tasks[j]
    BY <1>a, <2>3, Zenon
  <2>5. tasks'[i] = IF t.state = "completed" THEN WithoutStack(t) ELSE t
    BY <1>a, <2>2, <2>3, Zenon
  <2> HIDE DEF t
  <2>6. Settled(tasks'[i])
    BY <2>1, <2>2, <2>5, Zenon
       DEF InRun, Settled, StateSound, CleanStack, Live, Inactive, WithoutStack, Task
  <2>. QED BY <1>d, <2>1, <2>3, <2>4, <2>6, RunEnds, Zenon
<1>. QED BY <1>1, <1>2, <1>3, <1>4, <1>5, <1>6, <1>7, <1>8, <1>9, <1>10, <1>11, <1>12, <1>13,
            <1>14, <1>15, <1>16, <1>17, <1>18, <1>19, <1>20, <1>21, Zenon DEF Next, proceed

-----------------------------------------------------------------------------
(* What follows for plain tasks.                                           *)

(* The inductive invariant, from boot on.                                  *)
LEMMA PlainAlways ==
    ASSUME PlainTasks
    PROVE  Spec => []PlainInv
<1>1. Init => PlainInv
  BY DEF Init, PlainInv, ClearedPreempt, ClearedTask, StateSound, CleanStack, Live, Inactive,
         Busy, NoStack
<1>2. TypeOK /\ PlainInv /\ [Next]_vars => PlainInv'
  BY PlainStep, Zenon
<1>. QED BY <1>1, <1>2, TypeCorrect, PTL DEF Spec

(* The audit has nothing to report about stacks while no task runs: create,*)
(* disable and both ways a run can end leave live tasks, and only those,   *)
(* with a kernel stack.                                                    *)
THEOREM CleanStacks ==
    ASSUME PlainTasks
    PROVE  Spec => []StacksClean
<1>1. PlainInv => StacksClean
  BY Zenon DEF PlainInv, StacksClean, StackIssues, Busy, CleanStack
<1>. QED BY <1>1, PlainAlways, PTL

(* A task that runs on its own kernel stack owns it until the switch back: *)
(* the trampoline leaves the stack of a finished one-shot task to          *)
(* scheduler_run_task_with_context_switch.                                 *)
THEOREM RunsOnOwnStack ==
    ASSUME PlainTasks
    PROVE  Spec => []OnLiveStack
<1>1. TypeOK /\ PlainInv => OnLiveStack
  <2> SUFFICES ASSUME TypeOK, PlainInv, NEW k \in 1 .. Len(frames), frames[k].kind = "switched"
               PROVE  tasks[frames[k].slot].stack # NoStack
    BY Zenon DEF OnLiveStack
  <2>1. frames # <<>>
    BY DEF TypeOK
  <2>2. /\ Len(frames) = 1 /\ Top = frames[1] /\ InRun(tasks[Top.slot], Top)
        /\ Top \in Frame
    BY <2>1, OneFrame, Zenon
  <2>3. k = 1
    BY <2>2
  <2>. QED BY <2>2, <2>3, Zenon DEF InRun, Frame, Phases
<1>. QED BY <1>1, PlainAlways, TypeCorrect, PTL

(* COMPLETED is reached only through a call of the entry function.         *)
THEOREM CompletedRan ==
    ASSUME PlainTasks
    PROVE  Spec => []CompletedHasRun
<1>1. PlainInv => CompletedHasRun
  BY Zenon DEF PlainInv, CompletedHasRun, StateSound
<1>. QED BY <1>1, PlainAlways, PTL

(* Only the trampoline marks a task RUNNING.                               *)
LEMMA OnlyTrampolineRuns ==
    ASSUME TypeOK, [Next]_vars, NEW i \in Slots, tasks'[i].state = "running",
           tasks[i].state # "running"
    PROVE  trampoline_enter /\ frames # <<>> /\ Top.phase = "enter" /\ Top.slot = i
<1>a. tasks \in [Slots -> Task] /\ tasks[i] \in Task
  BY Zenon DEF TypeOK
<1>b. ASSUME NEW t \in Task
      PROVE  /\ \A n : [t EXCEPT !.last_run = n].state = t.state
             /\ \A w, d : [t EXCEPT !.state = "sleeping", !.wake_tick = w, !.due = d].state
                          = "sleeping"
             /\ \A w : [t EXCEPT !.state = "active", !.wake_tick = w].state = "active"
             /\ [WithoutStack(t) EXCEPT !.state = "disabled"].state = "disabled"
             /\ WithoutStack(t).state = t.state
             /\ Repaired(t).state \in {t.state, "disabled", "active"}
             /\ \A s, u : [(IF s THEN t ELSE WithoutStack(t)) EXCEPT !.state = u].state = u
  BY Zenon DEF WithoutStack, Repaired, Task
<1>1. CASE UNCHANGED tasks
  BY <1>1, Zenon
<1>r. ASSUME NEW j, NEW u, tasks' = [tasks EXCEPT ![j] = u], u.state # "running" PROVE FALSE
  BY <1>r, <1>a, Zenon
<1>t. ASSUME NEW t \in [Slots -> Task], NEW j, NEW n, tasks' = [t EXCEPT ![j].last_run = n],
             t[i].state # "running"
      PROVE  FALSE
  <2>1. CASE j = i
    <3>1. tasks'[i] = [t[i] EXCEPT !.last_run = n]
      BY <1>t, <2>1, Zenon
    <3>. QED BY <1>b, <1>t, <3>1
  <2>2. CASE j # i
    <3>1. tasks'[i] = t[i]
      BY <1>t, <2>2, Zenon
    <3>. QED BY <1>t, <3>1, Zenon
  <2>. QED BY <2>1, <2>2, Zenon
<1>2. ASSUME NEW j \in Slots, NEW mode, NEW n, NEW entry, create_task(j, mode, n, entry)
      PROVE  FALSE
  <2> DEFINE new == [ClearedTask EXCEPT !.used = TRUE, !.id = next_task_id,
                                        !.state = "active", !.mode = mode,
                                        !.interval = n, !.last_run = ticks, !.entry = entry]
  <2>1. \/ \E s \in Stacks : tasks' = [tasks EXCEPT ![j] = [new EXCEPT !.stack = s]]
        \/ tasks' = [tasks EXCEPT ![j] = ClearedTask]
    BY <1>2, Zenon DEF create_task
  <2>2. \A s : [new EXCEPT !.stack = s].state = "active"
    BY Zenon DEF ClearedTask
  <2>3. ClearedTask.state = "unused"
    BY Zenon DEF ClearedTask
  <2> HIDE DEF new
  <2>. QED BY <1>r, <2>1, <2>2, <2>3, Zenon
<1>3. ASSUME NEW j \in Slots, disable(j) PROVE FALSE
  <2>1. tasks' = [tasks EXCEPT ![j] = [WithoutStack(tasks[j]) EXCEPT !.state = "disabled"]]
    BY <1>3, Zenon DEF disable
  <2>2. tasks[j] \in Task
    BY <1>a, Zenon
  <2>. QED BY <1>b, <1>r, <2>1, <2>2
<1>4. CASE sleep_task
  <2>1. PICK j \in Slots, n \in SleepTicks :
          tasks' = [tasks EXCEPT ![j] = [tasks[j] EXCEPT !.state = "sleeping",
                                                  !.wake_tick = Plus(ticks, n), !.due = n]]
    BY <1>4, Zenon DEF sleep_task
  <2>2. tasks[j] \in Task
    BY <1>a, Zenon
  <2> DEFINE u == [tasks[j] EXCEPT !.state = "sleeping", !.wake_tick = Plus(ticks, n), !.due = n]
  <2>3. u.state = "sleeping"
    BY <1>b, <2>2
  <2>4. tasks' = [tasks EXCEPT ![j] = u]
    BY <2>1, Zenon
  <2> HIDE DEF u
  <2>. QED BY <1>r, <2>3, <2>4, Zenon
<1>w. CASE wake_task
  <2>1. PICK j \in Slots :
          tasks' = [tasks EXCEPT ![j] = [tasks[j] EXCEPT !.state = "active", !.wake_tick = 0]]
    BY <1>w, Zenon DEF wake_task
  <2> DEFINE u == [tasks[j] EXCEPT !.state = "active", !.wake_tick = 0]
  <2>2. u.state = "active"
    BY <1>a, <1>b
  <2>3. tasks' = [tasks EXCEPT ![j] = u]
    BY <2>1, Zenon
  <2> HIDE DEF u
  <2>. QED BY <1>r, <2>2, <2>3, Zenon
<1>5. CASE yield_task \/ yield_current_task \/ run_task_now \/ run_task_with_context_switch
  <2>1. PICK j : tasks' = [tasks EXCEPT ![j].last_run = ticks]
    BY <1>5, Zenon DEF yield_task, yield_current_task, yield, run_task_now, run_task_with_context_switch
  <2>. QED BY <1>a, <1>t, <2>1, Zenon
<1>6. CASE clear_inactive_tasks \/ repair
  <2>1. tasks'[i] \in {ClearedTask, tasks[i], Repaired(tasks[i])}
    BY <1>6, Zenon DEF clear_inactive_tasks, repair
  <2>2. ClearedTask.state = "unused"
    BY Zenon DEF ClearedTask
  <2>. QED BY <1>a, <1>b, <2>1, <2>2
<1>7. ASSUME NEW t \in [Slots -> Task], NEW now \in 0 .. TickModulus - 1, t[i].state # "running",
             \/ tasks' = AfterWake(t, now)
             \/ \E j \in Slots : \E n : tasks' = [AfterWake(t, now) EXCEPT ![j].last_run = n]
      PROVE  FALSE
  <2> DEFINE w == AfterWake(t, now)
  <2>1. w \in [Slots -> Task]
    BY <1>7, TableUpdates, Zenon
  <2>2. t[i] \in Task
    BY <1>7, Zenon
  <2>3. w[i].state # "running"
    <3>1. w[i] = t[i] \/ w[i] = [t[i] EXCEPT !.state = "active", !.wake_tick = 0]
      BY WokenSettled, Zenon
    <3>2. [t[i] EXCEPT !.state = "active", !.wake_tick = 0].state = "active"
      BY <1>b, <2>2, Zenon
    <3> HIDE DEF w
    <3>. QED BY <1>7, <3>1, <3>2, Zenon
  <2>4. tasks' = w \/ \E j \in Slots : \E n : tasks' = [w EXCEPT ![j].last_run = n]
    BY <1>7, Zenon
  <2> HIDE DEF w
  <2>. QED BY <1>t, <2>1, <2>3, <2>4, Zenon
<1>8. CASE run_pending
  <2>1. \/ tasks' = AfterWake(tasks, ticks)
        \/ \E j \in Slots : \E n : tasks' = [AfterWake(tasks, ticks) EXCEPT ![j].last_run = n]
    BY <1>8, Zenon DEF run_pending, SelectNone, Select
  <2>2. ticks \in 0 .. TickModulus - 1
    BY Zenon DEF TypeOK
  <2>. QED BY <1>7, <1>a, <2>1, <2>2, Zenon
<1>9. CASE timer_tick
  <2>1. Elapsed(tasks) \in [Slots -> Task] /\ Elapsed(tasks)[i].state # "running"
    <3>1. Elapsed(tasks) \in [Slots -> Task]
      BY <1>a, TableUpdates, Zenon DEF TypeOK
    <3>2. SameRun(tasks[i], Elapsed(tasks)[i])
      BY <1>a, WokenSettled, Zenon
    <3>. QED BY <3>1, <3>2, ZenonT(40) DEF SameRun
  <2> DEFINE e == Elapsed(tasks)
             now == Plus(ticks, 1)
  <2>2. \/ tasks' = AfterWake(e, now)
        \/ \E j \in Slots : \E n : tasks' = [AfterWake(e, now) EXCEPT ![j].last_run = n]
    BY <1>9, Zenon DEF timer_tick, SelectNone, Select
  <2> HIDE DEF e, now
  <2>3. e \in [Slots -> Task] /\ e[i].state # "running"
    BY <2>1, Zenon DEF e
  <2>4. now \in 0 .. TickModulus - 1
    BY TickSuccessor, Zenon DEF now, TypeOK
  <2>. QED BY <1>7, <2>2, <2>3, <2>4, Zenon
<1>10. CASE trampoline_enter
  BY <1>10, <1>a, Zenon DEF trampoline_enter
<1>11. CASE trampoline_exit
  <2> DEFINE j == Top.slot
             u == [(IF KeepsStack(tasks[j]) THEN tasks[j] ELSE WithoutStack(tasks[j]))
                     EXCEPT !.state = StateAfterRun(tasks[j])]
  <2>1. frames # <<>> /\ tasks' = [tasks EXCEPT ![j] = u]
    BY <1>11, Zenon DEF trampoline_exit
  <2>2. j \in Slots
    BY <2>1, FrameUpdates, Zenon DEF TypeOK, Frame
  <2>3. u.state = StateAfterRun(tasks[j])
    BY <1>a, <1>b, <2>2
  <2> HIDE DEF u
  <2>. QED BY <1>r, <2>1, <2>3, Zenon DEF StateAfterRun
<1>12. CASE switched_return
  <2>1. tasks' = tasks \/ tasks' = [tasks EXCEPT ![Top.slot] = WithoutStack(tasks[Top.slot])]
    BY <1>12, Zenon DEF switched_return
  <2>2. CASE tasks' = [tasks EXCEPT ![Top.slot] = WithoutStack(tasks[Top.slot])]
    <3>1. tasks'[i] \in {tasks[i], WithoutStack(tasks[i])}
      BY <1>a, <2>2, Zenon
    <3>. QED BY <1>a, <1>b, <3>1
  <2>. QED BY <1>1, <2>1, <2>2, Zenon
<1>13. CASE create_kernel_task \/ create_test_workload
  BY <1>13, <1>2, Zenon DEF create_kernel_task, create_test_workload
<1>14. CASE disable_task \/ disable_test_workload
  BY <1>14, <1>1, <1>3, Zenon DEF disable_task, disable_test_workload
<1>15. CASE \/ UNCHANGED vars \/ rejected_call \/ set_preempt_test \/ run_switch_test
            \/ reset_switch_test \/ direct_return \/ timer_return
  BY <1>15, <1>1, Zenon DEF vars, table, rejected_call, set_preempt_test, run_switch_test,
                     reset_switch_test, direct_return, timer_return
<1>. QED BY <1>4, <1>w, <1>5, <1>6, <1>8, <1>9, <1>10, <1>11, <1>12, <1>13, <1>14, <1>15, Zenon
         DEF Next, proceed

(* The entry function of a one-shot task is called at most once: a slot is *)
(* dispatched only while ACTIVE, and a one-shot task is not ACTIVE again   *)
(* after its run.                                                          *)
THEOREM OneShotOnce ==
    ASSUME PlainTasks
    PROVE  Spec => OneShotRunsOnce
<1>1. ASSUME TypeOK, PlainInv, [Next]_vars, NEW i \in Slots, tasks[i].mode = "oneshot",
             tasks[i].ran, tasks'[i].state = "running"
      PROVE  tasks[i].state = "running"
  <2> SUFFICES ASSUME tasks[i].state # "running" PROVE FALSE
    BY Zenon
  <2>1. frames # <<>> /\ Top.phase = "enter" /\ Top.slot = i
    BY <1>1, OnlyTrampolineRuns, Zenon
  <2>2. tasks[i].state = "active"
    BY <1>1, <2>1, OneFrame, Zenon DEF InRun
  <2>. QED BY <1>1, <2>2, Zenon DEF PlainInv, StateSound
<1>2. TypeOK /\ PlainInv /\ [Next]_vars =>
        [\A i \in Slots :
           tasks[i].mode = "oneshot" /\ tasks[i].ran /\ tasks'[i].id = tasks[i].id
           => (tasks'[i].state = "running" => tasks[i].state = "running")]_vars
  BY <1>1, Zenon
<1>. QED BY <1>2, PlainAlways, TypeCorrect, PTL DEF Spec, OneShotRunsOnce

-----------------------------------------------------------------------------
(* Sleepers.                                                               *)

(* Nobody sleeps for longer than the signed difference of two ticks can    *)
(* express: the wake test takes a longer sleep for one that is over.       *)
ShortSleeps == \A n \in SleepTicks : n <= TickModulus - HalfRange

(* A sleeper and its wake tick at tick now.                                *)
SleepSound(t, now) ==
    t.state = "sleeping" =>
        /\ t.used
        /\ t.due \in 1 .. TickModulus - HalfRange
        /\ t.wake_tick = Plus(now, t.due)

SleepInv == \A i \in Slots : SleepSound(tasks[i], ticks)

(* Nobody falls asleep, and the sleep of those who stay asleep is as it    *)
(* was.                                                                    *)
SameSleep(t, u) ==
    u.state = "sleeping" =>
        t.state = "sleeping" /\ u.used = t.used /\ u.due = t.due /\ u.wake_tick = t.wake_tick

(* How the wake test sees a sleep of d more ticks, now and one tick later. *)
LEMMA SleepTicking ==
    ASSUME NEW now \in 0 .. TickModulus - 1, NEW d \in 1 .. TickModulus - HalfRange
    PROVE  /\ Minus(now, Plus(now, d)) >= HalfRange
           /\ d = 1 => Minus(Plus(now, 1), Plus(now, d)) < HalfRange
           /\ d > 1 => /\ d - 1 \in 1 .. TickModulus - HalfRange
                       /\ Plus(now, d) = Plus(Plus(now, 1), d - 1)
                       /\ Minus(Plus(now, 1), Plus(now, d)) >= HalfRange
<1>1. HalfRange \in 1 .. TickModulus /\ TickModulus \in Nat
  BY SchedulerAssumption DEF HalfRange
<1> DEFINE h == HalfRange
           m == TickModulus
<1>2. h \in 1 .. m /\ m \in Nat /\ now \in 0 .. m - 1 /\ d \in 1 .. m - h
  BY <1>1, Zenon
<1>3. /\ Minus(now, Plus(now, d)) >= h
      /\ d = 1 => Minus(Plus(now, 1), Plus(now, d)) < h
  BY <1>2 DEF Plus, Minus
<1>4. ASSUME d > 1
      PROVE  /\ d - 1 \in 1 .. m - h
             /\ Plus(now, d) = Plus(Plus(now, 1), d - 1)
             /\ Minus(Plus(now, 1), Plus(now, d)) >= h
  BY <1>2, <1>4 DEF Plus, Minus
<1>. QED BY <1>3, <1>4, Zenon

(* Nothing is woken at the tick the sleeps are counted from.               *)
LEMMA NotYetWoken ==
    ASSUME TypeOK, SleepInv
    PROVE  AfterWake(tasks, ticks) = tasks
<1>1. ASSUME NEW i \in Slots PROVE i \notin Woken(tasks, ticks)
  <2> SUFFICES ASSUME tasks[i].state = "sleeping"
               PROVE  ~(Minus(ticks, tasks[i].wake_tick) < HalfRange)
    BY Zenon DEF Woken
  <2>1. tasks[i].due \in 1 .. TickModulus - HalfRange /\ tasks[i].wake_tick = Plus(ticks, tasks[i].due)
    BY Zenon DEF SleepInv, SleepSound
  <2>2. ticks \in 0 .. TickModulus - 1
    BY Zenon DEF TypeOK
  <2>3. Minus(ticks, tasks[i].wake_tick) >= HalfRange
    BY <2>1, <2>2, SleepTicking, Zenon
  <2>4. HalfRange \in Int
    BY SchedulerAssumption DEF HalfRange
  <2>5. Minus(ticks, tasks[i].wake_tick) \in Int
    <3>1. tasks[i].wake_tick \in 0 .. TickModulus - 1
      BY Zenon DEF TypeOK, Task
    <3>2. Minus(ticks, tasks[i].wake_tick) \in 0 .. TickModulus - 1
      BY <2>2, <3>1, TickRange, Zenon
    <3>. QED BY <3>2
  <2>. QED BY <2>3, <2>4, <2>5
<1>2. tasks = [i \in Slots |-> tasks[i]]
  BY Zenon DEF TypeOK
<1>. QED BY <1>1, <1>2, Zenon DEF AfterWake

(* One tick: a sleeper either is woken with nothing left to sleep, or has  *)
(* one tick less to sleep.                                                 *)
LEMMA OneTickLess ==
    ASSUME TypeOK, SleepInv, NEW i \in Slots, NEW u,
           u = AfterWake(Elapsed(tasks), Plus(ticks, 1))[i]
    PROVE  /\ SleepSound(u, Plus(ticks, 1))
           /\ tasks[i].state = "sleeping" /\ u.state # "sleeping" => u.due = 0
<1> DEFINE e == Elapsed(tasks)[i]
           now == Plus(ticks, 1)
<1>1. tasks[i] \in Task /\ ticks \in 0 .. TickModulus - 1
  BY Zenon DEF TypeOK
<1>2. /\ e.state = tasks[i].state /\ e.used = tasks[i].used /\ e.wake_tick = tasks[i].wake_tick
      /\ tasks[i].due > 0 => e.due = tasks[i].due - 1
  BY <1>1, Zenon DEF Elapsed, Task
<1>3. u = IF i \in Woken(Elapsed(tasks), now)
          THEN [e EXCEPT !.state = "active", !.wake_tick = 0] ELSE e
  BY Zenon DEF AfterWake
<1>4. i \in Woken(Elapsed(tasks), now) <=>
        /\ tasks[i].used /\ tasks[i].state = "sleeping"
        /\ Minus(now, tasks[i].wake_tick) < HalfRange
  BY <1>2, Zenon DEF Woken
<1>5. e \in Task
  <2>1. Elapsed(tasks) \in [Slots -> Task]
    BY <1>1, TableUpdates, Zenon DEF TypeOK
  <2>. QED BY <2>1, Zenon
<1>6. [e EXCEPT !.state = "active", !.wake_tick = 0].state = "active"
  BY <1>5, Zenon DEF Task
<1>7. [e EXCEPT !.state = "active", !.wake_tick = 0].due = e.due
  BY <1>5, Zenon DEF Task
<1> HIDE DEF e, now
<1>8. CASE tasks[i].state # "sleeping"
  BY <1>2, <1>3, <1>4, <1>8, Zenon DEF SleepSound
<1>9. CASE tasks[i].state = "sleeping"
  <2> DEFINE d == tasks[i].due
  <2>1. tasks[i].used /\ d \in 1 .. TickModulus - HalfRange /\ tasks[i].wake_tick = Plus(ticks, d)
    BY <1>9, Zenon DEF SleepInv, SleepSound
  <2>2. e.due = d - 1
    BY <1>2, <2>1
  <2>3. CASE d = 1
    <3>1. i \in Woken(Elapsed(tasks), now)
      BY <1>1, <1>4, <1>9, <2>1, <2>3, SleepTicking, Zenon DEF now
    <3>2. u = [e EXCEPT !.state = "active", !.wake_tick = 0]
      BY <1>3, <3>1, Zenon
    <3>3. u.state = "active" /\ u.due = 0
      <4>1. e.due = 0
        BY <2>2, <2>3
      <4>. QED BY <1>6, <1>7, <3>2, <4>1, Zenon
    <3>. QED BY <3>3, Zenon DEF SleepSound
  <2>4. CASE d > 1
    <3>1. /\ d - 1 \in 1 .. TickModulus - HalfRange
          /\ Plus(ticks, d) = Plus(now, d - 1)
          /\ Minus(now, Plus(ticks, d)) >= HalfRange
      BY <1>1, <2>1, <2>4, SleepTicking, Zenon DEF now
    <3>2. HalfRange \in Int /\ Minus(now, Plus(ticks, d)) \in Int
      <4>1. now \in 0 .. TickModulus - 1
        BY <1>1, TickSuccessor, Zenon DEF now
      <4>2. d \in 0 .. TickModulus - 1
        BY <1>1, Zenon DEF Task
      <4>3. HalfRange \in Int
        BY SchedulerAssumption DEF HalfRange
      <4>4. Plus(ticks, d) \in 0 .. TickModulus - 1
        BY <1>1, <4>2, TickRange, Zenon
      <4>5. Minus(now, Plus(ticks, d)) \in 0 .. TickModulus - 1
        BY <4>1, <4>4, TickRange, Zenon
      <4>. QED BY <4>3, <4>5
    <3>3. i \notin Woken(Elapsed(tasks), now)
      BY <1>4, <2>1, <3>1, <3>2
    <3>4. u = e
      BY <1>3, <3>3, Zenon
    <3>5. SleepSound(e, now)
      BY <1>2, <2>1, <2>2, <3>1, Zenon DEF SleepSound
    <3>. QED BY <1>2, <1>9, <3>4, <3>5, Zenon DEF now
  <2>5. d = 1 \/ d > 1
    BY <2>1
  <2>. QED BY <2>3, <2>4, <2>5, ZenonT(40)
<1>. QED BY <1>8, <1>9, Zenon DEF now

(* The steps that neither put a task to sleep nor count a tick.  Besides   *)
(* waking and repairing, only the run of a sleeping task would end a sleep.*)
LEMMA QuietStep ==
    ASSUME TypeOK, SleepInv, [Next]_vars, ~sleep_task, ~timer_tick, NEW i \in Slots
    PROVE  /\ ticks' = ticks
           /\ SameSleep(tasks[i], tasks'[i])
           /\ tasks[i].state = "sleeping" /\ tasks'[i].state # "sleeping" =>
                \/ wake_task \/ repair
                \/ frames # <<>> /\ Top.slot = i /\ Top.phase \in {"enter", "body"}
<1> DEFINE Asleep(t, u) == SameSleep(t, u) /\ (t.state = "sleeping" => u.state = "sleeping")
<1>a. tasks \in [Slots -> Task] /\ tasks[i] \in Task
  BY Zenon DEF TypeOK
<1>b. ticks' = ticks
  BY Zenon DEF Next, proceed, create_kernel_task, disable_task, wake_task, yield_task,
     yield_current_task, clear_inactive_tasks, repair, rejected_call, set_preempt_test,
     create_test_workload, disable_test_workload, run_switch_test, reset_switch_test,
     run_task_now, run_task_with_context_switch, run_pending, trampoline_enter,
     trampoline_exit, direct_return, timer_return, switched_return, vars
<1>c. ASSUME NEW t \in Task
      PROVE  /\ \A n : Asleep(t, [t EXCEPT !.last_run = n])
             /\ \A w : SameSleep(t, [t EXCEPT !.state = "active", !.wake_tick = w])
             /\ t.state # "sleeping" => Asleep(t, ClearedTask)
             /\ t.state # "sleeping" => Asleep(t, [WithoutStack(t) EXCEPT !.state = "disabled"])
             /\ Asleep(t, WithoutStack(t))
             /\ Asleep(t, t)
             /\ SameSleep(t, Repaired(t))
             /\ \A s, u : u # "sleeping" =>
                  SameSleep(t, [(IF s THEN t ELSE WithoutStack(t)) EXCEPT !.state = u])
             /\ SameSleep(t, [[t EXCEPT !.state = "running"] EXCEPT !.ran = TRUE])
  <2>1. \A n : Asleep(t, [t EXCEPT !.last_run = n])
    BY <1>c, Zenon DEF SameSleep, Task
  <2>2. \A w : SameSleep(t, [t EXCEPT !.state = "active", !.wake_tick = w])
    BY <1>c, Zenon DEF SameSleep, Task
  <2>3. t.state # "sleeping" => Asleep(t, ClearedTask)
    BY Zenon DEF SameSleep, ClearedTask
  <2>4. t.state # "sleeping" => Asleep(t, [WithoutStack(t) EXCEPT !.state = "disabled"])
    BY <1>c, Zenon DEF SameSleep, WithoutStack, Task
  <2>5. Asleep(t, WithoutStack(t)) /\ Asleep(t, t)
    BY <1>c, Zenon DEF SameSleep, WithoutStack, Task
  <2>6. SameSleep(t, Repaired(t))
    BY <1>c, Zenon DEF SameSleep, WithoutStack, Repaired, Task
  <2>7. \A s, u : u # "sleeping" =>
          SameSleep(t, [(IF s THEN t ELSE WithoutStack(t)) EXCEPT !.state = u])
    BY <1>c, Zenon DEF SameSleep, WithoutStack, Task
  <2>8. SameSleep(t, [[t EXCEPT !.state = "running"] EXCEPT !.ran = TRUE])
    BY <1>c, Zenon DEF SameSleep, Task
  <2>. QED BY <2>1, <2>2, <2>3, <2>4, <2>5, <2>6, <2>7, <2>8, Zenon
<1>d. ASSUME NEW j \in Slots, NEW u, tasks' = [tasks EXCEPT ![j] = u], Asleep(tasks[j], u)
      PROVE  Asleep(tasks[i], tasks'[i])
  <2>1. tasks'[i] = IF i = j THEN u ELSE tasks[i]
    BY <1>a, <1>d, Zenon
  <2>2. Asleep(tasks[i], tasks[i])
    BY <1>a, <1>c, Zenon
  <2>. QED BY <1>d, <2>1, <2>2, Zenon
<1>e. ASSUME Asleep(tasks[i], tasks'[i])
      PROVE  SameSleep(tasks[i], tasks'[i]) /\
             ~(tasks[i].state = "sleeping" /\ tasks'[i].state # "sleeping")
  BY <1>e, Zenon
<1>1. CASE UNCHANGED tasks
  BY <1>1, <1>a, <1>b, <1>c, <1>e, Zenon
<1>2. ASSUME NEW j \in Slots, NEW mode, NEW n, NEW entry, create_task(j, mode, n, entry)
      PROVE  Asleep(tasks[i], tasks'[i])
  <2> DEFINE new == [ClearedTask EXCEPT !.used = TRUE, !.id = next_task_id,
                                        !.state = "active", !.mode = mode,
                                        !.interval = n, !.last_run = ticks, !.entry = entry]
  <2>1. \/ \E s \in Stacks : tasks' = [tasks EXCEPT ![j] = [new EXCEPT !.stack = s]]
        \/ tasks' = [tasks EXCEPT ![j] = ClearedTask]
    BY <1>2, Zenon DEF create_task
  <2>2. \A s : [new EXCEPT !.stack = s].state = "active"
    BY Zenon DEF ClearedTask
  <2>3. tasks[j].state # "sleeping"
    <3>1. available(j) /\ (tasks[j].state = "sleeping" => tasks[j].used)
      BY <1>2, Zenon DEF create_task, IsAvailableSlot, SleepInv, SleepSound
    <3>. QED BY <3>1, Zenon DEF available, Inactive
  <2> HIDE DEF new
  <2>4. \A s : Asleep(tasks[j], [new EXCEPT !.stack = s])
    BY <2>2, <2>3, Zenon DEF SameSleep
  <2>5. Asleep(tasks[j], ClearedTask)
    BY <1>a, <1>c, <2>3, Zenon
  <2>. QED BY <1>d, <2>1, <2>4, <2>5, Zenon
<1>3. ASSUME NEW j \in Slots, disable(j) PROVE Asleep(tasks[i], tasks'[i])
  <2> DEFINE u == [WithoutStack(tasks[j]) EXCEPT !.state = "disabled"]
  <2>1. tasks' = [tasks EXCEPT ![j] = u] /\ tasks[j].state # "sleeping"
    BY <1>3, Zenon DEF disable
  <2>2. Asleep(tasks[j], u)
    BY <1>a, <1>c, <2>1, Zenon
  <2> HIDE DEF u
  <2>. QED BY <1>d, <2>1, <2>2, Zenon
<1>4. CASE wake_task
  <2>1. PICK j \in Slots :
          tasks' = [tasks EXCEPT ![j] = [tasks[j] EXCEPT !.state = "active", !.wake_tick = 0]]
    BY <1>4, Zenon DEF wake_task
  <2>2. tasks'[i] \in {tasks[i], [tasks[i] EXCEPT !.state = "active", !.wake_tick = 0]}
    BY <1>a, <2>1, Zenon
  <2>3. SameSleep(tasks[i], tasks'[i])
    <3>1. /\ SameSleep(tasks[i], tasks[i])
          /\ SameSleep(tasks[i], [tasks[i] EXCEPT !.state = "active", !.wake_tick = 0])
      BY <1>a, <1>c, Zenon
    <3>. QED BY <2>2, <3>1, Zenon
  <2>. QED BY <1>4, <1>b, <2>3, Zenon
<1>5. ASSUME NEW j \in Slots, NEW n, tasks' = [tasks EXCEPT ![j].last_run = n]
      PROVE  Asleep(tasks[i], tasks'[i])
  <2> DEFINE u == [tasks[j] EXCEPT !.last_run = n]
  <2>1. tasks' = [tasks EXCEPT ![j] = u]
    BY <1>5, Zenon
  <2>2. Asleep(tasks[j], u)
    BY <1>a, <1>c, Zenon
  <2> HIDE DEF u
  <2>. QED BY <1>d, <2>1, <2>2, Zenon
<1>6. CASE yield_task \/ yield_current_task \/ run_task_now \/ run_task_with_context_switch
  <2>1. PICK j \in Slots : tasks' = [tasks EXCEPT ![j].last_run = ticks]
    BY <1>6, Zenon DEF yield_task, yield_current_task, yield, run_task_now,
                run_task_with_context_switch, TypeOK
  <2>. QED BY <1>5, <1>b, <1>e, <2>1, Zenon
<1>7. CASE clear_inactive_tasks
  <2>1. tasks'[i] = IF Inactive(tasks[i]) THEN ClearedTask ELSE tasks[i]
    BY <1>7, Zenon DEF clear_inactive_tasks
  <2>2. Asleep(tasks[i], tasks'[i])
    BY <1>a, <1>c, <2>1, Zenon DEF Inactive
  <2>. QED BY <1>b, <1>e, <2>2, Zenon
<1>8. CASE repair
  <2>1. tasks'[i] = Repaired(tasks[i])
    BY <1>8, Zenon DEF repair
  <2>. QED BY <1>8, <1>a, <1>b, <1>c, <2>1, Zenon
<1>9. CASE run_pending
  <2>1. \/ tasks' = tasks
        \/ \E j \in Slots : tasks' = [tasks EXCEPT ![j].last_run = ticks]
    BY <1>9, NotYetWoken, Zenon DEF run_pending, SelectNone, Select
  <2>. QED BY <1>1, <1>5, <1>b, <1>e, <2>1, Zenon
<1>10. CASE trampoline_enter
  <2> DEFINE j == Top.slot
             u == [[tasks[j] EXCEPT !.state = "running"] EXCEPT !.ran = TRUE]
  <2>1. frames # <<>> /\ Top.phase = "enter"
    BY <1>10, Zenon DEF trampoline_enter
  <2>2. j \in Slots
    BY <2>1, FrameUpdates, Zenon DEF TypeOK, Frame
  <2>3. tasks' = tasks \/ tasks' = [tasks EXCEPT ![j] = u]
    BY <1>10, <1>a, <2>2, Zenon DEF trampoline_enter
  <2>4. SameSleep(tasks[j], u)
    BY <1>a, <1>c, <2>2, Zenon
  <2> HIDE DEF u
  <2>5. CASE tasks' = [tasks EXCEPT ![j] = u]
    <3>1. tasks'[i] = IF i = j THEN u ELSE tasks[i]
      BY <1>a, <2>5, Zenon
    <3>2. SameSleep(tasks[i], tasks[i])
      BY Zenon DEF SameSleep
    <3>. QED BY <1>b, <2>1, <2>4, <3>1, <3>2, Zenon
  <2>. QED BY <1>1, <2>3, <2>5, Zenon
<1>11. CASE trampoline_exit
  <2> DEFINE j == Top.slot
             u == [(IF KeepsStack(tasks[j]) THEN tasks[j] ELSE WithoutStack(tasks[j]))
                     EXCEPT !.state = StateAfterRun(tasks[j])]
  <2>1. frames # <<>> /\ Top.phase = "body" /\ tasks' = [tasks EXCEPT ![j] = u]
    BY <1>11, Zenon DEF trampoline_exit
  <2>2. j \in Slots
    BY <2>1, FrameUpdates, Zenon DEF TypeOK, Frame
  <2>3. StateAfterRun(tasks[j]) # "sleeping"
    BY Zenon DEF StateAfterRun
  <2>4. SameSleep(tasks[j], u)
    BY <1>a, <1>c, <2>2, <2>3, Zenon
  <2> HIDE DEF u
  <2>5. tasks'[i] = IF i = j THEN u ELSE tasks[i]
    BY <1>a, <2>1, Zenon
  <2>6. SameSleep(tasks[i], tasks[i])
    BY Zenon DEF SameSleep
  <2>. QED BY <1>b, <2>1, <2>4, <2>5, <2>6, Zenon
<1>12. CASE switched_return
  <2> DEFINE j == Top.slot
             u == WithoutStack(tasks[j])
  <2>1. frames # <<>> /\ (tasks' = tasks \/ tasks' = [tasks EXCEPT ![j] = u])
    BY <1>12, Zenon DEF switched_return
  <2>2. j \in Slots
    BY <2>1, FrameUpdates, Zenon DEF TypeOK, Frame
  <2>3. Asleep(tasks[j], u)
    BY <1>a, <1>c, <2>2, Zenon
  <2> HIDE DEF u
  <2>. QED BY <1>1, <1>b, <1>d, <1>e, <2>1, <2>2, <2>3, Zenon
<1>13. CASE create_kernel_task \/ create_test_workload
  BY <1>13, <1>2, <1>b, <1>e, Zenon DEF create_kernel_task, create_test_workload
<1>14. CASE disable_task \/ disable_test_workload
  BY <1>14, <1>1, <1>3, <1>b, <1>e, Zenon DEF disable_task, disable_test_workload
<1>15. CASE \/ UNCHANGED vars \/ rejected_call \/ set_preempt_test \/ run_switch_test
            \/ reset_switch_test \/ direct_return \/ timer_return
  BY <1>15, <1>1, Zenon DEF vars, table, rejected_call, set_preempt_test, run_switch_test,
                     reset_switch_test, direct_return, timer_return
<1>. QED BY <1>4, <1>6, <1>7, <1>8, <1>9, <1>10, <1>11, <1>12, <1>13, <1>14, <1>15, Zenon
         DEF Next, proceed

(* A timer tick, whether or not it dispatches a task.                      *)
LEMMA TickStep ==
    ASSUME TypeOK, SleepInv, timer_tick, NEW i \in Slots
    PROVE  /\ SleepSound(tasks'[i], ticks')
           /\ tasks[i].state = "sleeping" /\ tasks'[i].state # "sleeping" => tasks'[i].due = 0
<1> DEFINE now == Plus(ticks, 1)
           t == AfterWake(Elapsed(tasks), now)
<1>1. t \in [Slots -> Task]
  <2>1. Elapsed(tasks) \in [Slots -> Task] /\ now \in 0 .. TickModulus - 1
    BY TableUpdates, TickSuccessor, Zenon DEF TypeOK
  <2>. QED BY <2>1, TableUpdates, Zenon
<1>2. /\ SleepSound(t[i], now)
      /\ tasks[i].state = "sleeping" /\ t[i].state # "sleeping" => t[i].due = 0
  BY OneTickLess, Zenon
<1>3. ticks' = now
  BY Zenon DEF timer_tick
<1>4. tasks' = t \/ \E j \in Slots : tasks' = [t EXCEPT ![j].last_run = now]
  BY Zenon DEF timer_tick, SelectNone, Select
<1> HIDE DEF t, now
<1>5. tasks'[i] = t[i] \/ tasks'[i] = [t[i] EXCEPT !.last_run = now]
  BY <1>1, <1>4, Zenon
<1>6. t[i] \in Task
  BY <1>1, Zenon
<1>7. /\ tasks'[i].state = t[i].state /\ tasks'[i].used = t[i].used
      /\ tasks'[i].due = t[i].due /\ tasks'[i].wake_tick = t[i].wake_tick
  BY <1>5, <1>6, Zenon DEF Task
<1>. QED BY <1>2, <1>3, <1>7, Zenon DEF SleepSound

(* Every step keeps the sleepers' wake ticks right.                        *)
LEMMA SleepStep ==
    ASSUME ShortSleeps, TypeOK, SleepInv, [Next]_vars
    PROVE  SleepInv'
<1> SUFFICES ASSUME NEW i \in Slots PROVE SleepSound(tasks'[i], ticks')
  BY Zenon DEF SleepInv
<1>1. CASE timer_tick
  BY <1>1, TickStep, Zenon
<1>2. CASE sleep_task
  <2>1. PICK j \in Slots, n \in SleepTicks :
          /\ tasks[j].used
          /\ tasks' = [tasks EXCEPT ![j] = [tasks[j] EXCEPT !.state = "sleeping",
                                                  !.wake_tick = Plus(ticks, n), !.due = n]]
    BY <1>2, Zenon DEF sleep_task
  <2>2. ticks' = ticks /\ tasks \in [Slots -> Task]
    BY <1>2, Zenon DEF sleep_task, TypeOK
  <2> DEFINE u == [tasks[j] EXCEPT !.state = "sleeping", !.wake_tick = Plus(ticks, n), !.due = n]
  <2>3. u.used = tasks[j].used /\ u.due = n /\ u.wake_tick = Plus(ticks, n)
    BY <2>2, Zenon DEF Task
  <2>4. n \in 1 .. TickModulus - HalfRange
    <3>1. n \in 1 .. TickModulus - 1 /\ TickModulus \in Nat /\ HalfRange \in Int
      BY SchedulerAssumption DEF HalfRange
    <3>2. n <= TickModulus - HalfRange
      BY Zenon DEF ShortSleeps
    <3>. QED BY <3>1, <3>2
  <2>5. SleepSound(u, ticks)
    BY <2>1, <2>3, <2>4, Zenon DEF SleepSound
  <2>6. tasks' = [tasks EXCEPT ![j] = u]
    BY <2>1, Zenon
  <2> HIDE DEF u
  <2>7. tasks'[i] = IF i = j THEN u ELSE tasks[i]
    BY <2>2, <2>6, Zenon
  <2>. QED BY <2>2, <2>5, <2>7, Zenon DEF SleepInv
<1>3. CASE ~timer_tick /\ ~sleep_task
  <2>1. ticks' = ticks /\ SameSleep(tasks[i], tasks'[i])
    BY <1>3, QuietStep, Zenon
  <2>2. SleepSound(tasks[i], ticks)
    BY Zenon DEF SleepInv
  <2>. QED BY <2>1, <2>2, Zenon DEF SleepSound, SameSleep
<1>. QED BY <1>1, <1>2, <1>3, Zenon

(* The inductive invariant, from boot on.                                  *)
LEMMA SleepAlways ==
    ASSUME ShortSleeps
    PROVE  Spec => []SleepInv
<1>1. Init => SleepInv
  BY DEF Init, SleepInv, SleepSound, ClearedTask
<1>2. TypeOK /\ SleepInv /\ [Next]_vars => SleepInv'
  BY SleepStep, Zenon
<1>. QED BY <1>1, <1>2, TypeCorrect, PTL DEF Spec

(* Whatever the callers do, a sleeper's wake tick is as far ahead as the   *)
(* rest of its sleep, also when the 32-bit tick counter wraps meanwhile.   *)
THEOREM SleepsExact ==
    ASSUME ShortSleeps
    PROVE  Spec => []SleepExact
<1>1. TypeOK /\ SleepInv => SleepExact
  <2> SUFFICES ASSUME TypeOK, SleepInv, NEW i \in Slots, tasks[i].state = "sleeping"
               PROVE  tasks[i].due > 0 /\ tasks[i].wake_tick = Plus(ticks, tasks[i].due)
    BY Zenon DEF SleepExact
  <2>1. tasks[i].due \in 1 .. TickModulus - HalfRange /\ tasks[i].wake_tick = Plus(ticks, tasks[i].due)
    BY Zenon DEF SleepInv, SleepSound
  <2>. QED BY <2>1
<1>. QED BY <1>1, SleepAlways, TypeCorrect, PTL

(* No task is woken early except by scheduler_wake_task.  Here repair is   *)
(* left out: it also wakes a sleeper whose wake tick happens to be 0.      *)
THEOREM NoneWokenEarly ==
    ASSUME PlainTasks, ShortSleeps, "repair" \notin MainCalls
    PROVE  Spec => NoEarlyWake
<1>1. ASSUME TypeOK, PlainInv, SleepInv, [Next]_vars, ~wake_task, NEW i \in Slots,
             tasks[i].state = "sleeping", tasks'[i].state # "sleeping"
      PROVE  tasks'[i].due = 0
  <2>1. CASE timer_tick
    BY <1>1, <2>1, TickStep, Zenon
  <2>2. CASE sleep_task
    <3>1. PICK j \in Slots, n \in SleepTicks :
            tasks' = [tasks EXCEPT ![j] = [tasks[j] EXCEPT !.state = "sleeping",
                                                    !.wake_tick = Plus(ticks, n), !.due = n]]
      BY <2>2, Zenon DEF sleep_task
    <3>2. tasks'[i].state = "sleeping"
      BY <1>1, <3>1 DEF TypeOK, Task
    <3>. QED BY <1>1, <3>2, Zenon
  <2>3. CASE ~timer_tick /\ ~sleep_task
    <3>1. ~repair
      BY <1>1, WhoCalls, Zenon DEF repair, PlainTasks
    <3>2. frames # <<>> /\ Top.slot = i /\ Top.phase \in {"enter", "body"}
      BY <1>1, <2>3, <3>1, QuietStep, Zenon
    <3>3. InRun(tasks[i], Top)
      BY <1>1, <3>2, OneFrame, Zenon
    <3>. QED BY <1>1, <3>2, <3>3, Zenon DEF InRun
  <2>. QED BY <2>1, <2>2, <2>3, Zenon
<1>2. TypeOK /\ PlainInv /\ SleepInv /\ [Next]_vars =>
        [~wake_task => \A i \in Slots :
           tasks[i].state = "sleeping" /\ tasks'[i].state # "sleeping"
           => tasks'[i].due = 0]_vars
  BY <1>1, Zenon
<1>. QED BY <1>2, PlainAlways, SleepAlways, TypeCorrect, PTL DEF Spec, NoEarlyWake
=============================================================================
