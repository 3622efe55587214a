# Liam_OS in TLA+

Liam_OS is two small operating-system kernels in one tree: an **i386** kernel
(`src/core/kernel/core`, `arch/i386`, `drivers`, `fs`, `loader`, `memory`) and
an **x86_64** kernel (`src/core/kernel/arch/x86_64`), each with its own
programs (`src/core/userland`). Both run on a single CPU. Nothing is persisted
and there is no network: the hard behaviour comes from interrupts that arrive
in the middle of an operation, from control that is nested (a task started
from a task, a program started from a program), from fixed-size tables, queues
and stacks that run full, and from 32-bit counters that wrap.

This directory holds the specifications, their TLC configurations and the
proofs. `PROJECT.json` links every definition to the lines it models and lists
hazards, runs and theorems.

## Modules

| module | models | files |
|---|---|---|
| `Scheduler` | kernel tasks on i386, timer interrupt, context switch | `core/scheduler.c`, `drivers/timer.c`, `arch/i386/idt.c`, `arch/i386/context_switch.asm` |
| `SchedulerProofs` | its type correctness, proved | |
| `SchedulerSafety` | stack ownership, the meaning of RUNNING, round robin, statistics, repair, timer dispatch and lock, proved for any callers | |
| `SchedulerPlain` | what holds of tasks that leave the running tasks alone, and of sleepers, proved | |
| `ProcessTable` | x86_64 process table, page ownership, exit statuses | `arch/x86_64/process.c`, `pmm.c` |
| `ProcessTableProofs` | its four invariants, proved | |
| `UserMode` | x86_64 ring 3: process system calls, CR3 switches, kernel loop, shell. Extends `ProcessTable` and implements its specification | `arch/x86_64/user_mode.c`, `user_mode.asm`, `idt_stubs.asm`, `syscall_dispatch.h`, `userland/x86_64/init/init.asm` |
| `UserModeProofs` | that `UserMode` implements `TableSpec`, and five invariants, proved | |
| `InitramfsVfs` | i386 file tree and path lookup, as operators | `fs/vfs.c`, `fs/initramfs.c` |
| `UserImages` | i386 image registry and loaders, as operators. Extends `InitramfsVfs` | `core/user_image.c`, `loader/elf32.c`, `loader/flat_binary.c` |
| `Ring3` | i386 processes, descriptors, system calls, ring 3, boot and the shell in the keyboard interrupt. Extends `UserImages` | `core/process.c`, `fd_table.c`, `syscall.c`, `exec.c`, `shell.c`, `kernel.c`, `arch/i386/ring3.c`, `ring3_entry.asm`, `drivers/keyboard.c` |
| `Ring3Proofs` | who owns ring 3, and that counters, pids and the last exit agree with the table, proved | |
| `PhysicalMemory` | i386 memory map and page allocator, as operators on its state | `memory/pmm.c` |
| `VirtualMemory` | i386 page tables, as operators. Extends `PhysicalMemory` | `memory/vmm.c`, `arch/i386/paging.c` |
| `KernelAllocator` | what kmalloc and kfree promise: an abstract allocator | |
| `KernelHeap` | i386 heap and the set-up of ring 3's pages. Extends `VirtualMemory`, implements `KernelAllocator` | `memory/heap.c`, `arch/i386/ring3.c` |
| `InputService` | what keyboard input promises to programs, abstractly | |
| `X64Input` | x86_64 keyboard and timer interrupts, character ring, event queue, as operators | `arch/x86_64/idt.c` |
| `X64Vfs` | x86_64 paths, descriptors and the session file, as operators | `arch/x86_64/vfs.c` |
| `X64Loader` | x86_64 checks of user addresses and the ELF loader, as operators | `arch/x86_64/syscall_dispatch.h` |
| `X64Services` | x86_64 system calls on files, input, time, images and the desktop services against both interrupts. Extends the three before, implements `InputService` | `arch/x86_64/syscall_dispatch.h`, `desktop_services.c`, `user_mode.c` |
| `X64FunctionProofs` | what the operators of `X64Input`, `X64Vfs` and `X64Loader` compute, as lemmas for every size of ring, file and image | |
| `X64ServicesProofs` | that `X64Services` implements `InputService`, and its session file, probe and image properties, proved from those lemmas | |
| `MCScheduler`, `MCProcessTable`, `MCUserMode`, `MCRing3`, `MCMemory`, `MCServices` | what TLC runs | |

Operators named `Wrong...`, and those named after their neighbour with what is
wrong behind it (`SysExit_keeps_esp0` before `SysExit`), are plausible bugs in the
definition that follows them. No specification uses them; substituting one for its neighbour makes TLC
report the property `PROJECT.json` pairs it with.

## Inventory

### i386 task scheduler (`Scheduler`)

*State*: `tasks` is the table of `scheduler_task_t` (state, mode, interval, last
run, wake tick, kernel stack, entry); `heap` is the set of kernel stacks taken
from the heap; `counts`, `next_task_id` and `current_task_index` are fields of
`scheduler_stats`; `ready_queue` is the snapshot of ready tasks; `current_running`,
`current_switched`, `on_task_stack` and `main_context` are the globals of the
context switch; `lock` is the nesting interrupt lock and `irq` the CPU's
interrupt flag; `preempt` is the timer-dispatch switch; `frames` is the stack of
entry functions in progress, each with how it was started (`now`, `pending`,
`timer`, `switched`) and where it is (`enter`, `body`, `return`).

*Operations*: create, disable, sleep, wake, yield, clear inactive, repair, run
now, run pending, run with a context switch, timer tick, the preempt test, the
switch test and the test workload are one action each, named as in the code.
Each includes the code's trailing work (recount, release of stacks, unlock).
Rejected calls are `rejected_call`.

*Interaction*: the callers are the shell's commands, which run in the keyboard
interrupt handler, one at a time and with interrupts off; interrupts are on
between two commands. A task on its own stack has interrupts on, because its
initial context holds EFLAGS 0x202, though the lock is held. So the timer
interrupt arrives between commands and anywhere inside a switched task. The
interrupt controller gets its end-of-interrupt only after the handler
(`TimerInService`), which is what keeps timer interrupts from nesting.

*Hard behaviours*: the timer dispatching the task that is about to run; entry
functions that change the table under the trampoline; nested switched runs that
overwrite the single `scheduler_main_context` (the CPU then resumes a call that
has returned: phase `lost`, about which nothing is claimed); reuse of slots;
the wrap of the tick counter.

### x86_64 process table (`ProcessTable`)

*State*: `process_table` (state, mode, pid, image and the pages of an entry in
the order of their allocation, the first being its CR3), `page_stack` (the
LIFO stack of free pages in `pmm.c`), `next_pid`, `last_user_cr3`, the two
scheduling cursors, the queue of exit statuses and its counters.

*Operations*: `create`, `create_user_image`, `mark_user_exited`, `reap_user`,
`record_child_exit`, `wait_child`, `run_next_ready`, `prepare_next_user`.
`reap_exited_user_processes` and `run_all_ready` are repetitions of these.

*Hard behaviours*: pages that run out halfway through a creation, the full
table, the status queue that drops its oldest entry.

Statistics other than those of the status queue are left out, and so are the
contents of page tables: they are copied from the kernel's, which are valid
once user mode is entered, so validating them succeeds.

### x86_64 user mode (`UserMode`)

*State*: `phase` (where the loop of `x86_64_user_mode_start_init` is),
`current_pid`, the CR3 register `cpu_cr3` and the one value `kernel_cr3` that
EXEC saves, `exit_code`, and whether the shell is at its prompt.

*Operations*: the calls EXEC, SPAWN, WAIT and EXIT; the three calls the loop
makes for a program that came back (mark, record, reap) as separate steps; the
shell's reading of input, with its check for the window service. Whose code
runs is told by `cpu_cr3`, not by `current_pid`, as on the real CPU.

*Hard behaviours*: EXEC from a program that was itself started by EXEC
overwrites `kernel_cr3`. The kernel then restarts on the page tables of the
first program, whose code runs under pid 1, and its EXIT halts the machine. No
program in the tree other than the shell calls EXEC; `user_any_program` allows
it and shows that even so the CPU never runs on freed page tables, while
`user_shell` states what holds for the delivered programs.

### i386 programs (`Ring3`, with `UserImages` and `InitramfsVfs`)

*State*: `process_table` (pid, state, image path, arguments, open files, exit
code of each entry), `next_pid`, the counters and last exit of `process_info`,
`current_process`; `ring3_info`, the one code page, the stack pointer `esp0` of the
TSS and the one `saved_kernel_esp`; the length of the shell's input line; and for
each of the two callers of exec, how far its call has come (`frame`). The tree
and the registry of images are constant: a path is the sequence of its slashes
and names, a file's content is its size and, for ELF, the fields of its headers.

*Operations*: `exec_spawn_with_args` in the steps between which its state can be
seen (look up and find a slot, create, load, enter ring 3, return); the system
calls OPEN, READ, CLOSE, EXEC and EXIT; a CPU exception, which halts the machine;
each key; `kernel_main` from `sti` to its halt loop. Calls that only report, and
refused ones, are stuttering steps. The counters of `exec_info`, which nothing
reads, are left out.

*Interaction*: `kernel_main` runs `/sbin/init` with interrupts on, so that the
keyboard interrupt, and in it a whole shell command, comes between any two of
its steps. A command never interrupts a command, because the interrupt is
acknowledged only when it is done; a system call runs with interrupts off.

*Hard behaviours*: a command that starts a program while `/sbin/init` is being
started or is running shares the code page, `current_process`, the saved stack
pointer and the system call stack with it. `overlapped` records this. The first
consequence is a finding; what follows from overwriting a live stack frame is
machine `wild`, about which nothing is claimed, and the properties other than
`RunsOwnImage`, `Ring3TypeOK` and `ControlReturns` speak of runs without it.
Also: the table that fills and is never emptied; an image too large, after which
`ring3_initialize` refuses everything; too few pages at boot; words longer than
an argument, which are split into several.

### i386 memory (`KernelHeap`, with `VirtualMemory` and `PhysicalMemory`)

*State*: the page allocator (bump region, stack of freed pages, counters), the
page tables (which directory entries have a table, what each page maps to with
which flags), the heap as a linked list of block headers at their addresses, its
bounds and statistics, and ring 3's two pages.

*Operations*: `pmm_initialize` over a memory map, `ring3_initialize` and
`heap_initialize` in the order of `kernel_main`, then `kmalloc` of any size and
`kfree` of any address, live, stale, inside a block or foreign. One `kmalloc` is one
step with all it does: search, split, growth page by page with page tables made
on the way, rollback, retry. No interrupt handler other than the keyboard's
commands allocates, and commands do not interrupt commands.

*Hard behaviours*: pages that run out at each point of a growth or of ring 3's
set-up, the end of the heap's range, merging over a chain of free blocks, a
remainder too small to split off.

### x86_64 services (`X64Services`, with `X64Input`, `X64Vfs`, `X64Loader`)

*State*: the tick count, the shift state, the character ring and the event queue
with heads and counts as in the code; the descriptors, the session file's bytes
and size; the dispatcher's event cursor; the staging pages of the ELF loader; what the
desktop services remember; whether the CPU is in boot, in ring 3, in a blocked
READ or halted.

*Operations*: one action per system call with its checks of addresses in the
order of the code, and the timer and keyboard interrupts. A system call is one
step: the CPU masks interrupts when it enters one (FMASK), and nothing in the
dispatcher sets them again. A READ of an empty input stays in the kernel, with
interrupts off. Creating a process is left to `UserMode`: here it succeeds or not.

*Hard behaviours*: both rings wrap and overflow, one losing the new and one the
old; a cursor that points to dropped events; truncation under another open
descriptor; the desktop services' check, which overwrites the only session file
and restores it; staging pages that keep the previous image's bytes; a sleep that
waits for an interrupt that is masked.

## Not modelled

| part | why |
|---|---|
| x86_64 paging set-up, memory map and boot (`paging_builder.c`, `paging_plan.c`, `pmm_plan.c`, `boot_info.c`, `kernel.c`, ...) | executed once, in order, before anything else runs; most of it builds reports. What processes add is in `ProcessTable` |
| `arch/x86_64/heap.c` | only its boot self-test uses it |
| PS, GETPID on x86_64; STAT, WRITE, GET_TICKS, GET_ARG on i386; `vfs_list_directory` and other commands that print | they change no state |
| `core/user_program.c` | nothing calls it |
| GDT, TSS, IDT and PIC programming, CPU features, console, VGA, framebuffer, logging, strings | hardware registers written once, and output |
| the flat programs and the text of the x86_64 shell | sequences of system calls; the models let a program make any |

Composition stops at two places. `X64Services` and `UserMode` are separate: the
first has what a call does to files, input and images, the second what EXEC,
SPAWN, WAIT and EXIT do to processes; they share only the dispatcher that
`initialize_live_dispatcher` resets. `Ring3` and `Scheduler` are separate: the
timer dispatches no task unless the preempt test is on, and tasks never enter
ring 3.

## Runs

| run | shows | bounds |
|---|---|---|
| `sched_any_client` | whatever callers and entry functions do: stacks are neither leaked nor shared, no task is left RUNNING, the lock balances, timer dispatches do not nest, repair satisfies the audit | 2 slots, 2 stacks, nesting depth 3, ids below 3, tick counter of 2 values |
| `sched_plain_tasks` | tasks run one at a time, across the wrap: statistics, live stacks, one-shot tasks, exact sleeps, round robin | 2 slots, 4 tick values starting before the wrap, sleeps of 1 and 2 |
| `sched_fair` | sleepers wake, ready one-shot tasks run | 2 slots, 3 tick values |
| `sched_oneshot_race` | expected violation, see Findings | depth 2 |
| `table_any_client` | operations of `process.c` in any order | 3 entries of 3 pages, 9 pages: the table fills; status queue of 2 with 3 records: it overflows |
| `user_any_program` | any calls from any program | 4 entries, 14 pages: the table fills, the pages do not run out |
| `user_shell` | the delivered programs, with liveness | 6 entries, 14 pages: the pages run out halfway through a creation |
| `ring3_boot_and_shell` | singletons of ring 3 consistent, `ps` and `wait-last` true, control returns to boot and prompt | 2 processes: the table fills; 1 descriptor; a flat image, an ELF image, a malformed one, one too large, one not registered |
| `ring3_typeahead` | expected violation, see Findings | the same |
| `memory_any_client` | heap refines the abstract allocator, every page in one place, blocks tile the heap, failed calls undone | 16-byte pages, headers of 4 bytes, 4 heap pages of which 3 per growth, memory maps that leave 1 to 7 pages |
| `services_any_program` | input refines the abstract service, reads see only written bytes, the storage check leaves no trace, images load clean, paths mean what they say | rings of 2, 4 events, 5 ticks, session file of 3 bytes, 2 descriptors, images of up to 3 pages of 2 bytes, paths of up to 5 parts |
| `services_sleep` | expected violation, see Findings | the same |

Why the bounds are enough to be interesting: two slots let one task run under
another, be reused under it and compete with it; depth 3 allows a switched run
inside a timer dispatch inside a switched run. The tick counter is small
because the comparisons only depend on its modulus; sleeps stay below half of
it, where the code's signed comparison is meant to work. An address space has
two pages instead of eleven: the first (CR3) and one for all others. `MaxPid`,
`MaxTaskId` and `MaxRecords` bound the counters; every run reaches them.
`PsRows` is two, the least for which the shell sees its own row and another.

In `Ring3` two entries are one for boot's program and one that a command or a
program's EXEC can take, after which every creation meets a full table; pids
need no bound, as entries are never freed. In `KernelHeap` the sizes asked for
include 0, one below and above the alignment, ones that leave a remainder too
small to split, one that needs all pages of a growth and one beyond it; a page
table covers two pages, so that a growth also needs a table. The counters of a
real machine are far from their bounds there, and no property is about them.
`X64Services` takes the calls in groups: each initial state (`Machines`) fixes the
calls, interrupts and paths used together (`scope`): input, files with the desktop
services, time with the desktop services, images, and path lookup. The groups
share no state but that of the desktop services, which is in both of its groups. Rings of two wrap and overflow with four events. Paths are all sequences
of up to four parts over empty, ".", ".." and three names, and of five over ".."
and the names; the limit on the bytes of a path is left out.

Deadlock is checked except where the system may stop: in the user-mode runs the
kernel halts when the shell exits, in `sched_any_client` execution ends in a
`lost` frame, in `Ring3` a fault or a reboot ends it, and in `X64Services` the exit
of the shell halts the machine.

### Fairness

`Scheduler!FairSpec`: entry functions return and the code after them goes on
(weak fairness of `proceed`), and a timer interrupt, which the interrupt
controller latches while interrupts are off, is delivered if interrupts are on
again and again (strong fairness of `timer_tick`). `UserMode!FairSpec`: the
kernel loop goes on, and the programs delivered run to their EXIT, except the
window service, which loops for ever. `Ring3!FairSpec`: a command in progress
goes on and its program comes to its EXIT (weak fairness of `ShellStep`), and so
does boot, which stands still while a command runs but cannot be held up for
ever by keys typed at a finite rate (strong fairness of `BootStep`). Nothing is
assumed about users or callers.

### Findings

`sched_oneshot_race`: `scheduler_run_task_with_context_switch` enters the task
with interrupts on before the trampoline marks it RUNNING. A timer dispatch in
that window finds the one-shot task still ACTIVE and runs it to completion; the
interrupted trampoline then calls its entry a second time. The shell's help
lists such tasks as "Create one-shot no-op task".

`ring3_typeahead`: boot loads `/sbin/init` into the code page and then enters ring
3, with interrupts on. If Enter is pressed on an exec line in between, the
command loads and runs its own program in the same page; boot then enters that
program's code as the process `/sbin/init`. The kernel prints "Starting initial
userspace process" and "Initial userspace process exited cleanly" all the same.

`services_sleep`: SLEEP_TICKS waits for ticks inside a system call, where
interrupts are masked, so none arrives: the call spins until its budget is used
up and fails. It also leaves `timer_ok` at 0, after which the desktop services
report the window service as not ready and WINDOW_PRESENT fails. The program
`timed` prints "sleep-ticks ok" behind such a call, and the test script requires
that line.

Behaviours of the code that limit what is claimed, met while modelling:

- an entry function that disables its own task is overruled by the trampoline,
  which makes it ACTIVE again without a stack; one that frees its slot for reuse
  has the new task marked COMPLETED. `sched_plain_tasks` excludes both;
- `scheduler_repair` takes wake tick 0 for missing and wakes a sleeper whose
  sleep ends exactly at the wrap; `NoEarlyWake` is checked without repair;
- a sleep of 2^31 ticks or more ends at once; `SleepTicks` stays below;
- stopping the test workload while it sleeps forgets it and leaves it live;
- processes made by SPAWN are never run;
- on i386 no process entry is ever freed: after sixteen creations exec fails until
  the machine is restarted. A program's EXEC creates an entry that nothing runs;
- one image larger than a page makes `ring3_initialize` fail from then on;
- a memory region that ends at the end of the kernel or inside it is not cut off
  below the kernel (`pmm.c:80`), so the kernel's own pages would be handed out; no
  loader places a kernel so, and the memory maps of the run leave room above it;
- after a failed growth of the heap the audit of the page tables reports the
  page that was unmapped again; nothing calls that audit;
- on x86_64 ".." behind two or more names leaves a slash at the end of the
  normalised path, which then names no node. `PathsSound` states that such a path
  finds nothing or the right node;
- a READ that finds no input waits with interrupts off: only serial input ends it.

## Proofs

The theorems about `Scheduler!Spec` assume `SchedulerAssumption` only: any
number of slots and stacks, any tick modulus of at least 2, any set of calls by
kernel thread and tasks, any nesting depth.

| theorem | states | argument |
|---|---|---|
| `TypeCorrect` | `[]TypeOK` | inductive; one step per action, lemmas for the updates of table, frames and ready queue |
| `StacksOwned` | `[]StackOwnership` | inductive with `TypeOK`; every action releases the stacks of a set of slots (`ReleaseKeepsOwnership`) or takes one (`CreateKeepsOwnership`) |
| `RunningTasksExecute` | `[]RunningIsExecuting` | inductive with `TypeOK`; only `trampoline_enter` starts RUNNING, only `trampoline_exit` leaves a body |
| `RoundRobin` | `[]NoOvertaking` | inductive; every step keeps the scan, clears the history or dispatches the first ready slot (`DispatchCases`), then cyclic distance |
| `CountsCorrect` | `[]CountsAgree` | inductive; waking, whose counts are computed inside the timer interrupt, needs `WakeCounts` |
| `RepairIsComplete` | `RepairLeavesNoIssue` | an action property from `TypeOK` |
| `TimerDispatchesDoNotNest` | `[]TimerDispatchSound` | from the guard on the interrupt in service |
| `LockNests` | `[]LockDiscipline` | needs the strengthening `LockInv`: a timer frame lies at the bottom or on a switched run, and the outermost lock saved a set interrupt flag unless a timer interrupt took it |

Six more are about callers restricted in what they do, which the theorem states as
a hypothesis because without it the property is false of the code. `PlainTasks`: the
timer-dispatch test is off, and entry functions neither run other tasks nor
disable, clear or repair any; all else, sleeping and yielding included, is
allowed, and the kernel thread may make every call but those of that test. The one
entry function in the tree, the test workload, increments a counter.
`ShortSleeps`: no sleep is longer than the signed difference of two tick values
can express, 2^31 ticks in the code; the code does not check it. Both
`PlainInv` and `SleepInv` were checked with TLC on `sched_plain_tasks` first.

| theorem | assumes | states | argument |
|---|---|---|---|
| `CleanStacks` | `PlainTasks` | `[]StacksClean` | from `PlainInv`: at most one task is being run, every other entry is settled (a stack exactly when live, COMPLETED only after a run), and the one that runs looks as its phase says: still ACTIVE before the trampoline, RUNNING in its body, finished but with its stack before the switch back (`PlainStep`, one step per action) |
| `RunsOnOwnStack` | `PlainTasks` | `[]OnLiveStack` | from `PlainInv` |
| `CompletedRan` | `PlainTasks` | `[]CompletedHasRun` | from `PlainInv` |
| `OneShotOnce` | `PlainTasks` | `OneShotRunsOnce` | only `trampoline_enter` makes a task RUNNING (`OnlyTrampolineRuns`), and a one-shot task that ran is not ACTIVE again |
| `SleepsExact` | `ShortSleeps` | `[]SleepExact` | from `SleepInv`: the rest of each sleep lies between 1 and what the wake test can tell; a tick that does not wake a sleeper leaves it one less (`NotYetWoken`, `OneTickLess`), on both sides of the wrap |
| `NoneWokenEarly` | both, and no `scheduler_repair` | `NoEarlyWake` | from both invariants; repair wakes a sleeper whose wake tick is 0 |

The theorems about `ProcessTable!TableSpec` assume `ProcessAssumption`: any
number of entries, pages, pages per process and queued statuses. Those about
`UserMode!Spec` add `UserModeAssumption`: any calls by programs. The bounds on
pids and records stay in the guards, so wrapping of `next_pid` is not covered.

| theorem | states | argument |
|---|---|---|
| `TableTypeCorrect` | `[]TableTypeOK` | inductive; one step per operation |
| `PagesOwned` | `[]PageOwnership` | inductive with `TableTypeOK`; a step fills an entry, runs out of pages, reaps or leaves pages alone (`KindsOfSteps`); popping splits the stack (`PopSplits`), releasing joins it again (`ReleaseJoins`, `GivingAllBack`) |
| `PidsUnique` | `[]PidsDistinct` | the same four kinds of steps |
| `StatusesSound` | `[]StatusQueueSound` | needs the strengthening `WaitsRecorded`: no parent was handed a record that is yet to come |
| `UserModeImplementsTable` | `Spec => TableSpec` | every step is an operation of the table or leaves it alone; needs `CallInv`: the pid and exit code passed are valid |
| `ProgramPagesOwned` | `[]PageOwnership` for `UserMode` | from the two above |
| `ShellPidSafe` | `[]ShellPidReserved` | needs `PidInv`: either pid 1 was taken at boot, or nothing was and nothing ever can be created |
| `PageTablesSafe` | `[]ActivePageTables` | needs `RootInv`: the root EXIT restores does not belong to the process that exits, as that one is reaped next |
| `StatusesFaithful` | `[]StatusFaithful` | needs `ExitInv`: the program in ring 3 has not exited before, the one that came back has, with the code being recorded, and pids that exited are never handed out again |
| `ShellLeavesNothing` | `"exec" \notin ChildCalls` implies `[]NothingLeftBehind` | needs `TidyInv`: in each phase of the kernel loop, which entries are in the table besides those made by SPAWN. If programs call EXEC it is false, as the caller stays in the table |
| `ServiceStartsOnce` | `[]ServiceStartedOnce` | needs `ServiceInv`: the shell starts the service at its first input, when only entry 0 is taken, so that it gets entry 1, is never reaped and stays among the first two rows of PS; or there is no room for any process, now and later |

The theorems about `Ring3!Spec` assume `Ring3Assumption`: any number of slots and
descriptors, any image tree, any commands, arguments and exit codes. Like the
properties they prove, they are about behaviours in which no command overlaps the
run of `/sbin/init`; what happens otherwise is the run `ring3_typeahead`. The
inductive invariants of `Ring3` were checked with TLC on `ring3_boot_and_shell`
first.

| theorem | states | argument |
|---|---|---|
| `Ring3Disciplined` | `[]Ring3Discipline` | needs `Core`: a command is never executed while `kernel_main` is between choosing and filling a slot or between loading an image and its exit; the code page holds the image about to be entered; the stack saved for EXIT is the boot stack; only a program in ring 3 is RUNNING. A caller in kernel code is then alone (`Alone`) |
| `Ring3TableAgrees` | `[]TableAgrees` | needs `Core` and `Stages`: an entry is UNUSED until created, READY until entered, EXITED when resumed, and never in the hands of two callers. Every step keeps the entries, creates one (`BooksAfterCreate`) or moves one from a state to another (`BooksAfterMove`), which shifts one from a count to another (`CountMoves`) |

The theorems about `X64Services!Spec` assume what the modules name: `InputAssumption`
(both rings have room for something), `VfsAssumption` and `ProbeAssumption` (any file
size of at least the probe's 3 bytes, any number of descriptors, any table of nodes
in which the probe's path is the session file), `LoaderAssumption` and
`ImagesAssumption` (any page size, number of pages, address space and base; any
images, with program headers of any content) and `DataAssumption` (what programs
write is told apart from `Nul`, which marks bytes nobody wrote). The groups of calls
(`scope`) and the arguments are any. The inductive invariants `IInv`, `ReadyInv`,
`ImageInv` and `InputInv` were checked with TLC on `services_any_program` first. Loops
are recursive functions of the turn; what holds after every turn follows from the
least turn after which it would not hold, so no induction over data is needed.

| theorem | states | argument |
|---|---|---|
| `InputRefines` | `Spec => InputSpec` | every step maps to one of `InputService` or to a stutter. Both rings are mapped to the sequence of their entries from the head on; writing at the tail appends and moving the head drops, wherever the indices wrap. Needs `InputInv`: sequence numbers in the queue are consecutive and end at the latest, and the cursor is not beyond it |
| `SessionFileWritten` | `[]NoUnwrittenBytes` | needs the bytes before every open offset of the session file to be written too: a truncated file grows again from such an offset. One lemma per operation of `vfs.c` |
| `ProbeUnseen` | `ProbeInvisible` | the probe's own table has a free descriptor and the file has room, so each of its four calls succeeds and reads back what it wrote; needs `ReadyInv`, the shape of the session file |
| `ImagesSound` | `[]LoadedImageSound` | after every turn of the loader's loop the pages hold the segments so far and zeros, and the bytes counted cover them (`LoopLoads`); segments that wrap around the address space or leave the pages are refused |

Only model-checked: `Ring3TypeOK`, which also speaks of runs in which a command
overlaps the run of `/sbin/init`; `PathsSound`, whose reference definition sorts and
counts the parts of a path and would need induction over them; everything about
`KernelHeap`, whose search, growth and merging recurse over the list of blocks; and
all liveness (`ReadyTaskRuns`, `SleeperWakes`, `ShellReturns`, `ControlReturns`), which
is out of the prover's reach.
