------------------------------- MODULE UserMode -------------------------------
(***************************************************************************)
(* Programs in ring 3 on x86_64: the loop of x86_64_user_mode_start_init   *)
(* (core/kernel/arch/x86_64/user_mode.c), the system calls that start, end *)
(* and wait for programs (syscall_dispatch.h), the CR3 switches of their   *)
(* entry and exit paths (idt_stubs.asm, user_mode.asm), and the shell      *)
(* (userland/x86_64/init/init.asm) as far as it starts programs.           *)
(*                                                                         *)
(* One program runs at a time.  EXEC creates a process and replaces the    *)
(* caller by it; EXIT returns to the kernel loop, which marks the process  *)
(* exited, records its status, reaps it and starts the shell again from    *)
(* its entry point.  A process made by SPAWN stays READY: nothing in the   *)
(* kernel runs it.  No interrupt handler touches any of this state, so a   *)
(* system call is one step.                                                *)
(***************************************************************************)
EXTENDS ProcessTable

CONSTANTS
    ChildCalls,     \* calls other than EXIT that programs make, the shell aside
    PsRows          \* processes whose PS row fits the shell's buffer

SHELL_PID == 1      \* current_pid, the argument of x86_64_user_mode_start_init
KernelRoot == -1    \* the page tables user mode was started with
windowd_service == "windowd-service"

ASSUME UserModeAssumption ==
    /\ ChildCalls \subseteq {"exec", "spawn", "wait"}
    /\ PsRows \in Nat \ {0, 1}
    /\ Clients = 0 .. MaxPid
    /\ MaxPid > 1
    /\ MaxPid <= MaxRecords
    /\ windowd_service \in Images

VARIABLES
    phase,          \* where the kernel loop is; "user" while in ring 3
    shell,          \* the shell waits for input, or works on a command
    current_pid,    \* active_dispatcher.current_pid
    cpu_cr3,        \* the CR3 register
    kernel_cr3,     \* x86_64_user_mode_kernel_cr3
    exit_code,      \* active_state->exit_code
    exits,          \* history: <<pid, exit code>> of every EXIT
    spawned,        \* history: pids of the processes made by SPAWN
    probes          \* history: how many of them the shell's own check made

history == <<exits, spawned, probes>>
cpu == <<cpu_cr3, kernel_cr3>>
vars == <<table_vars, phase, shell, current_pid, cpu, exit_code, history>>

-----------------------------------------------------------------------------
(* The page tables tell whose code is running.                             *)
ShellRuns == phase = "user" /\ cpu_cr3 = KernelRoot
ProgramRuns == phase = "user" /\ cpu_cr3 # KernelRoot

Calls(op) ==
    \/ ShellRuns /\ shell = "command"
    \/ ProgramRuns /\ op \in ChildCalls \cup {"exit"}

created == next_pid' # next_pid

(* X86_64_SYSCALL_SERVICE_EXEC.  A path that does not name an executable   *)
(* changes nothing, and neither does a process that cannot be created.     *)
exec(image) ==
    /\ Calls("exec")
    /\ create_user_image(image)
    /\ IF created
       THEN /\ current_pid' = next_pid
            /\ kernel_cr3' = cpu_cr3
            /\ cpu_cr3' = last_user_cr3'
       ELSE UNCHANGED <<current_pid, cpu>>
    /\ UNCHANGED <<phase, shell, exit_code, history>>

(* X86_64_SYSCALL_SERVICE_SPAWN.                                           *)
SpawnImage(image) ==
    /\ create_user_image(image)
    /\ spawned' = IF created THEN spawned \cup {next_pid} ELSE spawned

spawn(image) ==
    /\ Calls("spawn")
    /\ SpawnImage(image)
    /\ UNCHANGED <<phase, shell, current_pid, cpu, exit_code, exits, probes>>

(* X86_64_SYSCALL_SERVICE_WAIT.                                            *)
wait ==
    /\ Calls("wait")
    /\ wait_child(current_pid)
    /\ UNCHANGED <<phase, shell, current_pid, cpu, exit_code, history>>

(* X86_64_SYSCALL_SERVICE_EXIT and x86_64_user_mode_exit_to_kernel.        *)
WrongCr3AfterExit == cpu_cr3   \* stays on the page tables of the program
Cr3AfterExit == IF kernel_cr3 # NoPage THEN kernel_cr3 ELSE cpu_cr3

exit(code) ==
    /\ Calls("exit")
    /\ exit_code' = code
    /\ exits' = exits \cup {<<current_pid, code>>}
    /\ cpu_cr3' = Cr3AfterExit
    /\ kernel_cr3' = NoPage
    /\ phase' = "exited"
    /\ UNCHANGED <<table_vars, shell, current_pid, spawned, probes>>

-----------------------------------------------------------------------------
(* The shell: at every input it looks for its window service in the output *)
(* of PS, which is cut off at the size of its buffer, and spawns it if it  *)
(* is not there.  Commands then come one after the other.                  *)
WrongListed ==   \* looks for a service that has been scheduled
    \E i \in Slots : process_table[i].image = windowd_service /\ process_table[i].state = "running"

Listed ==
    \E i \in Slots : /\ used(i) /\ process_table[i].image = windowd_service
                     /\ Cardinality({j \in 0 .. i : used(j)}) <= PsRows

process_input ==
    /\ ShellRuns /\ shell = "prompt"
    /\ shell' = "command"
    /\ \/ Listed /\ UNCHANGED <<table_vars, spawned, probes>>
       \/ /\ ~Listed
          /\ SpawnImage(windowd_service)
          /\ probes' = IF created THEN probes + 1 ELSE probes
    /\ UNCHANGED <<phase, current_pid, cpu, exit_code, exits>>

shell_loop ==
    /\ ShellRuns /\ shell = "command"
    /\ shell' = "prompt"
    /\ UNCHANGED <<table_vars, phase, current_pid, cpu, exit_code, history>>

-----------------------------------------------------------------------------
(* x86_64_user_mode_start_init: an entry for the shell, which reserves its *)
(* pid; then, for each program that comes back, three calls in turn.       *)
reserve_shell_pid ==
    /\ phase = "boot"
    /\ create
    /\ phase' = "user"
    /\ UNCHANGED <<shell, current_pid, cpu, exit_code, history>>

shell_exited ==
    /\ phase = "exited" /\ current_pid = SHELL_PID
    /\ phase' = "halted"
    /\ UNCHANGED <<table_vars, shell, current_pid, cpu, exit_code, history>>

mark_exited ==
    /\ phase = "exited" /\ current_pid # SHELL_PID
    /\ mark_user_exited(current_pid)
    /\ phase' = "marked"
    /\ UNCHANGED <<shell, current_pid, cpu, exit_code, history>>

WrongRecordExit == record_child_exit(SHELL_PID, SHELL_PID, exit_code)
RecordExit == record_child_exit(SHELL_PID, current_pid, exit_code)

record_exit ==
    /\ phase = "marked"
    /\ RecordExit
    /\ phase' = "recorded"
    /\ UNCHANGED <<shell, current_pid, cpu, exit_code, history>>

WrongReapReturned ==   \* clears the entry and forgets its pages
    /\ process_table' = [i \in Slots |-> IF process_table[i].pid = current_pid
                                         THEN ClearedProcess ELSE process_table[i]]
    /\ UNCHANGED <<page_stack, next_pid, last_user_cr3, cursors, queue_vars>>

ReapReturned == reap_user(current_pid)

reap_and_restart ==
    /\ phase = "recorded"
    /\ ReapReturned
    /\ phase' = "user"
    /\ shell' = "prompt"
    /\ current_pid' = SHELL_PID
    /\ UNCHANGED <<cpu, exit_code, history>>

-----------------------------------------------------------------------------
Init ==
    /\ TableInit
    /\ phase = "boot"
    /\ shell = "prompt"
    /\ current_pid = SHELL_PID
    /\ cpu_cr3 = KernelRoot
    /\ kernel_cr3 = NoPage
    /\ exit_code = 0
    /\ exits = {}
    /\ spawned = {}
    /\ probes = 0

KernelStep ==
    \/ reserve_shell_pid \/ shell_exited
    \/ mark_exited \/ record_exit \/ reap_and_restart

Next ==
    \/ KernelStep
    \/ process_input \/ shell_loop
    \/ \E image \in Images : exec(image) \/ spawn(image)
    \/ wait
    \/ \E code \in ExitCodes : exit(code)

Spec == Init /\ [][Next]_vars

(* The kernel loop goes on.  Every program delivered with the system runs  *)
(* to its EXIT, except the window service, which loops for ever.           *)
Terminates ==
    \E i \in Slots : /\ used(i) /\ process_table[i].pid = current_pid
                     /\ process_table[i].image # windowd_service

ProgramExits ==
    /\ ProgramRuns /\ Terminates
    /\ \E code \in ExitCodes : exit(code)

FairSpec == Spec /\ WF_vars(KernelStep) /\ WF_vars(ProgramExits)

-----------------------------------------------------------------------------
(* The page tables the CPU uses, and those it will go back to, are the     *)
(* kernel's or belong to a process that is still in the table: the pages   *)
(* under a running program are never given to another one.                 *)
RootInUse(r) == r = KernelRoot \/ \E i \in Slots : used(i) /\ r = cr3(process_table[i])

ActivePageTables == RootInUse(cpu_cr3) /\ (kernel_cr3 = NoPage \/ RootInUse(kernel_cr3))

(* No program ever gets the pid of the shell, by which the kernel loop     *)
(* tells that the shell has exited, although the result of creating the    *)
(* entry that reserves it is ignored.                                      *)
ShellPidReserved ==
    \A i \in Slots : process_table[i].mode = "user" => process_table[i].pid # SHELL_PID

(* A status the shell can collect is that of a program which exited with   *)
(* it, and every program that came back was recorded exactly once.         *)
StatusFaithful ==
    /\ \A k \in 1 .. Len(child_status_queue) :
         LET s == child_status_queue[k]
         IN  s.parent = SHELL_PID /\ <<s.child, s.code>> \in exits
    /\ records + (IF phase \in {"exited", "marked", "halted"} THEN 1 ELSE 0) = Cardinality(exits)

(* If only the shell calls EXEC: it runs with the pid and the page tables  *)
(* of the shell, and what its programs leave behind is reaped: the user    *)
(* processes in the table are those made by SPAWN and the one that runs.   *)
NothingLeftBehind ==
    phase = "user" =>
        /\ current_pid = SHELL_PID <=> cpu_cr3 = KernelRoot
        /\ {process_table[i].pid : i \in {j \in Slots : process_table[j].mode = "user"}}
             = spawned \cup ({current_pid} \ {SHELL_PID})

(* However often the shell is started again and whatever it is told to     *)
(* spawn, its check of the PS output starts the window service once.       *)
ServiceStartedOnce == probes <= 1

(* A program that terminates gives the shell back its turn.                *)
ShellReturns == ProgramRuns /\ Terminates ~> ShellRuns
=============================================================================
