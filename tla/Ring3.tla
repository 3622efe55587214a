-------------------------------- MODULE Ring3 --------------------------------
(***************************************************************************)
(* User programs on i386: the process table (core/process.c), the open     *)
(* files of a process (core/fd_table.c), the system calls (core/syscall.c),*)
(* exec (core/exec.c), the passage to ring 3 and back (arch/i386/ring3.c,  *)
(* ring3_entry.asm) and the shell that runs in the keyboard interrupt      *)
(* handler (core/shell.c, drivers/keyboard.c).                             *)
(*                                                                         *)
(* Programs are started by two callers that share everything: kernel_main, *)
(* which runs /sbin/init during boot with interrupts on, and the shell,    *)
(* whose commands run inside the keyboard interrupt wherever it hit.  The  *)
(* interrupt is not acknowledged before the command is done, so a command  *)
(* never interrupts a command; a system call runs with interrupts off and  *)
(* is one step.  kernel_main can be interrupted between any two steps      *)
(* below.  There is one code page, one saved kernel stack pointer, one     *)
(* current_process and one stack for entries from ring 3: a command typed  *)
(* while kernel_main is between starting /sbin/init and its return shares  *)
(* them with it.  The history variable "overlapped" records that.          *)
(***************************************************************************)
EXTENDS UserImages, FiniteSets

CONSTANTS
    PROCESS_MAX_PROCESSES,
    PROCESS_MAX_OPEN_FILES,
    FD_FIRST_PROCESS_FILE,
    PROCESS_MAX_ARGUMENTS,
    PROCESS_ARGUMENT_MAX,
    SYSCALL_COPY_CHUNK_MAX,
    SHELL_INPUT_MAX,
    EXEC_INIT_PATH,
    ExitCodes,          \* codes programs pass to EXIT
    ImagePaths,         \* paths given to exec and EXEC
    FilePaths,          \* paths given to OPEN
    ArgumentLines,      \* argument lines: the lengths of their words
    ReadLengths         \* lengths given to READ

Slots == 1 .. PROCESS_MAX_PROCESSES
Descriptors == FD_FIRST_PROCESS_FILE .. PROCESS_MAX_OPEN_FILES - 1
Callers == {"boot", "shell"}
Paths == ImagePaths \cup FilePaths
NoSlot == 0
NoPath == <<>>
Nobody == "nobody"

ASSUME Ring3Assumption ==
    /\ PROCESS_MAX_PROCESSES \in Nat \ {0}
    /\ FD_FIRST_PROCESS_FILE \in Nat /\ PROCESS_MAX_OPEN_FILES \in Nat
    /\ PROCESS_MAX_ARGUMENTS \in Nat \ {0}
    /\ PROCESS_ARGUMENT_MAX \in Nat \ {0, 1}
    /\ SYSCALL_COPY_CHUNK_MAX \in Nat \ {0}
    /\ SHELL_INPUT_MAX \in Nat \ {0, 1}
    /\ EXEC_INIT_PATH \in ImagePaths
    /\ ExitCodes \subseteq Int
    /\ NoPath \notin Paths

VARIABLES
    process_table,
    next_pid,
    process_count,
    current_process,    \* a slot, or NoSlot
    process_info,       \* counters and the last exit
    ring3_info,         \* in_progress, completed, last_status, previous_tss_esp0
    code_page,          \* the image ring3_load_user_image copied last
    esp0,               \* the stack the TSS gives to entries from ring 3
    saved_kernel_esp,   \* whose frame ring3_saved_kernel_esp points into
    frame,              \* [caller |-> where it is in exec_spawn_with_args]
    input_length,
    machine,            \* "up"; "halted", "rebooted"; "wild" once a frame is overwritten
    overlapped          \* history: a command ran while boot's program was being run

process_vars == <<process_table, next_pid, process_count, current_process, process_info>>
ring3_vars == <<ring3_info, code_page, esp0, saved_kernel_esp>>
vars == <<process_vars, ring3_vars, frame, input_length, machine, overlapped>>

-----------------------------------------------------------------------------
(* Process table entries.                                                  *)
Closed == [node |-> NoNode, offset |-> 0]
fd_table_initialize_process == [d \in Descriptors |-> Closed]

Unused == [pid |-> 0, state |-> "UNUSED", path |-> NoPath, exit_code |-> 0,
           last_status |-> "OK", runs |-> 0, argv |-> <<>>,
           files |-> fd_table_initialize_process]

(* string_copy_until_space copies at most PROCESS_ARGUMENT_MAX - 1         *)
(* characters of a word and the scan goes on behind them: a longer word    *)
(* becomes several arguments.                                              *)
Pieces(word) ==
    LET whole == word \div (PROCESS_ARGUMENT_MAX - 1)
        rest == word % (PROCESS_ARGUMENT_MAX - 1)
    IN  [i \in 1 .. whole |-> PROCESS_ARGUMENT_MAX - 1]
           \o (IF rest = 0 THEN <<>> ELSE <<rest>>)

(* argv is the sequence of the lengths of the arguments after argv[0].     *)
process_configure_arguments(words) ==
    LET upto[i \in 0 .. Len(words)] ==
            IF i = 0 THEN <<>> ELSE upto[i - 1] \o Pieces(words[i])
        all == upto[Len(words)]
    IN  SubSeq(all, 1, Min({Len(all), PROCESS_MAX_ARGUMENTS - 1}))

process_find_free_slot ==
    LET free == {s \in Slots : process_table[s].state = "UNUSED"}
    IN  IF free = {} THEN NoSlot ELSE Min(free)

(* process_create after process_find_free_slot, and the two configure      *)
(* calls of exec_create_with_args, which cannot fail.                      *)
process_create(s, path, words) ==
    /\ process_table' = [process_table EXCEPT ![s] =
          [Unused EXCEPT !.pid = next_pid, !.state = "READY", !.path = path,
                         !.argv = process_configure_arguments(words)]]
    /\ next_pid' = next_pid + 1
    /\ process_count' = process_count + 1

(* The tree and the registry never change: what they answer, as tables.    *)
ImageFound == [p \in Paths |-> user_image_lookup(p).status = "OK"]
ImageLoad == [p \in Paths |-> user_image_resolve(p)]
OpenFile == [p \in Paths |-> IfType(vfs_lookup(p), "file")]

NoExit == [pid |-> 0, code |-> 0, status |-> "OK"]

-----------------------------------------------------------------------------
(* exec_spawn_with_args(path, words) called by c: exec_create_with_args,   *)
(* then process_run.  A frame records how far the call has come.           *)
Idle == [pc |-> "idle", slot |-> NoSlot, path |-> NoPath, words |-> <<>>, stack |-> "boot"]

Call(path, words, stack) ==
    [pc |-> "lookup", slot |-> NoSlot, path |-> path, words |-> words, stack |-> stack]

(* The shell's command, if one is being executed, has the CPU.             *)
Runs(c) ==
    /\ machine = "up"
    /\ c = "boot" => frame["shell"].pc = "idle"

AtPc(c, pc) == Runs(c) /\ frame[c].pc = pc

(* The end of exec_spawn_with_args.                                        *)
Returned(c) == frame' = [frame EXCEPT ![c].pc = "returned"]

(* Mutant: a full table is waited for instead of reported.                 *)
FindSlot_waits(c) ==
    /\ AtPc(c, "lookup")
    /\ ImageFound[frame[c].path] => process_find_free_slot # NoSlot
    /\ IF ImageFound[frame[c].path]
       THEN frame' = [frame EXCEPT ![c].pc = "create", ![c].slot = process_find_free_slot]
       ELSE Returned(c)
    /\ UNCHANGED <<process_vars, ring3_vars, input_length, machine, overlapped>>

(* user_image_lookup and process_find_free_slot.                           *)
FindSlot(c) ==
    /\ AtPc(c, "lookup")
    /\ IF ImageFound[frame[c].path] /\ process_find_free_slot # NoSlot
       THEN frame' = [frame EXCEPT ![c].pc = "create", ![c].slot = process_find_free_slot]
       ELSE Returned(c)
    /\ UNCHANGED <<process_vars, ring3_vars, input_length, machine, overlapped>>

Create(c) ==
    /\ AtPc(c, "create")
    /\ process_create(frame[c].slot, frame[c].path, frame[c].words)
    /\ frame' = [frame EXCEPT ![c].pc = "load"]
    /\ UNCHANGED <<current_process, process_info, ring3_vars, input_length, machine, overlapped>>

(* ring3_initialize answers with the status of the last load or run.       *)
ring3_load_user_image(bytes) ==
    IF ring3_info.last_status # "OK" THEN ring3_info.last_status
    ELSE IF bytes = 0 \/ bytes > RING3_USER_PAGE_SIZE THEN "UNSUPPORTED"
    ELSE "OK"

(* process_run up to and including user_image_resolve.                     *)
Load(c) ==
    LET s == frame[c].slot
        image == ImageLoad[process_table[s].path]
        status == IF image.status = "OK" THEN ring3_load_user_image(image.bytes)
                  ELSE image.status
        run == process_table[s].state \in {"READY", "EXITED"}
    IN  /\ AtPc(c, "load")
        /\ IF run /\ status = "OK"
           THEN /\ frame' = [frame EXCEPT ![c].pc = "enter"]
                /\ code_page' = process_table[s].path
                /\ UNCHANGED <<process_table, process_info>>
           ELSE /\ Returned(c)
                /\ process_info' = [process_info EXCEPT !.failed_runs = @ + 1,
                                       !.failed_processes = @ + (IF run THEN 1 ELSE 0)]
                /\ process_table' = IF ~run THEN process_table
                                    ELSE [process_table EXCEPT ![s].state = "FAILED",
                                                               ![s].last_status = status]
                /\ UNCHANGED code_page
        /\ ring3_info' = IF run /\ image.status = "OK"
                         THEN [ring3_info EXCEPT !.last_status = status]
                         ELSE ring3_info
        /\ UNCHANGED <<next_pid, process_count, current_process, esp0, saved_kernel_esp,
                       input_length, machine, overlapped>>

(* Mutant: the exit is recorded again though EXIT recorded it.             *)
RunEnds_records_twice(s, p, status) ==
    LET code == IF status = "OK" THEN 0 ELSE -1
    IN  /\ process_table' = [process_table EXCEPT ![s] =
              [p EXCEPT !.state = IF status = "OK" THEN "EXITED" ELSE "FAILED",
                        !.exit_code = code, !.last_status = status]]
        /\ current_process' = NoSlot
        /\ process_info' = [process_info EXCEPT
              !.exit_count = @ + (IF status = "OK" THEN 1 ELSE 0),
              !.failed_processes = @ + (IF status # "OK" THEN 1 ELSE 0),
              !.last_exit = [pid |-> p.pid, code |-> code, status |-> status]]

(* process_run after ring3_run_user_image answered with status, for the    *)
(* process of slot s whose entry is p.                                     *)
RunEnds(s, p, status) ==
    LET code == IF status = "OK" THEN 0 ELSE -1
        open == p.state = "RUNNING"
    IN  /\ process_table' = [process_table EXCEPT ![s] =
              IF open THEN [p EXCEPT !.state = IF status = "OK" THEN "EXITED" ELSE "FAILED",
                                     !.exit_code = code, !.last_status = status]
              ELSE [p EXCEPT !.last_status = status]]
        /\ current_process' = NoSlot
        /\ process_info' = [process_info EXCEPT
              !.successful_runs = @ + (IF status = "OK" THEN 1 ELSE 0),
              !.failed_runs = @ + (IF status = "OK" THEN 0 ELSE 1),
              !.exit_count = @ + (IF open /\ status = "OK" THEN 1 ELSE 0),
              !.failed_processes = @ + (IF open /\ status # "OK" THEN 1 ELSE 0),
              !.last_exit = IF open THEN [pid |-> p.pid, code |-> code, status |-> status] ELSE @]

Running(p) ==
    [p EXCEPT !.state = "RUNNING", !.runs = @ + 1, !.exit_code = 0, !.last_status = "OK"]

(* process_run marks the process RUNNING and calls ring3_run_user_image,   *)
(* which saves the kernel's stack pointer and enters ring 3.               *)
Enter(c) ==
    LET s == frame[c].slot
        p == Running(process_table[s])
    IN  /\ AtPc(c, "enter")
        /\ IF ring3_info.last_status = "OK"
           THEN /\ process_table' = [process_table EXCEPT ![s] = p]
                /\ current_process' = s
                /\ ring3_info' = [ring3_info EXCEPT !.in_progress = TRUE, !.completed = FALSE,
                                                    !.previous_tss_esp0 = esp0]
                /\ esp0' = "syscall"
                /\ saved_kernel_esp' = c
                /\ frame' = [frame EXCEPT ![c].pc = "user"]
                /\ UNCHANGED process_info
           ELSE /\ RunEnds(s, p, ring3_info.last_status)
                /\ Returned(c)
                /\ UNCHANGED <<ring3_info, esp0, saved_kernel_esp>>
        /\ UNCHANGED <<next_pid, process_count, code_page, input_length, machine, overlapped>>

(* ring3_enter_user_mode has returned to ring3_run_user_image.             *)
Return(c) ==
    LET s == frame[c].slot
        status == IF ring3_info.completed THEN "OK" ELSE "INVALID_STATE"
    IN  /\ AtPc(c, "resumed")
        /\ ring3_info' = [ring3_info EXCEPT !.last_status = status,
                             !.in_progress = @ /\ ring3_info.completed]
        /\ RunEnds(s, process_table[s], status)
        /\ Returned(c)
        /\ UNCHANGED <<next_pid, process_count, code_page, esp0, saved_kernel_esp,
                       input_length, machine, overlapped>>

-----------------------------------------------------------------------------
(* The program in ring 3.  Its system calls run on the stack esp0 gives;   *)
(* when the shell's command itself runs on that stack, its frames are      *)
(* overwritten, and where the CPU goes then is anybody's guess.            *)
InUser(c) == AtPc(c, "user")
Clobbers(c) == frame[c].stack = esp0

SystemCall(c) == InUser(c) /\ ~Clobbers(c)

Clobber(c) ==
    /\ InUser(c) /\ Clobbers(c)
    /\ machine' = "wild"
    /\ UNCHANGED <<process_vars, ring3_vars, frame, input_length, overlapped>>

(* Calls that change nothing the model keeps: WRITE, STAT, GET_TICKS,      *)
(* YIELD, GET_PID, GET_ARGC, GET_ARG, unknown numbers, and every call      *)
(* refused by syscall_user_buffer_is_valid are stuttering steps.           *)

Files(s) == process_table[s].files

fd_table_allocate_slot(s) ==
    LET free == {d \in Descriptors : Files(s)[d] = Closed}
    IN  IF free = {} THEN NoSlot ELSE Min(free)

(* The three below are about the files of the current process s; calls    *)
(* they refuse change nothing.                                             *)
fd_table_open_current(s, path) ==
    LET d == fd_table_allocate_slot(s)
        found == OpenFile[path]
    IN  /\ s # NoSlot
        /\ found.status = "OK" /\ d # NoSlot
        /\ process_table' = [process_table EXCEPT ![s].files[d] =
                                [node |-> found.node, offset |-> 0]]

fd_table_read_current(s, d, length) ==
    LET file == Files(s)[d]
    IN  /\ s # NoSlot
        /\ file # Closed
        /\ process_table' = [process_table EXCEPT ![s].files[d].offset =
                                @ + vfs_read_node(file.node, file.offset, length)]

fd_table_close_current(s, d) ==
    /\ s # NoSlot
    /\ Files(s)[d] # Closed
    /\ process_table' = [process_table EXCEPT ![s].files[d] = Closed]

OnlyTable == UNCHANGED <<next_pid, process_count, current_process, process_info, ring3_vars,
                         frame, input_length, machine, overlapped>>

SysOpen(c, path) ==
    SystemCall(c) /\ fd_table_open_current(current_process, path) /\ OnlyTable

(* READ: the buffer is checked before fd_table_read_current moves the      *)
(* offset, for the length that will be read at most.                       *)
SysRead(c, d, length) ==
    /\ SystemCall(c)
    /\ length > 0
    /\ fd_table_read_current(current_process, d, Min({length, SYSCALL_COPY_CHUNK_MAX}))
    /\ OnlyTable

SysClose(c, d) ==
    SystemCall(c) /\ fd_table_close_current(current_process, d) /\ OnlyTable

(* EXEC: exec_create_with_args.  The new process is left READY.            *)
SysExec(c, path, words) ==
    /\ SystemCall(c)
    /\ ImageFound[path]
    /\ process_find_free_slot # NoSlot
    /\ process_create(process_find_free_slot, path, words)
    /\ UNCHANGED <<current_process, process_info, ring3_vars, frame, input_length,
                   machine, overlapped>>

process_mark_exit(s, code) ==
    IF s = NoSlot THEN UNCHANGED <<process_table, process_info>>
    ELSE /\ process_table' = [process_table EXCEPT ![s].exit_code = code, ![s].state = "EXITED"]
         /\ process_info' = [process_info EXCEPT !.exit_count = @ + 1,
               !.last_exit = [pid |-> process_table[s].pid, code |-> code, status |-> "OK"]]

EntryEnds ==
    IF ring3_info.in_progress
    THEN [ring3_info EXCEPT !.completed = TRUE, !.in_progress = FALSE]
    ELSE [ring3_info EXCEPT !.last_status = "UNSUPPORTED"]

(* Mutant: the TSS keeps the system call stack after the program is gone.  *)
SysExit_keeps_esp0(c, code) ==
    /\ SystemCall(c)
    /\ process_mark_exit(current_process, code)
    /\ ring3_info' = EntryEnds
    /\ UNCHANGED esp0
    /\ frame' = [frame EXCEPT ![saved_kernel_esp].pc = "resumed"]
    /\ UNCHANGED <<next_pid, process_count, current_process, code_page, saved_kernel_esp,
                   input_length, machine, overlapped>>

(* EXIT: process_mark_exit, then ring3_syscall_entry resumes the kernel    *)
(* where ring3_saved_kernel_esp points, with interrupts on again.          *)
SysExit(c, code) ==
    /\ SystemCall(c)
    /\ process_mark_exit(current_process, code)
    /\ ring3_info' = EntryEnds
    /\ esp0' = ring3_info.previous_tss_esp0
    /\ frame' = [frame EXCEPT ![saved_kernel_esp].pc = "resumed"]
    /\ UNCHANGED <<next_pid, process_count, current_process, code_page, saved_kernel_esp,
                   input_length, machine, overlapped>>

(* A CPU exception: idt_exception_handler logs it and stops the machine.   *)
Fault(c) ==
    /\ SystemCall(c)
    /\ machine' = "halted"
    /\ UNCHANGED <<process_vars, ring3_vars, frame, input_length, overlapped>>

-----------------------------------------------------------------------------
(* kernel_main from timer_wait_ticks(10) on: exec_start_init, then         *)
(* shell_initialize and the halt loop.                                     *)
BootStartsInit ==
    /\ AtPc("boot", "wait")
    /\ frame' = [frame EXCEPT !["boot"] = Call(EXEC_INIT_PATH, <<>>, "boot")]
    /\ UNCHANGED <<process_vars, ring3_vars, input_length, machine, overlapped>>

BootEnds ==
    /\ AtPc("boot", "returned")
    /\ frame' = [frame EXCEPT !["boot"].pc = "hlt"]
    /\ input_length' = 0
    /\ UNCHANGED <<process_vars, ring3_vars, machine, overlapped>>

(* The keyboard interrupt; shell_handle_character.                         *)
Key == machine = "up" /\ frame["shell"].pc = "idle"

TypeCharacter ==
    /\ Key
    /\ input_length < SHELL_INPUT_MAX - 1
    /\ input_length' = input_length + 1
    /\ UNCHANGED <<process_vars, ring3_vars, frame, machine, overlapped>>

Backspace ==
    /\ Key
    /\ input_length > 0
    /\ input_length' = input_length - 1
    /\ UNCHANGED <<process_vars, ring3_vars, frame, machine, overlapped>>

(* Enter on an empty line or on a command that only prints.                *)
EnterPrinting ==
    /\ Key
    /\ input_length' = 0
    /\ UNCHANGED <<process_vars, ring3_vars, frame, machine, overlapped>>

EnterReboot ==
    /\ Key /\ input_length > 0
    /\ machine' = "rebooted"
    /\ UNCHANGED <<process_vars, ring3_vars, frame, input_length, overlapped>>

(* exec with a path, and init.  The interrupt left its frame on the stack  *)
(* that was in use, or on esp0's when a program was running.               *)
EnterExec(path, words) ==
    /\ Key /\ input_length > 0
    /\ frame' = [frame EXCEPT !["shell"] =
          Call(path, words, IF frame["boot"].pc = "user" THEN esp0 ELSE "boot")]
    /\ overlapped' = (overlapped \/ frame["boot"].pc \in {"create", "enter", "user"})
    /\ UNCHANGED <<process_vars, ring3_vars, input_length, machine>>

(* The command is done: shell_clear_input, the prompt, and the interrupt   *)
(* returns.                                                                *)
ShellDone ==
    /\ AtPc("shell", "returned")
    /\ frame' = [frame EXCEPT !["shell"] = Idle]
    /\ input_length' = 0
    /\ UNCHANGED <<process_vars, ring3_vars, machine, overlapped>>

-----------------------------------------------------------------------------
(* process_initialize, ring3_initialize (which may find no pages) and the  *)
(* rest of kernel_main before interrupts are enabled.                      *)
Init ==
    /\ process_table = [s \in Slots |-> Unused]
    /\ next_pid = 1 /\ process_count = 0 /\ current_process = NoSlot
    /\ process_info = [exit_count |-> 0, failed_processes |-> 0, successful_runs |-> 0,
                       failed_runs |-> 0, last_exit |-> NoExit]
    /\ \E status \in {"OK", "OUT_OF_MEMORY"} :
          ring3_info = [in_progress |-> FALSE, completed |-> FALSE, last_status |-> status,
                        previous_tss_esp0 |-> "none"]
    /\ code_page = NoPath /\ esp0 = "boot" /\ saved_kernel_esp = Nobody
    /\ frame = [boot |-> [Idle EXCEPT !.pc = "wait"], shell |-> Idle]
    /\ input_length = 0 /\ machine = "up" /\ overlapped = FALSE

KernelStep(c) == FindSlot(c) \/ Create(c) \/ Load(c) \/ Enter(c) \/ Return(c) \/ Clobber(c)

ProgramStep(c) ==
    \/ \E path \in FilePaths : SysOpen(c, path)
    \/ \E d \in Descriptors, n \in ReadLengths : SysRead(c, d, n)
    \/ \E d \in Descriptors : SysClose(c, d)
    \/ \E path \in ImagePaths, words \in ArgumentLines : SysExec(c, path, words)
    \/ Fault(c)

ProgramExits(c) == \E code \in ExitCodes : SysExit(c, code)

Keyboard ==
    \/ TypeCharacter \/ Backspace \/ EnterPrinting \/ EnterReboot
    \/ \E path \in ImagePaths, words \in ArgumentLines : EnterExec(path, words)

Next ==
    \/ \E c \in Callers : KernelStep(c) \/ ProgramStep(c) \/ ProgramExits(c)
    \/ BootStartsInit \/ BootEnds \/ ShellDone \/ Keyboard

(* The CPU executes the code it is in, and every program of the image tree *)
(* comes to its EXIT.  kernel_main continues when a command is done, and   *)
(* commands cannot be typed without pause: strong fairness for it.         *)
BootStep == BootStartsInit \/ KernelStep("boot") \/ ProgramExits("boot") \/ BootEnds
ShellStep == KernelStep("shell") \/ ProgramExits("shell") \/ ShellDone
Fairness == SF_vars(BootStep) /\ WF_vars(ShellStep)

Spec == Init /\ [][Next]_vars
FairSpec == Spec /\ Fairness
-----------------------------------------------------------------------------
Pcs == {"wait", "idle", "lookup", "create", "load", "enter", "user", "resumed", "returned", "hlt"}
Statuses == {"OK", "OUT_OF_MEMORY", "UNSUPPORTED", "INVALID_STATE", "NOT_FOUND", "INVALID_ARGUMENT"}
Files_ == [node : DOMAIN Nodes \cup {NoNode}, offset : Nat]

(* Types of the state of process.c, ring3.c and shell.c; an open file's    *)
(* offset never passes the end of the file, and the input line never       *)
(* fills the last byte of input_buffer.                                    *)
Ring3TypeOK ==
    /\ process_table \in [Slots ->
          [pid : Nat, state : {"UNUSED", "READY", "RUNNING", "EXITED", "FAILED"},
           path : Paths \cup {NoPath}, exit_code : ExitCodes \cup {0, -1},
           last_status : Statuses, runs : Nat, argv : Seq(Nat),
           files : [Descriptors -> Files_]]]
    /\ \A s \in Slots : \A d \in Descriptors :
          Files(s)[d] # Closed => Files(s)[d].offset <= Nodes[Files(s)[d].node].size
    /\ next_pid \in Nat /\ process_count \in Nat
    /\ current_process \in Slots \cup {NoSlot}
    /\ process_info \in [exit_count : Nat, failed_processes : Nat, successful_runs : Nat,
                         failed_runs : Nat,
                         last_exit : [pid : Nat, code : ExitCodes \cup {0, -1}, status : Statuses]]
    /\ ring3_info \in [in_progress : BOOLEAN, completed : BOOLEAN, last_status : Statuses,
                       previous_tss_esp0 : {"none", "boot", "syscall"}]
    /\ code_page \in Paths \cup {NoPath}
    /\ esp0 \in {"boot", "syscall"}
    /\ saved_kernel_esp \in Callers \cup {Nobody}
    /\ frame \in [Callers -> [pc : Pcs, slot : Slots \cup {NoSlot}, path : Paths \cup {NoPath},
                              words : ArgumentLines \cup {<<>>}, stack : {"boot", "syscall"}]]
    /\ input_length \in 0 .. SHELL_INPUT_MAX - 1
    /\ machine \in {"up", "halted", "rebooted", "wild"}
    /\ overlapped \in BOOLEAN

(* ring3.c and process.c keep one of everything.  While a program is in    *)
(* ring 3 it is the RUNNING current_process, its own image is in the code  *)
(* page, entries from ring 3 get the system call stack and EXIT will       *)
(* resume the caller that started it; when no program is in ring 3, no     *)
(* process is RUNNING, none is current, no run is in progress and the TSS  *)
(* has the boot stack back.                                                *)
Ring3Discipline ==
    machine = "up" /\ ~overlapped =>
        /\ \A c \in Callers : InUser(c) =>
              /\ current_process = frame[c].slot
              /\ process_table[frame[c].slot].state = "RUNNING"
              /\ code_page = process_table[frame[c].slot].path
              /\ ring3_info.in_progress /\ esp0 = "syscall" /\ saved_kernel_esp = c
        /\ (\A c \in Callers : ~InUser(c)) =>
              /\ \A s \in Slots : process_table[s].state # "RUNNING"
              /\ ~ring3_info.in_progress /\ esp0 = "boot"
              /\ (\A c \in Callers : frame[c].pc # "resumed") => current_process = NoSlot

Count(state) == Cardinality({s \in Slots : process_table[s].state = state})

(* What ps and wait-last print is the truth: the counters of process_info  *)
(* are the numbers of entries in each state, pids are distinct and below   *)
(* next_pid, and the last exit shown is the exit of the entry with its pid.*)
TableAgrees ==
    ~overlapped =>
        /\ process_count = PROCESS_MAX_PROCESSES - Count("UNUSED")
        /\ process_info.exit_count = Count("EXITED")
        /\ process_info.failed_processes = Count("FAILED")
        /\ \A s, t \in Slots : process_table[s].state # "UNUSED" =>
              /\ process_table[s].pid \in 1 .. next_pid - 1
              /\ process_table[t].pid = process_table[s].pid => s = t
        /\ process_info.last_exit # NoExit =>
              \E s \in Slots :
                 /\ process_table[s].pid = process_info.last_exit.pid
                 /\ process_table[s].exit_code = process_info.last_exit.code
                 /\ process_table[s].state \in {"EXITED", "FAILED"}

(* kernel_main and the shell say which image they start ("Starting initial *)
(* userspace process", "Starting userspace image: ..."): what then runs in *)
(* ring 3 is the image of the process they created.                        *)
RunsOwnImage ==
    \A c \in Callers : InUser(c) => code_page = process_table[frame[c].slot].path

(* Boot reaches the halt loop, and every command entered gets back to the  *)
(* prompt, unless the machine was stopped.                                 *)
ControlReturns ==
    /\ <>(frame["boot"].pc = "hlt" \/ machine # "up")
    /\ (frame["shell"].pc # "idle") ~> (frame["shell"].pc = "idle" \/ machine # "up")
=============================================================================
