----------------------------- MODULE ProcessTable -----------------------------
(***************************************************************************)
(* The x86_64 process table (core/kernel/arch/x86_64/process.c), the pages *)
(* its processes own (pmm.c) and the queue of exit statuses a parent has   *)
(* not yet collected.  All of it runs in the kernel on one CPU, and no     *)
(* interrupt handler touches it: every operation is one step.              *)
(*                                                                         *)
(* Physical pages are atoms.  x86_64_pmm_free_page refuses a page that is  *)
(* free already; here it would be on the stack twice, which PageOwnership  *)
(* rules out.  Page tables are built from the kernel's, which are valid    *)
(* once user mode is entered, so validating them succeeds.                 *)
(*                                                                         *)
(* An operator whose name starts with Wrong is a plausible bug in the      *)
(* definition that follows it; no specification uses it.                   *)
(***************************************************************************)
EXTENDS Integers, Sequences, FiniteSets

CONSTANTS
    MAX_PROCESSES,          \* X86_64_PROCESS_MAX_PROCESSES
    FREE_PAGES,             \* physical pages left when user mode starts
    ADDRESS_SPACE_PAGES,    \* X86_64_PROCESS_ADDRESS_SPACE_PAGES
    CHILD_STATUS_QUEUE,     \* X86_64_PROCESS_CHILD_STATUS_QUEUE
    Images,                 \* paths of executables
    ExitCodes,
    Clients,                \* pids the callers pass as parent and child
    MaxPid,                 \* bound on the pids handed out
    MaxRecords              \* bound on the exit statuses recorded

ASSUME ProcessAssumption ==
    /\ MAX_PROCESSES \in Nat \ {0}
    /\ FREE_PAGES \in Nat
    /\ ADDRESS_SPACE_PAGES \in Nat \ {0}
    /\ CHILD_STATUS_QUEUE \in Nat \ {0}
    /\ MaxPid \in Nat \ {0}
    /\ Clients \subseteq 0 .. MaxPid
    /\ MaxRecords \in Nat

Pages == 1 .. FREE_PAGES    \* in the order of their addresses
NoPage == 0                 \* X86_64_PMM_INVALID_PAGE
Slots == 0 .. MAX_PROCESSES - 1
Pids == 1 .. MaxPid
NoPid == 0                  \* X86_64_PROCESS_INVALID_PID
NoImage == "none"           \* the empty image_path of a kernel process

VARIABLES
    process_table,
    page_stack,             \* pmm.c: the free pages, the next one to go last
    next_pid,
    last_user_cr3,          \* process_state.last_user_cr3
    kernel_cursor,          \* kernel_schedule_cursor
    user_cursor,            \* user_schedule_cursor
    child_status_queue,
    drops,                  \* process_state.completed_child_drops
    waits,                  \* process_state.completed_child_waits
    records,                \* process_state.completed_child_records
    last_wait               \* history: number of the last record handed out, per parent

queue_vars == <<child_status_queue, drops, waits, records, last_wait>>
cursors == <<kernel_cursor, user_cursor>>
creation == <<process_table, page_stack, next_pid, last_user_cr3>>
table_vars == <<creation, cursors, queue_vars>>

-----------------------------------------------------------------------------
States == {"unused", "ready", "running", "exited", "failed"}
Modes == {"none", "kernel", "user"}

(* The pages of a process in the order of allocation: the root of its page *)
(* tables (cr3), the rest of its address space, its kernel stack.          *)
Process == [state : States, mode : Modes, pid : 0 .. MaxPid,
            image : Images \cup {NoImage}, pages : Seq(Pages)]

ClearedProcess == [state |-> "unused", mode |-> "none", pid |-> NoPid,
                   image |-> NoImage, pages |-> <<>>]

cr3(p) == p.pages[1]

RangeOf(s) == {s[k] : k \in 1 .. Len(s)}

(* x86_64_pmm_alloc_page n times; release_process_resources.               *)
Popped(s, n) == [k \in 1 .. n |-> s[Len(s) + 1 - k]]
Left(s, n) == SubSeq(s, 1, Len(s) - n)
WrongReleased(s, r) == s \o SubSeq(r, 1, Len(r) - 1)   \* forgets the last page
Released(s, r) == s \o r

used(i) == process_table[i].state # "unused"

find_unused_process(i) == ~used(i) /\ \A j \in Slots : ~used(j) => i <= j

(* find_process_by_pid: the first entry in use that has the pid.           *)
find_process_by_pid(pid, i) ==
    /\ used(i) /\ process_table[i].pid = pid
    /\ \A j \in Slots : used(j) /\ process_table[j].pid = pid => i <= j

-----------------------------------------------------------------------------
(* x86_64_process_create and x86_64_process_create_user_image.  Without a  *)
(* free entry nothing happens.  When the pages do not suffice for address  *)
(* space and kernel stack, all that were obtained are released again.      *)
PROCESS_PAGES == ADDRESS_SPACE_PAGES + 1
WrongNextPid == next_pid   \* the pid is not advanced
NextPid == next_pid + 1

create_process(mode, image) ==
    /\ next_pid < MaxPid
    /\ \/ /\ \A i \in Slots : used(i)
          /\ UNCHANGED creation
       \/ /\ \E i \in Slots : ~used(i)
          /\ Len(page_stack) < PROCESS_PAGES
          /\ page_stack' = Released(<<>>, Popped(page_stack, Len(page_stack)))
          /\ UNCHANGED <<process_table, next_pid, last_user_cr3>>
       \/ /\ Len(page_stack) >= PROCESS_PAGES
          /\ \E i \in Slots :
               /\ find_unused_process(i)
               /\ process_table' = [process_table EXCEPT ![i] =
                      [state |-> "ready", mode |-> mode, pid |-> next_pid,
                       image |-> image, pages |-> Popped(page_stack, PROCESS_PAGES)]]
          /\ page_stack' = Left(page_stack, PROCESS_PAGES)
          /\ next_pid' = NextPid
          /\ last_user_cr3' = IF mode = "user" THEN page_stack[Len(page_stack)]
                              ELSE last_user_cr3
    /\ UNCHANGED <<cursors, queue_vars>>

create == create_process("kernel", NoImage)
create_user_image(image) == create_process("user", image)

(* x86_64_process_mark_user_exited: 0 is returned, and nothing changed,    *)
(* unless a user process has the pid.                                      *)
mark_user_exited(pid) ==
    /\ \/ \E i \in Slots :
            /\ find_process_by_pid(pid, i) /\ process_table[i].mode = "user"
            /\ process_table' = [process_table EXCEPT ![i].state = "exited"]
       \/ /\ \A i \in Slots : find_process_by_pid(pid, i) => process_table[i].mode # "user"
          /\ UNCHANGED process_table
    /\ UNCHANGED <<page_stack, next_pid, last_user_cr3, cursors, queue_vars>>

WrongReapable(p) == p.mode = "user" /\ p.state = "failed"   \* overlooks EXITED
Reapable(p) == p.mode = "user" /\ p.state \in {"exited", "failed"}

(* x86_64_process_reap_user: resources are released, the entry is cleared. *)
(* x86_64_process_reap_exited_user_processes repeats this step.            *)
reap_user(pid) ==
    /\ \/ \E i \in Slots :
            /\ find_process_by_pid(pid, i) /\ Reapable(process_table[i])
            /\ process_table' = [process_table EXCEPT ![i] = ClearedProcess]
            /\ page_stack' = Released(page_stack, process_table[i].pages)
       \/ /\ \A i \in Slots : find_process_by_pid(pid, i) => ~Reapable(process_table[i])
          /\ UNCHANGED <<process_table, page_stack>>
    /\ UNCHANGED <<next_pid, last_user_cr3, cursors, queue_vars>>

-----------------------------------------------------------------------------
(* The queue of exit statuses.  The field n numbers the records; it is a   *)
(* history that the code does not have.                                    *)

Status == [parent : Pids, child : Pids, code : ExitCodes, n : Nat]

(* remove_child_status_at: the later entries move up by one.               *)
WrongRemoved(q, i) == Tail(q)   \* always the oldest
Removed(q, i) == [k \in 1 .. Len(q) - 1 |-> IF k < i THEN q[k] ELSE q[k + 1]]

full == Len(child_status_queue) >= CHILD_STATUS_QUEUE

record_child_exit(parent, child, code) ==
    /\ records < MaxRecords
    /\ IF parent = NoPid \/ child = NoPid \/ parent = child
       THEN UNCHANGED <<child_status_queue, drops, records>>
       ELSE /\ records' = records + 1
            /\ drops' = IF full THEN drops + 1 ELSE drops
            /\ child_status_queue' =
                 Append(IF full THEN Removed(child_status_queue, 1) ELSE child_status_queue,
                        [parent |-> parent, child |-> child, code |-> code, n |-> records + 1])
    /\ UNCHANGED <<creation, cursors, waits, last_wait>>

(* The first record of this parent, if there is one.                       *)
IsFirstOf(parent, i) ==
    /\ child_status_queue[i].parent = parent
    /\ \A k \in 1 .. i - 1 : child_status_queue[k].parent # parent

wait_child(parent) ==
    /\ \/ \E i \in 1 .. Len(child_status_queue) :
            /\ IsFirstOf(parent, i)
            /\ child_status_queue' = Removed(child_status_queue, i)
            /\ waits' = waits + 1
            /\ last_wait' = [last_wait EXCEPT ![parent] = child_status_queue[i].n]
       \/ /\ \A i \in 1 .. Len(child_status_queue) : child_status_queue[i].parent # parent
          /\ UNCHANGED <<child_status_queue, waits, last_wait>>
    /\ UNCHANGED <<creation, cursors, drops, records>>

-----------------------------------------------------------------------------
(* Scheduling: the scan for a ready process starts at a cursor.            *)

Distance(from, i) == IF i >= from THEN i - from ELSE i - from + MAX_PROCESSES
WrongAfter(i) == i + 1   \* does not wrap
After(i) == IF i + 1 = MAX_PROCESSES THEN 0 ELSE i + 1

Ready(mode) ==
    {i \in Slots : process_table[i].state = "ready" /\ process_table[i].mode = mode}

IsNextReady(mode, cursor, i) ==
    /\ i \in Ready(mode)
    /\ \A j \in Ready(mode) : Distance(cursor, i) <= Distance(cursor, j)

(* x86_64_process_run_next_ready: the entry function runs to its end on    *)
(* the kernel stack of the process.  x86_64_process_run_all_ready repeats  *)
(* this step.                                                              *)
StateAfterRun(p) ==
    IF Len(p.pages) < PROCESS_PAGES THEN "failed" ELSE "exited"

run_next_ready ==
    /\ \E i \in Slots :
         /\ IsNextReady("kernel", kernel_cursor, i)
         /\ kernel_cursor' = After(i)
         /\ process_table' = [process_table EXCEPT ![i].state =
                                StateAfterRun(process_table[i])]
    /\ UNCHANGED <<page_stack, next_pid, last_user_cr3, user_cursor, queue_vars>>

(* x86_64_process_prepare_next_user: the process selected stays READY.     *)
prepare_next_user ==
    /\ \E i \in Slots : /\ IsNextReady("user", user_cursor, i)
                        /\ user_cursor' = After(i)
    /\ UNCHANGED <<creation, kernel_cursor, queue_vars>>

-----------------------------------------------------------------------------
(* x86_64_process_initialize; x86_64_pmm_init pushed the pages in the      *)
(* order of their addresses.                                               *)
TableInit ==
    /\ process_table = [i \in Slots |-> ClearedProcess]
    /\ page_stack = [k \in 1 .. FREE_PAGES |-> k]
    /\ next_pid = 1
    /\ last_user_cr3 = NoPage
    /\ kernel_cursor = 0
    /\ user_cursor = 0
    /\ child_status_queue = <<>>
    /\ drops = 0
    /\ waits = 0
    /\ records = 0
    /\ last_wait = [p \in Pids |-> 0]

TableNext ==
    \/ create
    \/ \E image \in Images : create_user_image(image)
    \/ \E pid \in Pids : mark_user_exited(pid) \/ reap_user(pid)
    \/ \E parent \in Clients : wait_child(parent)
    \/ \E parent, child \in Clients, code \in ExitCodes : record_child_exit(parent, child, code)
    \/ run_next_ready \/ prepare_next_user

(* What the rest of the kernel may do with the table: start from the       *)
(* initialised one and change it through the operations of process.c only, *)
(* one at a time.  The loop of user_mode.c and the system calls keep to it *)
(* (UserMode implements this specification).                               *)
TableSpec == TableInit /\ [][TableNext]_table_vars

-----------------------------------------------------------------------------
(* Every variable keeps its type; the cursors stay inside the table.       *)
TableTypeOK ==
    /\ process_table \in [Slots -> Process]
    /\ page_stack \in Seq(Pages)
    /\ next_pid \in Pids
    /\ last_user_cr3 \in Pages \cup {NoPage}
    /\ kernel_cursor \in Slots
    /\ user_cursor \in Slots
    /\ child_status_queue \in Seq(Status)
    /\ drops \in Nat
    /\ waits \in Nat
    /\ records \in Nat
    /\ last_wait \in [Pids -> Nat]

(* No page is lost, shared or freed twice: each is on the stack of free    *)
(* pages or belongs to exactly one process, once.  Entries in use have all *)
(* their pages and unused ones none: creation gives everything back when   *)
(* it runs out of pages halfway, reaping releases all that creation took.  *)
NoRepeats(s) == \A j, k \in 1 .. Len(s) : s[j] = s[k] => j = k

PageOwnership ==
    /\ NoRepeats(page_stack)
    /\ \A i \in Slots :
         LET own == process_table[i].pages
         IN  /\ Len(own) = IF used(i) THEN PROCESS_PAGES ELSE 0
             /\ NoRepeats(own)
             /\ RangeOf(own) \cap RangeOf(page_stack) = {}
             /\ \A j \in Slots \ {i} : RangeOf(own) \cap RangeOf(process_table[j].pages) = {}
    /\ \A q \in Pages : \/ q \in RangeOf(page_stack)
                        \/ \E i \in Slots : q \in RangeOf(process_table[i].pages)

(* A pid names one process: entries in use have distinct pids, none of     *)
(* them 0, and the next one to be handed out is not among them.            *)
PidsDistinct ==
    \A i \in Slots : used(i) =>
        /\ process_table[i].pid \in 1 .. next_pid - 1
        /\ \A j \in Slots \ {i} : used(j) => process_table[j].pid # process_table[i].pid

(* Exit statuses are handed to each parent in the order of recording, and  *)
(* none is handed out twice; the queue stays within its capacity, and      *)
(* every record is still queued, was handed out, or is counted as dropped. *)
StatusQueueSound ==
    LET q == child_status_queue
    IN  /\ Len(q) <= CHILD_STATUS_QUEUE
        /\ records = Len(q) + waits + drops
        /\ \A i \in 1 .. Len(q) : q[i].n > last_wait[q[i].parent] /\ q[i].n <= records
        /\ \A i, j \in 1 .. Len(q) : i < j => q[i].n < q[j].n
=============================================================================
