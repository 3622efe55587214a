----------------------------- MODULE Ring3Proofs -----------------------------
(***************************************************************************)
(* The ring 3 discipline of module Ring3, for every number of process      *)
(* slots, every image tree and every command typed: theorem                *)
(* Ring3Disciplined.  Ring3Discipline is not inductive: EXIT can only be   *)
(* known to give the boot stack back if the value ring3_run_user_image     *)
(* saved is the boot stack, entering ring 3 only starts the right image if *)
(* the code page already holds it, and a command of the shell only leaves  *)
(* kernel_main alone if kernel_main is not where the two share state.  Core*)
(* adds these facts.  As Ring3Discipline, it is about behaviours in which  *)
(* no command ran while kernel_main was at one of these places.            *)
(*                                                                         *)
(* The process table of module Ring3 and what is shown of it, for every    *)
(* number of process slots, every image tree and every command typed:      *)
(* theorem Ring3TableAgrees.  The counters agree with the table only       *)
(* because every process is created in an UNUSED entry, entered once while *)
(* READY and ended once: Stages adds where in exec_spawn_with_args a caller*)
(* can be with an entry in which state, and that two callers never work on *)
(* the same entry.                                                         *)
(***************************************************************************)
EXTENDS Ring3, FiniteSetTheorems, WellFoundedInduction, TLAPS

(* The least element of a nonempty set of naturals is one of its elements. *)
LEMMA MinInSet ==
  ASSUME NEW S, S \subseteq Nat, S # {}
  PROVE  Min(S) \in S
<1>1. PICK x \in S : \A y \in S : ~(<<y, x>> \in OpToRel(<, Nat))
  BY NatLessThanWellFounded, WFMin, Zenon
<1>0. ASSUME NEW a \in Nat, NEW b \in Nat, a < b PROVE <<a, b>> \in OpToRel(<, Nat)
  BY <1>0, Zenon DEF OpToRel
<1>2. \A y \in S : x =< y
  <2>1. ASSUME NEW y \in S PROVE ~(y < x)
     BY <1>0, <1>1, Zenon
  <2>2. QED
     BY <2>1
<1>3. QED
  BY <1>2, ZenonT(40) DEF Min

-----------------------------------------------------------------------------
(* The fields of a process table entry, of a frame and of ring3_info.      *)
EntryFields == {"pid", "state", "path", "exit_code", "last_status", "runs", "argv", "files"}
FrameFields == {"pc", "slot", "path", "words", "stack"}
InfoFields == {"in_progress", "completed", "last_status", "previous_tss_esp0"}

(* What the records and tables look like; no more of their types is        *)
(* needed.                                                                 *)
Shape ==
    /\ DOMAIN process_table = Slots
    /\ \A s \in Slots : DOMAIN process_table[s] = EntryFields
    /\ DOMAIN frame = Callers
    /\ \A c \in Callers : DOMAIN frame[c] = FrameFields
    /\ DOMAIN ring3_info = InfoFields
    /\ ring3_info.in_progress \in BOOLEAN

(* While a command of the shell is executed, kernel_main is not between    *)
(* choosing a slot and filling it, nor between loading an image and its    *)
(* exit.                                                                   *)
Exclusion == frame["shell"].pc # "idle" => frame["boot"].pc \notin {"create", "enter", "user"}

(* From process_find_free_slot to the end of process_run a caller has a    *)
(* slot.                                                                   *)
HoldsSlot ==
    \A c \in Callers :
        frame[c].pc \in {"create", "load", "enter", "user", "resumed"} => frame[c].slot \in Slots

(* Between user_image_resolve and ring3_run_user_image the code page holds *)
(* the image of the process about to run.                                  *)
Loaded ==
    \A c \in Callers : frame[c].pc = "enter" => code_page = process_table[frame[c].slot].path

(* A caller whose program is in ring 3 owns the CPU state there is one of, *)
(* and the boot stack is what EXIT will give back to the TSS.              *)
UserOwns ==
    \A c \in Callers : frame[c].pc = "user" =>
        /\ current_process = frame[c].slot
        /\ process_table[frame[c].slot].state = "RUNNING"
        /\ code_page = process_table[frame[c].slot].path
        /\ ring3_info.in_progress = TRUE
        /\ ring3_info.previous_tss_esp0 = "boot"
        /\ esp0 = "syscall"
        /\ saved_kernel_esp = c

(* Only the process whose program is in ring 3 is RUNNING.                 *)
RunningInUser ==
    \A s \in Slots : process_table[s].state = "RUNNING" =>
        \E c \in Callers : frame[c].pc = "user" /\ frame[c].slot = s

(* With no program in ring 3 there is no run in progress, the TSS has the  *)
(* boot stack and no process is current.                                   *)
NobodyOwns ==
    (\A c \in Callers : frame[c].pc # "user") =>
        /\ ring3_info.in_progress = FALSE
        /\ esp0 = "boot"
        /\ (\A c \in Callers : frame[c].pc # "resumed") => current_process = NoSlot

(* The inductive invariant.                                                *)
Core == Shape /\ Exclusion /\ HoldsSlot /\ Loaded /\ UserOwns /\ RunningInUser /\ NobodyOwns

IInv == ~overlapped => Core

USE DEF Callers, NoSlot

(* Slots are positive numbers: NoSlot is none of them.                     *)
LEMMA SlotsAreNumbers == Slots \subseteq Nat /\ 0 \notin Slots
  BY Ring3Assumption DEF Slots

(* process_find_free_slot answers with the number of an UNUSED entry, or   *)
(* with NoSlot.                                                            *)
LEMMA FreeSlot ==
  ASSUME process_find_free_slot # NoSlot
  PROVE  /\ process_find_free_slot \in Slots
         /\ process_table[process_find_free_slot].state = "UNUSED"
<1> DEFINE free == {s \in Slots : process_table[s].state = "UNUSED"}
<1>1. process_find_free_slot = IF free = {} THEN NoSlot ELSE Min(free)
  BY Zenon DEF process_find_free_slot
<1>2. free # {}
  BY <1>1, Zenon
<1>3. Min(free) \in free
  BY <1>2, SlotsAreNumbers, MinInSet, Zenon
<1>4. QED
  BY <1>1, <1>2, <1>3, Zenon

(* The invariant holds after boot.                                         *)
LEMMA CoreInit == Init => IInv
  BY SlotsAreNumbers DEF Init, IInv, Core, Shape, Exclusion, HoldsSlot, Loaded, UserOwns,
     RunningInUser, NobodyOwns, Idle, Unused, EntryFields, FrameFields, InfoFields

(* The invariant implies the discipline.                                   *)
LEMMA CoreGivesDiscipline == IInv => Ring3Discipline
  BY DEF IInv, Core, Shape, Exclusion, UserOwns, RunningInUser, NobodyOwns, Ring3Discipline, InUser, AtPc, Runs

(* process_find_free_slot preserves the invariant.                         *)
LEMMA FindSlotCore ==
  ASSUME Core, NEW c \in Callers, FindSlot(c)
  PROVE  Core'
  BY FreeSlot DEF Core, Shape, Exclusion, HoldsSlot, Loaded, UserOwns, RunningInUser, NobodyOwns,
    FindSlot, AtPc, Runs, Returned, process_vars, ring3_vars, EntryFields, FrameFields, InfoFields

(* process_create preserves the invariant.                                 *)
LEMMA CreateCore ==
  ASSUME Core, NEW c \in Callers, Create(c)
  PROVE  Core'
  BY DEF Core, Shape, Exclusion, HoldsSlot, Loaded, UserOwns, RunningInUser, NobodyOwns,
    Create, process_create, Unused, AtPc, Runs, ring3_vars, EntryFields, FrameFields, InfoFields

(* A caller in kernel code is alone: no program is in ring 3, nobody else  *)
(* is about to enter it, and so nothing is RUNNING.                        *)
LEMMA Alone ==
  ASSUME Core, NEW c \in Callers, Runs(c), frame[c].pc \notin {"idle", "user"}
  PROVE  /\ \A d \in Callers : frame[d].pc # "user"
         /\ \A d \in Callers : d # c => frame[d].pc # "enter"
         /\ \A s \in Slots : process_table[s].state # "RUNNING"
         /\ ring3_info.in_progress = FALSE
         /\ esp0 = "boot"
  BY DEF Core, Exclusion, UserOwns, RunningInUser, NobodyOwns, Runs

(* The first part of process_run, up to user_image_resolve, preserves the  *)
(* invariant.                                                              *)
LEMMA LoadCore ==
  ASSUME Core, NEW c \in Callers, Load(c)
  PROVE  Core'
<1> DEFINE s == frame[c].slot
           image == ImageLoad[process_table[s].path]
           status == IF image.status = "OK" THEN ring3_load_user_image(image.bytes)
                     ELSE image.status
           run == process_table[s].state \in {"READY", "EXITED"}
           ok == run /\ status = "OK"
<1>0. /\ Runs(c) /\ frame[c].pc = "load" /\ s \in Slots
      /\ ring3_info' = IF run /\ image.status = "OK"
                       THEN [ring3_info EXCEPT !.last_status = status]
                       ELSE ring3_info
      /\ UNCHANGED <<current_process, esp0, saved_kernel_esp>>
  BY ZenonT(40) DEF Load, AtPc, Core, HoldsSlot
<1>1. /\ \A d \in Callers : frame[d].pc # "user"
      /\ \A d \in Callers : d # c => frame[d].pc # "enter"
      /\ \A t \in Slots : process_table[t].state # "RUNNING"
      /\ ring3_info.in_progress = FALSE
      /\ esp0 = "boot"
  BY <1>0, Alone, ZenonT(40)
<1>2. /\ DOMAIN ring3_info' = InfoFields
      /\ ring3_info'.in_progress = FALSE
  <2> HIDE DEF status, image, run
  <2> QED
    BY <1>0, <1>1, Zenon DEF Core, Shape, InfoFields
<1>3. /\ DOMAIN process_table' = Slots
      /\ \A t \in Slots : /\ DOMAIN process_table'[t] = EntryFields
                          /\ process_table'[t].path = process_table[t].path
                          /\ process_table'[t].state # "RUNNING"
  <2>1. CASE ok
    BY <2>1, <1>1, ZenonT(40) DEF Load, Core, Shape
  <2>2. CASE ~ok
    <3>1. process_table' = IF ~run THEN process_table
                           ELSE [process_table EXCEPT ![s].state = "FAILED",
                                                      ![s].last_status = status]
      BY <2>2, ZenonT(40) DEF Load
    <3> HIDE DEF status, image, run, s
    <3>2. QED
      BY <1>0, <1>1, <3>1, Zenon DEF Core, Shape, EntryFields
  <2>3. QED
    BY <2>1, <2>2, Zenon
<1>4. \/ frame' = [frame EXCEPT ![c].pc = "enter"] /\ code_page' = process_table[s].path
      \/ frame' = [frame EXCEPT ![c].pc = "returned"]
  BY ZenonT(40) DEF Load, Returned
<1> HIDE DEF status, image, run, ok
<1>5. Exclusion'
  BY <1>0, <1>4, Zenon DEF Core, Shape, Exclusion, Runs, FrameFields
<1>6. HoldsSlot' /\ Loaded'
  BY <1>0, <1>1, <1>3, <1>4 DEF Core, Shape, HoldsSlot, Loaded, FrameFields
<1>7. QED
  BY <1>0, <1>1, <1>2, <1>3, <1>4, <1>5, <1>6
     DEF Core, Shape, UserOwns, RunningInUser, NobodyOwns, FrameFields

(* The end of process_run leaves no RUNNING entry and no current process,  *)
(* and changes no path.                                                    *)
LEMMA EntryAfterRun ==
  ASSUME Shape, NEW s \in Slots, NEW p, NEW status, RunEnds(s, p, status),
         DOMAIN p = EntryFields, p.path = process_table[s].path, 
         \A t \in Slots : process_table[t].state # "RUNNING"
  PROVE  /\ DOMAIN process_table' = Slots
         /\ \A t \in Slots : /\ DOMAIN process_table'[t] = EntryFields
                             /\ process_table'[t].path = process_table[t].path
                             /\ process_table'[t].state # "RUNNING"
         /\ current_process' = NoSlot
  BY Zenon DEF RunEnds, Shape, EntryFields

(* Entering ring 3, or being refused it, preserves the invariant.          *)
LEMMA EnterCore ==
  ASSUME Core, NEW c \in Callers, Enter(c)
  PROVE  Core'
<1> DEFINE s == frame[c].slot
           p == Running(process_table[s])
<1>0. Runs(c) /\ frame[c].pc = "enter" /\ s \in Slots /\ code_page' = code_page
  BY Zenon DEF Enter, AtPc, Core, HoldsSlot
<1>1. /\ \A d \in Callers : frame[d].pc # "user"
      /\ \A d \in Callers : d # c => frame[d].pc # "enter"
      /\ \A t \in Slots : process_table[t].state # "RUNNING"
      /\ ring3_info.in_progress = FALSE
      /\ esp0 = "boot"
  BY <1>0, Alone, ZenonT(40)
<1>2. /\ DOMAIN p = EntryFields
      /\ p.path = process_table[s].path
      /\ p.state = "RUNNING"
  BY <1>0, Zenon DEF Running, Core, Shape, EntryFields
<1> HIDE DEF p
<1>3. CASE ring3_info.last_status = "OK"
  <2>1. /\ process_table' = [process_table EXCEPT ![s] = p]
        /\ current_process' = s
        /\ ring3_info' = [ring3_info EXCEPT !.in_progress = TRUE, !.completed = FALSE,
                                            !.previous_tss_esp0 = esp0]
        /\ esp0' = "syscall"
        /\ saved_kernel_esp' = c
        /\ frame' = [frame EXCEPT ![c].pc = "user"]
    BY <1>3, Zenon DEF Enter, p
  <2>2. /\ DOMAIN process_table' = Slots /\ process_table'[s] = p
        /\ \A t \in Slots : t # s => process_table'[t] = process_table[t]
    BY <1>0, <2>1, Zenon DEF Core, Shape
  <2>3. /\ DOMAIN frame' = Callers
        /\ \A d \in Callers : /\ DOMAIN frame'[d] = FrameFields
                              /\ frame'[d].slot = frame[d].slot
                              /\ frame'[d].pc = IF d = c THEN "user" ELSE frame[d].pc
    BY <2>1, Zenon DEF Core, Shape, FrameFields
  <2>4. /\ DOMAIN ring3_info' = InfoFields
        /\ ring3_info'.in_progress = TRUE /\ ring3_info'.previous_tss_esp0 = "boot"
    BY <1>1, <2>1, Zenon DEF Core, Shape, InfoFields
  <2>5. Shape'
    BY <1>2, <2>2, <2>3, <2>4, Zenon DEF Core, Shape
  <2>6. Exclusion' /\ HoldsSlot'
    BY <1>0, <2>3, Zenon DEF Core, Exclusion, HoldsSlot, Runs
  <2>7. Loaded'
    BY <1>1, <2>3, Zenon DEF Loaded
  <2>8. UserOwns'
    <3>1. code_page = p.path
      BY <1>0, <1>2, Zenon DEF Core, Loaded
    <3>2. QED
      BY <1>0, <1>1, <1>2, <2>1, <2>2, <2>3, <2>4, <3>1, Zenon DEF UserOwns
  <2>9. RunningInUser'
    BY <1>1, <2>2, <2>3, Zenon DEF RunningInUser
  <2>10. NobodyOwns'
    BY <2>3, Zenon DEF NobodyOwns
  <2>11. QED
    BY <2>5, <2>6, <2>7, <2>8, <2>9, <2>10, Zenon DEF Core
<1>4. CASE ring3_info.last_status # "OK"
  <2>1. /\ RunEnds(s, p, ring3_info.last_status)
        /\ frame' = [frame EXCEPT ![c].pc = "returned"]
        /\ UNCHANGED <<ring3_info, esp0, saved_kernel_esp>>
    BY <1>4, Zenon DEF Enter, p, Returned
  <2>2. /\ DOMAIN process_table' = Slots
        /\ \A t \in Slots : /\ DOMAIN process_table'[t] = EntryFields
                            /\ process_table'[t].path = process_table[t].path
                            /\ process_table'[t].state # "RUNNING"
        /\ current_process' = NoSlot
    BY <1>0, <1>1, <1>2, <2>1, EntryAfterRun, Zenon DEF Core
  <2>3. QED
    BY <1>0, <1>1, <2>1, <2>2, Zenon
       DEF Core, Shape, Exclusion, HoldsSlot, Loaded, UserOwns, RunningInUser, NobodyOwns,
           Runs, FrameFields
<1>5. QED
  BY <1>3, <1>4, Zenon

(* The return of ring3_run_user_image to process_run preserves the         *)
(* invariant.                                                              *)
LEMMA ReturnCore ==
  ASSUME Core, NEW c \in Callers, Return(c)
  PROVE  Core'
<1> DEFINE s == frame[c].slot
           status == IF ring3_info.completed THEN "OK" ELSE "INVALID_STATE"
<1>0. Runs(c) /\ frame[c].pc = "resumed" /\ s \in Slots
  BY Zenon DEF Return, AtPc, Core, HoldsSlot
<1>1. /\ \A d \in Callers : frame[d].pc # "user"
      /\ \A t \in Slots : process_table[t].state # "RUNNING"
      /\ ring3_info.in_progress = FALSE
      /\ esp0 = "boot"
  BY <1>0, Alone, ZenonT(40)
<1>2. /\ ring3_info' = [ring3_info EXCEPT !.last_status = status,
                           !.in_progress = @ /\ ring3_info.completed]
      /\ RunEnds(s, process_table[s], status)
      /\ frame' = [frame EXCEPT ![c].pc = "returned"]
      /\ UNCHANGED <<code_page, esp0, saved_kernel_esp>>
  BY Zenon DEF Return, Returned
<1> HIDE DEF status
<1>3. DOMAIN ring3_info' = InfoFields /\ ring3_info'.in_progress = FALSE
  BY <1>1, <1>2, Zenon DEF Core, Shape, InfoFields
<1>4. /\ DOMAIN process_table' = Slots
      /\ \A t \in Slots : /\ DOMAIN process_table'[t] = EntryFields
                          /\ process_table'[t].path = process_table[t].path
                          /\ process_table'[t].state # "RUNNING"
      /\ current_process' = NoSlot
  BY <1>0, <1>1, <1>2, EntryAfterRun, Zenon DEF Core, Shape
<1>5. QED
  BY <1>0, <1>1, <1>2, <1>3, <1>4
     DEF Core, Shape, Exclusion, HoldsSlot, Loaded, UserOwns, RunningInUser, NobodyOwns,
         Runs, FrameFields

(* Steps that keep the states and paths of all entries, and everything     *)
(* there is one of, preserve the invariant.                                *)
LEMMA TableKept ==
  ASSUME Core, UNCHANGED <<frame, current_process, ring3_vars>>,
         DOMAIN process_table' = Slots,
         \A s \in Slots : /\ DOMAIN process_table'[s] = EntryFields
                          /\ process_table'[s].path = process_table[s].path
                          /\ process_table'[s].state = process_table[s].state
  PROVE  Core'
  BY DEF Core, Shape, Exclusion, HoldsSlot, Loaded, UserOwns, RunningInUser, NobodyOwns, ring3_vars

(* What is known when a program makes a system call.                       *)
LEMMA InUserFacts ==
  ASSUME Core, NEW c \in Callers, SystemCall(c)
  PROVE  /\ Runs(c) /\ frame[c].pc = "user"
         /\ current_process = frame[c].slot /\ current_process \in Slots
         /\ saved_kernel_esp = c
         /\ ring3_info.previous_tss_esp0 = "boot" /\ ring3_info.in_progress = TRUE
         /\ \A d \in Callers : d # c => frame[d].pc \notin {"user", "enter"}
         /\ process_table[current_process].state = "RUNNING"
         /\ \A s \in Slots : s # current_process => process_table[s].state # "RUNNING"
  BY DEF Core, Exclusion, HoldsSlot, UserOwns, RunningInUser, SystemCall, InUser, AtPc, Runs

(* A system call that only changes the open files of the current process   *)
(* preserves the invariant.                                                *)
LEMMA FilesCore ==
  ASSUME Core, NEW c \in Callers, SystemCall(c), OnlyTable, NEW files,
         process_table' = [process_table EXCEPT ![current_process].files = files]
  PROVE  Core'
<1>1. current_process \in Slots
  BY InUserFacts, Zenon
<1>2. /\ DOMAIN process_table' = Slots
      /\ \A s \in Slots : /\ DOMAIN process_table'[s] = EntryFields
                          /\ process_table'[s].path = process_table[s].path
                          /\ process_table'[s].state = process_table[s].state
  BY <1>1, Zenon DEF Core, Shape, EntryFields
<1>3. QED
  BY <1>2, TableKept, Zenon DEF OnlyTable

(* OPEN preserves the invariant.                                           *)
LEMMA SysOpenCore ==
  ASSUME Core, NEW c \in Callers, NEW path, SysOpen(c, path)
  PROVE  Core'
<1>1. PICK d, f : process_table' = [process_table EXCEPT ![current_process].files[d] = f]
  BY Zenon DEF SysOpen, fd_table_open_current
<1>2. QED
  BY <1>1, FilesCore, Zenon DEF SysOpen

(* READ preserves the invariant.                                           *)
LEMMA SysReadCore ==
  ASSUME Core, NEW c \in Callers, NEW d, NEW length, SysRead(c, d, length)
  PROVE  Core'
<1>1. PICK f : process_table' = [process_table EXCEPT ![current_process].files[d].offset = f]
  BY Zenon DEF SysRead, fd_table_read_current
<1>2. QED
  BY <1>1, FilesCore, Zenon DEF SysRead

(* CLOSE preserves the invariant.                                          *)
LEMMA SysCloseCore ==
  ASSUME Core, NEW c \in Callers, NEW d, SysClose(c, d)
  PROVE  Core'
<1>1. process_table' = [process_table EXCEPT ![current_process].files[d] = Closed]
  BY Zenon DEF SysClose, fd_table_close_current
<1>2. QED
  BY <1>1, FilesCore, ZenonT(40) DEF SysClose

(* EXEC preserves the invariant: the entry it fills is not the one         *)
(* running.                                                                *)
LEMMA SysExecCore ==
  ASSUME Core, NEW c \in Callers, NEW path, NEW words, SysExec(c, path, words)
  PROVE  Core'
<1> DEFINE n == process_find_free_slot
<1>1. /\ SystemCall(c) /\ n # NoSlot /\ process_create(n, path, words)
      /\ UNCHANGED <<current_process, ring3_vars, frame>>
  BY Zenon DEF SysExec
<1>2. n \in Slots /\ process_table[n].state = "UNUSED"
  BY <1>1, FreeSlot, Zenon
<1>3. n # current_process
  BY <1>1, <1>2, InUserFacts, Zenon
<1> HIDE DEF n
<1>4. /\ DOMAIN process_table' = Slots
      /\ \A s \in Slots : /\ DOMAIN process_table'[s] = EntryFields
                          /\ s # n => process_table'[s] = process_table[s]
      /\ process_table'[n].state = "READY"
  BY <1>1, <1>2, Zenon DEF process_create, Unused, Core, Shape, EntryFields
<1>5. /\ frame[c].pc = "user" /\ frame[c].slot = current_process
      /\ current_process \in Slots
      /\ \A d \in Callers : d # c => frame[d].pc \notin {"user", "enter"}
  BY <1>1, InUserFacts, ZenonT(40)
<1>6. (Shape /\ Exclusion /\ HoldsSlot /\ NobodyOwns)'
  BY <1>1, <1>4, Zenon DEF Core, Shape, Exclusion, HoldsSlot, NobodyOwns, ring3_vars
<1>7. (Loaded /\ UserOwns)'
  BY <1>1, <1>3, <1>4, <1>5 DEF Core, Loaded, UserOwns, ring3_vars
<1>8. RunningInUser'
  BY <1>1, <1>2, <1>4 DEF Core, RunningInUser
<1>9. QED
  BY <1>6, <1>7, <1>8, Zenon DEF Core

(* EXIT preserves the invariant: it resumes the caller that started the    *)
(* program and gives the boot stack back.                                  *)
LEMMA SysExitCore ==
  ASSUME Core, NEW c \in Callers, NEW code, SysExit(c, code)
  PROVE  Core'
<1> DEFINE s == current_process
<1>1. /\ SystemCall(c)
      /\ process_mark_exit(s, code)
      /\ ring3_info' = EntryEnds
      /\ esp0' = ring3_info.previous_tss_esp0
      /\ frame' = [frame EXCEPT ![saved_kernel_esp].pc = "resumed"]
      /\ UNCHANGED <<current_process, code_page, saved_kernel_esp>>
  BY Zenon DEF SysExit
<1>2. /\ Runs(c) /\ frame[c].pc = "user"
      /\ s = frame[c].slot /\ s \in Slots
      /\ saved_kernel_esp = c
      /\ ring3_info.previous_tss_esp0 = "boot" /\ ring3_info.in_progress = TRUE
      /\ \A d \in Callers : d # c => frame[d].pc \notin {"user", "enter"}
      /\ \A t \in Slots : t # s => process_table[t].state # "RUNNING"
  BY <1>1, InUserFacts, ZenonT(40)
<1>3. process_table' = [process_table EXCEPT ![s].exit_code = code, ![s].state = "EXITED"]
  BY <1>1, <1>2, SlotsAreNumbers, Zenon DEF process_mark_exit
<1>4. /\ DOMAIN process_table' = Slots
      /\ \A t \in Slots : /\ DOMAIN process_table'[t] = EntryFields
                          /\ process_table'[t].path = process_table[t].path
                          /\ process_table'[t].state # "RUNNING"
  BY <1>2, <1>3, ZenonT(60) DEF Core, Shape, EntryFields
<1>5. DOMAIN ring3_info' = InfoFields /\ ring3_info'.in_progress = FALSE
  BY <1>1, <1>2, Zenon DEF EntryEnds, Core, Shape, InfoFields
<1>6. /\ DOMAIN frame' = Callers
      /\ \A d \in Callers : /\ DOMAIN frame'[d] = FrameFields
                            /\ frame'[d].slot = frame[d].slot
                            /\ frame'[d].pc = IF d = c THEN "resumed" ELSE frame[d].pc
  BY <1>1, <1>2, Zenon DEF Core, Shape, FrameFields
<1>7. (Shape /\ Exclusion /\ HoldsSlot)'
  BY <1>2, <1>4, <1>5, <1>6, ZenonT(40) DEF Core, Shape, Exclusion, HoldsSlot, Runs
<1>8. (Loaded /\ UserOwns /\ RunningInUser)'
  BY <1>2, <1>4, <1>6 DEF Loaded, UserOwns, RunningInUser
<1>9. NobodyOwns'
  BY <1>1, <1>2, <1>5, <1>6, Zenon DEF NobodyOwns
<1>10. QED
  BY <1>7, <1>8, <1>9, Zenon DEF Core

(* kernel_main's call of exec_start_init preserves the invariant.          *)
LEMMA BootStartsInitCore == ASSUME Core, BootStartsInit PROVE Core'
  BY Zenon DEF Core, Shape, Exclusion, HoldsSlot, Loaded, UserOwns, RunningInUser, NobodyOwns,
         BootStartsInit, AtPc, Runs, Call, process_vars, ring3_vars, FrameFields

(* kernel_main's arrival at the halt loop preserves the invariant.         *)
LEMMA BootEndsCore == ASSUME Core, BootEnds PROVE Core'
  BY Zenon DEF Core, Shape, Exclusion, HoldsSlot, Loaded, UserOwns, RunningInUser, NobodyOwns,
         BootEnds, AtPc, Runs, process_vars, ring3_vars, FrameFields

(* The end of a command preserves the invariant.                           *)
LEMMA ShellDoneCore == ASSUME Core, ShellDone PROVE Core'
  BY Zenon DEF Core, Shape, Exclusion, HoldsSlot, Loaded, UserOwns, RunningInUser, NobodyOwns,
         ShellDone, AtPc, Runs, Idle, process_vars, ring3_vars, FrameFields

(* A command that runs a program preserves the invariant if it does not    *)
(* overlap the run of /sbin/init.                                          *)
LEMMA EnterExecCore ==
  ASSUME Core, NEW path, NEW words, EnterExec(path, words), ~overlapped'
  PROVE  Core'
  BY ZenonT(40) DEF Core, Shape, Exclusion, HoldsSlot, Loaded, UserOwns, RunningInUser, NobodyOwns,
         EnterExec, Key, Call, process_vars, ring3_vars, FrameFields

(* Steps that change none of the variables the invariant reads preserve    *)
(* it.                                                                     *)
LEMMA KeptCore == ASSUME Core, UNCHANGED <<process_vars, ring3_vars, frame>> PROVE Core'
  BY DEF Core, Shape, Exclusion, HoldsSlot, Loaded, UserOwns, RunningInUser, NobodyOwns,
         process_vars, ring3_vars

(* Every step preserves the invariant.                                     *)
LEMMA CoreNext == IInv /\ [Next]_vars => IInv'
<1> SUFFICES ASSUME IInv, [Next]_vars, ~overlapped'
             PROVE  Core'
  BY Zenon DEF IInv
<1>1. CASE UNCHANGED vars
  BY <1>1, KeptCore, Zenon DEF IInv, vars
<1>2. ASSUME Next PROVE ~overlapped
  BY <1>2, ZenonT(40) DEF Next, KernelStep, ProgramStep, ProgramExits, Keyboard, FindSlot, Create, Load, Enter,
     Return, Clobber, SysOpen, SysRead, SysClose, SysExec, Fault, SysExit, OnlyTable,
     BootStartsInit, BootEnds, ShellDone, TypeCharacter, Backspace, EnterPrinting,
     EnterReboot, EnterExec
<1>3. ASSUME Next PROVE Core
  BY <1>2, <1>3, Zenon DEF IInv
<1>4. CASE \E c \in Callers : KernelStep(c)
  <2>1. PICK c \in Callers : KernelStep(c)
    BY <1>4, Zenon
  <2>2. Core
    BY <1>3, <2>1, Zenon DEF Next
  <2>3. QED
    BY <2>1, <2>2, FindSlotCore, CreateCore, LoadCore, EnterCore, ReturnCore, KeptCore, Zenon
       DEF KernelStep, Clobber
<1>5. CASE \E c \in Callers : ProgramStep(c)
  <2>1. PICK c \in Callers : ProgramStep(c)
    BY <1>5, Zenon
  <2>2. Core
    BY <1>3, <2>1, Zenon DEF Next
  <2>3. QED
    BY <2>1, <2>2, SysOpenCore, SysReadCore, SysCloseCore, SysExecCore, KeptCore, Zenon
       DEF ProgramStep, Fault
<1>6. CASE \E c \in Callers : ProgramExits(c)
  <2>1. PICK c \in Callers : ProgramExits(c)
    BY <1>6, Zenon
  <2>2. Core
    BY <1>3, <2>1, Zenon DEF Next
  <2>3. QED
    BY <2>1, <2>2, SysExitCore, Zenon DEF ProgramExits
<1>7. CASE BootStartsInit \/ BootEnds \/ ShellDone
  BY <1>3, <1>7, BootStartsInitCore, BootEndsCore, ShellDoneCore, Zenon DEF Next
<1>8. CASE Keyboard
  <2>1. Core
    BY <1>3, <1>8, Zenon DEF Next
  <2>2. QED
    BY <1>8, <2>1, EnterExecCore, KeptCore, Zenon
       DEF Keyboard, TypeCharacter, Backspace, EnterPrinting, EnterReboot
<1>9. QED
  BY <1>1, <1>4, <1>5, <1>6, <1>7, <1>8, Zenon DEF Next

(* While no command overlaps the run of /sbin/init, ring3.c and process.c  *)
(* keep the one code page, kernel stack pointer, current process and TSS   *)
(* stack for the program in ring 3, and give all of them back when it      *)
(* exits.                                                                  *)
THEOREM Ring3Disciplined == Spec => []Ring3Discipline
<1>1. Init => IInv
  BY CoreInit, Zenon
<1>2. IInv /\ [Next]_vars => IInv'
  BY CoreNext, Zenon
<1>3. IInv => Ring3Discipline
  BY CoreGivesDiscipline, Zenon
<1>4. QED
  BY <1>1, <1>2, <1>3, PTL DEF Spec

-----------------------------------------------------------------------------
(* The process table and what is shown of it.                              *)

(* The fields of process_info.                                             *)
ExitFields == {"exit_count", "failed_processes", "successful_runs", "failed_runs", "last_exit"}

(* The state of an entry tells how far its caller has come, and two        *)
(* callers never have the same entry.                                      *)
Stages ==
    /\ \A c \in Callers :
          /\ frame[c].pc = "create" => process_table[frame[c].slot].state = "UNUSED"
          /\ frame[c].pc \in {"load", "enter"} => process_table[frame[c].slot].state = "READY"
          /\ frame[c].pc = "resumed" => process_table[frame[c].slot].state = "EXITED"
    /\ \A c, d \in Callers :
          /\ frame[c].pc \in {"create", "load", "enter", "user", "resumed"}
          /\ frame[d].pc \in {"create", "load", "enter", "user", "resumed"}
          /\ frame[c].slot = frame[d].slot
          => c = d

(* Counters are numbers.                                                   *)
Numbers ==
    /\ DOMAIN process_info = ExitFields
    /\ process_info.exit_count \in Nat /\ process_info.failed_processes \in Nat
    /\ next_pid \in Nat \ {0} /\ process_count \in Int

(* The three counters are the numbers of entries in the states they count. *)
Counters ==
    /\ process_count = PROCESS_MAX_PROCESSES - Count("UNUSED")
    /\ process_info.exit_count = Count("EXITED")
    /\ process_info.failed_processes = Count("FAILED")

(* Entries in use have distinct pids that were given out; the others have  *)
(* none.                                                                   *)
Pids ==
    /\ \A s \in Slots : process_table[s].state = "UNUSED" => process_table[s].pid = 0
    /\ \A s \in Slots : process_table[s].state # "UNUSED" => process_table[s].pid \in 1 .. next_pid - 1
    /\ \A s, t \in Slots : /\ process_table[s].state # "UNUSED"
                           /\ process_table[t].pid = process_table[s].pid
                           => s = t

(* The last exit shown is the exit of the entry with its pid.              *)
LastExit ==
    process_info.last_exit # NoExit =>
       \E s \in Slots :
          /\ process_table[s].pid = process_info.last_exit.pid
          /\ process_table[s].exit_code = process_info.last_exit.code
          /\ process_table[s].state \in {"EXITED", "FAILED"}

Books == Numbers /\ Counters /\ Pids /\ LastExit

(* The inductive invariant.                                                *)
TInv == ~overlapped => Core /\ Stages /\ Books

-----------------------------------------------------------------------------
(* There are finitely many slots, so the entries in a state can be         *)
(* counted.                                                                *)
LEMMA CountFacts ==
  /\ IsFiniteSet(Slots) /\ Cardinality(Slots) = PROCESS_MAX_PROCESSES
  /\ \A state : IsFiniteSet({s \in Slots : process_table[s].state = state}) /\ Count(state) \in Nat
<1>1. IsFiniteSet(Slots) /\ Cardinality(Slots) = PROCESS_MAX_PROCESSES
  BY FS_Interval, Ring3Assumption DEF Slots
<1>2. ASSUME NEW state
      PROVE  IsFiniteSet({s \in Slots : process_table[s].state = state}) /\ Count(state) \in Nat
  <2> DEFINE S == {s \in Slots : process_table[s].state = state}
  <2>1. IsFiniteSet(S)
    BY <1>1, FS_Subset, Zenon
  <2>2. Cardinality(S) \in Nat
    BY <2>1, FS_CardinalityType, Zenon
  <2>3. QED
    BY <2>1, <2>2, Zenon DEF Count
<1>3. QED
  BY <1>1, <1>2, Zenon

(* When one entry changes its state, one count grows by one and one        *)
(* shrinks by one.                                                         *)
LEMMA CountMoves ==
  ASSUME NEW s \in Slots, process_table'[s].state # process_table[s].state,
         \A t \in Slots : t # s => process_table'[t].state = process_table[t].state,
         NEW state
  PROVE  Count(state)' = Count(state) + (IF process_table'[s].state = state THEN 1 ELSE 0)
                                      - (IF process_table[s].state = state THEN 1 ELSE 0)
<1> DEFINE A == {t \in Slots : process_table[t].state = state}
           B == {t \in Slots : process_table'[t].state = state}
<1>1. /\ IsFiniteSet(A) /\ Cardinality(A) \in Nat
      /\ Count(state) = Cardinality(A) /\ Count(state)' = Cardinality(B)
  BY CountFacts, ZenonT(40) DEF Count
<1>2. CASE process_table'[s].state = state
  <2>1. B = A \cup {s} /\ s \notin A
    BY <1>2, Zenon
  <2> HIDE DEF A, B
  <2>2. Cardinality(B) = Cardinality(A) + 1
    BY <1>1, <2>1, FS_AddElement, ZenonT(40)
  <2>3. QED
    BY <1>1, <1>2, <2>2
<1>3. CASE process_table[s].state = state
  <2>1. B = A \ {s} /\ s \in A
    BY <1>3
  <2> HIDE DEF A, B
  <2>2. Cardinality(B) = Cardinality(A) - 1
    BY <1>1, <2>1, FS_RemoveElement, ZenonT(40)
  <2>3. QED
    BY <1>1, <1>3, <2>2
<1>4. CASE process_table'[s].state # state /\ process_table[s].state # state
  <2>1. B = A
    BY <1>4, Zenon
  <2> HIDE DEF A, B
  <2>2. QED
    BY <1>1, <1>4, <2>1
<1>5. QED
  BY <1>2, <1>3, <1>4, Zenon

(* Steps that keep the entries and the counters keep the books.            *)
LEMMA BooksKept ==
  ASSUME Books, UNCHANGED <<next_pid, process_count>>,
         DOMAIN process_info' = ExitFields,
         process_info'.exit_count = process_info.exit_count,
         process_info'.failed_processes = process_info.failed_processes,
         process_info'.last_exit = process_info.last_exit,
         \A s \in Slots : /\ process_table'[s].state = process_table[s].state
                          /\ process_table'[s].pid = process_table[s].pid
                          /\ process_table'[s].exit_code = process_table[s].exit_code
  PROVE  Books'
<1>1. Numbers' /\ Pids' /\ LastExit'
  BY DEF Books, Numbers, Pids, LastExit
<1>2. ASSUME NEW state PROVE Count(state)' = Count(state)
  <2>1. {s \in Slots : process_table'[s].state = state} = {s \in Slots : process_table[s].state = state}
    BY Zenon
  <2>2. QED
    BY <2>1, ZenonT(40) DEF Count
<1>3. Counters'
  BY <1>2, Zenon DEF Books, Counters
<1>4. QED
  BY <1>1, <1>3, Zenon DEF Books

(* A process that starts to run, exits or fails keeps the books when the   *)
(* counter of its new state grows by one and the last exit, if it is       *)
(* replaced, is its own.                                                   *)
LEMMA BooksAfterMove ==
  ASSUME Books, NEW s \in Slots, NEW b \in {"RUNNING", "EXITED", "FAILED"},
         process_table[s].state \in {"READY", "RUNNING"},
         process_table[s].state # b,
         process_table'[s].state = b,
         process_table'[s].pid = process_table[s].pid,
         \A t \in Slots : t # s => process_table'[t] = process_table[t],
         UNCHANGED <<next_pid, process_count>>,
         DOMAIN process_info' = ExitFields,
         process_info'.exit_count = process_info.exit_count + (IF b = "EXITED" THEN 1 ELSE 0),
         process_info'.failed_processes = process_info.failed_processes + (IF b = "FAILED" THEN 1 ELSE 0),
         \/ process_info'.last_exit = process_info.last_exit
         \/ /\ b # "RUNNING"
            /\ process_info'.last_exit.pid = process_table[s].pid
            /\ process_info'.last_exit.code = process_table'[s].exit_code
  PROVE  Books'
<1>1. Numbers'
  BY DEF Books, Numbers
<1>2. Counters'
  <2>1. \A state : Count(state)' = Count(state) + (IF b = state THEN 1 ELSE 0)
                                                - (IF process_table[s].state = state THEN 1 ELSE 0)
    BY CountMoves, Zenon
  <2>2. \A state : Count(state) \in Nat
    BY CountFacts, ZenonT(40)
  <2>3. /\ Count("UNUSED")' = Count("UNUSED")
        /\ Count("EXITED")' = Count("EXITED") + (IF b = "EXITED" THEN 1 ELSE 0)
        /\ Count("FAILED")' = Count("FAILED") + (IF b = "FAILED" THEN 1 ELSE 0)
    BY <2>1, <2>2
  <2>4. QED
    BY <2>3, Zenon DEF Books, Counters
<1>3. Pids'
  BY DEF Books, Pids
<1>4. LastExit'
  BY Zenon DEF Books, LastExit
<1>5. QED
  BY <1>1, <1>2, <1>3, <1>4, Zenon DEF Books

(* process_create on an UNUSED entry keeps the books.                      *)
LEMMA BooksAfterCreate ==
  ASSUME Books, Core, NEW s \in Slots, NEW path, NEW words, process_create(s, path, words),
         process_table[s].state = "UNUSED",
         UNCHANGED process_info
  PROVE  Books'
<1>1. /\ process_table'[s].state = "READY"
      /\ process_table'[s].pid = next_pid
      /\ \A t \in Slots : t # s => process_table'[t] = process_table[t]
      /\ next_pid' = next_pid + 1
      /\ process_count' = process_count + 1
  BY Zenon DEF process_create, Unused, Core, Shape
<1>2. Numbers'
  BY <1>1 DEF Books, Numbers
<1>3. Counters'
  <2>1. \A state : Count(state)' = Count(state) + (IF "READY" = state THEN 1 ELSE 0)
                                                - (IF "UNUSED" = state THEN 1 ELSE 0)
    BY <1>1, CountMoves, Zenon
  <2>2. \A state : Count(state) \in Nat
    BY CountFacts, ZenonT(40)
  <2>3. /\ Count("UNUSED")' = Count("UNUSED") - 1
        /\ Count("EXITED")' = Count("EXITED")
        /\ Count("FAILED")' = Count("FAILED")
    BY <2>1, <2>2
  <2>4. process_count' = PROCESS_MAX_PROCESSES - (Count("UNUSED") - 1)
    BY <1>1, <2>2, Ring3Assumption DEF Books, Counters
  <2>5. QED
    BY <2>3, <2>4, Zenon DEF Books, Counters
<1>4. Pids'
  BY <1>1 DEF Books, Pids, Numbers
<1>5. LastExit'
  BY <1>1, Zenon DEF Books, LastExit
<1>6. QED
  BY <1>2, <1>3, <1>4, <1>5, Zenon DEF Books

-----------------------------------------------------------------------------
USE DEF Callers, NoSlot

(* The invariant holds after boot.                                         *)
LEMMA TableInit == Init => TInv
<1> SUFFICES ASSUME Init PROVE Core /\ Stages /\ Books
  BY Zenon DEF TInv
<1>1. Core
  BY CoreInit, Zenon DEF IInv, Init
<1>2. Stages
  BY DEF Init, Stages, Idle
<1>3. /\ \A s \in Slots : process_table[s].state = "UNUSED" /\ process_table[s].pid = 0
      /\ process_info.last_exit = NoExit /\ process_info.exit_count = 0
      /\ process_info.failed_processes = 0 /\ DOMAIN process_info = ExitFields
      /\ process_count = 0 /\ next_pid = 1
  BY Zenon DEF Init, Unused, ExitFields
<1>4. Count("UNUSED") = PROCESS_MAX_PROCESSES /\ Count("EXITED") = 0 /\ Count("FAILED") = 0
  <2>1. /\ {s \in Slots : process_table[s].state = "UNUSED"} = Slots
        /\ {s \in Slots : process_table[s].state = "EXITED"} = {}
        /\ {s \in Slots : process_table[s].state = "FAILED"} = {}
    BY <1>3, Zenon
  <2>2. QED
    BY <2>1, CountFacts, FS_EmptySet, ZenonT(40) DEF Count
<1>5. Books
  BY <1>3, <1>4, Ring3Assumption DEF Books, Numbers, Counters, Pids, LastExit
<1>6. QED
  BY <1>1, <1>2, <1>5, Zenon

(* The invariant implies that what ps and wait-last print is true.         *)
LEMMA TableGivesAgreement == TInv => TableAgrees
  BY Zenon DEF TInv, Books, Counters, Pids, LastExit, TableAgrees

(* A caller that goes on with its own entry, the others waiting where they *)
(* are, preserves the stages.                                              *)
LEMMA StagesGoOn ==
  ASSUME Core, Stages, NEW c \in Callers, NEW pc,
         frame[c].pc \in {"create", "load", "enter", "user", "resumed"},
         \A d \in Callers : /\ frame'[d].slot = frame[d].slot
                            /\ frame'[d].pc = IF d = c THEN pc ELSE frame[d].pc,
         \A t \in Slots : t # frame[c].slot => process_table'[t].state = process_table[t].state,
         \/ pc \in {"user", "returned"}
         \/ pc = "load" /\ process_table'[frame[c].slot].state = "READY"
         \/ pc = "resumed" /\ process_table'[frame[c].slot].state = "EXITED"
  PROVE  Stages'
<1> DEFINE Busy == {"create", "load", "enter", "user", "resumed"}
<1> HIDE DEF Callers
<1>1. \A d \in Callers : d # c /\ frame[d].pc \in Busy =>
          frame[d].slot # frame[c].slot /\ frame[d].slot \in Slots
  BY Zenon DEF Stages, Core, HoldsSlot
<1>2. \A d \in Callers : frame'[d].pc \in Busy => frame[d].pc \in Busy
  BY Zenon
<1>3. ASSUME NEW d \in Callers
      PROVE  /\ frame'[d].pc = "create" => process_table'[frame'[d].slot].state = "UNUSED"
             /\ frame'[d].pc \in {"load", "enter"} => process_table'[frame'[d].slot].state = "READY"
             /\ frame'[d].pc = "resumed" => process_table'[frame'[d].slot].state = "EXITED"
  <2>1. CASE d = c
    <3>1. frame'[d].pc = pc /\ frame'[d].slot = frame[c].slot
      BY <2>1, Zenon
    <3>2. QED
      BY <3>1
  <2>2. CASE d # c
    <3>1. frame'[d].pc = frame[d].pc /\ frame'[d].slot = frame[d].slot
      BY <2>2, Zenon
    <3>2. frame[d].pc \in Busy => process_table'[frame[d].slot].state = process_table[frame[d].slot].state
      BY <1>1, <2>2, Zenon
    <3>3. /\ frame[d].pc = "create" => process_table[frame[d].slot].state = "UNUSED"
          /\ frame[d].pc \in {"load", "enter"} => process_table[frame[d].slot].state = "READY"
          /\ frame[d].pc = "resumed" => process_table[frame[d].slot].state = "EXITED"
      BY Zenon DEF Stages
    <3>4. QED
      BY <3>1, <3>2, <3>3, Zenon
  <2>3. QED
    BY <2>1, <2>2, Zenon
<1>4. \A d, e \in Callers : /\ frame'[d].pc \in Busy /\ frame'[e].pc \in Busy
                            /\ frame'[d].slot = frame'[e].slot
                            => d = e
  <2>1. ASSUME NEW d \in Callers, NEW e \in Callers, frame'[d].pc \in Busy, frame'[e].pc \in Busy,
               frame'[d].slot = frame'[e].slot
        PROVE  d = e
    <3>1. frame[d].pc \in Busy /\ frame[e].pc \in Busy /\ frame[d].slot = frame[e].slot
      BY <1>2, <2>1, Zenon
    <3>2. QED
      BY <3>1, Zenon DEF Stages
  <2>2. QED
    BY <2>1, Zenon
<1>5. QED
  BY <1>3, <1>4, Zenon DEF Stages

(* With no caller moving and no state changing the stages stay.            *)
LEMMA StagesStay ==
  ASSUME Core, Stages, frame' = frame,
         \A t \in Slots : process_table'[t].state = process_table[t].state
  PROVE  Stages'
<1> HIDE DEF Callers
<1>1. ASSUME NEW d \in Callers
      PROVE  /\ frame[d].pc = "create" => process_table'[frame[d].slot].state = "UNUSED"
             /\ frame[d].pc \in {"load", "enter"} => process_table'[frame[d].slot].state = "READY"
             /\ frame[d].pc = "resumed" => process_table'[frame[d].slot].state = "EXITED"
  <2>1. frame[d].pc \in {"create", "load", "enter", "user", "resumed"} => frame[d].slot \in Slots
    BY Zenon DEF Core, HoldsSlot
  <2>2. /\ frame[d].pc = "create" => process_table[frame[d].slot].state = "UNUSED"
        /\ frame[d].pc \in {"load", "enter"} => process_table[frame[d].slot].state = "READY"
        /\ frame[d].pc = "resumed" => process_table[frame[d].slot].state = "EXITED"
    BY Zenon DEF Stages
  <2>3. QED
    BY <2>1, <2>2, Zenon
<1>2. \A c, d \in Callers :
          /\ frame[c].pc \in {"create", "load", "enter", "user", "resumed"}
          /\ frame[d].pc \in {"create", "load", "enter", "user", "resumed"}
          /\ frame[c].slot = frame[d].slot
          => c = d
  BY Zenon DEF Stages
<1>3. QED
  BY <1>1, <1>2, Zenon DEF Stages

(* process_find_free_slot: the entry found is not in the hands of the      *)
(* other caller.                                                           *)
LEMMA FindSlotTable ==
  ASSUME Core, Stages, Books, NEW c \in Callers, FindSlot(c)
  PROVE  Stages' /\ Books'
<1>1. Books'
  BY BooksKept, Zenon DEF FindSlot, process_vars, Books, Numbers
<1>2. process_table' = process_table /\ Runs(c) /\ frame[c].pc = "lookup"
  BY Zenon DEF FindSlot, AtPc, process_vars
<1>3. CASE /\ process_find_free_slot # NoSlot
           /\ frame' = [frame EXCEPT ![c].pc = "create", ![c].slot = process_find_free_slot]
  <2>1. /\ process_find_free_slot \in Slots
        /\ process_table[process_find_free_slot].state = "UNUSED"
    BY <1>3, FreeSlot, Zenon
  <2> DEFINE n == process_find_free_slot
  <2>2. \A d \in Callers : /\ d # c => frame'[d] = frame[d]
                          /\ frame'[c].pc = "create" /\ frame'[c].slot = n
    BY <1>3, Zenon DEF Core, Shape, FrameFields
  <2>3. \A d \in Callers : frame[d].pc \in {"create", "load", "enter", "user", "resumed"} =>
                               frame[d].slot # n \/ (d # c /\ frame[d].pc = "create")
    BY <1>2, <2>1, Zenon DEF Stages, Core, UserOwns
  <2>4. \A d \in Callers : d # c => frame[d].pc # "create"
    BY <1>2, Zenon DEF Core, Exclusion, Runs
  <2> HIDE DEF n
  <2>5. process_table[n].state = "UNUSED"
    BY <2>1, Zenon DEF n
  <2>6. QED
    BY <1>1, <1>2, <2>2, <2>3, <2>4, <2>5 DEF Stages
<1>4. CASE frame' = [frame EXCEPT ![c].pc = "returned"]
  BY <1>1, <1>2, <1>4 DEF Stages, Core, Shape, FrameFields
<1>5. QED
  BY <1>3, <1>4, Zenon DEF FindSlot, Returned

(* process_create preserves stages and books.                              *)
LEMMA CreateTable ==
  ASSUME Core, Stages, Books, NEW c \in Callers, Create(c)
  PROVE  Stages' /\ Books'
<1> DEFINE s == frame[c].slot
<1>1. /\ frame[c].pc = "create" /\ s \in Slots /\ process_table[s].state = "UNUSED"
      /\ process_create(s, frame[c].path, frame[c].words) /\ process_info' = process_info
      /\ frame' = [frame EXCEPT ![c].pc = "load"]
  BY Zenon DEF Create, AtPc, Core, HoldsSlot, Stages
<1>2. Books'
  BY <1>1, BooksAfterCreate, Zenon
<1>3. /\ process_table'[s].state = "READY"
      /\ \A t \in Slots : t # s => process_table'[t] = process_table[t]
  BY <1>1, Zenon DEF process_create, Unused, Core, Shape
<1>4. \A d \in Callers : /\ frame'[d].slot = frame[d].slot
                        /\ frame'[d].pc = IF d = c THEN "load" ELSE frame[d].pc
  BY <1>1, Zenon DEF Core, Shape, FrameFields
<1>5. Stages'
  BY <1>1, <1>3, <1>4, StagesGoOn, Zenon
<1>6. QED
  BY <1>2, <1>5, Zenon

(* An image that cannot be loaded fails its process once.                  *)
LEMMA LoadTable ==
  ASSUME Core, Stages, Books, NEW c \in Callers, Load(c)
  PROVE  Stages' /\ Books'
<1> DEFINE s == frame[c].slot
           image == ImageLoad[process_table[s].path]
           status == IF image.status = "OK" THEN ring3_load_user_image(image.bytes)
                     ELSE image.status
<1>1. /\ frame[c].pc = "load" /\ s \in Slots /\ process_table[s].state = "READY"
      /\ UNCHANGED <<next_pid, process_count>>
  BY ZenonT(40) DEF Load, AtPc, Core, HoldsSlot, Stages
<1>2. CASE status = "OK"
  <2>1. /\ frame' = [frame EXCEPT ![c].pc = "enter"]
        /\ UNCHANGED <<process_table, process_info>>
    BY <1>1, <1>2, ZenonT(40) DEF Load
  <2>2. Books'
    BY <1>1, <2>1, BooksKept, Zenon DEF Books, Numbers
  <2>3. Stages'
    BY <1>1, <2>1 DEF Stages, Core, Shape, FrameFields
  <2>4. QED
    BY <2>2, <2>3, Zenon
<1>3. CASE status # "OK"
  <2>1. /\ frame' = [frame EXCEPT ![c].pc = "returned"]
        /\ process_info' = [process_info EXCEPT !.failed_runs = @ + 1, !.failed_processes = @ + 1]
        /\ process_table' = [process_table EXCEPT ![s].state = "FAILED", ![s].last_status = status]
    <3>1. process_table[s].state \in {"READY", "EXITED"}
      BY <1>1, Zenon
    <3>2. QED
      BY <1>3, <3>1, ZenonT(40) DEF Load, Returned
  <2> HIDE DEF status, image
  <2>2. /\ process_table'[s].state = "FAILED"
        /\ process_table'[s].pid = process_table[s].pid
        /\ \A t \in Slots : t # s => process_table'[t] = process_table[t]
    BY <1>1, <2>1, Zenon DEF Core, Shape, EntryFields
  <2>3. /\ DOMAIN process_info' = ExitFields
        /\ process_info'.exit_count = process_info.exit_count + 0
        /\ process_info'.failed_processes = process_info.failed_processes + 1
        /\ process_info'.last_exit = process_info.last_exit
    BY <2>1 DEF Books, Numbers, ExitFields
  <2>4. Books'
    BY <1>1, <2>2, <2>3, BooksAfterMove, Zenon
  <2>5. \A d \in Callers : /\ frame'[d].slot = frame[d].slot
                          /\ frame'[d].pc = IF d = c THEN "returned" ELSE frame[d].pc
    BY <2>1, Zenon DEF Core, Shape, FrameFields
  <2>6. Stages'
    <3>0. PICK pc : /\ pc \in {"user", "returned"}
                   /\ \A d \in Callers : /\ frame'[d].slot = frame[d].slot
                                         /\ frame'[d].pc = IF d = c THEN pc ELSE frame[d].pc
      BY <2>5, Zenon
    <3>1. /\ frame[c].pc \in {"create", "load", "enter", "user", "resumed"}
          /\ \A t \in Slots : t # frame[c].slot => process_table'[t].state = process_table[t].state
      BY <1>1, <2>2, Zenon
    <3>2. QED
      <4> HIDE DEF Callers
      <4>1. QED
        BY <3>0, <3>1, StagesGoOn, SMT
  <2>7. QED
    BY <2>4, <2>6, Zenon
<1>4. QED
  BY <1>2, <1>3, ZenonT(40)

(* A process refused ring 3 fails once; one let in is RUNNING and counted  *)
(* nowhere.                                                                *)
LEMMA EnterTable ==
  ASSUME Core, Stages, Books, NEW c \in Callers, Enter(c)
  PROVE  Stages' /\ Books'
<1> DEFINE s == frame[c].slot
           p == Running(process_table[s])
<1>1. /\ frame[c].pc = "enter" /\ s \in Slots /\ process_table[s].state = "READY"
      /\ UNCHANGED <<next_pid, process_count>>
  BY Zenon DEF Enter, AtPc, Core, HoldsSlot, Stages
<1>2. /\ DOMAIN p = EntryFields
      /\ p.state = "RUNNING" /\ p.pid = process_table[s].pid
  BY <1>1, Zenon DEF Running, Core, Shape, EntryFields
<1> HIDE DEF p
<1>3. CASE ring3_info.last_status = "OK"
  <2>1. /\ process_table' = [process_table EXCEPT ![s] = p]
        /\ frame' = [frame EXCEPT ![c].pc = "user"]
        /\ process_info' = process_info
    BY <1>3, Zenon DEF Enter, p
  <2>2. /\ process_table'[s].state = "RUNNING"
        /\ process_table'[s].pid = process_table[s].pid
        /\ \A t \in Slots : t # s => process_table'[t] = process_table[t]
    BY <1>1, <1>2, <2>1, Zenon DEF Core, Shape
  <2>3. /\ DOMAIN process_info' = ExitFields
        /\ process_info'.exit_count = process_info.exit_count + 0
        /\ process_info'.failed_processes = process_info.failed_processes + 0
        /\ process_info'.last_exit = process_info.last_exit
    BY <2>1 DEF Books, Numbers
  <2>4. Books'
    BY <1>1, <2>2, <2>3, BooksAfterMove, Zenon
  <2>5. \A d \in Callers : /\ frame'[d].slot = frame[d].slot
                          /\ frame'[d].pc = IF d = c THEN "user" ELSE frame[d].pc
    BY <2>1, Zenon DEF Core, Shape, FrameFields
  <2>6. Stages'
    BY <1>1, <2>2, <2>5, StagesGoOn, Zenon
  <2>7. QED
    BY <2>4, <2>6, Zenon
<1>4. CASE ring3_info.last_status # "OK"
  <2> DEFINE status == ring3_info.last_status
  <2>1. /\ RunEnds(s, p, status)
        /\ frame' = [frame EXCEPT ![c].pc = "returned"]
    BY <1>4, Zenon DEF Enter, p, Returned
  <2>2. /\ process_table' = [process_table EXCEPT ![s] =
               [p EXCEPT !.state = "FAILED", !.exit_code = -1, !.last_status = status]]
        /\ process_info' = [process_info EXCEPT
               !.successful_runs = @ + 0, !.failed_runs = @ + 1,
               !.exit_count = @ + 0, !.failed_processes = @ + 1,
               !.last_exit = [pid |-> p.pid, code |-> -1, status |-> status]]
    BY <1>2, <1>4, <2>1, Zenon DEF RunEnds
  <2> HIDE DEF status
  <2>3. /\ process_table'[s].state = "FAILED"
        /\ process_table'[s].exit_code = -1
        /\ process_table'[s].pid = process_table[s].pid
        /\ \A t \in Slots : t # s => process_table'[t] = process_table[t]
    BY <1>1, <1>2, <2>2, Zenon DEF Core, Shape, EntryFields
  <2>4. /\ DOMAIN process_info' = ExitFields
        /\ process_info'.exit_count = process_info.exit_count + 0
        /\ process_info'.failed_processes = process_info.failed_processes + 1
        /\ process_info'.last_exit.pid = process_table[s].pid
        /\ process_info'.last_exit.code = -1
    BY <1>2, <2>2, Zenon DEF Books, Numbers, ExitFields
  <2>5. Books'
    BY <1>1, <2>3, <2>4, BooksAfterMove, Zenon
  <2>6. \A d \in Callers : /\ frame'[d].slot = frame[d].slot
                          /\ frame'[d].pc = IF d = c THEN "returned" ELSE frame[d].pc
    BY <2>1, Zenon DEF Core, Shape, FrameFields
  <2>7. Stages'
    BY <1>1, <2>3, <2>6 DEF Stages, Core, HoldsSlot
  <2>8. QED
    BY <2>5, <2>7, Zenon
<1>5. QED
  BY <1>3, <1>4, Zenon

(* process_run after EXIT counts the run, not the exit.                    *)
LEMMA ReturnTable ==
  ASSUME Core, Stages, Books, NEW c \in Callers, Return(c)
  PROVE  Stages' /\ Books'
<1> DEFINE s == frame[c].slot
           status == IF ring3_info.completed THEN "OK" ELSE "INVALID_STATE"
<1>1. /\ frame[c].pc = "resumed" /\ s \in Slots /\ process_table[s].state = "EXITED"
      /\ UNCHANGED <<next_pid, process_count>>
      /\ RunEnds(s, process_table[s], status)
      /\ frame' = [frame EXCEPT ![c].pc = "returned"]
  BY Zenon DEF Return, Returned, AtPc, Core, HoldsSlot, Stages
<1> HIDE DEF status
<1>2. /\ process_table' = [process_table EXCEPT ![s] = [process_table[s] EXCEPT !.last_status = status]]
      /\ process_info' = [process_info EXCEPT
               !.successful_runs = @ + (IF status = "OK" THEN 1 ELSE 0),
               !.failed_runs = @ + (IF status = "OK" THEN 0 ELSE 1),
               !.exit_count = @ + 0, !.failed_processes = @ + 0, !.last_exit = @]
  BY <1>1, Zenon DEF RunEnds
<1>3. \A t \in Slots : /\ process_table'[t].state = process_table[t].state
                      /\ process_table'[t].pid = process_table[t].pid
                      /\ process_table'[t].exit_code = process_table[t].exit_code
  BY <1>1, <1>2, Zenon DEF Core, Shape, EntryFields
<1>4. /\ DOMAIN process_info' = ExitFields
      /\ process_info'.exit_count = process_info.exit_count
      /\ process_info'.failed_processes = process_info.failed_processes
      /\ process_info'.last_exit = process_info.last_exit
  BY <1>2 DEF Books, Numbers, ExitFields
<1>5. Books'
  BY <1>1, <1>3, <1>4, BooksKept, Zenon
<1>6. \A d \in Callers : /\ frame'[d].slot = frame[d].slot
                        /\ frame'[d].pc = IF d = c THEN "returned" ELSE frame[d].pc
  BY <1>1, Zenon DEF Core, Shape, FrameFields
<1>7. Stages'
  <2>0. PICK pc : /\ pc \in {"user", "returned"}
                 /\ \A d \in Callers : /\ frame'[d].slot = frame[d].slot
                                       /\ frame'[d].pc = IF d = c THEN pc ELSE frame[d].pc
    BY <1>6, Zenon
  <2>1. /\ frame[c].pc \in {"create", "load", "enter", "user", "resumed"}
        /\ \A t \in Slots : t # frame[c].slot => process_table'[t].state = process_table[t].state
    BY <1>1, <1>3, Zenon
  <2>2. QED
    <3> HIDE DEF Callers
    <3>1. QED
      BY <2>0, <2>1, StagesGoOn, SMT
<1>8. QED
  BY <1>5, <1>7, Zenon

(* A system call that only changes open files preserves stages and books.  *)
LEMMA FilesTable ==
  ASSUME Core, Stages, Books, NEW c \in Callers, SystemCall(c), OnlyTable, NEW files,
         process_table' = [process_table EXCEPT ![current_process].files = files]
  PROVE  Stages' /\ Books'
<1>1. current_process \in Slots
  BY InUserFacts, ZenonT(40)
<1>2. \A s \in Slots : /\ process_table'[s].state = process_table[s].state
                      /\ process_table'[s].pid = process_table[s].pid
                      /\ process_table'[s].exit_code = process_table[s].exit_code
  BY <1>1, Zenon DEF Core, Shape, EntryFields
<1>3. Books'
  BY <1>2, BooksKept, Zenon DEF OnlyTable, Books, Numbers
<1>4. Stages'
  BY <1>2, StagesStay, Zenon DEF OnlyTable
<1>5. QED
  BY <1>3, <1>4, Zenon

(* OPEN preserves stages and books.                                        *)
LEMMA SysOpenTable ==
  ASSUME Core, Stages, Books, NEW c \in Callers, NEW path, SysOpen(c, path)
  PROVE  Stages' /\ Books'
<1>1. PICK d, f : process_table' = [process_table EXCEPT ![current_process].files[d] = f]
  BY Zenon DEF SysOpen, fd_table_open_current
<1>2. QED
  BY <1>1, FilesTable, Zenon DEF SysOpen

(* READ preserves stages and books.                                        *)
LEMMA SysReadTable ==
  ASSUME Core, Stages, Books, NEW c \in Callers, NEW d, NEW length, SysRead(c, d, length)
  PROVE  Stages' /\ Books'
<1>1. PICK f : process_table' = [process_table EXCEPT ![current_process].files[d].offset = f]
  BY Zenon DEF SysRead, fd_table_read_current
<1>2. QED
  BY <1>1, FilesTable, Zenon DEF SysRead

(* CLOSE preserves stages and books.                                       *)
LEMMA SysCloseTable ==
  ASSUME Core, Stages, Books, NEW c \in Callers, NEW d, SysClose(c, d)
  PROVE  Stages' /\ Books'
<1>1. process_table' = [process_table EXCEPT ![current_process].files[d] = Closed]
  BY Zenon DEF SysClose, fd_table_close_current
<1>2. QED
  BY <1>1, FilesTable, ZenonT(40) DEF SysClose

(* EXEC preserves stages and books: its entry is in nobody's hands.        *)
LEMMA SysExecTable ==
  ASSUME Core, Stages, Books, NEW c \in Callers, NEW path, NEW words, SysExec(c, path, words)
  PROVE  Stages' /\ Books'
<1> DEFINE n == process_find_free_slot
<1>1. /\ SystemCall(c) /\ n # NoSlot /\ process_create(n, path, words)
      /\ UNCHANGED <<process_info, frame>>
  BY Zenon DEF SysExec
<1>2. n \in Slots /\ process_table[n].state = "UNUSED"
  BY <1>1, FreeSlot, Zenon
<1> HIDE DEF n
<1>3. Books'
  BY <1>1, <1>2, BooksAfterCreate, Zenon
<1>4. \A t \in Slots : t # n => process_table'[t] = process_table[t]
  BY <1>1, <1>2, Zenon DEF process_create, Core, Shape
<1>5. \A d \in Callers : frame[d].pc # "create"
  BY <1>1, Zenon DEF SystemCall, InUser, AtPc, Runs, Core, Exclusion
<1>6. Stages'
  BY <1>1, <1>2, <1>4, <1>5, ZenonT(60) DEF Stages, Core, HoldsSlot
<1>7. QED
  BY <1>3, <1>6, Zenon

(* EXIT counts one exit, the one it shows.                                 *)
LEMMA SysExitTable ==
  ASSUME Core, Stages, Books, NEW c \in Callers, NEW code, SysExit(c, code)
  PROVE  Stages' /\ Books'
<1> DEFINE s == current_process
<1>1. /\ SystemCall(c)
      /\ process_mark_exit(s, code)
      /\ frame' = [frame EXCEPT ![saved_kernel_esp].pc = "resumed"]
      /\ UNCHANGED <<next_pid, process_count>>
  BY Zenon DEF SysExit
<1>2. /\ frame[c].pc = "user" /\ s = frame[c].slot /\ s \in Slots
      /\ saved_kernel_esp = c /\ process_table[s].state = "RUNNING"
  BY <1>1, InUserFacts, ZenonT(40)
<1>3. /\ process_table' = [process_table EXCEPT ![s].exit_code = code, ![s].state = "EXITED"]
      /\ process_info' = [process_info EXCEPT !.exit_count = @ + 1,
            !.last_exit = [pid |-> process_table[s].pid, code |-> code, status |-> "OK"]]
  <2>1. s # NoSlot
    BY <1>2, SlotsAreNumbers, Zenon
  <2>2. QED
    BY <1>1, <2>1, Zenon DEF process_mark_exit
<1>4. /\ process_table'[s].state = "EXITED"
      /\ process_table'[s].exit_code = code
      /\ process_table'[s].pid = process_table[s].pid
      /\ \A t \in Slots : t # s => process_table'[t] = process_table[t]
  BY <1>2, <1>3, Zenon DEF Core, Shape, EntryFields
<1>5. /\ DOMAIN process_info' = ExitFields
      /\ process_info'.exit_count = process_info.exit_count + 1
      /\ process_info'.failed_processes = process_info.failed_processes + 0
      /\ process_info'.last_exit.pid = process_table[s].pid
      /\ process_info'.last_exit.code = code
  BY <1>3 DEF Books, Numbers, ExitFields
<1>6. Books'
  BY <1>1, <1>2, <1>4, <1>5, BooksAfterMove, Zenon
<1>7. \A d \in Callers : /\ frame'[d].slot = frame[d].slot
                        /\ frame'[d].pc = IF d = c THEN "resumed" ELSE frame[d].pc
  BY <1>1, <1>2, Zenon DEF Core, Shape, FrameFields
<1>8. Stages'
  BY <1>2, <1>4, <1>7, StagesGoOn, Zenon
<1>9. QED
  BY <1>6, <1>8, Zenon

(* A caller that has no entry before its next call of                      *)
(* process_find_free_slot preserves stages and books.                      *)
LEMMA FrameTable ==
  ASSUME Core, Stages, Books, UNCHANGED process_vars, NEW c \in Callers, NEW f,
         frame' = [frame EXCEPT ![c] = f],
         f.pc \notin {"create", "load", "enter", "user", "resumed"}
  PROVE  Stages' /\ Books'
<1>1. Books'
  BY BooksKept, Zenon DEF process_vars, Books, Numbers
<1>2. /\ frame'[c].pc \notin {"create", "load", "enter", "user", "resumed"}
      /\ \A d \in Callers : d # c => frame'[d] = frame[d]
      /\ process_table' = process_table
  BY Zenon DEF Core, Shape, process_vars
<1>3. Stages'
  BY <1>2, SMTT(60) DEF Stages
<1>4. QED
  BY <1>1, <1>3, Zenon

(* kernel_main's call of exec_start_init preserves stages and books.       *)
LEMMA BootStartsInitTable ==
  ASSUME Core, Stages, Books, BootStartsInit
  PROVE  Stages' /\ Books'
<1>1. /\ frame' = [frame EXCEPT !["boot"] = Call(EXEC_INIT_PATH, <<>>, "boot")]
      /\ UNCHANGED process_vars
      /\ Call(EXEC_INIT_PATH, <<>>, "boot").pc = "lookup"
  BY Zenon DEF BootStartsInit, Call
<1>2. QED
  BY <1>1, FrameTable, Zenon

(* kernel_main's arrival at the halt loop preserves stages and books.      *)
LEMMA BootEndsTable ==
  ASSUME Core, Stages, Books, BootEnds
  PROVE  Stages' /\ Books'
<1>1. /\ frame' = [frame EXCEPT !["boot"] = [frame["boot"] EXCEPT !.pc = "hlt"]]
      /\ UNCHANGED process_vars
      /\ [frame["boot"] EXCEPT !.pc = "hlt"].pc = "hlt"
  BY Zenon DEF BootEnds, Core, Shape, FrameFields
<1>2. QED
  BY <1>1, FrameTable, Zenon

(* The end of a command preserves stages and books.                        *)
LEMMA ShellDoneTable ==
  ASSUME Core, Stages, Books, ShellDone
  PROVE  Stages' /\ Books'
<1>1. /\ frame' = [frame EXCEPT !["shell"] = Idle] /\ UNCHANGED process_vars
      /\ Idle.pc = "idle"
  BY Zenon DEF ShellDone, Idle
<1>2. QED
  BY <1>1, FrameTable, Zenon

(* A command that runs a program preserves stages and books.               *)
LEMMA EnterExecTable ==
  ASSUME Core, Stages, Books, NEW path, NEW words, EnterExec(path, words)
  PROVE  Stages' /\ Books'
<1> DEFINE f == Call(path, words, IF frame["boot"].pc = "user" THEN esp0 ELSE "boot")
<1>1. /\ frame' = [frame EXCEPT !["shell"] = f] /\ UNCHANGED process_vars
      /\ f.pc = "lookup"
  BY Zenon DEF EnterExec, Call
<1> HIDE DEF f
<1>2. QED
  BY <1>1, FrameTable, ZenonT(40)

(* Steps that change neither entries nor frames preserve stages and books. *)
LEMMA KeptTable ==
  ASSUME Stages, Books, UNCHANGED <<process_vars, frame>>
  PROVE  Stages' /\ Books'
<1>1. Books'
  BY BooksKept, Zenon DEF process_vars, Books, Numbers
<1>2. Stages'
  BY Zenon DEF process_vars, Stages
<1>3. QED
  BY <1>1, <1>2, Zenon

(* Every step preserves the invariant.                                     *)
LEMMA TableNext == TInv /\ [Next]_vars => TInv'
<1> SUFFICES ASSUME TInv, [Next]_vars, ~overlapped'
             PROVE  Core' /\ Stages' /\ Books'
  BY Zenon DEF TInv
<1>1. ~overlapped
  BY ZenonT(40) DEF Next, KernelStep, ProgramStep, ProgramExits, Keyboard, FindSlot, Create, Load, Enter,
     Return, Clobber, SysOpen, SysRead, SysClose, SysExec, Fault, SysExit, OnlyTable,
     BootStartsInit, BootEnds, ShellDone, TypeCharacter, Backspace, EnterPrinting,
     EnterReboot, EnterExec, vars
<1>2. Core /\ Stages /\ Books
  BY <1>1, Zenon DEF TInv
<1>3. Core'
  BY <1>2, CoreNext, Zenon DEF IInv
<1>4. CASE UNCHANGED vars
  BY <1>2, <1>3, <1>4, KeptTable, Zenon DEF vars
<1>5. ASSUME NEW c \in Callers, KernelStep(c) PROVE Stages' /\ Books'
  BY <1>2, <1>5, FindSlotTable, CreateTable, LoadTable, EnterTable, ReturnTable, KeptTable, Zenon
     DEF KernelStep, Clobber
<1>6. ASSUME NEW c \in Callers, ProgramStep(c) PROVE Stages' /\ Books'
  BY <1>2, <1>6, SysOpenTable, SysReadTable, SysCloseTable, SysExecTable, KeptTable, Zenon
     DEF ProgramStep, Fault
<1>7. ASSUME NEW c \in Callers, ProgramExits(c) PROVE Stages' /\ Books'
  BY <1>2, <1>7, SysExitTable, Zenon DEF ProgramExits
<1>8. CASE BootStartsInit \/ BootEnds \/ ShellDone
  BY <1>2, <1>3, <1>8, BootStartsInitTable, BootEndsTable, ShellDoneTable, Zenon
<1>9. CASE Keyboard
  BY <1>2, <1>3, <1>9, EnterExecTable, KeptTable, Zenon
     DEF Keyboard, TypeCharacter, Backspace, EnterPrinting, EnterReboot
<1>10. QED
  BY <1>3, <1>4, <1>5, <1>6, <1>7, <1>8, <1>9, Zenon DEF Next

(* While no command overlaps the run of /sbin/init, the counters of        *)
(* process_info are the numbers of entries in each state, pids are         *)
(* distinct and below next_pid, and the last exit shown is the exit of the *)
(* entry with its pid.                                                     *)
THEOREM Ring3TableAgrees == Spec => []TableAgrees
<1>1. Init => TInv
  BY TableInit, Zenon
<1>2. TInv /\ [Next]_vars => TInv'
  BY TableNext, Zenon
<1>3. TInv => TableAgrees
  BY TableGivesAgreement, Zenon
<1>4. QED
  BY <1>1, <1>2, <1>3, PTL DEF Spec
=============================================================================
