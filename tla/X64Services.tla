----------------------------- MODULE X64Services -----------------------------
(***************************************************************************)
(* The x86_64 kernel as a running program meets it: its calls on files,    *)
(* input, time, the desktop and images (arch/x86_64/syscall_dispatch.h,    *)
(* desktop_services.c), interleaved with the interrupts of idt.c.  SYSCALL *)
(* clears the interrupt flag and nothing sets it before SYSRET, so a call  *)
(* runs without interrupts and the timer and the keyboard interrupt only   *)
(* ring 3.  Processes and page tables are module UserMode's.               *)
(***************************************************************************)
EXTENDS X64Input, X64Vfs, X64Loader

CONSTANTS Images,            \* the images of the executable nodes
          Addresses, Sizes,  \* arguments programs pass
          Fds, Flags, Data,
          Machines,          \* [kinds, paths, boot_ticks, graphics, fits]: the calls
                             \* and devices that take part, the paths passed, the
                             \* ticks seen by the boot's wait, whether there is a
                             \* framebuffer and whether the window fits it
          StatusBytes,       \* the length of the status texts
          ShellModeBytes,    \* the length of "interactive", 0 when not requested
          MaxSleep,          \* 1000, the longest sleep accepted
          EventBytes,        \* sizeof(struct x86_64_input_event)
          MaxTicks, MaxEvents, MaxSerial   \* bounds of the model

\* Nul marks the bytes of the session file that nobody wrote.
ASSUME DataAssumption ==
  /\ Sizes \subseteq Nat
  /\ \A i \in 0..X86_64_VFS_RAM_FILE_BYTES - 1 : Data[i] # Nul

\* Every executable of the table comes with its image.
ASSUME ImagesAssumption ==
  /\ \A node \in DOMAIN Nodes : Nodes[node].type = "EXECUTABLE" => node \in DOMAIN Images
  /\ \A node \in DOMAIN Images : Images[node].segments \in Seq(Segments)

SIZEOF_U64 == 8

STDIN == 0
STDOUT == 1
STDERR == 2

VARIABLES timer, keyboard,   \* idt.c
          serial,            \* bytes waiting in the serial port
          session,           \* the session file: [data, size]
          desktop,           \* desktop_services.c
          files,             \* active_dispatcher.vfs
          cursor,            \* active_dispatcher.input_event_cursor
          staging,           \* active_dispatcher.exec_*
          cpu,               \* "boot", "ring 3", "reading" or "halted"
          wanted,            \* the size of the READ that waits
          program,           \* "shell", or "program" after its EXEC
          scope,             \* what takes part in this behaviour
          result             \* the answer of the last call, with the ticks asked
                             \* for when it was SLEEP_TICKS

vars == <<timer, keyboard, serial, session, desktop, files, cursor, staging,
          cpu, wanted, program, scope, result>>

dispatcher == <<files, cursor, staging>>

NoData == [characters |-> <<>>, events |-> <<>>]

Answer(answer) ==
  result' = [asked |-> 0, error |-> answer.error,
             value |-> answer.value, data |-> NoData]

AnswerData(bytes, data) ==
  result' = [asked |-> 0, error |-> "none",
             value |-> bytes, data |-> data]

\* A program in ring 3 makes a call.
Calls(service) == cpu = "ring 3" /\ service \in scope.kinds

(* The desktop *)

\* The state and the session file after its probe.
refresh_desktop_state(d, t, file) ==
  LET probe == session_storage_ready(file)
  IN  [session |-> probe.session,
       desktop |-> [d EXCEPT !.tick_ready = t.timer_ok,
                             !.session_ready = probe.ok,
                             !.window_service_ready = /\ t.timer_ok
                                                      /\ probe.ok
                                                      /\ d.graphics_ready]]

Refresh ==
  LET after == refresh_desktop_state(desktop, timer, session)
  IN  session' = after.session /\ desktop' = after.desktop

DESKTOP_STATUS ==
  /\ Calls("DESKTOP_STATUS")
  /\ \E buffer \in Addresses, size \in Sizes :
       IF ~user_range_ok(buffer, size)
       THEN Answer(Failed("EFAULT")) /\ UNCHANGED <<session, desktop>>
       ELSE IF size = 0
       THEN Answer(Value(0)) /\ UNCHANGED <<session, desktop>>
       ELSE Refresh /\ Answer(Value(Min({StatusBytes, size - 1})))
  /\ UNCHANGED <<timer, keyboard, serial, dispatcher, cpu, wanted, program, scope>>

present_demo_window(d) ==
  IF d.window_service_ready /\ d.window_fits THEN Value(1) ELSE Value(0)

WINDOW_PRESENT ==
  /\ Calls("WINDOW_PRESENT")
  /\ Refresh
  /\ Answer(present_demo_window(desktop'))
  /\ UNCHANGED <<timer, keyboard, serial, dispatcher, cpu, wanted, program, scope>>

(* Time *)

TICKS ==
  /\ Calls("TICKS")
  /\ Answer(Value(timer.ticks))
  /\ UNCHANGED <<timer, keyboard, serial, session, desktop, dispatcher, cpu, wanted, program, scope>>

\* No tick is counted while the call spins: the wait ends when its spin
\* budget does, unless it is for no tick at all.
SLEEP_TICKS ==
  /\ Calls("SLEEP_TICKS")
  /\ \E ticks \in 0..MaxSleep + 1 :
       IF ticks > MaxSleep
       THEN Answer(Failed("EINVAL")) /\ UNCHANGED timer
       ELSE /\ timer' = timer_wait_for_ticks(timer, ticks, 0)
            /\ result' = [asked |-> ticks, error |-> "none",
                          value |-> timer'.ticks - timer.ticks, data |-> NoData]
  /\ UNCHANGED <<keyboard, serial, session, desktop, dispatcher, cpu, wanted, program, scope>>

(* Input *)

\* Typed characters first, then what the serial port holds.
read_stdin(size, k, waiting) ==
  LET typed == keyboard_read(k, size)
      more == Min({size - Len(typed.bytes), waiting})
  IN  [bytes |-> Len(typed.bytes) + more, data |-> typed.bytes,
       keyboard |-> typed.keyboard, serial |-> waiting - more]

TakeStdin(size) ==
  LET taken == read_stdin(size, keyboard, serial)
  IN  /\ keyboard' = taken.keyboard
      /\ serial' = taken.serial
      /\ AnswerData(taken.bytes, [NoData EXCEPT !.characters = taken.data])

\* The live dispatcher reads with blocking_read_enabled set: a READ that finds
\* nothing keeps the processor until something comes.
read_stdin_blocking(size) ==
  IF size > 0 /\ read_stdin(size, keyboard, serial).bytes = 0
  THEN cpu' = "reading" /\ wanted' = size /\ UNCHANGED <<keyboard, serial, result>>
  ELSE TakeStdin(size) /\ UNCHANGED <<cpu, wanted>>

READ ==
  /\ Calls("READ")
  /\ \E buffer \in Addresses, size \in Sizes, fd \in Fds :
       IF user_range_ok(buffer, size) /\ fd = STDIN
       THEN read_stdin_blocking(size) /\ UNCHANGED files
       ELSE LET read == vfs_read(files, session, fd, buffer, size)
                ok == user_range_ok(buffer, size)
            IN  /\ files' = IF ok THEN read.fs ELSE files
                /\ Answer(IF ok THEN read.result ELSE Failed("EFAULT"))
                /\ UNCHANGED <<keyboard, serial, cpu, wanted>>
  /\ UNCHANGED <<timer, session, desktop, cursor, staging, program, scope>>

\* The spin of a blocked READ ends on the serial port alone.
ReadSpins ==
  /\ cpu = "reading"
  /\ read_stdin(wanted, keyboard, serial).bytes > 0
  /\ TakeStdin(wanted)
  /\ cpu' = "ring 3" /\ wanted' = 0
  /\ UNCHANGED <<timer, session, desktop, dispatcher, program, scope>>

INPUT_EVENTS ==
  /\ Calls("INPUT_EVENTS")
  /\ \E buffer \in Addresses, max_events \in 0..X86_64_INPUT_EVENT_QUEUE_CAPACITY + 1 :
       LET read == input_events_read_from(keyboard, cursor, max_events)
       IN  IF max_events > X86_64_INPUT_EVENT_QUEUE_CAPACITY
           THEN Answer(Failed("EINVAL")) /\ UNCHANGED cursor
           ELSE IF ~user_range_ok(buffer, max_events * EventBytes)
           THEN Answer(Failed("EFAULT")) /\ UNCHANGED cursor
           ELSE /\ AnswerData(Len(read.events),
                              [NoData EXCEPT !.events = read.events])
                /\ cursor' = read.cursor
  /\ UNCHANGED <<timer, keyboard, serial, session, desktop, files, staging, cpu, wanted, program, scope>>

INPUT_STATUS ==
  /\ Calls("INPUT_STATUS")
  /\ \E buffer \in Addresses, size \in Sizes :
       Answer(IF user_range_ok(buffer, size) THEN Value(StatusBytes)
                                    ELSE Failed("EFAULT"))
  /\ UNCHANGED <<timer, keyboard, serial, session, desktop, dispatcher, cpu, wanted, program, scope>>

(* Files *)

\* The text ends within X86_64_VFS_PATH_MAX_BYTES and the user addresses.
user_path_ok(address, path) == user_range_ok(address, 1) /\ path.terminated

OPEN ==
  /\ Calls("OPEN")
  /\ \E address \in Addresses, path \in scope.paths, flags \in Flags :
       LET opened == vfs_open(files, session, path, flags)
       IN  IF ~user_path_ok(address, path)
           THEN Answer(Failed("EFAULT")) /\ UNCHANGED <<files, session>>
           ELSE /\ files' = opened.fs /\ session' = opened.session
                /\ Answer(opened.result)
  /\ UNCHANGED <<timer, keyboard, serial, desktop, cursor, staging, cpu, wanted, program, scope>>

WRITE ==
  /\ Calls("WRITE")
  /\ \E buffer \in Addresses, size \in Sizes, fd \in Fds :
       LET written == vfs_write(files, session, fd, buffer, Data, size)
       IN  IF ~user_range_ok(buffer, size)
           THEN Answer(Failed("EFAULT")) /\ UNCHANGED <<files, session>>
           ELSE IF fd \in {STDOUT, STDERR}
           THEN Answer(Value(size)) /\ UNCHANGED <<files, session>>
           ELSE /\ files' = written.fs /\ session' = written.session
                /\ Answer(written.result)
  /\ UNCHANGED <<timer, keyboard, serial, desktop, cursor, staging, cpu, wanted, program, scope>>

CLOSE ==
  /\ Calls("CLOSE")
  /\ \E fd \in Fds : LET closed == vfs_close(files, fd)
                     IN  files' = closed.fs /\ Answer(closed.result)
  /\ UNCHANGED <<timer, keyboard, serial, session, desktop, cursor, staging, cpu, wanted, program, scope>>

STAT ==
  /\ Calls("STAT")
  /\ \E address \in Addresses, path \in scope.paths, out \in Addresses :
       Answer(IF user_path_ok(address, path) /\ user_range_ok(out, SIZEOF_U64)
              THEN vfs_stat(session, path) ELSE Failed("EFAULT"))
  /\ UNCHANGED <<timer, keyboard, serial, session, desktop, dispatcher, cpu, wanted, program, scope>>

(* Programs *)

initialize_live_dispatcher ==
  /\ files' = vfs_init
  /\ cursor' = latest_sequence(keyboard)
  /\ staging' = [staging EXCEPT !.writable = {}, !.bytes = 0, !.page_count = 0,
                                !.entry = 0, !.loaded = FALSE]

\* Processes are module UserMode's: creating one succeeds or not.
LoadImage(address, path, created) ==
  LET fresh == [staging EXCEPT !.loaded = FALSE, !.entry = 0]
      resolved == vfs_resolve(path)
      load == load_exec_elf(fresh, Images[find_node(path)])
  IN  IF ~user_path_ok(address, path) THEN [staging |-> fresh, result |-> Failed("EFAULT")]
      ELSE IF resolved.error # "none" THEN [staging |-> fresh, result |-> Failed(resolved.error)]
      ELSE IF resolved.type # "EXECUTABLE" THEN [staging |-> fresh, result |-> Failed("ENOSYS")]
      ELSE IF ~load.ok \/ ~created THEN [staging |-> load.staging, result |-> Failed("EINVAL")]
      ELSE [staging |-> load.staging, result |-> Value(0)]

\* The new image runs in the caller's place, with its descriptors.
EXEC ==
  /\ Calls("EXEC")
  /\ \E address \in Addresses, path \in scope.paths, created \in BOOLEAN :
       LET load == LoadImage(address, path, created)
       IN  /\ staging' = load.staging
           /\ Answer(load.result)
           /\ program' = IF load.result.error = "none" THEN "program" ELSE program
  /\ UNCHANGED <<timer, keyboard, serial, session, desktop, files, cursor, cpu, wanted, scope>>

SPAWN ==
  /\ Calls("SPAWN")
  /\ \E address \in Addresses, path \in scope.paths, created \in BOOLEAN :
       LET load == LoadImage(address, path, created)
       IN  staging' = load.staging /\ Answer(load.result)
  /\ UNCHANGED <<timer, keyboard, serial, session, desktop, files, cursor, cpu, wanted, program, scope>>

\* The shell's EXIT halts the machine; another program's starts the shell anew.
EXIT ==
  /\ Calls("EXIT")
  /\ \/ program = "shell" /\ cpu' = "halted" /\ UNCHANGED <<dispatcher, program>>
     \/ program = "program" /\ program' = "shell" /\ initialize_live_dispatcher /\ UNCHANGED cpu
  /\ Answer(Value(0))
  /\ UNCHANGED <<timer, keyboard, serial, session, desktop, wanted, scope>>

GET_ARG ==
  /\ Calls("GET_ARG")
  /\ \E shell_mode \in BOOLEAN, buffer \in Addresses, size \in Sizes :
       Answer(IF ~shell_mode THEN Failed("EINVAL")
              ELSE IF ~user_range_ok(buffer, size) THEN Failed("EFAULT")
              ELSE Value(IF size = 0 THEN 0 ELSE Min({ShellModeBytes, size - 1})))
  /\ UNCHANGED <<timer, keyboard, serial, session, desktop, dispatcher, cpu, wanted, program, scope>>

YIELD ==
  /\ Calls("YIELD")
  /\ Answer(Value(0))
  /\ UNCHANGED <<timer, keyboard, serial, session, desktop, dispatcher, cpu, wanted, program, scope>>

UnknownCall ==
  /\ Calls("UnknownCall")
  /\ Answer(Failed("ENOSYS"))
  /\ UNCHANGED <<timer, keyboard, serial, session, desktop, dispatcher, cpu, wanted, program, scope>>

(* Devices *)

InterruptsOn == cpu \in {"boot", "ring 3"}

TimerInterrupt ==
  /\ InterruptsOn /\ "timer" \in scope.kinds
  /\ timer.ticks < MaxTicks
  /\ timer' = timer_handle_irq(timer)
  /\ UNCHANGED <<keyboard, serial, session, desktop, dispatcher, cpu, wanted, program, scope, result>>

KeyboardInterrupt ==
  /\ InterruptsOn /\ "keyboard" \in scope.kinds
  /\ keyboard.next_sequence <= MaxEvents
  /\ \E scancode \in Scancodes : keyboard' = keyboard_handle_irq(keyboard, scancode)
  /\ UNCHANGED <<timer, serial, session, desktop, dispatcher, cpu, wanted, program, scope, result>>

\* External: a byte comes over the serial line.
SerialArrives ==
  /\ "serial" \in scope.kinds
  /\ serial < MaxSerial
  /\ serial' = serial + 1
  /\ UNCHANGED <<timer, keyboard, session, desktop, dispatcher, cpu, wanted, program, scope, result>>

(* From the end of x86_64_idt_init *)

BOOT_TICKS == 3

\* The boot's own wait for ticks runs with interrupts on.  The desktop's
\* smoke test refreshes this state again and leaves it as it is.
Init ==
  /\ session = [data |-> [i \in 0..X86_64_VFS_RAM_FILE_BYTES - 1 |-> Nul], size |-> 0]
  /\ \E machine \in Machines :
       /\ scope = [kinds |-> machine.kinds, paths |-> machine.paths]
       /\ timer = timer_wait_for_ticks(timer_initialize, BOOT_TICKS, machine.boot_ticks)
       /\ desktop = refresh_desktop_state(
                      [tick_ready |-> FALSE, session_ready |-> FALSE,
                       graphics_ready |-> machine.graphics,
                       window_service_ready |-> FALSE, window_fits |-> machine.fits],
                      timer, session).desktop
  /\ keyboard = keyboard_buffer_reset
  /\ serial = 0
  /\ files = vfs_init /\ cursor = 0
  /\ staging = [pages |-> EmptyPages, writable |-> {}, bytes |-> 0, page_count |-> 0,
                entry |-> 0, loaded |-> FALSE]
  /\ cpu = "boot" /\ wanted = 0 /\ program = "shell"
  /\ result = [asked |-> 0, error |-> "none", value |-> 0, data |-> NoData]

user_mode_start_init ==
  /\ cpu = "boot" /\ cpu' = "ring 3"
  /\ initialize_live_dispatcher
  /\ UNCHANGED <<timer, keyboard, serial, session, desktop, wanted, program, scope, result>>

Next ==
  \/ TimerInterrupt \/ KeyboardInterrupt \/ SerialArrives \/ user_mode_start_init
  \/ DESKTOP_STATUS \/ WINDOW_PRESENT \/ TICKS \/ SLEEP_TICKS
  \/ READ \/ ReadSpins \/ INPUT_EVENTS \/ INPUT_STATUS
  \/ OPEN \/ WRITE \/ CLOSE \/ STAT
  \/ EXEC \/ SPAWN \/ EXIT \/ GET_ARG \/ YIELD \/ UnknownCall

Spec == Init /\ [][Next]_vars

(* Properties *)

\* Keyboard input, with its two rings, their wrap and their drops, and the
\* cursor of the dispatcher, is the service InputService promises.
TypingKeys == {[code |-> c, value |-> m[c]] :
                 c \in DOMAIN scancode_ascii_map,
                 m \in {scancode_ascii_map, scancode_shift_ascii_map}}

Input == INSTANCE InputService WITH
  Characters <- X86_64_KEYBOARD_BUFFER_CAPACITY,
  Events <- X86_64_INPUT_EVENT_QUEUE_CAPACITY,
  SilentKeys <- [code : Scancodes, value : {Nul}],
  TypingKeys <- {key \in TypingKeys : key.value # Nul},
  fifo <- Buffered(keyboard),
  lost <- keyboard.overflows,
  window <- Queued(keyboard),
  latest <- latest_sequence(keyboard),
  handed <- result.data

InputSpec == Input!ASpec

\* What a program can read of the session file was written by some program:
\* no descriptor, however its file was truncated under it, lets the file grow
\* over bytes nobody wrote (vfs_read and vfs_write keep every offset within
\* what the file has held).
NoUnwrittenBytes == \A i \in 0..session.size - 1 : session.data[i] # Nul

\* Asking for the desktop's state or presenting its window writes a probe into
\* the only session file and takes it out again: programs' files and
\* descriptors are as they were, and the storage is reported ready.
ProbeInvisible ==
  [][\/ UNCHANGED <<session, files>> /\ desktop'.session_ready
     \/ ~(DESKTOP_STATUS \/ WINDOW_PRESENT)]_vars

\* The byte at offset o of a program loaded from this image.
ImageByte(image, o) ==
  IF \E i \in DOMAIN image.segments :
       LET segment == image.segments[i]
       IN  /\ ~Skipped(segment)
           /\ X86_64_USER_CODE_BASE + o \in segment.address..(segment.address + segment.file_size - 1)
  THEN image.name ELSE Zero

\* A loaded image is exactly one executable's, whatever was loaded, or failed
\* to load, into the same static pages before: its bytes and zeros, with the
\* entry point among the pages it counts, which the staging area has, and no
\* page writable beyond them.
LoadedImageSound ==
  staging.loaded =>
    /\ \E node \in DOMAIN Images :
         /\ \A o \in DOMAIN staging.pages : staging.pages[o] = ImageByte(Images[node], o)
         /\ staging.entry = Images[node].entry
    /\ staging.entry - X86_64_USER_CODE_BASE \in 0..staging.bytes - 1
    /\ staging.bytes <= staging.page_count * X86_64_USER_PAGE_BYTES
    /\ staging.page_count <= X86_64_USER_IMAGE_MAX_PAGES
    /\ staging.writable \subseteq 0..staging.page_count - 1

\* The parts of a path that name something: those that no later ".." takes back.
Names(parts, from, to) == Cardinality({i \in from..to : parts[i] \notin {"", ".", ".."}})
Ups(parts, from, to) == Cardinality({i \in from..to : parts[i] = ".."})

Meant(parts) ==
  LET kept == {i \in DOMAIN parts :
                 /\ parts[i] \notin {"", ".", ".."}
                 /\ \A j \in i + 1..Len(parts) : Ups(parts, i + 1, j) <= Names(parts, i + 1, j)}
      place(i) == Cardinality({j \in kept : j <= i})
  IN  [k \in 1..Cardinality(kept) |-> parts[CHOOSE i \in kept : place(i) = k]]

\* find_node, through which every call on a path goes, finds the node the path
\* means or none, and finds it when the path has no "..": normalize_path, which
\* edits its output in place, is right wherever it answers at all.
PathsSound ==
  \A path \in scope.paths :
    LET node == find_node(path)
        meant == Meant(path.parts)
    IN  /\ node \in {NO_NODE, meant}
        /\ path.absolute /\ ".." \notin Range(path.parts) /\ meant \in DOMAIN Nodes
           => node # NO_NODE

\* A program that asks to sleep some ticks sleeps at least as many.
SleepHonoured ==
  result.error = "none" => result.value >= result.asked
=============================================================================
