-------------------------- MODULE X64ServicesProofs --------------------------
(***************************************************************************)
(* The services of the x86_64 kernel, for every size of their buffers and  *)
(* every program.                                                          *)
(*                                                                         *)
(* The session file: NoUnwrittenBytes says nothing of bytes behind the end *)
(* of the file, and a file truncated under an open descriptor grows again  *)
(* from that descriptor's offset.  The invariant has to follow every open  *)
(* offset, and the bytes a truncation leaves behind.                       *)
(*                                                                         *)
(* The desktop's probe is invisible because it finds a free descriptor and *)
(* a file it can write; a loaded image is sound because every turn of the  *)
(* loader's loop leaves pages that cover the segments so far; keyboard     *)
(* input implements InputService, with the rings of the kernel mapped to   *)
(* sequences.  What the kernel's functions do is in X64FunctionProofs.     *)
(***************************************************************************)
EXTENDS X64Services, X64FunctionProofs

\* Sizes of the session file and offsets into it.
Extent == 0..X86_64_VFS_RAM_FILE_BYTES

\* Some program wrote each of the first n bytes.
WrittenUpTo(file, n) == \A i \in 0..n - 1 : file.data[i] # Nul

\* The file fits its buffer, and its bytes were written.
FileOK(file) ==
  /\ DOMAIN file = {"data", "size"}
  /\ DOMAIN file.data = 0..X86_64_VFS_RAM_FILE_BYTES - 1
  /\ file.size \in Extent
  /\ WrittenUpTo(file, file.size)

\* The fields of a descriptor.
DescriptorFields == {"used", "flags", "node", "offset"}

\* The bytes before the offset of a descriptor of the session file were
\* written, though the file may have been truncated since.
OffsetsOK(fs, file) ==
  /\ DOMAIN fs = Slots
  /\ \A slot \in Slots :
       /\ DOMAIN fs[slot] = DescriptorFields
       /\ fs[slot].used /\ is_session_storage_node(fs[slot].node) =>
            fs[slot].offset \in Extent /\ WrittenUpTo(file, fs[slot].offset)

\* The inductive invariant.
IInv == FileOK(session) /\ OffsetsOK(files, session)

\* vfs_init leaves no open descriptor.
LEMMA FreshDescriptors ==
  ASSUME NEW file PROVE OffsetsOK(vfs_init, file)
  BY Zenon DEF OffsetsOK, vfs_init, FreeSlot, DescriptorFields

\* vfs_open, which may truncate the file whether or not it then finds a free
\* descriptor, preserves the invariant.
LEMMA OpenOK ==
  ASSUME NEW fs, NEW file, FileOK(file), OffsetsOK(fs, file), NEW path, NEW flags,
         NEW opened, opened = vfs_open(fs, file, path, flags)
  PROVE  FileOK(opened.session) /\ OffsetsOK(opened.fs, opened.session)
<1> DEFINE after == Truncated(file, flags)
<1>1. FileOK(after) /\ OffsetsOK(fs, after)
  BY VfsAssumption DEF Truncated, FileOK, OffsetsOK, WrittenUpTo, Extent
<1> HIDE DEF after
<1>2. ASSUME NEW node,  NEW o, o = OpenIn(fs, after, node, flags)
      PROVE  o.session = after /\ OffsetsOK(o.fs, after)
  <2> DEFINE slot == Min({s \in Slots : ~fs[s].used})
             new == [used |-> TRUE, flags |-> flags, node |-> node, offset |-> 0]
  <2>1. \/ o.session = after /\ o.fs = fs
        \/ o.session = after /\ o.fs = [fs EXCEPT ![slot] = new]
    BY <1>2, Zenon DEF OpenIn
  <2>2. /\ DOMAIN new = DescriptorFields
        /\ new.offset \in Extent /\ WrittenUpTo(after, new.offset)
    BY VfsAssumption DEF DescriptorFields, WrittenUpTo, Extent
  <2> HIDE DEF slot, new
  <2>3. OffsetsOK([fs EXCEPT ![slot] = new], after)
    BY <1>1, <2>2, Zenon DEF OffsetsOK
  <2>4. QED
    BY <1>1, <2>1, <2>3, Zenon
<1>3. \/ opened.fs = fs /\ opened.session = file
      \/ \E node : opened = OpenIn(fs, after, node, flags)
  BY Zenon DEF vfs_open, after
<1>4. QED
  BY <1>1, <1>2, <1>3, Zenon

\* vfs_read moves an offset only over bytes of the file.
LEMMA ReadOK ==
  ASSUME NEW fs, NEW file, FileOK(file), OffsetsOK(fs, file), NEW fd, NEW buffer, NEW size \in Nat
  PROVE  OffsetsOK(vfs_read(fs, file, fd, buffer, size).fs, file)
<1> DEFINE slot == fd_slot(fd)
           bytes == BytesRead(fs, file, fd, size)
           read == [fs EXCEPT ![slot].offset = @ + bytes]
<1>1. \/ vfs_read(fs, file, fd, buffer, size).fs = fs
      \/ IsOpen(fs, fd) /\ vfs_read(fs, file, fd, buffer, size).fs = read
  BY Zenon DEF vfs_read
<1>2. ASSUME IsOpen(fs, fd) PROVE OffsetsOK(read, file)
  <2>1. slot \in Slots /\ fs[slot].used
    BY <1>2, Zenon DEF IsOpen
  <2>2. ASSUME is_session_storage_node(fs[slot].node)
        PROVE  fs[slot].offset + bytes \in Extent /\ WrittenUpTo(file, fs[slot].offset + bytes)
    <3>1. /\ fs[slot].offset \in Extent /\ WrittenUpTo(file, fs[slot].offset)
          /\ file.size \in Extent /\ WrittenUpTo(file, file.size)
      BY <2>1, <2>2, Zenon DEF OffsetsOK, FileOK
    <3>2. bytes = IF fs[slot].offset >= file.size THEN 0
                  ELSE Min({size, file.size - fs[slot].offset})
      BY <2>2, Zenon DEF BytesRead, node_size
    <3>3. CASE fs[slot].offset >= file.size
      <4>1. fs[slot].offset + bytes = fs[slot].offset
        BY <3>1, <3>2, <3>3, VfsAssumption DEF Extent
      <4>2. QED
        BY <3>1, <4>1, Zenon
    <3>4. CASE ~(fs[slot].offset >= file.size)
      <4>1. file.size - fs[slot].offset \in Nat
        BY <3>1, <3>4, VfsAssumption DEF Extent
      <4>2. bytes \in Nat /\ bytes =< file.size - fs[slot].offset
        BY <3>2, <3>4, <4>1, MinOfTwo
      <4>3. fs[slot].offset + bytes \in 0..file.size
        BY <3>1, <4>2, VfsAssumption DEF Extent
      <4> HIDE DEF bytes
      <4>4. QED
        BY <3>1, <4>3, VfsAssumption DEF Extent, WrittenUpTo
    <3>5. QED
      BY <3>3, <3>4, Zenon
  <2> HIDE DEF slot, bytes
  <2>3. QED
    BY <2>1, <2>2, Zenon DEF OffsetsOK, DescriptorFields
<1>3. QED
  BY <1>1, <1>2, Zenon

\* vfs_close preserves the invariant.
LEMMA CloseOK ==
  ASSUME NEW fs, NEW file, OffsetsOK(fs, file), NEW fd
  PROVE  OffsetsOK(vfs_close(fs, fd).fs, file)
<1> DEFINE slot == fd_slot(fd)
<1>1. \/ vfs_close(fs, fd).fs = fs
      \/ vfs_close(fs, fd).fs = [fs EXCEPT ![slot] = FreeSlot]
  BY Zenon DEF vfs_close
<1> HIDE DEF slot
<1>2. OffsetsOK([fs EXCEPT ![slot] = FreeSlot], file)
  BY Zenon DEF OffsetsOK, FreeSlot, DescriptorFields
<1>3. QED
  BY <1>1, <1>2, Zenon

\* vfs_write, at whatever offset a descriptor has and wherever the end of the
\* file is by then, preserves the invariant.
LEMMA WriteOK ==
  ASSUME NEW fs, NEW file, FileOK(file), OffsetsOK(fs, file), NEW fd, NEW buffer, NEW size \in Nat,
         NEW written, written = vfs_write(fs, file, fd, buffer, Data, size)
  PROVE  FileOK(written.session) /\ OffsetsOK(written.fs, written.session)
<1> DEFINE slot == fd_slot(fd)
           o == fs[slot].offset
           bytes == IF o >= X86_64_VFS_RAM_FILE_BYTES THEN 0
                    ELSE Min({size, X86_64_VFS_RAM_FILE_BYTES - o})
           data == [i \in DOMAIN file.data |->
                      IF i \in o..(o + bytes - 1) THEN Data[i - o] ELSE file.data[i]]
           grown == IF bytes > 0 THEN Max({file.size, o + bytes}) ELSE file.size
           new == [data |-> data, size |-> grown]
           moved == [fs EXCEPT ![slot].offset = o + bytes]
<1>1. \/ written.fs = fs /\ written.session = file
      \/ /\ slot \in Slots /\ fs[slot].used /\ is_session_storage_node(fs[slot].node)
         /\ written.fs = moved /\ written.session = new
  BY Zenon DEF vfs_write, IsOpen
<1>2. ASSUME slot \in Slots, fs[slot].used, is_session_storage_node(fs[slot].node)
      PROVE  FileOK(new) /\ OffsetsOK(moved, new)
  <2>1. /\ o \in Extent /\ WrittenUpTo(file, o)
        /\ file.size \in Extent /\ WrittenUpTo(file, file.size)
        /\ DOMAIN file.data = 0..X86_64_VFS_RAM_FILE_BYTES - 1
    BY <1>2, Zenon DEF OffsetsOK, FileOK
  <2>2. bytes \in Nat /\ o + bytes \in Extent
    <3>1. CASE o >= X86_64_VFS_RAM_FILE_BYTES
      BY <2>1, <3>1, VfsAssumption DEF Extent
    <3>2. CASE ~(o >= X86_64_VFS_RAM_FILE_BYTES)
      <4>1. X86_64_VFS_RAM_FILE_BYTES - o \in Nat
        BY <2>1, <3>2, VfsAssumption DEF Extent
      <4>2. bytes = IF size =< X86_64_VFS_RAM_FILE_BYTES - o THEN size
                    ELSE X86_64_VFS_RAM_FILE_BYTES - o
        BY <3>2, <4>1, MinOfTwo, Zenon
      <4>3. QED
        BY <2>1, <4>1, <4>2, VfsAssumption DEF Extent
    <3>3. QED
      BY <3>1, <3>2, Zenon
  <2> HIDE DEF bytes, o, slot
  <2>3. grown \in {file.size, o + bytes}
    BY <2>1, <2>2, MaxOfTwo, VfsAssumption DEF Extent
  <2>4. /\ DOMAIN data = 0..X86_64_VFS_RAM_FILE_BYTES - 1
        /\ \A i \in 0..X86_64_VFS_RAM_FILE_BYTES - 1 :
              data[i] = IF i \in o..(o + bytes - 1) THEN Data[i - o] ELSE file.data[i]
    BY <2>1, Zenon
  <2> HIDE DEF data, grown
  <2>5. ASSUME NEW i \in 0..X86_64_VFS_RAM_FILE_BYTES - 1,
               i \in o..(o + bytes - 1) \/ file.data[i] # Nul
        PROVE  data[i] # Nul
    <3>1. CASE i \in o..(o + bytes - 1)
      <4>1. i - o \in 0..X86_64_VFS_RAM_FILE_BYTES - 1
        BY <2>1, <2>2, <3>1, VfsAssumption DEF Extent
      <4>2. QED
        BY <2>4, <3>1, <4>1, DataAssumption, Zenon
    <3>2. CASE i \notin o..(o + bytes - 1)
      BY <2>4, <2>5, <3>2, Zenon
    <3>3. QED
      BY <3>1, <3>2, Zenon
  <2>6. ASSUME NEW n \in Extent, WrittenUpTo(file, n) PROVE WrittenUpTo(new, n)
    BY <2>5, <2>6, VfsAssumption DEF WrittenUpTo, Extent
  <2>7. WrittenUpTo(new, o + bytes)
    BY <2>1, <2>2, <2>5, VfsAssumption DEF WrittenUpTo, Extent
  <2>8. FileOK(new)
    BY <2>1, <2>2, <2>3, <2>4, <2>6, <2>7, Zenon DEF FileOK
  <2> HIDE DEF new
  <2>9. OffsetsOK(moved, new)
    BY <2>2, <2>6, <2>7, Zenon DEF OffsetsOK, DescriptorFields
  <2>10. QED
    BY <2>8, <2>9, Zenon
<1> HIDE DEF slot, o, bytes, data, grown, new, moved
<1>3. QED
  BY <1>1, <1>2, Zenon

\* The invariant holds after boot.
LEMMA FilesInit == Init => IInv
  BY FreshDescriptors, VfsAssumption DEF Init, IInv, FileOK, WrittenUpTo, Extent

\* The desktop's probe of the session file puts back what it found.
LEMMA ProbeRestores == \A d, t, file : refresh_desktop_state(d, t, file).session = file
  BY Zenon DEF refresh_desktop_state, session_storage_ready, ProbeDone, Restored

\* Every call and every interrupt preserves the invariant.
LEMMA FilesNext == IInv /\ [Next]_vars => IInv'
<1> SUFFICES ASSUME IInv, [Next]_vars PROVE IInv'
  BY Zenon
<1>0. ASSUME UNCHANGED <<session, files>> PROVE IInv'
  BY <1>0, Zenon DEF IInv
<1>1. ASSUME files' = vfs_init, session' = session PROVE IInv'
  BY <1>1, FreshDescriptors, Zenon DEF IInv
<1>2. CASE UNCHANGED vars
  BY <1>0, <1>2, Zenon DEF vars
<1>3. CASE TimerInterrupt \/ KeyboardInterrupt \/ SerialArrives
  BY <1>0, <1>3, Zenon DEF TimerInterrupt, KeyboardInterrupt, SerialArrives, dispatcher
<1>4. CASE user_mode_start_init
  BY <1>1, <1>4, Zenon DEF user_mode_start_init, initialize_live_dispatcher
<1>5. CASE DESKTOP_STATUS \/ WINDOW_PRESENT
  <2>1. UNCHANGED files
    BY <1>5, Zenon DEF DESKTOP_STATUS, WINDOW_PRESENT, dispatcher
  <2>2. UNCHANGED session
    BY <1>5, ProbeRestores, ZenonT(40) DEF DESKTOP_STATUS, WINDOW_PRESENT, Refresh
  <2>3. QED
    BY <1>0, <2>1, <2>2, Zenon
<1>6. CASE TICKS \/ SLEEP_TICKS \/ ReadSpins \/ INPUT_EVENTS \/ INPUT_STATUS \/ STAT
  BY <1>0, <1>6, Zenon DEF TICKS, SLEEP_TICKS, ReadSpins, INPUT_EVENTS, INPUT_STATUS, STAT, dispatcher
<1>7. CASE READ
  <2>1. session' = session
    BY <1>7, Zenon DEF READ
  <2>2. \/ files' = files
        \/ \E buffer, fd : \E size \in Sizes : files' = vfs_read(files, session, fd, buffer, size).fs
    BY <1>7, Zenon DEF READ
  <2>3. QED
    BY <2>1, <2>2, ReadOK, DataAssumption, Zenon DEF IInv
<1>8. CASE OPEN
  <2>1. \/ UNCHANGED <<files, session>>
        \/ \E path, flags : /\ files' = vfs_open(files, session, path, flags).fs
                             /\ session' = vfs_open(files, session, path, flags).session
    BY <1>8, Zenon DEF OPEN
  <2>2. QED
    BY <1>0, <2>1, OpenOK, Zenon DEF IInv
<1>9. CASE WRITE
  <2>1. \/ UNCHANGED <<files, session>>
        \/ \E buffer, fd : \E size \in Sizes :
              /\ files' = vfs_write(files, session, fd, buffer, Data, size).fs
              /\ session' = vfs_write(files, session, fd, buffer, Data, size).session
    BY <1>9, Zenon DEF WRITE
  <2>2. QED
    BY <1>0, <2>1, WriteOK, DataAssumption, Zenon DEF IInv
<1>10. CASE CLOSE
  <2>1. session' = session /\ \E fd : files' = vfs_close(files, fd).fs
    BY <1>10, Zenon DEF CLOSE
  <2>2. QED
    BY <2>1, CloseOK, Zenon DEF IInv
<1>11. CASE EXIT
  BY <1>0, <1>1, <1>11, Zenon DEF EXIT, initialize_live_dispatcher, dispatcher
<1>12. CASE EXEC \/ SPAWN \/ GET_ARG \/ YIELD \/ UnknownCall
  BY <1>0, <1>12, Zenon DEF EXEC, SPAWN, GET_ARG, YIELD, UnknownCall, dispatcher
<1>13. QED
  BY <1>2, <1>3, <1>4, <1>5, <1>6, <1>7, <1>8, <1>9, <1>10, <1>11, <1>12, Zenon DEF Next

\* What a program can read of the session file was written by some program,
\* whatever opens, truncations, reads, writes and closes came before, through
\* any number of descriptors (vfs.c).
THEOREM SessionFileWritten == Spec => []NoUnwrittenBytes
<1>1. Init => IInv
  BY FilesInit, Zenon
<1>2. IInv /\ [Next]_vars => IInv'
  BY FilesNext, Zenon
<1>3. IInv => NoUnwrittenBytes
  BY Zenon DEF IInv, FileOK, WrittenUpTo, NoUnwrittenBytes
<1>4. QED
  BY <1>1, <1>2, <1>3, PTL DEF Spec

-----------------------------------------------------------------------------
(* The desktop's probe *)

DesktopFields == {"tick_ready", "session_ready", "graphics_ready", "window_service_ready",
                  "window_fits"}

\* The session file is whole, and the last probe found it ready.
ReadyInv == IInv /\ DOMAIN desktop = DesktopFields /\ desktop.session_ready

\* A refresh reports the session file ready.
LEMMA RefreshReady ==
  ASSUME NEW d, DOMAIN d = DesktopFields, NEW t, NEW file, FileOK(file),
         NEW after, after = refresh_desktop_state(d, t, file).desktop
  PROVE  DOMAIN after = DesktopFields /\ after.session_ready
<1>1. session_storage_ready(file).ok
  BY ProbeSucceeds, Zenon DEF FileOK
<1>2. QED
  BY <1>1, Zenon DEF refresh_desktop_state, DesktopFields

\* The boot's own refresh finds the file ready.
LEMMA ReadyInit == Init => ReadyInv
<1> SUFFICES ASSUME Init PROVE ReadyInv
  BY Zenon
<1>1. IInv
  BY FilesInit, Zenon
<1>2. PICK graphics, fits :
        desktop = refresh_desktop_state(
                    [tick_ready |-> FALSE, session_ready |-> FALSE, graphics_ready |-> graphics,
                     window_service_ready |-> FALSE, window_fits |-> fits], timer, session).desktop
  BY Zenon DEF Init
<1> DEFINE d == [tick_ready |-> FALSE, session_ready |-> FALSE, graphics_ready |-> graphics,
                 window_service_ready |-> FALSE, window_fits |-> fits]
<1>3. DOMAIN d = DesktopFields
  BY Zenon DEF DesktopFields
<1> HIDE DEF d
<1>4. DOMAIN desktop = DesktopFields /\ desktop.session_ready
  BY <1>1, <1>2, <1>3, RefreshReady, Zenon DEF IInv, d
<1>5. QED
  BY <1>1, <1>4, Zenon DEF ReadyInv

\* A call that refreshes the desktop's state leaves the files alone and reports
\* the storage ready, and so does one that is refused.
LEMMA DesktopProbe ==
  ASSUME ReadyInv, DESKTOP_STATUS \/ WINDOW_PRESENT
  PROVE  UNCHANGED <<session, files>> /\ DOMAIN desktop' = DesktopFields /\ desktop'.session_ready
<1>1. UNCHANGED files
  BY Zenon DEF DESKTOP_STATUS, WINDOW_PRESENT, dispatcher
<1>2. UNCHANGED <<session, desktop>> \/ Refresh
  BY Zenon DEF DESKTOP_STATUS, WINDOW_PRESENT
<1>3. ASSUME Refresh
      PROVE  session' = session /\ DOMAIN desktop' = DesktopFields /\ desktop'.session_ready
  BY <1>3, ProbeRestores, RefreshReady, Zenon DEF Refresh, ReadyInv, IInv
<1>4. QED
  BY <1>1, <1>2, <1>3, Zenon DEF ReadyInv

\* Only a refresh changes what the desktop reports.
LEMMA ReadyNext == ReadyInv /\ [Next]_vars => ReadyInv'
<1> SUFFICES ASSUME ReadyInv, [Next]_vars PROVE ReadyInv'
  BY Zenon
<1>1. IInv'
  BY FilesNext, Zenon DEF ReadyInv
<1>2. ASSUME UNCHANGED desktop PROVE ReadyInv'
  BY <1>1, <1>2, Zenon DEF ReadyInv
<1>3. CASE UNCHANGED vars
  BY <1>2, <1>3, Zenon DEF vars
<1>4. CASE TimerInterrupt \/ KeyboardInterrupt \/ SerialArrives \/ user_mode_start_init
  BY <1>2, <1>4, Zenon DEF TimerInterrupt, KeyboardInterrupt, SerialArrives, user_mode_start_init
<1>5. CASE DESKTOP_STATUS \/ WINDOW_PRESENT
  BY <1>1, <1>5, DesktopProbe, Zenon DEF ReadyInv
<1>6. CASE TICKS \/ SLEEP_TICKS \/ READ \/ ReadSpins \/ INPUT_EVENTS \/ INPUT_STATUS
  BY <1>2, <1>6, Zenon DEF TICKS, SLEEP_TICKS, READ, ReadSpins, INPUT_EVENTS, INPUT_STATUS
<1>7. CASE OPEN \/ WRITE \/ CLOSE \/ STAT
  BY <1>2, <1>7, Zenon DEF OPEN, WRITE, CLOSE, STAT
<1>8. CASE EXEC \/ SPAWN \/ EXIT \/ GET_ARG \/ YIELD \/ UnknownCall
  BY <1>2, <1>8, Zenon DEF EXEC, SPAWN, EXIT, GET_ARG, YIELD, UnknownCall
<1>9. QED
  BY <1>3, <1>4, <1>5, <1>6, <1>7, <1>8, Zenon DEF Next

\* Asking for the desktop's state or presenting its window writes a probe into
\* the session file and takes it out again: the programs' file and descriptors
\* are as they were and the storage is reported ready, whatever the programs
\* have done to the file (desktop_services.c, vfs.c).
THEOREM ProbeUnseen == Spec => ProbeInvisible
<1>1. Init => ReadyInv
  BY ReadyInit, Zenon
<1>2. ReadyInv /\ [Next]_vars => ReadyInv'
  BY ReadyNext, Zenon
<1>3. ReadyInv => \/ UNCHANGED <<session, files>> /\ desktop'.session_ready
                  \/ ~(DESKTOP_STATUS \/ WINDOW_PRESENT)
  BY DesktopProbe, Zenon
<1>4. QED
  BY <1>1, <1>2, <1>3, PTL DEF Spec, ProbeInvisible

-----------------------------------------------------------------------------
(* Images *)

\* The pages are marked loaded only while they hold an executable's image.
ImageInv == DOMAIN staging = StagingFields /\ LoadedImageSound

\* EXEC and SPAWN, whether they load the image, refuse it or fail afterwards.
LEMMA ImageLoaded ==
  ASSUME ImageInv, NEW address, NEW path, NEW created,
         staging' = LoadImage(address, path, created).staging
  PROVE  ImageInv'
<1> DEFINE fresh == [staging EXCEPT !.loaded = FALSE, !.entry = 0]
           node == find_node(path)
           load == load_exec_elf(fresh, Images[node])
<1>1. DOMAIN fresh = StagingFields /\ fresh.loaded = FALSE
  BY Zenon DEF ImageInv, StagingFields
<1>2. \/ staging' = fresh
      \/ /\ vfs_resolve(path).error = "none" /\ vfs_resolve(path).type = "EXECUTABLE"
         /\ staging' = load.staging
  BY Zenon DEF LoadImage
<1> HIDE DEF fresh
<1>3. CASE staging' = fresh
  BY <1>1, <1>3, Zenon DEF ImageInv, LoadedImageSound
<1>4. CASE /\ vfs_resolve(path).error = "none" /\ vfs_resolve(path).type = "EXECUTABLE"
           /\ staging' = load.staging
  <2>1. node # NO_NODE /\ Nodes[node].type = "EXECUTABLE"
    BY <1>4, Zenon DEF vfs_resolve
  <2>2. node \in DOMAIN Nodes
    BY <2>1, Zenon DEF find_node, NodeNamed
  <2>3. node \in DOMAIN Images /\ Images[node].segments \in Seq(Segments)
    BY <2>1, <2>2, ImagesAssumption, Zenon
  <2> HIDE DEF node
  <2>4. DOMAIN staging' = StagingFields /\ (staging'.loaded => LoadedFrom(staging', Images[node]))
    BY <1>1, <1>4, <2>3, LoadOK, Zenon
  <2>5. \A o : ImageByte(Images[node], o) =
              IF \E j \in DOMAIN Images[node].segments : Covers(Images[node].segments[j], o)
              THEN Images[node].name ELSE Zero
    BY Zenon DEF ImageByte, Covers
  <2>6. LoadedFrom(staging', Images[node]) => LoadedImageSound'
    BY <2>3, <2>5, Zenon DEF LoadedFrom, LoadedImageSound
  <2>7. ~staging'.loaded => LoadedImageSound'
    BY Zenon DEF LoadedImageSound
  <2>8. QED
    BY <2>4, <2>6, <2>7, Zenon DEF ImageInv
<1>5. QED
  BY <1>2, <1>3, <1>4, Zenon

\* Nothing but a load marks the pages loaded or changes what they hold.
LEMMA ImageNext == ImageInv /\ [Next]_vars => ImageInv'
<1> SUFFICES ASSUME ImageInv, [Next]_vars PROVE ImageInv'
  BY Zenon
<1>1. ASSUME UNCHANGED staging PROVE ImageInv'
  BY <1>1, Zenon DEF ImageInv, LoadedImageSound
<1>2. ASSUME initialize_live_dispatcher PROVE ImageInv'
  <2>1. DOMAIN staging' = StagingFields /\ staging'.loaded = FALSE
    BY <1>2, Zenon DEF initialize_live_dispatcher, ImageInv, StagingFields
  <2>2. QED
    BY <2>1, Zenon DEF ImageInv, LoadedImageSound
<1>3. CASE UNCHANGED vars
  BY <1>1, <1>3, Zenon DEF vars
<1>4. CASE TimerInterrupt \/ KeyboardInterrupt \/ SerialArrives
  BY <1>1, <1>4, Zenon DEF TimerInterrupt, KeyboardInterrupt, SerialArrives, dispatcher
<1>5. CASE user_mode_start_init \/ EXIT
  BY <1>1, <1>2, <1>5, Zenon DEF user_mode_start_init, EXIT, dispatcher
<1>6. CASE DESKTOP_STATUS \/ WINDOW_PRESENT \/ TICKS \/ SLEEP_TICKS \/ INPUT_STATUS
  BY <1>1, <1>6, Zenon DEF DESKTOP_STATUS, WINDOW_PRESENT, TICKS, SLEEP_TICKS, INPUT_STATUS, dispatcher
<1>7. CASE READ \/ ReadSpins \/ INPUT_EVENTS
  BY <1>1, <1>7, Zenon DEF READ, ReadSpins, INPUT_EVENTS, dispatcher
<1>8. CASE OPEN \/ WRITE \/ CLOSE \/ STAT
  BY <1>1, <1>8, Zenon DEF OPEN, WRITE, CLOSE, STAT, dispatcher
<1>9. CASE EXEC \/ SPAWN
  <2>1. \E address, path, created : staging' = LoadImage(address, path, created).staging
    BY <1>9, Zenon DEF EXEC, SPAWN
  <2>2. QED
    BY <2>1, ImageLoaded, Zenon
<1>10. CASE GET_ARG \/ YIELD \/ UnknownCall
  BY <1>1, <1>10, Zenon DEF GET_ARG, YIELD, UnknownCall, dispatcher
<1>11. QED
  BY <1>3, <1>4, <1>5, <1>6, <1>7, <1>8, <1>9, <1>10, Zenon DEF Next

\* A loaded image is exactly one executable's, with the entry point among the
\* pages it counts, which the staging area has, and no page writable beyond
\* them: for every table of nodes and every set of images, segments that wrap
\* around the address space or leave the pages included (syscall_dispatch.h).
THEOREM ImagesSound == Spec => []LoadedImageSound
<1>1. Init => ImageInv
  BY SMTT(40) DEF Init, ImageInv, LoadedImageSound, StagingFields
<1>2. ImageInv /\ [Next]_vars => ImageInv'
  BY ImageNext, Zenon
<1>3. ImageInv => LoadedImageSound
  BY Zenon DEF ImageInv
<1>4. QED
  BY <1>1, <1>2, <1>3, PTL DEF Spec

-----------------------------------------------------------------------------
(* Keyboard input *)

\* The inductive invariant.  Nothing is handed out before a program runs.
InputInv ==
  /\ KeyboardOK(keyboard)
  /\ cursor \in 0..keyboard.next_sequence - 1
  /\ wanted \in Nat
  /\ cpu = "boot" => result.data = NoData

\* The keyboard starts with empty rings.
LEMMA InputInit == Init => InputInv /\ Input!AInit
<1> SUFFICES ASSUME Init PROVE InputInv /\ Input!AInit
  BY Zenon
<1>0. /\ keyboard = keyboard_buffer_reset /\ cursor = 0 /\ wanted = 0
      /\ result.data = NoData
  BY Zenon DEF Init
<1>1. keyboard \in KeyboardState
  <2> DEFINE nothing == [code |-> Nul, value |-> Nul, sequence |-> 0]
             buffer == [i \in CharPlaces |-> Nul]
             queue == [i \in EventPlaces |-> nothing]
  <2>1. 0 \in CharPlaces /\ 0 \in EventPlaces
    BY InputAssumption DEF CharPlaces, EventPlaces
  <2>2. buffer \in [CharPlaces -> Chars]
    BY Zenon DEF Chars
  <2>3. nothing \in Event
    BY Zenon DEF Event, Chars
  <2>4. queue \in [EventPlaces -> Event]
    BY <2>3, Zenon
  <2>5. keyboard = [shift_pressed |-> FALSE, buffer |-> buffer, head |-> 0, tail |-> 0,
                    count |-> 0, overflows |-> 0, queue |-> queue, event_head |-> 0,
                    event_tail |-> 0, event_count |-> 0, next_sequence |-> 1, drops |-> 0]
    BY <1>0, Zenon DEF keyboard_buffer_reset, CharPlaces, EventPlaces
  <2> HIDE DEF buffer, queue
  <2>6. QED
    BY <2>1, <2>2, <2>4, <2>5, InputAssumption DEF KeyboardState
<1>2. /\ keyboard.head = 0 /\ keyboard.tail = 0 /\ keyboard.count = 0 /\ keyboard.overflows = 0
      /\ keyboard.event_head = 0 /\ keyboard.event_tail = 0 /\ keyboard.event_count = 0
      /\ keyboard.next_sequence = 1
  BY <1>0, Zenon DEF keyboard_buffer_reset
<1>3. KeyboardOK(keyboard)
  BY <1>1, <1>2, InputAssumption DEF KeyboardOK
<1>4. InputInv
  BY <1>0, <1>2, <1>3 DEF InputInv
<1>5. Buffered(keyboard) = <<>> /\ Queued(keyboard) = <<>>
  BY <1>2 DEF Buffered, Queued
<1>6. latest_sequence(keyboard) = 0
  BY <1>2 DEF latest_sequence
<1>7. QED
  BY <1>0, <1>2, <1>4, <1>5, <1>6, Zenon DEF Input!AInit, Input!Nothing, NoData

\* A key that types nothing, whichever way keyboard_handle_irq meets it, is a
\* Press of InputService; one that types a character is a Type.
LEMMA KeyPressed ==
  ASSUME InputInv, NEW scancode \in Scancodes, keyboard' = keyboard_handle_irq(keyboard, scancode),
         UNCHANGED <<cursor, result>>
  PROVE  /\ KeyboardOK(keyboard') /\ keyboard'.next_sequence = keyboard.next_sequence + 1
         /\ Input!ANext
<1> DEFINE Noted(n, value) ==
             /\ KeyboardOK(n)
             /\ Buffered(n) = Buffered(keyboard) /\ n.overflows = keyboard.overflows
             /\ n.next_sequence = keyboard.next_sequence + 1
             /\ Queued(n) = Longer(Queued(keyboard),
                                   [code |-> scancode, value |-> value,
                                    sequence |-> keyboard.next_sequence])
<1>0. KeyboardOK(keyboard) /\ keyboard.next_sequence \in Nat \ {0}
  BY Zenon DEF InputInv, KeyboardOK, KeyboardState
<1>1. ASSUME NEW b \in BOOLEAN, NEW k, k = [keyboard EXCEPT !.shift_pressed = b]
      PROVE  /\ KeyboardOK(k) /\ Buffered(k) = Buffered(keyboard) /\ Queued(k) = Queued(keyboard)
             /\ k.overflows = keyboard.overflows /\ k.next_sequence = keyboard.next_sequence
  <2>1. k \in KeyboardState
    BY <1>0, <1>1, Zenon DEF KeyboardOK, KeyboardState
  <2>2. /\ k.head = keyboard.head /\ k.tail = keyboard.tail /\ k.count = keyboard.count
        /\ k.overflows = keyboard.overflows /\ k.next_sequence = keyboard.next_sequence
        /\ k.event_head = keyboard.event_head /\ k.event_tail = keyboard.event_tail
        /\ k.event_count = keyboard.event_count
        /\ k.buffer = keyboard.buffer /\ k.queue = keyboard.queue
    BY <1>0, <1>1, Zenon DEF KeyboardOK, KeyboardState
  <2>3. Buffered(k) = Buffered(keyboard) /\ Queued(k) = Queued(keyboard)
    BY <2>2, Zenon DEF Buffered, Queued
  <2>4. KeyboardOK(k)
    BY <1>0, <2>1, <2>2, <2>3, Zenon DEF KeyboardOK
  <2>5. QED
    BY <2>2, <2>3, <2>4, Zenon
<1>2. ASSUME NEW value \in Chars, NEW n, n = input_event_push(keyboard, scancode, value)
      PROVE  Noted(n, value)
  BY <1>0, <1>2, PushEvent
<1>3. Nul \in Chars
  BY Zenon DEF Chars
<1>4. latest_sequence(keyboard) + 1 = keyboard.next_sequence
  BY <1>0, LatestIs
<1>5. ASSUME Noted(keyboard', Nul)
      PROVE  /\ KeyboardOK(keyboard') /\ keyboard'.next_sequence = keyboard.next_sequence + 1
             /\ Input!ANext
  <2> DEFINE key == [code |-> scancode, value |-> Nul]
  <2>1. latest_sequence(keyboard') = latest_sequence(keyboard) + 1
    BY <1>0, <1>4, <1>5, LatestIs
  <2>2. Queued(keyboard') = Longer(Queued(keyboard), [code |-> key.code, value |-> key.value,
                                          sequence |-> latest_sequence(keyboard) + 1])
    BY <1>4, <1>5, Zenon
  <2>3. Input!Remember(key)
    BY <2>1, <2>2, Zenon DEF Input!Remember, Longer
  <2>4. Input!Press(key)
    BY <1>5, <2>3, Zenon DEF Input!Press
  <2>5. key \in [code : Scancodes, value : {Nul}]
    BY Zenon
  <2>6. QED
    BY <1>5, <2>4, <2>5, Zenon DEF Input!ANext
<1>6. CASE scancode \in {ShiftPress, ShiftRelease}
  <2> DEFINE k == [keyboard EXCEPT !.shift_pressed = (scancode = ShiftPress)]
  <2>1. keyboard' = input_event_push(k, scancode, Nul)
    BY <1>6, Zenon DEF keyboard_handle_irq, ShiftKey
  <2>2. /\ KeyboardOK(k) /\ Buffered(k) = Buffered(keyboard) /\ Queued(k) = Queued(keyboard)
        /\ k.overflows = keyboard.overflows /\ k.next_sequence = keyboard.next_sequence
    BY <1>1, Zenon
  <2> HIDE DEF k
  <2>3. /\ KeyboardOK(keyboard')
        /\ Buffered(keyboard') = Buffered(k) /\ keyboard'.overflows = k.overflows
        /\ keyboard'.next_sequence = k.next_sequence + 1
        /\ Queued(keyboard') = Longer(Queued(k), [code |-> scancode, value |-> Nul,
                                                 sequence |-> k.next_sequence])
    BY <1>3, <2>1, <2>2, PushEvent, Zenon
  <2>4. Noted(keyboard', Nul)
    BY <2>2, <2>3, Zenon
  <2>5. QED
    BY <1>5, <2>4, Zenon
<1>7. CASE scancode \notin {ShiftPress, ShiftRelease} /\ scancode \in BreakCodes
  <2>1. keyboard' = input_event_push(keyboard, scancode, Nul)
    BY <1>7, Zenon DEF keyboard_handle_irq
  <2>2. QED
    BY <1>2, <1>3, <1>5, <2>1, Zenon
<1>8. CASE scancode \notin {ShiftPress, ShiftRelease} /\ scancode \notin BreakCodes
  <2> DEFINE ascii == keyboard_translate_scancode(keyboard, scancode)
             noted == input_event_push(keyboard, scancode, ascii)
  <2>1. keyboard' = IF ascii = Nul THEN noted ELSE keyboard_buffer_push(noted, ascii)
    BY <1>8, Zenon DEF keyboard_handle_irq, MakeCode
  <2>2. scancode \in DOMAIN scancode_ascii_map
    BY <1>8, Zenon DEF Scancodes
  <2>3. ascii \in Chars
    BY <2>2, Zenon DEF Chars, keyboard_translate_scancode
  <2>4. \E m \in {scancode_ascii_map, scancode_shift_ascii_map} : ascii = m[scancode]
    BY Zenon DEF keyboard_translate_scancode
  <2>5. Noted(noted, ascii)
    BY <1>2, <2>3, Zenon
  <2> HIDE DEF ascii, noted
  <2>6. CASE ascii = Nul
    BY <1>5, <2>1, <2>5, <2>6, Zenon
  <2>7. CASE ascii # Nul
    <3> DEFINE key == [code |-> scancode, value |-> ascii]
    <3>1. keyboard' = keyboard_buffer_push(noted, ascii)
      BY <2>1, <2>7, Zenon
    <3>2. /\ KeyboardOK(keyboard')
          /\ Queued(keyboard') = Queued(noted)
          /\ keyboard'.next_sequence = noted.next_sequence
          /\ \/ /\ Len(Buffered(noted)) < X86_64_KEYBOARD_BUFFER_CAPACITY
                /\ Buffered(keyboard') = Append(Buffered(noted), ascii)
                /\ keyboard'.overflows = noted.overflows
             \/ /\ Len(Buffered(noted)) = X86_64_KEYBOARD_BUFFER_CAPACITY
                /\ Buffered(keyboard') = Buffered(noted)
                /\ keyboard'.overflows = noted.overflows + 1
      BY <2>3, <2>5, <3>1, PushChar, Zenon
    <3>3. latest_sequence(keyboard') = latest_sequence(keyboard) + 1
      BY <1>0, <1>4, <2>5, <3>2, LatestIs
    <3>4. Queued(keyboard') = Longer(Queued(keyboard), [code |-> key.code, value |-> key.value,
                                            sequence |-> latest_sequence(keyboard) + 1])
      BY <1>4, <2>5, <3>2, Zenon
    <3>5. Input!Remember(key)
      BY <3>3, <3>4, Zenon DEF Input!Remember, Longer
    <3>6. Input!Type(key)
      <4>1. \/ /\ Len(Buffered(keyboard)) < X86_64_KEYBOARD_BUFFER_CAPACITY
               /\ Buffered(keyboard)' = Append(Buffered(keyboard), key.value)
               /\ keyboard.overflows' = keyboard.overflows
            \/ /\ Len(Buffered(keyboard)) = X86_64_KEYBOARD_BUFFER_CAPACITY
               /\ keyboard.overflows' = keyboard.overflows + 1
               /\ Buffered(keyboard)' = Buffered(keyboard)
        BY <2>5, <3>2, Zenon
      <4> HIDE DEF key
      <4>2. QED
        BY <3>5, <4>1, Zenon DEF Input!Type
    <3>7. key \in {x \in TypingKeys : x.value # Nul}
      BY <2>2, <2>4, <2>7 DEF TypingKeys
    <3> HIDE DEF key
    <3>8. Input!ANext
      BY <3>6, <3>7, Zenon DEF Input!ANext
    <3>9. QED
      BY <2>5, <3>2, <3>8, Zenon
  <2>8. QED
    BY <2>6, <2>7, Zenon
<1>9. QED
  BY <1>6, <1>7, <1>8, Zenon

\* The instance's Min is Min.
LEMMA InputMin == \A S : Input!Min(S) = Min(S)
  BY Zenon DEF Min, Input!Min

\* READ, at once or after it blocked, is a TakeCharacters.
LEMMA CharactersTaken ==
  ASSUME InputInv, NEW size \in Nat, TakeStdin(size), UNCHANGED cursor
  PROVE  /\ KeyboardOK(keyboard') /\ keyboard'.next_sequence = keyboard.next_sequence
         /\ Input!ANext
<1> DEFINE m == Min({size, keyboard.count})
           n == keyboard_read(keyboard, size)
<1>0. KeyboardOK(keyboard) /\ keyboard.count \in 0..X86_64_KEYBOARD_BUFFER_CAPACITY
  BY Zenon DEF InputInv, KeyboardOK, KeyboardState
<1>1. /\ KeyboardOK(n.keyboard)
      /\ Queued(n.keyboard) = Queued(keyboard) /\ n.keyboard.overflows = keyboard.overflows
      /\ n.keyboard.next_sequence = keyboard.next_sequence
      /\ m \in 0..keyboard.count
      /\ n.bytes = SubSeq(Buffered(keyboard), 1, m) /\ Len(n.bytes) = m
      /\ Buffered(n.keyboard) = SubSeq(Buffered(keyboard), m + 1, keyboard.count)
  BY <1>0, ReadChars, SMTT(60)
<1>2. /\ keyboard' = n.keyboard
      /\ result'.data = [NoData EXCEPT !.characters = n.bytes]
  BY Zenon DEF TakeStdin, read_stdin, AnswerData
<1>3. Len(Buffered(keyboard)) = keyboard.count
  BY <1>0, RingsAreSeqs, Zenon
<1> HIDE DEF m, n
<1>4. m \in 0..X86_64_KEYBOARD_BUFFER_CAPACITY /\ m = Min({m, Len(Buffered(keyboard))})
  <2>1. m \in Nat /\ keyboard.count \in Nat /\ m <= keyboard.count
    BY <1>0, <1>1
  <2>2. Min({m, keyboard.count}) = m
    BY <2>1, MinOfTwo, Zenon
  <2>3. QED
    BY <1>0, <1>1, <1>3, <2>2, InputAssumption
<1>5. latest_sequence(keyboard') = latest_sequence(keyboard)
  BY <1>0, <1>1, <1>2, LatestIs, Zenon
<1>6. Input!TakeCharacters(m)
  <2>1. Buffered(keyboard') = SubSeq(Buffered(keyboard), m + 1, Len(Buffered(keyboard)))
    BY <1>1, <1>2, <1>3, Zenon
  <2>2. result'.data = [[characters |-> <<>>, events |-> <<>>] EXCEPT
                          !.characters = SubSeq(Buffered(keyboard), 1, m)]
    BY <1>1, <1>2, Zenon DEF NoData
  <2>3. /\ keyboard'.overflows = keyboard.overflows /\ Queued(keyboard') = Queued(keyboard)
    BY <1>1, <1>2, Zenon
  <2>4. QED
    BY <1>4, <1>5, <2>1, <2>2, <2>3, InputMin, Zenon DEF Input!TakeCharacters, Input!Nothing
<1>7. QED
  BY <1>1, <1>2, <1>4, <1>6, Zenon DEF Input!ANext

\* INPUT_EVENTS, when it answers with events or with none, is a TakeEvents.
LEMMA EventsTaken ==
  ASSUME InputInv, NEW max_events \in 0..X86_64_INPUT_EVENT_QUEUE_CAPACITY, UNCHANGED keyboard,
         NEW read, read = input_events_read_from(keyboard, cursor, max_events),
         cursor' = read.cursor, result'.data = [NoData EXCEPT !.events = read.events]
  PROVE  cursor' \in 0..keyboard.next_sequence - 1 /\ Input!ANext
<1> DEFINE n == keyboard.event_count
           s == Seen(keyboard, cursor)
           m == Min({max_events, n - s})
           q == Queued(keyboard)
<1>0. KeyboardOK(keyboard) /\ cursor \in 0..keyboard.next_sequence - 1 /\ max_events \in Nat
  BY InputAssumption DEF InputInv
<1>1. /\ m \in 0..max_events
      /\ read.events = SubSeq(q, s + 1, s + m)
      /\ read.cursor = IF m = 0 THEN cursor ELSE keyboard.next_sequence - 1 - n + s + m
      /\ read.cursor \in 0..keyboard.next_sequence - 1
  <2>1. EventsRead(keyboard, cursor, max_events, read, m)
    BY <1>0, ReadEvents, Zenon
  <2>2. QED
    BY <2>1, Zenon DEF EventsRead
<1>2. Len(q) = n /\ latest_sequence(keyboard) = keyboard.next_sequence - 1
  BY <1>0, RingsAreSeqs, LatestIs, Zenon
<1>3. s = LET dropped == latest_sequence(keyboard) - Len(q)
          IN  IF cursor > dropped THEN cursor - dropped ELSE 0
  BY <1>2, Zenon DEF Seen
<1>4. m = Min({max_events, Len(q) - s})
  BY <1>2, Zenon
<1>5. result'.data = [Input!Nothing EXCEPT !.events = SubSeq(q, s + 1, s + m)]
  BY <1>1, Zenon DEF Input!Nothing, NoData
<1>6. cursor' = IF m = 0 THEN cursor ELSE latest_sequence(keyboard) - Len(q) + s + m
  BY <1>1, <1>2, Zenon
<1> HIDE DEF m, s, n
<1>7. Input!TakeEvents(max_events)
  BY <1>3, <1>4, <1>5, <1>6, InputMin, Zenon DEF Input!TakeEvents
<1>8. QED
  BY <1>1, <1>7, Zenon DEF Input!ANext

\* The calls that hand out neither characters nor events.
LEMMA NothingHanded ==
  ASSUME \/ DESKTOP_STATUS \/ WINDOW_PRESENT \/ TICKS \/ SLEEP_TICKS \/ INPUT_STATUS \/ STAT
         \/ GET_ARG \/ YIELD \/ UnknownCall \/ OPEN \/ WRITE \/ CLOSE \/ EXEC \/ SPAWN
  PROVE  UNCHANGED <<keyboard, cursor, wanted>> /\ result'.data = NoData
<1>1. UNCHANGED <<keyboard, cursor, wanted>>
  <2>1. CASE DESKTOP_STATUS \/ WINDOW_PRESENT \/ TICKS \/ SLEEP_TICKS \/ INPUT_STATUS
    BY <2>1, Zenon DEF DESKTOP_STATUS, WINDOW_PRESENT, TICKS, SLEEP_TICKS, INPUT_STATUS, dispatcher
  <2>2. CASE STAT \/ GET_ARG \/ YIELD \/ UnknownCall
    BY <2>2, Zenon DEF STAT, GET_ARG, YIELD, UnknownCall, dispatcher
  <2>3. CASE OPEN \/ WRITE \/ CLOSE \/ EXEC \/ SPAWN
    BY <2>3, Zenon DEF OPEN, WRITE, CLOSE, EXEC, SPAWN
  <2>4. QED
    BY <2>1, <2>2, <2>3, Zenon
<1>2. ASSUME NEW answer, Answer(answer) PROVE result'.data = NoData
  BY <1>2, Zenon DEF Answer
<1>3. CASE DESKTOP_STATUS \/ WINDOW_PRESENT
  BY <1>1, <1>2, <1>3, Zenon DEF DESKTOP_STATUS, WINDOW_PRESENT
<1>4. CASE TICKS \/ YIELD \/ UnknownCall \/ INPUT_STATUS \/ STAT
  BY <1>1, <1>2, <1>4, Zenon DEF TICKS, YIELD, UnknownCall, INPUT_STATUS, STAT
<1>5. CASE SLEEP_TICKS
  BY <1>1, <1>2, <1>5 DEF SLEEP_TICKS
<1>6. CASE GET_ARG
  BY <1>1, <1>2, <1>6, Zenon DEF GET_ARG
<1>7. CASE OPEN \/ CLOSE
  BY <1>1, <1>2, <1>7, Zenon DEF OPEN, CLOSE
<1>8. CASE WRITE
  BY <1>1, <1>2, <1>8, Zenon DEF WRITE
<1>9. CASE EXEC \/ SPAWN
  BY <1>1, <1>2, <1>9, Zenon DEF EXEC, SPAWN
<1>10. QED
  BY <1>3, <1>4, <1>5, <1>6, <1>7, <1>8, <1>9, Zenon

\* Every step of the kernel is a step of InputService or leaves what it
\* promises alone.
LEMMA InputStep == InputInv /\ [Next]_vars => InputInv' /\ [Input!ANext]_(Input!avars)
<1> DEFINE Goal == InputInv' /\ [Input!ANext]_(Input!avars)
<1> SUFFICES ASSUME InputInv, [Next]_vars PROVE Goal
  BY Zenon
<1> USE DEF InputInv
<1>1. ASSUME UNCHANGED <<keyboard, cursor, result>>, wanted' \in Nat, cpu' = "boot" => cpu = "boot"
      PROVE  Goal
  <2>1. UNCHANGED Input!avars
    BY <1>1, Zenon DEF Input!avars, Buffered, Queued, latest_sequence
  <2>2. QED
    BY <1>1, <2>1, Zenon
<1>2. ASSUME UNCHANGED <<keyboard, cursor>>, result'.data = NoData, wanted' \in Nat
      PROVE  Goal
  <2>1. Input!OtherAnswer
    BY <1>2, Zenon DEF Input!OtherAnswer, Input!Nothing, NoData, Buffered, Queued, latest_sequence
  <2>2. QED
    BY <1>2, <2>1, Zenon DEF Input!ANext
<1>3. ASSUME UNCHANGED keyboard, cursor' = latest_sequence(keyboard), result'.data = NoData,
             wanted' \in Nat
      PROVE  Goal
  <2>1. cursor' \in 0..keyboard.next_sequence - 1
    <3>1. keyboard.next_sequence \in Nat \ {0}
      BY Zenon DEF KeyboardOK, KeyboardState
    <3>2. QED
      BY <1>3, <3>1, LatestIs
  <2>2. Input!StartReading
    BY <1>3, Zenon DEF Input!StartReading, Input!Nothing, NoData, Buffered, Queued
  <2>3. QED
    BY <1>3, <2>1, <2>2, Zenon DEF Input!ANext
<1>4. CASE UNCHANGED vars
  BY <1>1, <1>4, Zenon DEF vars
<1>5. CASE TimerInterrupt \/ SerialArrives
  BY <1>1, <1>5, Zenon DEF TimerInterrupt, SerialArrives, dispatcher
<1>6. CASE KeyboardInterrupt
  <2>1. PICK scancode \in Scancodes : keyboard' = keyboard_handle_irq(keyboard, scancode)
    BY <1>6, Zenon DEF KeyboardInterrupt
  <2>2. UNCHANGED <<cursor, result, wanted, cpu>>
    BY <1>6, Zenon DEF KeyboardInterrupt, dispatcher
  <2>3. /\ KeyboardOK(keyboard') /\ keyboard'.next_sequence = keyboard.next_sequence + 1
        /\ Input!ANext
    BY <2>1, <2>2, KeyPressed, Zenon
  <2>4. cursor' \in 0..keyboard'.next_sequence - 1
    <3>1. keyboard.next_sequence \in Nat \ {0}
      BY Zenon DEF KeyboardOK, KeyboardState
    <3>2. QED
      BY <2>2, <2>3, <3>1
  <2>5. QED
    BY <2>2, <2>3, <2>4, Zenon
<1>7. CASE user_mode_start_init
  BY <1>3, <1>7, Zenon DEF user_mode_start_init, initialize_live_dispatcher
<1>8. CASE DESKTOP_STATUS \/ WINDOW_PRESENT \/ TICKS \/ SLEEP_TICKS \/ INPUT_STATUS \/ STAT
           \/ GET_ARG \/ YIELD \/ UnknownCall \/ OPEN \/ WRITE \/ CLOSE \/ EXEC \/ SPAWN
  BY <1>2, <1>8, NothingHanded, Zenon
<1>11. CASE EXIT
  BY <1>2, <1>3, <1>11, Zenon DEF EXIT, Answer, initialize_live_dispatcher, dispatcher
<1>12. ASSUME NEW size \in Nat, TakeStdin(size), UNCHANGED cursor, wanted' \in Nat, cpu' # "boot"
       PROVE  Goal
  BY <1>12, CharactersTaken, Zenon
<1>13. CASE READ
  <2>1. UNCHANGED cursor /\ cpu = "ring 3"
    BY <1>13, Zenon DEF READ, Calls
  <2>2. PICK size \in Sizes :
          \/ read_stdin_blocking(size)
          \/ result'.data = NoData /\ UNCHANGED <<keyboard, wanted>>
    BY <1>13 DEF READ, Answer
  <2>3. size \in Nat
    BY DataAssumption, Zenon
  <2>4. CASE read_stdin_blocking(size)
    <3>1. \/ cpu' = "reading" /\ wanted' = size /\ UNCHANGED <<keyboard, result>>
          \/ TakeStdin(size) /\ UNCHANGED <<cpu, wanted>>
      BY <2>4, Zenon DEF read_stdin_blocking
    <3>2. QED
      BY <1>1, <1>12, <2>1, <2>3, <3>1, Zenon
  <2>5. QED
    BY <1>2, <2>1, <2>2, <2>4, Zenon
<1>14. CASE ReadSpins
  BY <1>12, <1>14, Zenon DEF ReadSpins, dispatcher
<1>15. CASE INPUT_EVENTS
  <2>1. UNCHANGED <<keyboard, wanted, cpu>> /\ cpu = "ring 3"
    BY <1>15, Zenon DEF INPUT_EVENTS, Calls
  <2>2. PICK max_events \in 0..X86_64_INPUT_EVENT_QUEUE_CAPACITY + 1 :
          \/ result'.data = NoData /\ UNCHANGED cursor
          \/ /\ ~(max_events > X86_64_INPUT_EVENT_QUEUE_CAPACITY)
             /\ result'.data = [NoData EXCEPT !.events =
                                  input_events_read_from(keyboard, cursor, max_events).events]
             /\ cursor' = input_events_read_from(keyboard, cursor, max_events).cursor
    BY <1>15 DEF INPUT_EVENTS, Answer, AnswerData
  <2>3. CASE result'.data = NoData /\ UNCHANGED cursor
    BY <1>2, <2>1, <2>3, Zenon
  <2>4. CASE /\ ~(max_events > X86_64_INPUT_EVENT_QUEUE_CAPACITY)
             /\ result'.data = [NoData EXCEPT !.events =
                                  input_events_read_from(keyboard, cursor, max_events).events]
             /\ cursor' = input_events_read_from(keyboard, cursor, max_events).cursor
    <3>1. max_events \in 0..X86_64_INPUT_EVENT_QUEUE_CAPACITY
      BY <2>4, InputAssumption
    <3>2. cursor' \in 0..keyboard.next_sequence - 1 /\ Input!ANext
      BY <2>1, <2>4, <3>1, EventsTaken, Zenon
    <3>3. QED
      BY <2>1, <3>2, Zenon
  <2>5. QED
    BY <2>2, <2>3, <2>4, Zenon
<1>16. QED
  BY <1>4, <1>5, <1>6, <1>7, <1>8, <1>11, <1>13, <1>14, <1>15, Zenon DEF Next

\* Keyboard input is the service InputService promises, for rings of every
\* size and every key map: characters typed in order, each once, refused only
\* while the ring is full, and the latest events in order after the reader's
\* cursor (idt.c).
THEOREM InputRefines == Spec => InputSpec
<1>1. Init => InputInv /\ Input!AInit
  BY InputInit, Zenon
<1>2. InputInv /\ [Next]_vars => InputInv' /\ [Input!ANext]_(Input!avars)
  BY InputStep, Zenon
<1>3. QED
  BY <1>1, <1>2, PTL DEF Spec, InputSpec, Input!ASpec
=============================================================================
