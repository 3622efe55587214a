------------------------------- MODULE X64Vfs -------------------------------
(***************************************************************************)
(* The x86_64 file system (arch/x86_64/vfs.c): a fixed table of nodes, the *)
(* one writable file of the session, and a table of descriptors, as        *)
(* functions of their state.  A path starts with a slash or not, and has    *)
(* the parts its slashes separate: an empty part is two slashes in a row.  *)
(* Paths reach these functions terminated within                           *)
(* X86_64_VFS_PATH_MAX_BYTES and normalizing makes none longer, so the     *)
(* length checks of normalize_path refuse none of them.                    *)
(***************************************************************************)
EXTENDS Naturals, Sequences, FiniteSetsExt

CONSTANTS X86_64_VFS_FD_BASE,
          X86_64_VFS_MAX_OPEN_FILES,
          X86_64_VFS_RAM_FILE_BYTES,
          Nodes          \* the table: path -> [type, size, session]

ASSUME VfsAssumption ==
  /\ X86_64_VFS_MAX_OPEN_FILES \in Nat
  /\ X86_64_VFS_RAM_FILE_BYTES \in Nat

NO_NODE == <<"no node">>
Slots == 0..X86_64_VFS_MAX_OPEN_FILES - 1
OPEN_READ == {}
SupportedFlags == {"WRITE", "CREATE", "TRUNCATE"}

Failed(error) == [error |-> error, value |-> 0]
Value(n) == [error |-> "none", value |-> n]

(* Paths *)

\* ".." that leaves the path as it is.
WithoutLast_ignored(out) == out

\* "..": the last component goes and the slash before it stays, so that
\* what is left ends in an empty component unless it is the root.
WithoutLast(out) ==
  LET front(s) == SubSeq(s, 1, Len(s) - 1)
      bare == IF out # <<>> /\ out[Len(out)] = "" THEN front(out) ELSE out
  IN  IF Len(bare) <= 1 THEN <<>> ELSE Append(front(bare), "")

Step(out, segment) ==
  CASE segment \in {"", "."} -> out
    [] segment = ".." -> WithoutLast(out)
    [] OTHER -> Append(out, segment)

normalize_path(path) ==
  LET out[i \in 0..Len(path.parts)] ==
        IF i = 0 THEN <<>> ELSE Step(out[i - 1], path.parts[i])
  IN  out[Len(path.parts)]

NodeNamed(parts) == IF parts \in DOMAIN Nodes THEN parts ELSE NO_NODE

find_node(path) == IF path.absolute THEN NodeNamed(normalize_path(path)) ELSE NO_NODE

(* Nodes *)

is_session_storage_node(node) == Nodes[node].session

node_size(session, node) ==
  IF is_session_storage_node(node) THEN session.size ELSE Nodes[node].size

\* The value is the size stored through size_out.
vfs_stat(session, path) ==
  IF find_node(path) = NO_NODE THEN Failed("ENOENT")
  ELSE Value(node_size(session, find_node(path)))

vfs_resolve(path) ==
  IF find_node(path) = NO_NODE THEN [error |-> "ENOENT", type |-> "none"]
  ELSE [error |-> "none", type |-> Nodes[find_node(path)].type]

(* Descriptors: fs[slot] is [used, flags, node, offset] *)

FreeSlot == [used |-> FALSE, flags |-> OPEN_READ, node |-> NO_NODE, offset |-> 0]

vfs_init == [slot \in Slots |-> FreeSlot]

\* The slot of a descriptor, or X86_64_VFS_MAX_OPEN_FILES.
fd_slot(fd) ==
  IF fd < X86_64_VFS_FD_BASE \/ fd - X86_64_VFS_FD_BASE \notin Slots
  THEN X86_64_VFS_MAX_OPEN_FILES ELSE fd - X86_64_VFS_FD_BASE

IsOpen(fs, fd) == fd_slot(fd) \in Slots /\ fs[fd_slot(fd)].used

\* A file is truncated before a descriptor is looked for: an open that finds
\* none has already emptied the file.
Truncated(session, flags) ==
  IF "TRUNCATE" \in flags THEN [session EXCEPT !.size = 0] ELSE session

OpenIn(fs, session, node, flags) ==
  LET free == {slot \in Slots : ~fs[slot].used}
  IN  IF free = {}
      THEN [fs |-> fs, session |-> session, result |-> Failed("EINVAL")]
      ELSE [fs |-> [fs EXCEPT ![Min(free)] =
                      [used |-> TRUE, flags |-> flags, node |-> node, offset |-> 0]],
            session |-> session,
            result |-> Value(X86_64_VFS_FD_BASE + Min(free))]

vfs_open(fs, session, path, flags) ==
  LET node == find_node(path)
      refuse(error) == [fs |-> fs, session |-> session, result |-> Failed(error)]
  IN  IF node = NO_NODE THEN refuse("ENOENT")
      ELSE IF ~(flags \subseteq SupportedFlags) THEN refuse("EINVAL")
      ELSE IF flags # OPEN_READ /\ ~is_session_storage_node(node) THEN refuse("EINVAL")
      ELSE OpenIn(fs, Truncated(session, flags), node, flags)

\* The offset moves by what was asked for, past the end of the file.
BytesRead_as_asked(fs, session, fd, size) ==
  LET open == fs[fd_slot(fd)]
  IN  IF open.offset >= node_size(session, open.node) THEN 0 ELSE size

BytesRead(fs, session, fd, size) ==
  LET open == fs[fd_slot(fd)]
      limit == node_size(session, open.node)
  IN  IF open.offset >= limit THEN 0 ELSE Min({size, limit - open.offset})

\* A null buffer passes the caller's range check when nothing is asked for.
NULL == 0

vfs_read(fs, session, fd, buffer, size) ==
  IF buffer = NULL THEN [fs |-> fs, result |-> Failed("EINVAL")]
  ELSE IF ~IsOpen(fs, fd) THEN [fs |-> fs, result |-> Failed("EBADF")]
  ELSE LET bytes == BytesRead(fs, session, fd, size)
       IN  [fs |-> [fs EXCEPT ![fd_slot(fd)].offset = @ + bytes],
            result |-> Value(bytes)]

\* data[i] is byte i of the caller's buffer, from 0.
vfs_write(fs, session, fd, buffer, data, size) ==
  LET slot == fd_slot(fd)
      writable == /\ IsOpen(fs, fd)
                  /\ "WRITE" \in fs[slot].flags
                  /\ is_session_storage_node(fs[slot].node)
      offset == fs[slot].offset
      bytes == IF offset >= X86_64_VFS_RAM_FILE_BYTES THEN 0
               ELSE Min({size, X86_64_VFS_RAM_FILE_BYTES - offset})
  IN  IF buffer = NULL THEN [fs |-> fs, session |-> session, result |-> Failed("EINVAL")]
      ELSE IF ~writable THEN [fs |-> fs, session |-> session, result |-> Failed("EBADF")]
      ELSE [fs |-> [fs EXCEPT ![slot].offset = offset + bytes],
            session |-> [data |-> [i \in DOMAIN session.data |->
                                     IF i \in offset..(offset + bytes - 1)
                                     THEN data[i - offset] ELSE session.data[i]],
                         size |-> IF bytes > 0 THEN Max({session.size, offset + bytes})
                                  ELSE session.size],
            result |-> Value(bytes)]

vfs_close(fs, fd) ==
  IF ~IsOpen(fs, fd) THEN [fs |-> fs, result |-> Failed("EBADF")]
  ELSE [fs |-> [fs EXCEPT ![fd_slot(fd)] = FreeSlot], result |-> Value(0)]

(* The probe of the session file: it writes "ram" into the one file there  *)
(* is, reads it back through descriptors of its own, and restores the      *)
(* bytes and the size it saved.                                            *)

CONSTANTS SessionPath, Ram

\* The path names the session file, which has room for the probe.
ASSUME ProbeAssumption ==
  /\ find_node(SessionPath) # NO_NODE
  /\ is_session_storage_node(find_node(SessionPath))
  /\ X86_64_VFS_RAM_FILE_BYTES >= 3
  /\ X86_64_VFS_MAX_OPEN_FILES >= 1
  /\ X86_64_VFS_FD_BASE \in Nat

KernelBuffer == 1    \* a buffer on the kernel's stack: not null

WriteProbe(opened) ==
  vfs_write(opened.fs, opened.session, opened.result.value, KernelBuffer, Ram, 3)

ProbeWritten(session) ==
  WriteProbe(vfs_open(vfs_init, session, SessionPath, SupportedFlags))

ReadProbe(written, opened) ==
  vfs_read(opened.fs, written.session, opened.result.value, KernelBuffer, 3).result

ProbeRead(written) ==
  ReadProbe(written, vfs_open(vfs_init, written.session, SessionPath, OPEN_READ))

\* The bytes are put back but not the size.
Restored_bytes_only(saved, session) == [session EXCEPT !.data = saved.data]

Restored(saved, session) == saved

ProbeDone(saved, written) ==
  [ok |-> /\ written.result = Value(3)
          /\ ProbeRead(written) = Value(3)
          /\ \A i \in 0..2 : written.session.data[i] = Ram[i],
   session |-> Restored(saved, written.session)]

session_storage_ready(session) == ProbeDone(session, ProbeWritten(session))
=============================================================================
