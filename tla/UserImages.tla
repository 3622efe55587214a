------------------------------ MODULE UserImages ------------------------------
(***************************************************************************)
(* Executable images on i386: the registry of core/user_image.c and the    *)
(* loaders loader/flat_binary.c and loader/elf32.c, up to the copy into    *)
(* the code page that ring3_load_user_image makes (module Ring3).          *)
(*                                                                         *)
(* A file's content is its record "data": whether it has the ELF magic     *)
(* and, if so, the fields of the header and the sequence of its program    *)
(* headers.  Fields only compared with one accepted value are Booleans.    *)
(***************************************************************************)
EXTENDS InitramfsVfs

CONSTANTS
    Registered,                 \* registered_images: path |-> kind
    RING3_USER_CODE_VIRTUAL,
    RING3_USER_PAGE_SIZE,
    ElfHeaderSize,              \* sizeof(elf32_header_t)
    ProgramHeaderSize,          \* sizeof(elf32_program_header_t)
    WordSize                    \* 2^32

ASSUME ImageAssumption ==
    /\ RING3_USER_PAGE_SIZE \in Nat \ {0}
    /\ RING3_USER_CODE_VIRTUAL \in Nat \ {0}
    /\ RING3_USER_CODE_VIRTUAL + 2 * RING3_USER_PAGE_SIZE < WordSize
    /\ \A p \in DOMAIN Registered : Registered[p] \in {"flat", "elf"}

-----------------------------------------------------------------------------
(* What a loader decides: a failure, or the bytes of the file to copy into *)
(* the code page, the address to start at and the memory the image wants.  *)
Refused(status) == [status |-> status, offset |-> 0, bytes |-> 0, entry |-> 0, memory |-> 0]
Copy(offset, bytes, entry, memory) ==
    [status |-> "OK", offset |-> offset, bytes |-> bytes, entry |-> entry, memory |-> memory]

flat_binary_load_from_node(node) ==
    IF node.type # "file" \/ node.size = 0 THEN Refused("INVALID_STATE")
    ELSE Copy(0, node.size, RING3_USER_CODE_VIRTUAL, node.size)

elf32_validate_from_node(node) ==
    LET h == node.data IN
    IF node.type # "file" THEN "INVALID_ARGUMENT"
    ELSE IF node.size < ElfHeaderSize \/ ~h.magic THEN "INVALID_STATE"
    ELSE IF ~h.supported THEN "UNSUPPORTED"      \* class, byte order, type, machine, version
    ELSE IF ~h.header_size_ok THEN "INVALID_STATE"
    ELSE IF Len(h.segments) > 0 /\ ~h.entry_size_ok THEN "INVALID_STATE"
    ELSE IF Len(h.segments) > 0 /\ h.program_header_offset >= node.size THEN "INVALID_STATE"
    ELSE IF Len(h.segments) > 0 /\ Len(h.segments) * ProgramHeaderSize
                                  > node.size - h.program_header_offset THEN "INVALID_STATE"
    ELSE "OK"

elf32_check_segment(node, entry, s) ==
    IF s.virtual_address # RING3_USER_CODE_VIRTUAL THEN "UNSUPPORTED"
    ELSE IF entry < s.virtual_address THEN "INVALID_STATE"
    ELSE IF entry >= (s.virtual_address + s.memory_size) % WordSize THEN "INVALID_STATE"
    ELSE IF s.file_size = 0 THEN "INVALID_STATE"
    ELSE IF s.file_size > s.memory_size THEN "INVALID_STATE"
    ELSE IF s.memory_size > RING3_USER_PAGE_SIZE THEN "UNSUPPORTED"
    ELSE IF s.offset >= node.size THEN "INVALID_STATE"
    ELSE IF s.file_size > node.size - s.offset THEN "INVALID_STATE"
    ELSE "OK"

elf32_load_from_node(node) ==
    LET status == elf32_validate_from_node(node)
        loads == SelectSeq(node.data.segments, LAMBDA s : s.load)
        s == loads[1]
        checked == elf32_check_segment(node, node.data.entry, s)
    IN  IF status # "OK" THEN Refused(status)
        ELSE IF loads = <<>> THEN Refused("INVALID_STATE")
        ELSE IF Len(loads) > 1 THEN Refused("UNSUPPORTED")
        ELSE IF checked # "OK" THEN Refused(checked)
        ELSE Copy(s.offset, s.file_size, node.data.entry, s.memory_size)

-----------------------------------------------------------------------------
user_image_resolve_registered_node(path) == IfType(vfs_lookup(path), "file")

(* user_image_lookup only finds the image; EXEC uses it to create a        *)
(* process without touching the code page.                                 *)
user_image_lookup(path) ==
    IF path \in DOMAIN Registered
    THEN user_image_resolve_registered_node(path)
    ELSE Fail("NOT_FOUND")

user_image_load_registered(path) ==
    LET found == user_image_resolve_registered_node(path) IN
    IF found.status # "OK" THEN Refused(found.status)
    ELSE IF Registered[path] = "flat" THEN flat_binary_load_from_node(Nodes[found.node])
    ELSE elf32_load_from_node(Nodes[found.node])

(* The part of user_image_resolve before ring3_load_user_image.            *)
user_image_resolve(path) ==
    IF path \in DOMAIN Registered
    THEN user_image_load_registered(path)
    ELSE Refused("NOT_FOUND")
=============================================================================
