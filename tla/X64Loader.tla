------------------------------ MODULE X64Loader ------------------------------
(***************************************************************************)
(* The checks of the x86_64 system calls on user addresses and the loading *)
(* of an executable into the dispatcher's staging pages                    *)
(* (arch/x86_64/syscall_dispatch.h), as functions.  An image is            *)
(* [name, size, header_ok, entry, segments]; a segment is                  *)
(* [load, address, memory_size, file_size, offset, aligned, flags].  A     *)
(* staged byte is the name of the image it comes from, or Zero.            *)
(***************************************************************************)
EXTENDS Naturals, Sequences, FiniteSetsExt

CONSTANTS AddressSpace,                 \* 2^64
          X86_64_USER_CODE_BASE,
          X86_64_USER_CANONICAL_LIMIT,
          X86_64_USER_PAGE_BYTES,
          X86_64_USER_IMAGE_MAX_PAGES,
          X86_64_USER_STACK_BYTES,      \* also the largest image accepted
          Zero

ASSUME LoaderAssumption ==
  /\ AddressSpace \in Nat \ {0}
  /\ X86_64_USER_CODE_BASE \in Nat
  /\ X86_64_USER_PAGE_BYTES \in Nat \ {0}
  /\ X86_64_USER_IMAGE_MAX_PAGES \in Nat

X86_64_USER_IMAGE_MAX_BYTES == X86_64_USER_IMAGE_MAX_PAGES * X86_64_USER_PAGE_BYTES

user_range_ok(address, size) ==
  LET end == (address + size) % AddressSpace
  IN  \/ size = 0
      \/ /\ address >= X86_64_USER_CODE_BASE
         /\ end >= address
         /\ end <= X86_64_USER_CANONICAL_LIMIT

image_range_fits(offset, size, image_size) ==
  offset <= image_size /\ size <= image_size - offset

EmptyPages == [o \in 0..X86_64_USER_IMAGE_MAX_BYTES - 1 |-> Zero]

\* Only the pages the last image was counted to use are cleared.
clear_user_image_pages_counted(staging) ==
  [pages |-> [o \in DOMAIN staging.pages |->
                IF o < staging.page_count * X86_64_USER_PAGE_BYTES
                THEN Zero ELSE staging.pages[o]],
   writable |-> {}, bytes |-> 0, page_count |-> 0,
   entry |-> staging.entry, loaded |-> staging.loaded]

\* The staging pages: their bytes, the pages with a writable segment, how
\* much of them the image uses, and whether they hold a loaded image.
clear_user_image_pages(staging) ==
  [pages |-> EmptyPages, writable |-> {}, bytes |-> 0, page_count |-> 0,
   entry |-> staging.entry, loaded |-> staging.loaded]

elf_header_ok(image) ==
  /\ image.header_ok
  /\ image.size > 0
  /\ image.size <= X86_64_USER_STACK_BYTES
  /\ Len(image.segments) \in 1..8

Segments ==
  [load : BOOLEAN, address : 0..AddressSpace - 1, memory_size : 0..AddressSpace - 1,
   file_size : 0..AddressSpace - 1, offset : 0..AddressSpace - 1, aligned : BOOLEAN,
   flags : SUBSET {"R", "W", "X"}]

Skipped(segment) == ~segment.load \/ segment.memory_size = 0

segment_ok(segment, image_size) ==
  LET segment_end == (segment.address + segment.memory_size) % AddressSpace
  IN  /\ segment_end >= segment.address
      /\ segment.address >= X86_64_USER_CODE_BASE
      /\ segment_end <= X86_64_USER_CODE_BASE + X86_64_USER_IMAGE_MAX_BYTES
      /\ segment.aligned
      /\ segment.file_size <= segment.memory_size
      /\ image_range_fits(segment.offset, segment.file_size, image_size)

StageSegment(staging, image, segment) ==
  LET offset == segment.address - X86_64_USER_CODE_BASE
      first_page == offset \div X86_64_USER_PAGE_BYTES
      last_page == (offset + segment.memory_size - 1) \div X86_64_USER_PAGE_BYTES
  IN  [staging EXCEPT
        !.writable = IF "W" \in segment.flags THEN @ \cup (first_page..last_page) ELSE @,
        !.pages = [o \in DOMAIN @ |->
                     IF o \in offset..(offset + segment.file_size - 1)
                     THEN image.name ELSE @[o]],
        !.bytes = Max({@, offset + segment.memory_size})]

\* One turn of the loader's loop.  The segments before the first one refused
\* are already staged when the loader gives up.
StageNext(so_far, image, segment) ==
  CASE ~so_far.ok \/ Skipped(segment) -> so_far
    [] so_far.ok /\ ~Skipped(segment) /\ ~segment_ok(segment, image.size) ->
         [so_far EXCEPT !.ok = FALSE]
    [] OTHER -> [so_far EXCEPT !.staging = StageSegment(@, image, segment)]

StageSegments(staging, image) ==
  LET after[i \in 0..Len(image.segments)] ==
        IF i = 0 THEN [ok |-> TRUE, staging |-> staging]
        ELSE StageNext(after[i - 1], image, image.segments[i])
  IN  after[Len(image.segments)]

entry_segment_seen(image) ==
  \E i \in DOMAIN image.segments :
     LET segment == image.segments[i]
     IN  /\ ~Skipped(segment)
         /\ "X" \in segment.flags
         /\ image.entry \in segment.address..(segment.address + segment.memory_size - 1)

Pages(bytes) == (bytes + X86_64_USER_PAGE_BYTES - 1) \div X86_64_USER_PAGE_BYTES

\* The image's bytes are counted only when the load succeeds.
load_exec_elf(staging, image) ==
  IF ~elf_header_ok(image) THEN [ok |-> FALSE, staging |-> staging]
  ELSE LET staged == StageSegments(clear_user_image_pages(staging), image)
           bytes == staged.staging.bytes
       IN  IF staged.ok /\ bytes > 0 /\ entry_segment_seen(image)
           THEN [ok |-> TRUE,
                 staging |-> [staged.staging EXCEPT !.entry = image.entry,
                                                    !.page_count = Pages(bytes),
                                                    !.loaded = TRUE]]
           ELSE [ok |-> FALSE, staging |-> [staged.staging EXCEPT !.bytes = 0]]
=============================================================================
