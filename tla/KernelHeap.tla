---------------------------- MODULE KernelHeap ----------------------------
(***************************************************************************)
(* The i386 kernel heap (memory/heap.c) with the memory it stands on: the  *)
(* page allocator, the page tables and the two user pages that             *)
(* ring3_prepare_pages takes at boot (arch/i386/ring3.c).  kernel_main     *)
(* calls ring3_initialize and then heap_initialize; from then on kmalloc   *)
(* and kfree are called by the kernel.                                     *)
(*                                                                         *)
(* The heap's list of blocks is the sequence heap.blocks in list order;    *)
(* each block is the address of its header, the size of its payload and    *)
(* its used flag.  Counters that only ever grow are left out, except that  *)
(* grow_failed says whether failed_grow_count is positive.  Each operation *)
(* runs to its end: no interrupt handler calls into these files.           *)
(***************************************************************************)
EXTENDS VirtualMemory, FiniteSetsExt

CONSTANTS
    MemoryMaps,                       \* Multiboot memory maps to boot with
    Sizes,                            \* sizes kmalloc is called with
    Pointers,                         \* pointers kfree is called with
    HEAP_ALIGNMENT, HEAP_MIN_SPLIT_SIZE,
    HeapHeaderSize,                   \* heap_header_size()
    HEAP_MAX_GROW_PAGES, HEAP_MAX_AUDIT_BLOCKS,
    MEMORY_LAYOUT_KERNEL_HEAP_START, MEMORY_LAYOUT_KERNEL_HEAP_END,
    RING3_USER_CODE_VIRTUAL, RING3_USER_STACK_VIRTUAL

\* Headers and pages keep the alignment, and the heap starts at a page.
ASSUME HeapAssumption ==
    /\ {HEAP_ALIGNMENT, HeapHeaderSize, HEAP_MAX_GROW_PAGES, HEAP_MAX_AUDIT_BLOCKS}
           \subseteq Nat \ {0}
    /\ {HEAP_MIN_SPLIT_SIZE, MEMORY_LAYOUT_KERNEL_HEAP_START, MEMORY_LAYOUT_KERNEL_HEAP_END}
           \subseteq Nat
    /\ HeapHeaderSize % HEAP_ALIGNMENT = 0
    /\ PMM_PAGE_SIZE % HEAP_ALIGNMENT = 0
    /\ HeapHeaderSize < PMM_PAGE_SIZE
    /\ MEMORY_LAYOUT_KERNEL_HEAP_START % PMM_PAGE_SIZE = 0
    /\ MEMORY_LAYOUT_KERNEL_HEAP_START <= MEMORY_LAYOUT_KERNEL_HEAP_END
    /\ MEMORY_LAYOUT_KERNEL_HEAP_END < AddressLimit
    /\ Sizes \subseteq Nat /\ Pointers \subseteq Nat

\* The kernel is linked at 1 MiB and runs in the identity map; behind the map come
\* the two user pages and then the heap.  A growth of the heap takes no more pages
\* than can be given back.
ASSUME LayoutAssumption ==
    /\ ONE_MIB <= KernelEnd /\ KernelEnd <= mapped_bytes
    /\ {RING3_USER_CODE_VIRTUAL, RING3_USER_STACK_VIRTUAL} \subseteq
           {page \in mapped_bytes .. MEMORY_LAYOUT_KERNEL_HEAP_START - 1 : page % PMM_PAGE_SIZE = 0}
    /\ RING3_USER_CODE_VIRTUAL # RING3_USER_STACK_VIRTUAL
    /\ HEAP_MAX_GROW_PAGES <= PMM_MAX_FREE_PAGES /\ 2 <= PMM_MAX_FREE_PAGES

VARIABLES
    memory_map,   \* what the machine booted with; never changes
    pmm, vmm,     \* see PhysicalMemory and VirtualMemory
    heap,         \* [blocks, next_virtual_page, initialized, used_bytes, free_bytes, grow_failed]
    ring3,        \* "down" before ring3_initialize, then "ready" or "failed"
    request,      \* size given to the last kmalloc, 0 after a kfree
    result        \* what the last kmalloc returned, 0 after a kfree

vars == <<memory_map, pmm, vmm, heap, ring3, request, result>>

----------------------------------------------------------------------------
(* Blocks and the list. *)

heap_initialize_block(address, size) == [at |-> address, size |-> size, used |-> FALSE]

Payload(block) == block.at + HeapHeaderSize
BlockEnd(block) == Payload(block) + block.size

heap_block_header_is_sane(block) ==
    /\ block.at \in MEMORY_LAYOUT_KERNEL_HEAP_START .. MEMORY_LAYOUT_KERNEL_HEAP_END
    /\ block.at % HEAP_ALIGNMENT = 0
    /\ block.size # 0
    /\ BlockEnd(block) - 1 <= MEMORY_LAYOUT_KERNEL_HEAP_END

\* The blocks a walk of the list sees: it stops at the first bad header and
\* after HEAP_MAX_AUDIT_BLOCKS blocks.
Visited(blocks) ==
    {i \in DOMAIN blocks :
        i <= HEAP_MAX_AUDIT_BLOCKS /\ \A j \in 1 .. i : heap_block_header_is_sane(blocks[j])}

SumOfSizes(blocks, chosen) ==
    Loop(LAMBDA sum, i : IF i \in chosen THEN sum + blocks[i].size ELSE sum,
         0, [i \in DOMAIN blocks |-> i])

heap_recalculate_stats(h) ==
    LET seen == Visited(h.blocks)
    IN [h EXCEPT !.used_bytes = SumOfSizes(h.blocks, {i \in seen : h.blocks[i].used}),
                 !.free_bytes = SumOfSizes(h.blocks, {i \in seen : ~h.blocks[i].used})]

\* Position of the block whose payload starts at pointer, 0 if there is none.
heap_find_block_for_pointer(h, pointer) ==
    LET found == {i \in Visited(h.blocks) : Payload(h.blocks[i]) = pointer}
    IN IF /\ h.initialized
          /\ pointer >= MEMORY_LAYOUT_KERNEL_HEAP_START + HeapHeaderSize
          /\ pointer <= MEMORY_LAYOUT_KERNEL_HEAP_END
          /\ found # {}
       THEN Min(found) ELSE 0

\* The list with a block linked in before position i.
LinkedIn(blocks, i, block) == SubSeq(blocks, 1, i - 1) \o <<block>> \o SubSeq(blocks, i, Len(blocks))

\* Mutant: the rest of the block forgets that its header takes room too.
heap_split_block_headerless(blocks, i, n) ==
    LET block == blocks[i]
        rest == heap_initialize_block(Payload(block) + n, block.size - n)
    IN IF block.size <= n + HeapHeaderSize + HEAP_MIN_SPLIT_SIZE
       THEN blocks
       ELSE LinkedIn([blocks EXCEPT ![i].size = n], i + 1, rest)

\* Cut block i down to n and link a free block over the rest, if the rest is
\* worth a block.
heap_split_block(blocks, i, n) ==
    LET block == blocks[i]
        rest == heap_initialize_block(Payload(block) + n, block.size - n - HeapHeaderSize)
    IN IF block.size <= n + HeapHeaderSize + HEAP_MIN_SPLIT_SIZE
       THEN blocks
       ELSE LinkedIn([blocks EXCEPT ![i].size = n], i + 1, rest)

\* Mutant: the header of the block that disappears is lost.
MergeNext_loses_header(merged, block) ==
    LET i == Len(merged)
        last == merged[i]
    IN IF i > 0 /\ ~last.used /\ ~block.used /\ BlockEnd(last) = block.at
       THEN [merged EXCEPT ![i].size = @ + block.size]
       ELSE Append(merged, block)

\* Append a block to a merged list, or extend its last block with it.
MergeNext(merged, block) ==
    LET i == Len(merged)
        last == merged[i]
    IN IF /\ i \in 1 .. HEAP_MAX_AUDIT_BLOCKS
          /\ heap_block_header_is_sane(last) /\ heap_block_header_is_sane(block)
          /\ ~last.used /\ ~block.used
          /\ BlockEnd(last) = block.at
       THEN [merged EXCEPT ![i].size = @ + HeapHeaderSize + block.size]
       ELSE Append(merged, block)

heap_merge_free_blocks(blocks) == Loop(MergeNext, <<>>, blocks)

----------------------------------------------------------------------------
(* Growing the heap. *)

heap_virtual_range_has_space(h, pages) ==
    /\ h.next_virtual_page >= MEMORY_LAYOUT_KERNEL_HEAP_START
    /\ h.next_virtual_page + pages * PMM_PAGE_SIZE - 1 <= MEMORY_LAYOUT_KERNEL_HEAP_END

\* Mutant: the page is unmapped but not given back.
RollbackPage_keeps_frame(m, page) == vmm_unmap_page(m, page.virtual)

\* Unmap and give back the pages of a growth that could not be completed.
RollbackPage(m, page) ==
    LET unmapped == vmm_unmap_page(m, page.virtual)
    IN [unmapped EXCEPT !.pmm = pmm_free_page(@, page.physical)]

heap_rollback_growth(m, pages) == Loop(RollbackPage, m, pages)

\* One turn of the loop in heap_grow: a page from the allocator, mapped at the
\* next address of the heap.  g.pages are the pages mapped so far.
GrowPage(g, virtual) ==
    LET got == pmm_alloc_page(g.m.pmm)
        taken == [g.m EXCEPT !.pmm = got.pmm]
        map == vmm_map_page(taken, virtual, got.page, {VMM_PAGE_WRITABLE})
    IN IF ~g.ok
       THEN g
       ELSE IF got.page = 0
       THEN [g EXCEPT !.ok = FALSE, !.m = heap_rollback_growth(g.m, g.pages)]
       ELSE IF ~map.ok
       THEN [g EXCEPT !.ok = FALSE,
                      !.m = heap_rollback_growth(
                                [map.m EXCEPT !.pmm = pmm_free_page(@, got.page)], g.pages)]
       ELSE [g EXCEPT !.m = map.m,
                      !.pages = Append(@, [virtual |-> virtual, physical |-> got.page])]

\* Mutant: the pages for the payload alone, with no room for its header.
required_pages_payload_only(minimum_size) ==
    align_up(minimum_size, PMM_PAGE_SIZE) \div PMM_PAGE_SIZE

required_pages(minimum_size) ==
    LET pages == align_up(minimum_size + HeapHeaderSize, PMM_PAGE_SIZE) \div PMM_PAGE_SIZE
    IN IF pages = 0 THEN 1 ELSE pages

\* The heap h on memory m grown to hold minimum_size more bytes in one block.
heap_grow(h, m, minimum_size) ==
    LET pages == required_pages(minimum_size)
        grown == Loop(GrowPage, [ok |-> TRUE, m |-> m, pages |-> <<>>],
                      [i \in 1 .. pages |-> h.next_virtual_page + (i - 1) * PMM_PAGE_SIZE])
        new == [i \in DOMAIN grown.pages |->
                   heap_initialize_block(grown.pages[i].virtual, PMM_PAGE_SIZE - HeapHeaderSize)]
    IN IF pages > HEAP_MAX_GROW_PAGES \/ ~heap_virtual_range_has_space(h, pages)
       THEN [ok |-> FALSE, m |-> m, heap |-> [h EXCEPT !.grow_failed = TRUE]]
       ELSE IF ~grown.ok
       THEN [ok |-> FALSE, m |-> grown.m, heap |-> [h EXCEPT !.grow_failed = TRUE]]
       ELSE [ok |-> TRUE, m |-> grown.m,
             heap |-> heap_recalculate_stats(
                          [h EXCEPT !.next_virtual_page = @ + pages * PMM_PAGE_SIZE,
                                    !.blocks = heap_merge_free_blocks(@ \o new)])]

----------------------------------------------------------------------------
(* Allocating and freeing. *)

\* One call of kmalloc, first fit.  When no visited block fits, a bad header ends
\* the call; else the heap grows and kmalloc is called again, with the aligned
\* size.  s is [done, pointer, heap, m, size].
KmallocCall(s, call) ==
    LET h == s.heap
        n == align_up(s.size, HEAP_ALIGNMENT)
        fits == {i \in Visited(h.blocks) : ~h.blocks[i].used /\ h.blocks[i].size >= n}
        i == Min(fits)
        grown == heap_grow(h, s.m, n)
    IN IF s.done
       THEN s
       ELSE IF ~h.initialized \/ s.size = 0
       THEN [s EXCEPT !.done = TRUE]
       ELSE IF fits # {}
       THEN [s EXCEPT !.done = TRUE, !.pointer = Payload(h.blocks[i]),
                      !.heap = heap_recalculate_stats(
                          [h EXCEPT !.blocks = [heap_split_block(@, i, n) EXCEPT ![i].used = TRUE]])]
       ELSE IF \E j \in DOMAIN h.blocks :
                   j <= HEAP_MAX_AUDIT_BLOCKS /\ ~heap_block_header_is_sane(h.blocks[j])
       THEN [s EXCEPT !.done = TRUE]
       ELSE [s EXCEPT !.done = ~grown.ok, !.heap = grown.heap, !.m = grown.m, !.size = n]

\* A call that grows the heap takes at least one of its pages, so that there are
\* fewer calls than pages and one more.
MaxCalls ==
    (MEMORY_LAYOUT_KERNEL_HEAP_END + 1 - MEMORY_LAYOUT_KERNEL_HEAP_START) \div PMM_PAGE_SIZE + 1

kmalloc_from(h, m, size) ==
    Loop(KmallocCall, [done |-> FALSE, pointer |-> 0, heap |-> h, m |-> m, size |-> size],
         [call \in 1 .. MaxCalls |-> call])

kfree_in(h, pointer) ==
    LET i == heap_find_block_for_pointer(h, pointer)
    IN IF i = 0 \/ ~h.blocks[i].used
       THEN h
       ELSE heap_recalculate_stats(
                [h EXCEPT !.blocks = heap_merge_free_blocks([@ EXCEPT ![i].used = FALSE])])

heap_validate_pointer(h, pointer) ==
    LET i == heap_find_block_for_pointer(h, pointer) IN i # 0 /\ h.blocks[i].used

heap_validate_pointer_status(h, pointer) ==
    IF pointer = 0 THEN "KERNEL_ERROR_INVALID_ARGUMENT"
    ELSE IF ~h.initialized THEN "KERNEL_ERROR_NOT_INITIALIZED"
    ELSE IF pointer < MEMORY_LAYOUT_KERNEL_HEAP_START \/ pointer >= MEMORY_LAYOUT_KERNEL_HEAP_END
    THEN "KERNEL_ERROR_INVALID_ARGUMENT"
    ELSE IF ~heap_validate_pointer(h, pointer) THEN "KERNEL_ERROR_CORRUPTION_DETECTED"
    ELSE "KERNEL_OK"

\* Number of issues the heap's self check reports.
heap_audit(h, v) ==
    LET blocks == h.blocks
        seen == {i \in DOMAIN blocks : i <= HEAP_MAX_AUDIT_BLOCKS}
        used == SumOfSizes(blocks, {i \in seen : blocks[i].used})
        free == SumOfSizes(blocks, {i \in seen : ~blocks[i].used})
        pages == {MEMORY_LAYOUT_KERNEL_HEAP_START + i * PMM_PAGE_SIZE :
                     i \in 0 .. ((h.next_virtual_page - MEMORY_LAYOUT_KERNEL_HEAP_START)
                                 \div PMM_PAGE_SIZE) - 1}
    IN IF ~h.initialized THEN 1
       ELSE Cardinality({i \in seen : ~heap_block_header_is_sane(blocks[i])})
          + Cardinality({i \in seen : i > 1 /\ blocks[i].at <= blocks[i - 1].at})
          + (IF Len(blocks) > HEAP_MAX_AUDIT_BLOCKS THEN 1 ELSE 0)
          + Cardinality({page \in pages : ~vmm_is_mapped(v, page)})
          + (IF used # h.used_bytes THEN 1 ELSE 0)
          + (IF free # h.free_bytes THEN 1 ELSE 0)

----------------------------------------------------------------------------
(* The two user pages ring3_initialize takes at boot. *)

\* Give back the user pages; those of `mapped` are unmapped first.
ReturnUserPages(m, mapped, pages) ==
    LET unmapped == Loop(vmm_unmap_page, m, mapped)
    IN [unmapped EXCEPT !.pmm = Loop(pmm_free_page, @, pages)]

ring3_prepare_pages(m) ==
    LET flags == {VMM_PAGE_WRITABLE, VMM_PAGE_USER}
        code == pmm_alloc_page(m.pmm)
        stack == pmm_alloc_page(code.pmm)
        pages == <<stack.page, code.page>>
        both == <<RING3_USER_STACK_VIRTUAL, RING3_USER_CODE_VIRTUAL>>
        first == vmm_map_page([m EXCEPT !.pmm = stack.pmm],
                              RING3_USER_CODE_VIRTUAL, code.page, flags)
        second == vmm_map_page(first.m, RING3_USER_STACK_VIRTUAL, stack.page, flags)
    IN IF code.page = 0
       THEN [ok |-> FALSE, m |-> m]
       ELSE IF stack.page = 0
       THEN [ok |-> FALSE, m |-> [m EXCEPT !.pmm = pmm_free_page(code.pmm, code.page)]]
       ELSE IF ~first.ok
       THEN [ok |-> FALSE, m |-> ReturnUserPages(first.m, <<>>, pages)]
       ELSE IF ~second.ok
       THEN [ok |-> FALSE,
             m |-> ReturnUserPages(second.m, <<RING3_USER_CODE_VIRTUAL>>, pages)]
       ELSE IF \E i \in 1 .. 2 : ~vmm_validate_mapping(second.m.vmm, both[i], flags)
       THEN [ok |-> FALSE, m |-> ReturnUserPages(second.m, both, pages)]
       ELSE [ok |-> TRUE, m |-> second.m]

----------------------------------------------------------------------------
(* The system: boot, then any sequence of kernel heap calls. *)

EmptyHeap ==
    [blocks |-> <<>>, next_virtual_page |-> MEMORY_LAYOUT_KERNEL_HEAP_START,
     initialized |-> FALSE, used_bytes |-> 0, free_bytes |-> 0, grow_failed |-> FALSE]

\* kernel_main has run pmm_initialize, paging_initialize and vmm_initialize.
Init ==
    /\ memory_map \in MemoryMaps
    /\ pmm = pmm_initialize(memory_map)
    /\ vmm = vmm_initialize
    /\ heap = EmptyHeap
    /\ ring3 = "down"
    /\ request = 0
    /\ result = 0

Memory == [pmm |-> pmm, vmm |-> vmm]

UseMemory(m) == pmm' = m.pmm /\ vmm' = m.vmm

Ring3Initialize ==
    LET prepared == ring3_prepare_pages(Memory)
    IN /\ ring3 = "down"
       /\ UseMemory(prepared.m)
       /\ ring3' = IF prepared.ok THEN "ready" ELSE "failed"
       /\ UNCHANGED <<memory_map, heap, request, result>>

HeapInitialize ==
    LET grown == heap_grow(EmptyHeap, Memory, PMM_PAGE_SIZE - HeapHeaderSize)
    IN /\ ring3 # "down"
       /\ heap = EmptyHeap
       /\ UseMemory(grown.m)
       /\ heap' = [grown.heap EXCEPT !.initialized = grown.ok]
       /\ UNCHANGED <<memory_map, ring3, request, result>>

HeapIsUp == heap # EmptyHeap

Kmalloc(size) ==
    LET done == kmalloc_from(heap, Memory, size)
    IN /\ HeapIsUp
       /\ UseMemory(done.m)
       /\ heap' = done.heap
       /\ request' = size
       /\ result' = done.pointer
       /\ UNCHANGED <<memory_map, ring3>>

\* Any pointer: live, already freed, or one that never came from kmalloc.
Kfree(pointer) ==
    /\ HeapIsUp
    /\ heap' = kfree_in(heap, pointer)
    /\ request' = 0
    /\ result' = 0
    /\ UNCHANGED <<memory_map, pmm, vmm, ring3>>

Next ==
    \/ Ring3Initialize
    \/ HeapInitialize
    \/ \E size \in Sizes : Kmalloc(size)
    \/ \E pointer \in Pointers : Kfree(pointer)

Spec == Init /\ [][Next]_vars

----------------------------------------------------------------------------
(* Properties. *)

\* A memory map as boot loaders report it: the first usable region above low
\* memory holds the kernel, goes on behind it and ends within the identity map.
UsableMaps ==
    \A map \in MemoryMaps :
        /\ map \in Seq([base_addr : Nat, length : Nat, available : BOOLEAN])
        /\ \E i \in DOMAIN map :
              /\ map[i].available
              /\ map[i].base_addr <= KernelEnd
              /\ map[i].base_addr + map[i].length > align_up(KernelEnd, PMM_PAGE_SIZE)
              /\ map[i].base_addr + map[i].length <= mapped_bytes
              /\ \A j \in 1 .. i - 1 :
                    map[j].available => map[j].base_addr + map[j].length <= ONE_MIB

\* Live allocations: the payload size of every used block, by address.
LiveAllocations ==
    LET used == {i \in DOMAIN heap.blocks : heap.blocks[i].used}
        at(pointer) == CHOOSE i \in used : Payload(heap.blocks[i]) = pointer
    IN [pointer \in {Payload(heap.blocks[i]) : i \in used} |-> heap.blocks[at(pointer)].size]

Abstract == INSTANCE KernelAllocator WITH
    live <- LiveAllocations, asked <- request, answer <- result,
    Low <- MEMORY_LAYOUT_KERNEL_HEAP_START, High <- MEMORY_LAYOUT_KERNEL_HEAP_END,
    Alignment <- HEAP_ALIGNMENT, Requests <- Sizes

\* kmalloc and kfree implement the abstract allocator: whatever was split,
\* merged, grown or rolled back, a pointer kmalloc returns is aligned and heads
\* a range as large as asked for that overlaps no live allocation, and kfree of
\* a stale or foreign pointer releases nothing (heap.c kmalloc, kfree).
AllocatorSpec == Abstract!ASpec

HeapPages == {page \in DOMAIN vmm.entries : page >= MEMORY_LAYOUT_KERNEL_HEAP_START}
UserPages == DOMAIN vmm.entries \ HeapPages
Tables == {vmm.directory[index].table : index \in DOMAIN vmm.directory}
FramesOf(pages) == {vmm_get_physical_address(vmm, page) : page \in pages}
Issued == {frame \in pmm.allocation_start .. pmm.next_free_page - 1 : frame % PMM_PAGE_SIZE = 0}

\* Every page the page allocator ever handed out is in exactly one place: on
\* the free stack, behind one heap page, behind one user page or in use as a
\* page table, and allocated_pages counts the last three; so a growth or a
\* preparation that fails half way neither loses a page nor leaves one with two
\* owners.  All of them are usable memory of the map above the kernel, and the
\* tables can be written through the identity map (pmm.c, heap_grow,
\* heap_rollback_growth, ring3_prepare_pages).
FramesAccountedFor ==
    LET free == Range(pmm.free_stack)
        inUse == FramesOf(HeapPages) \cup FramesOf(UserPages) \cup Tables
        owners == Cardinality(DOMAIN vmm.entries) + Cardinality(DOMAIN vmm.directory)
    IN /\ Issued = free \cup inUse
       /\ free \cap inUse = {}
       /\ Cardinality(free) = Len(pmm.free_stack)
       /\ Cardinality(inUse) = owners
       /\ pmm.allocated_pages = owners
       /\ vmm.mapped_pages = Cardinality(DOMAIN vmm.entries)
       /\ \A frame \in Issued :
             /\ frame >= KernelEnd
             /\ \E i \in DOMAIN memory_map :
                   /\ memory_map[i].available
                   /\ frame >= memory_map[i].base_addr
                   /\ frame + PMM_PAGE_SIZE <= memory_map[i].base_addr + memory_map[i].length
       /\ \A frame \in Tables : frame < mapped_bytes

\* The blocks tile the mapped part of the heap: the first header is at the
\* start of the heap, each block ends where the next begins, the last ends
\* where the next page will be mapped, and no two neighbours are free as far as
\* the walks of the list go.  Hence the heap's own audit complains of nothing
\* but a list that is longer than that, a pointer is recognised exactly while it
\* is live and in reach of the walks, and the audit of the page tables speaks up
\* only after a growth failed, when it takes the unmapped page of the rollback
\* for a lost mapping (heap_split_block, heap_merge_free_blocks, heap_audit,
\* vmm_audit).
HeapTiled ==
    LET blocks == heap.blocks
        reached == {i \in DOMAIN blocks : i <= HEAP_MAX_AUDIT_BLOCKS}
    IN heap.initialized =>
          /\ blocks # <<>>
          /\ blocks[1].at = MEMORY_LAYOUT_KERNEL_HEAP_START
          /\ BlockEnd(blocks[Len(blocks)]) = heap.next_virtual_page
          /\ \A i \in 1 .. Len(blocks) - 1 :
                /\ BlockEnd(blocks[i]) = blocks[i + 1].at
                /\ i \in reached => blocks[i].used \/ blocks[i + 1].used
          /\ heap_audit(heap, vmm) = IF reached = DOMAIN blocks THEN 0 ELSE 1
          /\ \A pointer \in Pointers :
                heap_validate_pointer_status(heap, pointer) = "KERNEL_OK"
                    <=> \E i \in reached : blocks[i].used /\ Payload(blocks[i]) = pointer
          /\ vmm_audit(vmm) # 0 => heap.grow_failed

\* A kmalloc that returns 0 leaves the heap and its pages as they were: no
\* block is cut, no page stays mapped, and the only page it may keep is a page
\* table.  This is so while the list is shorter than a walk of it; beyond that, a
\* kmalloc that finds no room does not find the pages it adds either, and goes on
\* adding until there are none left (kmalloc, heap_grow).
AllOrNothing ==
    [][request' # 0 /\ result' = 0 /\ Len(heap.blocks) < HEAP_MAX_AUDIT_BLOCKS =>
          /\ heap'.blocks = heap.blocks
          /\ heap'.next_virtual_page = heap.next_virtual_page
          /\ vmm'.entries = vmm.entries
          /\ pmm'.allocated_pages - pmm.allocated_pages
                = Cardinality(DOMAIN vmm'.directory) - Cardinality(DOMAIN vmm.directory)]_vars
============================================================================
