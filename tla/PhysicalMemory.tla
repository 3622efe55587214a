-------------------------- MODULE PhysicalMemory --------------------------
(***************************************************************************)
(* The i386 physical page allocator (memory/pmm.c): a bump pointer through *)
(* one usable region of the Multiboot memory map and a stack of the pages  *)
(* given back.  Its state is a record that the operators take and return:  *)
(* allocation_start, allocation_end and next_free_page are addresses,      *)
(* free_stack is a sequence of page addresses (free_stack_count is its     *)
(* length) and allocated_pages a count.  Address 0 is "no page".           *)
(***************************************************************************)
EXTENDS Integers, Sequences

CONSTANTS
    PMM_PAGE_SIZE,
    PMM_MAX_FREE_PAGES,   \* capacity of free_stack
    ONE_MIB,
    KernelEnd,            \* kernel_get_end_address(), from the linker script
    AddressLimit          \* 2^32: addresses are uint32_t and wrap

ASSUME PhysicalAssumption ==
    /\ {PMM_PAGE_SIZE, PMM_MAX_FREE_PAGES, ONE_MIB, AddressLimit} \subseteq Nat \ {0}
    /\ KernelEnd \in Nat /\ KernelEnd < AddressLimit
    /\ AddressLimit % PMM_PAGE_SIZE = 0

\* The masked sum of align_up, which wraps at the width of an address.
align_up(value, alignment) ==
    (((value + alignment - 1) % AddressLimit) \div alignment) * alignment

\* A loop: each turn takes what the turns before made and the next item.
Loop(Turn(_, _), start, items) ==
    LET after[i \in 0 .. Len(items)] ==
            IF i = 0 THEN start ELSE Turn(after[i - 1], items[i])
    IN after[Len(items)]

----------------------------------------------------------------------------
(* Choosing the region to allocate from. *)

\* Start of a region [base, end) once the memory below limit is cut off.
SkipBelow(base, end, limit) == IF base < limit /\ end > limit THEN limit ELSE base

\* The allocator before any region of the map was accepted.
NoRegion ==
    [allocation_start |-> 0, allocation_end |-> 0, next_free_page |-> 0,
     allocated_pages |-> 0, free_stack |-> <<>>]

\* One entry of the map: base_addr and length are 64 bit and are truncated.
ConsiderRegion(p, entry) ==
    LET truncated == entry.base_addr % AddressLimit
        end == (truncated + entry.length) % AddressLimit
        kernel_end == align_up(KernelEnd, PMM_PAGE_SIZE)
        base == align_up(SkipBelow(SkipBelow(truncated, end, ONE_MIB), end, kernel_end),
                         PMM_PAGE_SIZE)
    IN IF entry.available /\ p.allocation_start = 0 /\ base >= ONE_MIB /\ end > base
       THEN [p EXCEPT !.allocation_start = base, !.allocation_end = end,
                      !.next_free_page = base]
       ELSE p

pmm_initialize(memory_map) == Loop(ConsiderRegion, NoRegion, memory_map)

----------------------------------------------------------------------------
(* Handing pages out and taking them back. *)

pmm_alloc_page(p) ==
    IF p.free_stack # <<>>
    THEN [page |-> p.free_stack[Len(p.free_stack)],
          pmm  |-> [p EXCEPT !.free_stack = SubSeq(@, 1, Len(@) - 1), !.allocated_pages = @ + 1]]
    ELSE IF \/ p.next_free_page = 0
            \/ (p.next_free_page + PMM_PAGE_SIZE) % AddressLimit > p.allocation_end
    THEN [page |-> 0, pmm |-> p]
    ELSE [page |-> p.next_free_page,
          pmm  |-> [p EXCEPT !.next_free_page = (@ + PMM_PAGE_SIZE) % AddressLimit,
                             !.allocated_pages = @ + 1]]

\* A page the allocator takes back: aligned, in its region, handed out before
\* and not on the stack already.
IsReturnable(p, page) ==
    /\ page # 0
    /\ page % PMM_PAGE_SIZE = 0
    /\ page >= p.allocation_start
    /\ page < p.allocation_end
    /\ page < p.next_free_page
    /\ \A i \in 1 .. Len(p.free_stack) : p.free_stack[i] # page

pmm_free_page(p, page) ==
    IF IsReturnable(p, page) /\ Len(p.free_stack) < PMM_MAX_FREE_PAGES
    THEN [p EXCEPT !.free_stack = Append(@, page),
                   !.allocated_pages = IF @ > 0 THEN @ - 1 ELSE 0]
    ELSE p
============================================================================
