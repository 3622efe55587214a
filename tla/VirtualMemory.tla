--------------------------- MODULE VirtualMemory ---------------------------
(***************************************************************************)
(* The i386 virtual memory manager (memory/vmm.c) over the identity map of *)
(* arch/i386/paging.c.  The operators take and return a record m with the  *)
(* page allocator (m.pmm) and the page tables (m.vmm):                     *)
(*   directory     the directory entries outside the identity map, each    *)
(*                 the page its table lives in and whether user code may   *)
(*                 pass through it;                                        *)
(*   entries       the present page table entries outside the identity     *)
(*                 map, by virtual page;                                   *)
(*   mapped_pages, last_mapped   the statistics vmm_audit looks at.        *)
(* A table is cleared when it is created and belongs to one directory      *)
(* entry, so the entries of all tables are one function.  vmm_initialize   *)
(* runs before every caller, so its initialized flag is always set, and no *)
(* caller unmaps a page of the identity map.                               *)
(***************************************************************************)
EXTENDS PhysicalMemory, FiniteSets, Functions

CONSTANTS
    PAGE_TABLE_ENTRIES,          \* entries of one page table
    IDENTITY_PAGE_TABLE_COUNT    \* tables of the identity map, from address 0

ASSUME PagingAssumption ==
    PAGE_TABLE_ENTRIES \in Nat \ {0} /\ IDENTITY_PAGE_TABLE_COUNT \in Nat

\* The function f with value y at x.
Put(f, x, y) == [z \in DOMAIN f \cup {x} |-> IF z = x THEN y ELSE f[z]]

VMM_PAGE_WRITABLE == "writable"
VMM_PAGE_USER == "user"
VMM_ALLOWED_FLAGS == {VMM_PAGE_WRITABLE, VMM_PAGE_USER}

PAGE_ALIGN_DOWN(address) == (address \div PMM_PAGE_SIZE) * PMM_PAGE_SIZE
PAGE_DIRECTORY_INDEX(address) == address \div (PMM_PAGE_SIZE * PAGE_TABLE_ENTRIES)

\* The part of the address space paging_initialize maps onto itself.
mapped_bytes == IDENTITY_PAGE_TABLE_COUNT * PAGE_TABLE_ENTRIES * PMM_PAGE_SIZE

\* vmm_initialize after paging_initialize.
vmm_initialize ==
    [directory |-> <<>>, entries |-> <<>>, mapped_pages |-> 0, last_mapped |-> 0]

----------------------------------------------------------------------------
\* The table of a virtual page, taken from the page allocator when its
\* directory entry is not present; the user flag is only ever added.
vmm_get_or_create_page_table(m, virtual, flags) ==
    LET index == PAGE_DIRECTORY_INDEX(virtual)
        got == pmm_alloc_page(m.pmm)
        user == VMM_PAGE_USER \in flags
    IN IF index < IDENTITY_PAGE_TABLE_COUNT
       THEN [ok |-> TRUE, m |-> m]
       ELSE IF index \in DOMAIN m.vmm.directory
       THEN [ok |-> TRUE, m |-> [m EXCEPT !.vmm.directory[index].user = @ \/ user]]
       ELSE IF got.page = 0
       THEN [ok |-> FALSE, m |-> m]
       ELSE [ok |-> TRUE,
             m |-> [m EXCEPT !.pmm = got.pmm,
                             !.vmm.directory =
                                 Put(@, index, [table |-> got.page, user |-> user])]]

vmm_is_mapped(v, virtual) ==
    \/ PAGE_DIRECTORY_INDEX(virtual) < IDENTITY_PAGE_TABLE_COUNT
    \/ PAGE_ALIGN_DOWN(virtual) \in DOMAIN v.entries

vmm_map_page(m, virtual, physical, flags) ==
    LET page == PAGE_ALIGN_DOWN(virtual)
        frame == PAGE_ALIGN_DOWN(physical)
        table == vmm_get_or_create_page_table(m, page, flags)
        new == IF vmm_is_mapped(m.vmm, page) THEN 0 ELSE 1
    IN IF flags \subseteq VMM_ALLOWED_FLAGS /\ table.ok
       THEN [ok |-> TRUE,
             m |-> [table.m EXCEPT
                        !.vmm.entries = Put(@, page, [frame |-> frame, flags |-> flags]),
                        !.vmm.mapped_pages = @ + new,
                        !.vmm.last_mapped = page]]
       ELSE [ok |-> FALSE, m |-> m]

\* The table itself is never given back.
vmm_unmap_page(m, virtual) ==
    LET page == PAGE_ALIGN_DOWN(virtual)
    IN IF page \in DOMAIN m.vmm.entries
       THEN [m EXCEPT !.vmm.entries = Restrict(@, DOMAIN @ \ {page}),
                      !.vmm.mapped_pages = IF @ > 0 THEN @ - 1 ELSE 0]
       ELSE m

\* The entry of a mapped page; an identity page maps onto itself, for the kernel.
PageEntry(v, page) ==
    IF page \in DOMAIN v.entries
    THEN v.entries[page]
    ELSE [frame |-> page, flags |-> {VMM_PAGE_WRITABLE}]

vmm_get_physical_address(v, virtual) ==
    LET page == PAGE_ALIGN_DOWN(virtual)
    IN IF vmm_is_mapped(v, page) THEN PageEntry(v, page).frame + (virtual - page) ELSE 0

vmm_validate_mapping(v, virtual, expected) ==
    LET page == PAGE_ALIGN_DOWN(virtual)
    IN /\ expected \subseteq VMM_ALLOWED_FLAGS
       /\ vmm_is_mapped(v, page)
       /\ expected \subseteq PageEntry(v, page).flags

\* Number of issues the manager's self check reports.
vmm_audit(v) ==
    Cardinality({index \in DOMAIN v.directory : v.directory[index].table = 0})
    + (IF v.mapped_pages > 0 /\ ~vmm_is_mapped(v, v.last_mapped) THEN 1 ELSE 0)
============================================================================
