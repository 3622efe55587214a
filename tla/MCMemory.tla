----------------------------- MODULE MCMemory -----------------------------
(***************************************************************************)
(* Bounds for KernelHeap: pages of 16 bytes, headers of 4, alignment 2.    *)
(* The heap has room for four pages under two tables, the two user         *)
(* pages share another.  The memory maps leave room for 1 to 8 pages, so   *)
(* that memory runs out at every point of boot and of a growth.            *)
(***************************************************************************)
EXTENDS KernelHeap

Usable(base, length) == [base_addr |-> base, length |-> length, available |-> TRUE]
Reserved(base, length) == [base_addr |-> base, length |-> length, available |-> FALSE]

\* Low memory, a hole, the region the kernel was loaded into, and memory above
\* the width of an address.
MCMemoryMaps ==
    {<<Usable(0, 24), Reserved(24, 8), Usable(32, 37 + 16 * pages), Usable(AddressLimit, 64)>> :
        pages \in 1 .. 8}

\* The hypothesis of the theorems on pages holds here.
ASSUME UsableMaps

\* No pointer, every address a payload can have, one inside the heap that is not
\* aligned, and one behind its end.
MCPointers ==
    {0, MEMORY_LAYOUT_KERNEL_HEAP_START + 5, MEMORY_LAYOUT_KERNEL_HEAP_END + 1} \cup
        {p \in MEMORY_LAYOUT_KERNEL_HEAP_START .. MEMORY_LAYOUT_KERNEL_HEAP_END :
            p % HEAP_ALIGNMENT = 0}
============================================================================
