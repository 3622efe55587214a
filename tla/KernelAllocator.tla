-------------------------- MODULE KernelAllocator --------------------------
(***************************************************************************)
(* What kmalloc and kfree promise their callers, with no list, header,     *)
(* page or frame in sight: a set of live allocations that never overlap.   *)
(* KernelHeap is shown to implement this specification.                    *)
(***************************************************************************)
EXTENDS Integers

CONSTANTS
    Low, High,    \* first and last address of the heap
    Alignment,
    Requests      \* sizes a caller may ask for

VARIABLES
    live,         \* live allocations: the size reserved at each address
    asked,        \* what the last call asked for: a size, or 0 when it freed
    answer        \* what the last call returned: an address, or 0

avars == <<live, asked, answer>>

Span(allocations, base) == base .. (base + allocations[base] - 1)

AInit == live = <<>> /\ asked = 0 /\ answer = 0

\* A request is met by an aligned range of at least n addresses inside the
\* heap that no live allocation touches; everything else stays as it is.
Allocate(n) ==
    /\ \E base \in DOMAIN live' \ DOMAIN live :
          /\ DOMAIN live' = DOMAIN live \cup {base}
          /\ \A other \in DOMAIN live :
                /\ live'[other] = live[other]
                /\ Span(live, other) \cap Span(live', base) = {}
          /\ base % Alignment = 0
          /\ live'[base] >= n
          /\ Span(live', base) \subseteq Low .. High
          /\ answer' = base
    /\ asked' = n

\* A request that cannot be met changes nothing but the answer.
Refuse(n) ==
    asked' = n /\ answer' = 0 /\ UNCHANGED live

\* Freeing what is live releases it; freeing anything else changes nothing.
Release(base) ==
    /\ live' = [other \in DOMAIN live \ {base} |-> live[other]]
    /\ asked' = 0
    /\ answer' = 0

ANext ==
    \/ \E n \in Requests : Allocate(n) \/ Refuse(n)
    \/ \E base \in Low .. High : Release(base)

ASpec == AInit /\ [][ANext]_avars
============================================================================
