--------------------------- MODULE KernelHeapProofs ---------------------------
(***************************************************************************)
(* Proofs about KernelHeap: the list of blocks and the allocations in it.  *)
(***************************************************************************)
EXTENDS KernelHeap, SequenceTheorems, WellFoundedInduction, TLAPS

-----------------------------------------------------------------------------
(* Counting and multiples. *)

\* A set of numbers has a least one.
LEMMA LeastNumber ==
    ASSUME NEW T, T \subseteq Nat, T # {}
    PROVE  \E x \in T : \A y \in T : x <= y
<1>1. PICK x \in T : \A y \in T : ~(<<y, x>> \in OpToRel(<, Nat))
  BY NatLessThanWellFounded, WFMin, Zenon
<1>2. ASSUME NEW a \in Nat, NEW b \in Nat, a < b PROVE <<a, b>> \in OpToRel(<, Nat)
  BY <1>2, Zenon DEF OpToRel
<1>3. \A y \in T : ~(y < x)
  BY <1>1, <1>2, Zenon
<1>. QED BY <1>3

\* Min picks it.
LEMMA MinIs ==
    ASSUME NEW T, T \subseteq Nat, T # {}
    PROVE  Min(T) \in T /\ \A y \in T : Min(T) <= y
<1>1. \E x \in T : \A y \in T : x <= y
  BY LeastNumber, Zenon
<1>. QED BY <1>1, Zenon DEF Min

\* A set with 0 that has i whenever it has i - 1 has every number up to n.
LEMMA CountUp ==
    ASSUME NEW n \in Nat, NEW S, 0 \in S, \A i \in 1 .. n : i - 1 \in S => i \in S
    PROVE  0 .. n \subseteq S
<1>. DEFINE T == {i \in 0 .. n : i \notin S}
<1>1. SUFFICES ASSUME T # {} PROVE FALSE
  BY Zenon
<1>2. PICK x \in T : \A y \in T : x <= y
  <2>1. T \subseteq Nat
    OBVIOUS
  <2>. HIDE DEF T
  <2>. QED BY <1>1, <2>1, LeastNumber, Zenon
<1>3. x \in 1 .. n
  BY <1>2
<1>4. x - 1 \in 0 .. n /\ ~(x <= x - 1)
  BY <1>3
<1>5. x - 1 \in S
  BY <1>2, <1>4, Zenon
<1>. QED BY <1>2, <1>3, <1>5, Zenon

\* A number is the multiple below it and a remainder.
LEMMA Quotient ==
    ASSUME NEW a \in Nat, NEW p \in Nat \ {0}
    PROVE  /\ a \div p \in Nat /\ a % p \in 0 .. p - 1
           /\ a = p * (a \div p) + (a % p)
OBVIOUS

\* A multiple leaves no remainder, and what leaves none is a multiple.
LEMMA Multiple ==
    ASSUME NEW a \in Nat, NEW p \in Nat \ {0}
    PROVE  a % p = 0 <=> \E q \in Nat : a = p * q
<1>1. ASSUME a % p = 0 PROVE a = p * (a \div p) /\ a \div p \in Nat
  BY <1>1, Quotient
<1>2. ASSUME NEW q \in Nat, a = p * q PROVE a % p = 0
  <2>. DEFINE d == a \div p
             r == a % p
  <2>1. d \in Nat /\ r \in 0 .. p - 1 /\ p * q = p * d + r
    BY <1>2, Quotient, Zenon
  <2>. HIDE DEF d, r
  <2>2. p * (q - d) = r
    BY <2>1
  <2>3. CASE q - d >= 1
    <3>1. p * (q - d) >= p
      BY <2>1, <2>3
    <3>. QED BY <2>1, <2>2, <3>1
  <2>4. CASE q - d <= -1
    <3>1. p * (q - d) <= -p
      BY <2>1, <2>4
    <3>. QED BY <2>1, <2>2, <3>1
  <2>5. CASE q - d = 0
    BY <2>1, <2>2, <2>5 DEF r
  <2>. QED BY <2>1, <2>3, <2>4, <2>5
<1>. QED BY <1>1, <1>2, Zenon

\* Sums and multiples of multiples are multiples.
LEMMA SumOfMultiples ==
    ASSUME NEW a \in Nat, NEW b \in Nat, NEW p \in Nat \ {0}, a % p = 0, b % p = 0
    PROVE  (a + b) % p = 0
<1>1. PICK q \in Nat : a = p * q
  BY Multiple, Zenon
<1>2. PICK r \in Nat : b = p * r
  BY Multiple, Zenon
<1>3. a + b = p * (q + r) /\ q + r \in Nat /\ a + b \in Nat
  BY <1>1, <1>2
<1>4. \E k \in Nat : a + b = p * k
  BY <1>3, Zenon
<1>. QED BY <1>3, <1>4, Multiple, Zenon

LEMMA MultipleOfMultiple ==
    ASSUME NEW a \in Nat, NEW k \in Nat, NEW p \in Nat \ {0}, a % p = 0
    PROVE  (k * a) % p = 0 /\ k * a \in Nat
<1>1. PICK q \in Nat : a = p * q
  BY Multiple, Zenon
<1>2. k * a = p * (k * q) /\ k * q \in Nat /\ k * a \in Nat
  BY <1>1
<1>. QED BY <1>2, Multiple, Zenon

\* Multiples of p less than p apart are in order.
LEMMA Apart ==
    ASSUME NEW p \in Nat \ {0}, NEW x \in Int, NEW y \in Int, p * x < p * y + p
    PROVE  x <= y
<1>1. SUFFICES ASSUME x >= y + 1 PROVE FALSE
  OBVIOUS
<1>2. p * x >= p * (y + 1)
  BY <1>1
<1>3. p * (y + 1) = p * y + p
  OBVIOUS
<1>. QED BY <1>2, <1>3

\* align_up below the width of an address: the least multiple that is not less.
LEMMA AlignUp ==
    ASSUME NEW value \in Nat, NEW alignment \in Nat \ {0}, value + alignment <= AddressLimit
    PROVE  /\ align_up(value, alignment) \in Nat
           /\ align_up(value, alignment) % alignment = 0
           /\ align_up(value, alignment) >= value
           /\ align_up(value, alignment) < value + alignment
<1>. DEFINE w == value + alignment - 1
           q == w \div alignment
<1>1. w \in Nat /\ w % AddressLimit = w
  BY PhysicalAssumption
<1>2. align_up(value, alignment) = q * alignment
  BY <1>1, Zenon DEF align_up
<1>3. /\ q \in Nat /\ w % alignment \in 0 .. alignment - 1
      /\ w = alignment * q + (w % alignment)
  BY <1>1, Quotient, Zenon
<1>. HIDE DEF q
<1>4. q * alignment = alignment * q /\ q * alignment \in Nat
  BY <1>3
<1>5. (q * alignment) % alignment = 0
  BY <1>3, <1>4, Multiple, Zenon
<1>. QED BY <1>2, <1>3, <1>4, <1>5

-----------------------------------------------------------------------------
(* The loops, turn by turn. *)

PagesGrown(start, virtuals) == Loop(GrowPage, start, virtuals)
CallsFrom(start, calls) == Loop(KmallocCall, start, calls)

\* heap_merge_free_blocks goes through the list.
MergeRun(f, blocks) ==
    /\ DOMAIN f = 0 .. Len(blocks)
    /\ f[0] = <<>>
    /\ \A i \in 1 .. Len(blocks) : f[i] = MergeNext(f[i - 1], blocks[i])

LEMMA MergeLoop ==
    ASSUME NEW blocks, Len(blocks) \in Nat
    PROVE  \E f : MergeRun(f, blocks) /\ heap_merge_free_blocks(blocks) = f[Len(blocks)]
<1> DEFINE n == Len(blocks)
           To(t, f) == f = [i \in 0 .. t |-> IF i = 0 THEN <<>> ELSE MergeNext(f[i - 1], blocks[i])]
           Good == {t \in 0 .. n : \E f : To(t, f)}
<1>0. n \in Nat
  BY Zenon
<1>1. 0 \in Good
  <2>1. To(0, [i \in 0 .. 0 |-> <<>>])
    OBVIOUS
  <2>2. 0 \in 0 .. n
    BY <1>0
  <2>. QED BY <2>1, <2>2, Zenon
<1>2. ASSUME NEW t \in 1 .. n, t - 1 \in Good PROVE t \in Good
  <2>1. PICK f : To(t - 1, f)
    BY <1>2, Zenon
  <2>. DEFINE g == [i \in 0 .. t |-> IF i = t THEN MergeNext(f[t - 1], blocks[t]) ELSE f[i]]
  <2>2. \A i \in 0 .. t : g[i] = IF i = 0 THEN <<>> ELSE MergeNext(g[i - 1], blocks[i])
    <3>1. \A i \in 0 .. t : i # 0 => g[i - 1] = f[i - 1]
      OBVIOUS
    <3>2. \A i \in 0 .. t - 1 : f[i] = IF i = 0 THEN <<>> ELSE MergeNext(f[i - 1], blocks[i])
      BY <2>1, Zenon
    <3>3. \A i \in 0 .. t : g[i] = IF i = t THEN MergeNext(f[t - 1], blocks[t]) ELSE f[i]
      BY Zenon
    <3>4. \A i \in 0 .. t : i = t \/ i \in 0 .. t - 1
      OBVIOUS
    <3>. HIDE DEF g
    <3>. QED BY <3>1, <3>2, <3>3, <3>4
  <2>3. To(t, g)
    <3>1. g = [i \in 0 .. t |-> g[i]]
      BY Zenon
    <3>. HIDE DEF g
    <3>. QED BY <2>2, <3>1, Zenon
  <2>4. t \in 0 .. n
    OBVIOUS
  <2>. QED BY <2>3, <2>4, Zenon
<1>3. \E f : To(n, f)
  <2>. HIDE DEF To
  <2>1. 0 .. n \subseteq Good
    <3>. HIDE DEF Good
    <3>. QED BY <1>0, <1>1, <1>2, CountUp, Zenon
  <2>2. n \in 0 .. n
    BY <1>0
  <2>. QED BY <2>1, <2>2, Zenon
<1>. DEFINE after == CHOOSE f : To(n, f)
<1>4. To(n, after)
  BY <1>3, Zenon
<1>5. heap_merge_free_blocks(blocks) = after[n]
  BY Zenon DEF heap_merge_free_blocks, Loop
<1>. HIDE DEF after
<1>6. DOMAIN after = 0 .. n
  BY <1>4, Zenon
<1>7. /\ \A i \in 0 .. n : after[i] = IF i = 0 THEN <<>> ELSE MergeNext(after[i - 1], blocks[i])
  BY <1>4, Zenon
<1>8. 0 \in 0 .. n /\ \A i \in 1 .. n : i \in 0 .. n /\ i # 0
  BY <1>0
<1>. HIDE DEF n, To, Good
<1>9. /\ after[0] = <<>>
      /\ \A i \in 1 .. n : after[i] = MergeNext(after[i - 1], blocks[i])
  BY <1>7, <1>8, Zenon
<1>10. MergeRun(after, blocks)
  BY <1>6, <1>9, Zenon DEF n, MergeRun
<1>. QED BY <1>5, <1>10, Zenon DEF n

\* kmalloc calls itself.
KmallocRun(f, start, calls) ==
    /\ DOMAIN f = 0 .. Len(calls)
    /\ f[0] = start
    /\ \A i \in 1 .. Len(calls) : f[i] = KmallocCall(f[i - 1], calls[i])

LEMMA KmallocLoop ==
    ASSUME NEW start, NEW calls, Len(calls) \in Nat
    PROVE  \E f : KmallocRun(f, start, calls) /\ CallsFrom(start, calls) = f[Len(calls)]
<1> DEFINE n == Len(calls)
           To(t, f) == f = [i \in 0 .. t |-> IF i = 0 THEN start ELSE KmallocCall(f[i - 1], calls[i])]
           Good == {t \in 0 .. n : \E f : To(t, f)}
<1>0. n \in Nat
  BY Zenon
<1>1. 0 \in Good
  <2>1. To(0, [i \in 0 .. 0 |-> start])
    OBVIOUS
  <2>2. 0 \in 0 .. n
    BY <1>0
  <2>. QED BY <2>1, <2>2, Zenon
<1>2. ASSUME NEW t \in 1 .. n, t - 1 \in Good PROVE t \in Good
  <2>1. PICK f : To(t - 1, f)
    BY <1>2, Zenon
  <2>. DEFINE g == [i \in 0 .. t |-> IF i = t THEN KmallocCall(f[t - 1], calls[t]) ELSE f[i]]
  <2>2. \A i \in 0 .. t : g[i] = IF i = 0 THEN start ELSE KmallocCall(g[i - 1], calls[i])
    <3>1. \A i \in 0 .. t : i # 0 => g[i - 1] = f[i - 1]
      OBVIOUS
    <3>2. \A i \in 0 .. t - 1 : f[i] = IF i = 0 THEN start ELSE KmallocCall(f[i - 1], calls[i])
      BY <2>1, Zenon
    <3>3. \A i \in 0 .. t : g[i] = IF i = t THEN KmallocCall(f[t - 1], calls[t]) ELSE f[i]
      BY Zenon
    <3>4. \A i \in 0 .. t : i = t \/ i \in 0 .. t - 1
      OBVIOUS
    <3>. HIDE DEF g
    <3>. QED BY <3>1, <3>2, <3>3, <3>4
  <2>3. To(t, g)
    <3>1. g = [i \in 0 .. t |-> g[i]]
      BY Zenon
    <3>. HIDE DEF g
    <3>. QED BY <2>2, <3>1, Zenon
  <2>4. t \in 0 .. n
    OBVIOUS
  <2>. QED BY <2>3, <2>4, Zenon
<1>3. \E f : To(n, f)
  <2>. HIDE DEF To
  <2>1. 0 .. n \subseteq Good
    <3>. HIDE DEF Good
    <3>. QED BY <1>0, <1>1, <1>2, CountUp, Zenon
  <2>2. n \in 0 .. n
    BY <1>0
  <2>. QED BY <2>1, <2>2, Zenon
<1>. DEFINE after == CHOOSE f : To(n, f)
<1>4. To(n, after)
  BY <1>3, Zenon
<1>5. CallsFrom(start, calls) = after[n]
  BY Zenon DEF CallsFrom, Loop
<1>. HIDE DEF after
<1>6. DOMAIN after = 0 .. n
  BY <1>4, Zenon
<1>7. /\ \A i \in 0 .. n : after[i] = IF i = 0 THEN start ELSE KmallocCall(after[i - 1], calls[i])
  BY <1>4, Zenon
<1>8. 0 \in 0 .. n /\ \A i \in 1 .. n : i \in 0 .. n /\ i # 0
  BY <1>0
<1>. HIDE DEF n, To, Good
<1>9. /\ after[0] = start
      /\ \A i \in 1 .. n : after[i] = KmallocCall(after[i - 1], calls[i])
  BY <1>7, <1>8, Zenon
<1>10. KmallocRun(after, start, calls)
  BY <1>6, <1>9, Zenon DEF n, KmallocRun
<1>. QED BY <1>5, <1>10, Zenon DEF n

\* heap_grow goes through the addresses of the pages it adds.
GrowRun(f, start, virtuals) ==
    /\ DOMAIN f = 0 .. Len(virtuals)
    /\ f[0] = start
    /\ \A i \in 1 .. Len(virtuals) : f[i] = GrowPage(f[i - 1], virtuals[i])

LEMMA GrowLoop ==
    ASSUME NEW start, NEW virtuals, Len(virtuals) \in Nat
    PROVE  \E f : GrowRun(f, start, virtuals) /\ PagesGrown(start, virtuals) = f[Len(virtuals)]
<1> DEFINE n == Len(virtuals)
           To(t, f) == f = [i \in 0 .. t |-> IF i = 0 THEN start ELSE GrowPage(f[i - 1], virtuals[i])]
           Good == {t \in 0 .. n : \E f : To(t, f)}
<1>0. n \in Nat
  BY Zenon
<1>1. 0 \in Good
  <2>1. To(0, [i \in 0 .. 0 |-> start])
    OBVIOUS
  <2>2. 0 \in 0 .. n
    BY <1>0
  <2>. QED BY <2>1, <2>2, Zenon
<1>2. ASSUME NEW t \in 1 .. n, t - 1 \in Good PROVE t \in Good
  <2>1. PICK f : To(t - 1, f)
    BY <1>2, Zenon
  <2>. DEFINE g == [i \in 0 .. t |-> IF i = t THEN GrowPage(f[t - 1], virtuals[t]) ELSE f[i]]
  <2>2. \A i \in 0 .. t : g[i] = IF i = 0 THEN start ELSE GrowPage(g[i - 1], virtuals[i])
    <3>1. \A i \in 0 .. t : i # 0 => g[i - 1] = f[i - 1]
      OBVIOUS
    <3>2. \A i \in 0 .. t - 1 : f[i] = IF i = 0 THEN start ELSE GrowPage(f[i - 1], virtuals[i])
      BY <2>1, Zenon
    <3>3. \A i \in 0 .. t : g[i] = IF i = t THEN GrowPage(f[t - 1], virtuals[t]) ELSE f[i]
      BY Zenon
    <3>4. \A i \in 0 .. t : i = t \/ i \in 0 .. t - 1
      OBVIOUS
    <3>. HIDE DEF g
    <3>. QED BY <3>1, <3>2, <3>3, <3>4
  <2>3. To(t, g)
    <3>1. g = [i \in 0 .. t |-> g[i]]
      BY Zenon
    <3>. HIDE DEF g
    <3>. QED BY <2>2, <3>1, Zenon
  <2>4. t \in 0 .. n
    OBVIOUS
  <2>. QED BY <2>3, <2>4, Zenon
<1>3. \E f : To(n, f)
  <2>. HIDE DEF To
  <2>1. 0 .. n \subseteq Good
    <3>. HIDE DEF Good
    <3>. QED BY <1>0, <1>1, <1>2, CountUp, Zenon
  <2>2. n \in 0 .. n
    BY <1>0
  <2>. QED BY <2>1, <2>2, Zenon
<1>. DEFINE after == CHOOSE f : To(n, f)
<1>4. To(n, after)
  BY <1>3, Zenon
<1>5. PagesGrown(start, virtuals) = after[n]
  BY Zenon DEF PagesGrown, Loop
<1>. HIDE DEF after
<1>6. DOMAIN after = 0 .. n
  BY <1>4, Zenon
<1>7. /\ \A i \in 0 .. n : after[i] = IF i = 0 THEN start ELSE GrowPage(after[i - 1], virtuals[i])
  BY <1>4, Zenon
<1>8. 0 \in 0 .. n /\ \A i \in 1 .. n : i \in 0 .. n /\ i # 0
  BY <1>0
<1>. HIDE DEF n, To, Good
<1>9. /\ after[0] = start
      /\ \A i \in 1 .. n : after[i] = GrowPage(after[i - 1], virtuals[i])
  BY <1>7, <1>8, Zenon
<1>10. GrowRun(after, start, virtuals)
  BY <1>6, <1>9, Zenon DEF n, GrowRun
<1>. QED BY <1>5, <1>10, Zenon DEF n

-----------------------------------------------------------------------------
(* Lists of blocks. *)

Block == [at : Nat, size : Nat, used : BOOLEAN]

\* The blocks in use.
Used(blocks) == {b \in Block : b.used /\ \E i \in 1 .. Len(blocks) : blocks[i] = b}

\* Sane blocks, each beginning where the one before ends, from the start of the
\* heap up to top.
Tiled(blocks, top) ==
    /\ blocks \in Seq(Block)
    /\ \A i \in 1 .. Len(blocks) :
          /\ heap_block_header_is_sane(blocks[i])
          /\ blocks[i].at = IF i = 1 THEN MEMORY_LAYOUT_KERNEL_HEAP_START
                                     ELSE BlockEnd(blocks[i - 1])
    /\ top = IF Len(blocks) = 0 THEN MEMORY_LAYOUT_KERNEL_HEAP_START
                                ELSE BlockEnd(blocks[Len(blocks)])

\* No two neighbours are free as far as a walk of the list goes.
Merged(blocks) ==
    \A i \in 2 .. Len(blocks) :
        i - 1 <= HEAP_MAX_AUDIT_BLOCKS => blocks[i - 1].used \/ blocks[i].used

\* The constants are numbers.
LEMMA Constants ==
    /\ HEAP_ALIGNMENT \in Nat \ {0} /\ HeapHeaderSize \in Nat \ {0}
    /\ HEAP_MAX_GROW_PAGES \in Nat \ {0} /\ HEAP_MAX_AUDIT_BLOCKS \in Nat \ {0}
    /\ HEAP_MIN_SPLIT_SIZE \in Nat
    /\ MEMORY_LAYOUT_KERNEL_HEAP_START \in Nat /\ MEMORY_LAYOUT_KERNEL_HEAP_END \in Nat
    /\ PMM_PAGE_SIZE \in Nat \ {0} /\ AddressLimit \in Nat \ {0}
BY HeapAssumption, PhysicalAssumption, Zenon

\* What the fields of a block are.
LEMMA BlockFacts ==
    ASSUME NEW b \in Block
    PROVE  /\ b.at \in Nat /\ b.size \in Nat /\ b.used \in BOOLEAN
           /\ Payload(b) = b.at + HeapHeaderSize /\ Payload(b) \in Nat
           /\ BlockEnd(b) = b.at + HeapHeaderSize + b.size /\ BlockEnd(b) \in Nat
           /\ b = [at |-> b.at, size |-> b.size, used |-> b.used]
           /\ BlockEnd(b) > b.at
BY Constants DEF Block, Payload, BlockEnd

\* A block with another size.
LEMMA Resized ==
    ASSUME NEW b \in Block, NEW n \in Nat
    PROVE  /\ [b EXCEPT !.size = n] \in Block
           /\ [b EXCEPT !.size = n].at = b.at
           /\ [b EXCEPT !.size = n].size = n
           /\ [b EXCEPT !.size = n].used = b.used
BY Zenon DEF Block

\* A block with another flag.
LEMMA Remarked ==
    ASSUME NEW b \in Block, NEW u \in BOOLEAN
    PROVE  /\ [b EXCEPT !.used = u] \in Block
           /\ [b EXCEPT !.used = u] = [at |-> b.at, size |-> b.size, used |-> u]
           /\ [b EXCEPT !.used = u].at = b.at
           /\ [b EXCEPT !.used = u].size = b.size
           /\ [b EXCEPT !.used = u].used = u
BY DEF Block

\* A sequence of blocks is a sequence.
LEMMA BlockAt ==
    ASSUME NEW blocks \in Seq(Block), NEW i \in 1 .. Len(blocks)
    PROVE  blocks[i] \in Block /\ i \in DOMAIN blocks
BY ElementOfSeq, LenProperties, Zenon

\* One block of a list replaced.
LEMMA Replaced ==
    ASSUME NEW blocks \in Seq(Block), NEW i \in 1 .. Len(blocks), NEW b \in Block
    PROVE  /\ [blocks EXCEPT ![i] = b] \in Seq(Block)
           /\ Len([blocks EXCEPT ![i] = b]) = Len(blocks)
           /\ \A j \in 1 .. Len(blocks) :
                 [blocks EXCEPT ![i] = b][j] = IF j = i THEN b ELSE blocks[j]
<1>1. DOMAIN blocks = 1 .. Len(blocks) /\ Len(blocks) \in Nat
  BY LenProperties, Zenon
<1>. QED BY <1>1, ExceptSeq, Zenon

\* A block that begins at the end of the list is appended to it.
LEMMA Appended ==
    ASSUME NEW blocks, NEW b \in Block, Tiled(blocks, b.at), heap_block_header_is_sane(b)
    PROVE  /\ Tiled(Append(blocks, b), BlockEnd(b))
           /\ Used(Append(blocks, b)) = Used(blocks) \cup (IF b.used THEN {b} ELSE {})
<1>. DEFINE n == Len(blocks)
           new == Append(blocks, b)
<1>1. blocks \in Seq(Block) /\ n \in Nat
  BY LenProperties, Zenon DEF Tiled
<1>2. new \in Seq(Block) /\ Len(new) = n + 1
  BY <1>1, AppendProperties, Zenon
<1>3. \A i \in 1 .. n : new[i] = blocks[i] /\ blocks[i] \in Block
  BY <1>1, AppendProperties, BlockAt
<1>4. new[n + 1] = b
  BY <1>1, AppendProperties, Zenon
<1>. HIDE DEF new
<1>5. ASSUME NEW i \in 1 .. n + 1
      PROVE  /\ heap_block_header_is_sane(new[i])
             /\ new[i].at = IF i = 1 THEN MEMORY_LAYOUT_KERNEL_HEAP_START ELSE BlockEnd(new[i - 1])
  <2>1. CASE i <= n
    <3>1. i \in 1 .. n
      BY <1>1, <2>1
    <3>2. i # 1 => i - 1 \in 1 .. n
      BY <3>1
    <3>. QED BY <1>3, <3>1, <3>2, Zenon DEF Tiled
  <2>2. CASE i = n + 1
    <3>1. new[i] = b
      BY <1>4, <2>2, Zenon
    <3>2. b.at = IF n = 0 THEN MEMORY_LAYOUT_KERNEL_HEAP_START ELSE BlockEnd(blocks[n])
      BY Zenon DEF Tiled
    <3>3. CASE n = 0
      BY <2>2, <3>1, <3>2, <3>3
    <3>4. CASE n # 0
      <4>1. i # 1 /\ i - 1 = n /\ n \in 1 .. n
        BY <1>1, <2>2, <3>4
      <4>. QED BY <1>3, <3>1, <3>2, <3>4, <4>1, Zenon
    <3>. QED BY <3>3, <3>4, Zenon
  <2>. QED BY <1>1, <2>1, <2>2
<1>6. Tiled(new, BlockEnd(b))
  <2>1. Len(new) # 0 /\ new[Len(new)] = b
    BY <1>1, <1>2, <1>4
  <2>. QED BY <1>2, <1>5, <2>1, Zenon DEF Tiled
<1>7. Used(new) = Used(blocks) \cup (IF b.used THEN {b} ELSE {})
  <2>1. ASSUME NEW x PROVE (\E i \in 1 .. n + 1 : new[i] = x) <=> x = b \/ \E i \in 1 .. n : blocks[i] = x
    <3>1. \A i \in 1 .. n + 1 : i = n + 1 \/ i \in 1 .. n
      BY <1>1
    <3>2. n + 1 \in 1 .. n + 1 /\ \A i \in 1 .. n : i \in 1 .. n + 1
      BY <1>1
    <3>. QED BY <1>3, <1>4, <3>1, <3>2, Zenon
  <2>. QED BY <1>2, <2>1, Zenon DEF Used
<1>. QED BY <1>6, <1>7, Zenon DEF new

\* The last block of a list, free before and after, is extended up to end.
LEMMA Extended ==
    ASSUME NEW blocks, NEW top, Tiled(blocks, top), Len(blocks) # 0,
           NEW b \in Block, b.at = blocks[Len(blocks)].at, heap_block_header_is_sane(b),
           ~b.used, ~blocks[Len(blocks)].used
    PROVE  /\ Tiled([blocks EXCEPT ![Len(blocks)] = b], BlockEnd(b))
           /\ Used([blocks EXCEPT ![Len(blocks)] = b]) = Used(blocks)
<1>. DEFINE n == Len(blocks)
           new == [blocks EXCEPT ![n] = b]
<1>1. blocks \in Seq(Block) /\ n \in Nat /\ n \in 1 .. n
  BY LenProperties DEF Tiled
<1>2. /\ new \in Seq(Block) /\ Len(new) = n
      /\ \A j \in 1 .. n : new[j] = IF j = n THEN b ELSE blocks[j]
  BY <1>1, Replaced
<1>. HIDE DEF new
<1>3. \A j \in 1 .. n : new[j].at = blocks[j].at
  BY <1>2, Zenon
<1>4. \A j \in 1 .. n - 1 : j \in 1 .. n /\ new[j] = blocks[j]
  BY <1>1, <1>2
<1>5. ASSUME NEW i \in 1 .. n
      PROVE  /\ heap_block_header_is_sane(new[i])
             /\ new[i].at = IF i = 1 THEN MEMORY_LAYOUT_KERNEL_HEAP_START ELSE BlockEnd(new[i - 1])
  <2>1. heap_block_header_is_sane(new[i])
    BY <1>2, Zenon DEF Tiled
  <2>2. i # 1 => new[i - 1] = blocks[i - 1]
    BY <1>1, <1>4
  <2>. QED BY <1>3, <2>1, <2>2, Zenon DEF Tiled
<1>6. Tiled(new, BlockEnd(b))
  BY <1>1, <1>2, <1>5, Zenon DEF Tiled
<1>7. Used(new) = Used(blocks)
  <2>1. ASSUME NEW x, x.used
        PROVE  (\E i \in 1 .. n : new[i] = x) <=> (\E i \in 1 .. n : blocks[i] = x)
    BY <1>2, <2>1, Zenon
  <2>. QED BY <1>2, <2>1 DEF Used
<1>. QED BY <1>6, <1>7, Zenon DEF new

\* A block that keeps its place keeps the list tiled.
LEMMA Marked ==
    ASSUME NEW blocks, NEW top, Tiled(blocks, top), NEW i \in 1 .. Len(blocks),
           NEW b \in Block, b.at = blocks[i].at, b.size = blocks[i].size
    PROVE  Tiled([blocks EXCEPT ![i] = b], top)
<1>. DEFINE n == Len(blocks)
           new == [blocks EXCEPT ![i] = b]
<1>1. blocks \in Seq(Block) /\ n \in Nat
  BY LenProperties, Zenon DEF Tiled
<1>2. /\ new \in Seq(Block) /\ Len(new) = n
      /\ \A j \in 1 .. n : new[j] = IF j = i THEN b ELSE blocks[j]
  BY <1>1, Replaced
<1>. HIDE DEF new
<1>3. ASSUME NEW j \in 1 .. n
      PROVE  /\ new[j].at = blocks[j].at /\ BlockEnd(new[j]) = BlockEnd(blocks[j])
             /\ heap_block_header_is_sane(new[j])
  BY <1>2, <1>3, Zenon DEF BlockEnd, Payload, heap_block_header_is_sane, Tiled
<1>4. n # 0 => n \in 1 .. n
  BY <1>1
<1>5. \A j \in 1 .. n : j # 1 => j - 1 \in 1 .. n
  BY <1>1
<1>. QED BY <1>2, <1>3, <1>4, <1>5, Zenon DEF Tiled, new

\* Blocks further on in the list are further on in the heap.
LEMMA InOrder ==
    ASSUME NEW blocks, NEW top, Tiled(blocks, top), NEW j \in 1 .. Len(blocks)
    PROVE  /\ \A i \in 1 .. j - 1 : BlockEnd(blocks[i]) <= blocks[j].at
           /\ BlockEnd(blocks[j]) <= top
<1>. DEFINE n == Len(blocks)
           S == {k \in 0 .. n : k = 0 \/ \A i \in 1 .. k - 1 : BlockEnd(blocks[i]) <= blocks[k].at}
<1>1. blocks \in Seq(Block) /\ n \in Nat
  BY LenProperties, Zenon DEF Tiled
<1>2. \A k \in 1 .. n : /\ blocks[k].at \in Nat /\ BlockEnd(blocks[k]) \in Nat
                        /\ BlockEnd(blocks[k]) > blocks[k].at
  BY <1>1, BlockAt, BlockFacts, Zenon
<1>3. 0 \in S
  BY <1>1
<1>4. ASSUME NEW k \in 1 .. n, k - 1 \in S PROVE k \in S
  <2>1. k \in 0 .. n
    OBVIOUS
  <2>2. ASSUME NEW i \in 1 .. k - 1 PROVE BlockEnd(blocks[i]) <= blocks[k].at
    <3>1. k # 1 /\ k - 1 \in 1 .. n /\ i \in 1 .. n /\ k - 1 # 0
      OBVIOUS
    <3>2. blocks[k].at = BlockEnd(blocks[k - 1])
      BY <3>1, Zenon DEF Tiled
    <3>3. CASE i = k - 1
      BY <1>2, <3>1, <3>2, <3>3
    <3>4. CASE i # k - 1
      <4>1. i \in 1 .. (k - 1) - 1
        BY <3>4
      <4>2. BlockEnd(blocks[i]) <= blocks[k - 1].at
        BY <1>4, <3>1, <4>1, Zenon
      <4>3. /\ BlockEnd(blocks[i]) \in Nat /\ blocks[k - 1].at \in Nat
            /\ BlockEnd(blocks[k - 1]) \in Nat /\ BlockEnd(blocks[k - 1]) > blocks[k - 1].at
        BY <1>2, <3>1, Zenon
      <4>. QED BY <3>2, <4>2, <4>3
    <3>. QED BY <3>3, <3>4, Zenon
  <2>. QED BY <2>1, <2>2, Zenon
<1>5. 0 .. n \subseteq S
  <2>. HIDE DEF S
  <2>. QED BY <1>1, <1>3, <1>4, CountUp, Zenon
<1>6. ASSUME NEW k \in 1 .. n PROVE \A i \in 1 .. k - 1 : BlockEnd(blocks[i]) <= blocks[k].at
  <2>1. k \in 0 .. n /\ k # 0
    OBVIOUS
  <2>. QED BY <1>5, <2>1, Zenon
<1>7. BlockEnd(blocks[j]) <= top
  <2>1. n \in 1 .. n /\ top = BlockEnd(blocks[n])
    BY <1>1 DEF Tiled
  <2>2. CASE j = n
    BY <1>2, <2>1, <2>2
  <2>3. CASE j # n
    <3>1. j \in 1 .. n - 1
      BY <1>1, <2>3
    <3>2. BlockEnd(blocks[j]) <= blocks[n].at
      BY <1>6, <2>1, <3>1, Zenon
    <3>. QED BY <1>2, <2>1, <3>2
  <2>. QED BY <2>2, <2>3, Zenon
<1>. QED BY <1>6, <1>7, Zenon

-----------------------------------------------------------------------------
(* Merging. *)

\* One turn of heap_merge_free_blocks.
LEMMA MergeTurn ==
    ASSUME NEW merged, NEW b \in Block, Tiled(merged, b.at), Merged(merged),
           heap_block_header_is_sane(b)
    PROVE  LET new == MergeNext(merged, b)
           IN /\ Tiled(new, BlockEnd(b)) /\ Merged(new)
              /\ Used(new) = Used(merged) \cup (IF b.used THEN {b} ELSE {})
<1>. DEFINE n == Len(merged)
           last == merged[n]
           new == MergeNext(merged, b)
           joins == n \in 1 .. HEAP_MAX_AUDIT_BLOCKS /\ ~last.used /\ ~b.used
<1>1. merged \in Seq(Block) /\ n \in Nat
  BY LenProperties, Zenon DEF Tiled
<1>2. n # 0 => /\ last \in Block /\ heap_block_header_is_sane(last)
               /\ BlockEnd(last) = b.at
  <2>1. n # 0 => n \in 1 .. n
    BY <1>1
  <2>. QED BY <1>1, <2>1, BlockAt, Zenon DEF Tiled
<1>3. CASE joins
  <2>. DEFINE size == last.size + HeapHeaderSize + b.size
             x == [last EXCEPT !.size = size]
  <2>1. n # 0 /\ n \in 1 .. n
    BY <1>1, <1>3
  <2>2. new = [merged EXCEPT ![n].size = size]
    BY <1>2, <1>3, <2>1, Zenon DEF MergeNext
  <2>3. [merged EXCEPT ![n].size = size] = [merged EXCEPT ![n] = x]
    BY Zenon
  <2>4. size \in Nat
    <3>1. last.size \in Nat /\ b.size \in Nat
      BY <1>2, <2>1, BlockFacts, Zenon
    <3>. HIDE DEF last
    <3>. QED BY <3>1, Constants
  <2>5. /\ x \in Block /\ x.at = last.at /\ x.size = size /\ ~x.used
    <3>1. last \in Block /\ ~last.used
      BY <1>2, <1>3, <2>1, Zenon
    <3>. HIDE DEF last, size
    <3>. QED BY <2>4, <3>1, Resized, Zenon
  <2>6. BlockEnd(x) = BlockEnd(b)
    <3>1. BlockEnd(x) = x.at + HeapHeaderSize + x.size
      BY <2>5, BlockFacts, Zenon
    <3>2. b.at = last.at + HeapHeaderSize + last.size /\ last.at \in Nat /\ last.size \in Nat
      BY <1>2, <2>1, BlockFacts, Zenon
    <3>3. BlockEnd(b) = b.at + HeapHeaderSize + b.size /\ b.size \in Nat
      BY BlockFacts, Zenon
    <3>. HIDE DEF x, last
    <3>. QED BY <2>5, <3>1, <3>2, <3>3, Constants
  <2>7. heap_block_header_is_sane(x)
    <3>1. x.size # 0
      <4>1. /\ x.size = last.size + HeapHeaderSize + b.size
            /\ last.size \in Nat /\ b.size \in Nat
        BY <1>2, <2>1, <2>5, BlockFacts, Zenon
      <4>. HIDE DEF x, last
      <4>. QED BY <4>1, Constants
    <3>2. heap_block_header_is_sane(last) /\ x.at = last.at
      BY <1>2, <2>1, <2>5, Zenon
    <3>. HIDE DEF x, last
    <3>. QED BY <2>6, <3>1, <3>2, Zenon DEF heap_block_header_is_sane
  <2>. HIDE DEF size
  <2>8. ~last.used
    BY <1>3, Zenon
  <2>9. Tiled([merged EXCEPT ![n] = x], BlockEnd(x)) /\ Used([merged EXCEPT ![n] = x]) = Used(merged)
    BY <2>1, <2>5, <2>7, <2>8, Extended, Zenon
  <2>10. Merged([merged EXCEPT ![n] = x])
    <3>1. \A j \in 1 .. n : [merged EXCEPT ![n] = x][j].used = merged[j].used
      BY <1>1, <2>1, <2>5, <2>8, Replaced
    <3>2. Len([merged EXCEPT ![n] = x]) = n
      BY <1>1, <2>1, <2>5, Replaced
    <3>3. \A j \in 2 .. n : j \in 1 .. n /\ j - 1 \in 1 .. n
      BY <1>1
    <3>. HIDE DEF x
    <3>. QED BY <3>1, <3>2, <3>3, Zenon DEF Merged
  <2>11. ~b.used
    BY <1>3, Zenon
  <2>. QED BY <2>2, <2>3, <2>6, <2>9, <2>10, <2>11, Zenon
<1>4. CASE ~joins
  <2>1. new = Append(merged, b)
    BY <1>4, Zenon DEF MergeNext
  <2>2. Merged(Append(merged, b))
    <3>1. /\ Len(Append(merged, b)) = n + 1 /\ Append(merged, b)[n + 1] = b
          /\ \A j \in 1 .. n : Append(merged, b)[j] = merged[j]
      BY <1>1, AppendProperties
    <3>2. ASSUME NEW i \in 2 .. n + 1, i - 1 <= HEAP_MAX_AUDIT_BLOCKS
          PROVE  Append(merged, b)[i - 1].used \/ Append(merged, b)[i].used
      <4>1. CASE i = n + 1
        <5>1. n \in 1 .. n /\ n \in 1 .. HEAP_MAX_AUDIT_BLOCKS /\ i - 1 = n
          BY <1>1, <3>2, <4>1, Constants
        <5>2. last.used \/ b.used
          BY <1>4, <5>1, Zenon
        <5>. QED BY <3>1, <4>1, <5>1, <5>2, Zenon
      <4>2. CASE i # n + 1
        <5>1. i \in 2 .. n /\ i \in 1 .. n /\ i - 1 \in 1 .. n
          BY <1>1, <4>2
        <5>. QED BY <3>1, <3>2, <5>1, Zenon DEF Merged
      <4>. QED BY <4>1, <4>2, Zenon
    <3>. QED BY <3>1, <3>2, Zenon DEF Merged
  <2>. QED BY <2>1, <2>2, Appended, Zenon
<1>. QED BY <1>3, <1>4, Zenon

\* A list of sane blocks, the first one at the start of the heap and each behind
\* the one before, is merged into a list that covers the same and has the same
\* blocks in use.
LEMMA MergedList ==
    ASSUME NEW blocks, NEW top, Tiled(blocks, top)
    PROVE  LET new == heap_merge_free_blocks(blocks)
           IN Tiled(new, top) /\ Merged(new) /\ Used(new) = Used(blocks)
<1>. DEFINE n == Len(blocks)
           end(i) == IF i = 0 THEN MEMORY_LAYOUT_KERNEL_HEAP_START ELSE BlockEnd(blocks[i])
           part(i) == {b \in Block : b.used /\ \E j \in 1 .. i : blocks[j] = b}
<1>1. blocks \in Seq(Block) /\ n \in Nat
  BY LenProperties, Zenon DEF Tiled
<1>0. PICK f : MergeRun(f, blocks) /\ heap_merge_free_blocks(blocks) = f[n]
  BY <1>1, MergeLoop, Zenon
<1>2. /\ f[0] = <<>>
      /\ \A i \in 1 .. n : f[i] = MergeNext(f[i - 1], blocks[i])
      /\ heap_merge_free_blocks(blocks) = f[n]
  BY <1>0, Zenon DEF MergeRun
<1>. DEFINE S == {i \in 0 .. n : Tiled(f[i], end(i)) /\ Merged(f[i]) /\ Used(f[i]) = part(i)}
<1>3. 0 \in S
  <2>1. Tiled(<<>>, MEMORY_LAYOUT_KERNEL_HEAP_START) /\ Merged(<<>>) /\ Used(<<>>) = {}
    BY EmptySeq DEF Tiled, Merged, Used
  <2>2. part(0) = {} /\ 0 \in 0 .. n
    BY <1>1
  <2>. QED BY <1>2, <2>1, <2>2, Zenon
<1>4. ASSUME NEW i \in 1 .. n, i - 1 \in S PROVE i \in S
  <2>1. blocks[i] \in Block /\ heap_block_header_is_sane(blocks[i])
    BY <1>1, BlockAt, Zenon DEF Tiled
  <2>2. blocks[i].at = end(i - 1)
    BY <1>1 DEF Tiled
  <2>3. Tiled(f[i - 1], blocks[i].at) /\ Merged(f[i - 1]) /\ Used(f[i - 1]) = part(i - 1)
    BY <1>4, <2>2, Zenon
  <2>4. f[i] = MergeNext(f[i - 1], blocks[i])
    BY <1>2, Zenon
  <2>5. /\ Tiled(f[i], BlockEnd(blocks[i])) /\ Merged(f[i])
        /\ Used(f[i]) = part(i - 1) \cup (IF blocks[i].used THEN {blocks[i]} ELSE {})
    BY <2>1, <2>3, <2>4, MergeTurn
  <2>6. part(i) = part(i - 1) \cup (IF blocks[i].used THEN {blocks[i]} ELSE {})
    <3>1. \A j \in 1 .. i : j = i \/ j \in 1 .. i - 1
      OBVIOUS
    <3>2. i \in 1 .. i /\ \A j \in 1 .. i - 1 : j \in 1 .. i
      OBVIOUS
    <3>3. ASSUME NEW x PROVE (\E j \in 1 .. i : blocks[j] = x) <=> x = blocks[i] \/ \E j \in 1 .. i - 1 : blocks[j] = x
      BY <3>1, <3>2, Zenon
    <3>. QED BY <2>1, <3>3, Zenon
  <2>7. i \in 0 .. n /\ i # 0
    OBVIOUS
  <2>. HIDE DEF part
  <2>. QED BY <2>5, <2>6, <2>7, Zenon
<1>5. n \in S
  <2>. HIDE DEF S
  <2>1. 0 .. n \subseteq S
    BY <1>1, <1>3, <1>4, CountUp, Zenon
  <2>. QED BY <1>1, <2>1
<1>6. end(n) = top
  BY <1>1, Zenon DEF Tiled
<1>7. part(n) = Used(blocks)
  BY Zenon DEF Used
<1>. HIDE DEF end, part
<1>. QED BY <1>2, <1>5, <1>6, <1>7, Zenon

-----------------------------------------------------------------------------
(* Splitting. *)

\* A block inserted into a list.
LEMMA Inserted ==
    ASSUME NEW s \in Seq(Block), NEW k \in 1 .. Len(s) + 1, NEW e \in Block
    PROVE  /\ LinkedIn(s, k, e) \in Seq(Block)
           /\ Len(LinkedIn(s, k, e)) = Len(s) + 1
           /\ \A j \in 1 .. Len(s) + 1 :
                 LinkedIn(s, k, e)[j] = IF j < k THEN s[j] ELSE IF j = k THEN e ELSE s[j - 1]
<1>. DEFINE n == Len(s)
           left == SubSeq(s, 1, k - 1)
           right == SubSeq(s, k, n)
           both == left \o <<e>>
<1>1. n \in Nat /\ k \in Nat /\ k >= 1 /\ k <= n + 1
  BY LenProperties
<1>2. left \in Seq(Block) /\ Len(left) = k - 1 /\ \A j \in 1 .. k - 1 : left[j] = s[j]
  <2>1. \A j \in 1 .. k - 1 : s[j] \in Block
    BY <1>1, BlockAt
  <2>. QED BY <1>1, <2>1, SubSeqProperties
<1>3. right \in Seq(Block) /\ Len(right) = n - k + 1 /\ \A j \in 1 .. n - k + 1 : right[j] = s[k + j - 1]
  <2>1. \A j \in k .. n : s[j] \in Block
    BY <1>1, BlockAt
  <2>. QED BY <1>1, <2>1, SubSeqProperties
<1>. HIDE DEF left, right
<1>4. both \in Seq(Block) /\ Len(both) = k /\ both[k] = e /\ \A j \in 1 .. k - 1 : both[j] = left[j]
  <2>1. <<e>> \in Seq(Block) /\ Len(<<e>>) = 1 /\ <<e>>[1] = e
    OBVIOUS
  <2>. QED BY <1>1, <1>2, <2>1, ConcatProperties
<1>. HIDE DEF both
<1>5. /\ both \o right \in Seq(Block) /\ Len(both \o right) = n + 1
      /\ \A j \in 1 .. n + 1 : (both \o right)[j] = IF j <= k THEN both[j] ELSE right[j - k]
  BY <1>1, <1>3, <1>4, ConcatProperties
<1>6. LinkedIn(s, k, e) = both \o right
  BY Zenon DEF LinkedIn, left, right, both
<1>7. ASSUME NEW j \in 1 .. n + 1
      PROVE  (both \o right)[j] = IF j < k THEN s[j] ELSE IF j = k THEN e ELSE s[j - 1]
  <2>1. CASE j < k
    <3>1. j \in 1 .. k - 1
      BY <1>1, <2>1
    <3>. QED BY <1>1, <1>2, <1>4, <1>5, <2>1, <3>1
  <2>2. CASE j = k
    BY <1>1, <1>4, <1>5, <2>2
  <2>3. CASE j > k
    <3>1. j - k \in 1 .. n - k + 1 /\ k + (j - k) - 1 = j - 1
      BY <1>1, <2>3
    <3>2. (both \o right)[j] = right[j - k] /\ right[j - k] = s[k + (j - k) - 1]
      BY <1>1, <1>3, <1>5, <2>3, <3>1
    <3>3. ~(j < k) /\ j # k
      BY <1>1, <2>3
    <3>. QED BY <3>1, <3>2, <3>3, Zenon
  <2>4. j < k \/ j = k \/ j > k
    BY <1>1
  <2>. QED BY <2>1, <2>2, <2>3, <2>4, Zenon
<1>. QED BY <1>5, <1>6, <1>7, Zenon

\* The block that begins at a multiple of the alignment behind a header and n
\* bytes of another.
LEMMA RestIsSane ==
    ASSUME NEW b \in Block, heap_block_header_is_sane(b), NEW n \in Nat \ {0},
           n % HEAP_ALIGNMENT = 0, b.size > n + HeapHeaderSize + HEAP_MIN_SPLIT_SIZE
    PROVE  LET rest == heap_initialize_block(Payload(b) + n, b.size - n - HeapHeaderSize)
               cut == [at |-> b.at, size |-> n, used |-> TRUE]
           IN /\ rest \in Block /\ heap_block_header_is_sane(rest) /\ ~rest.used
              /\ rest.at = BlockEnd(cut) /\ BlockEnd(rest) = BlockEnd(b)
              /\ cut \in Block /\ heap_block_header_is_sane(cut)
<1>. DEFINE rest == heap_initialize_block(Payload(b) + n, b.size - n - HeapHeaderSize)
           cut == [at |-> b.at, size |-> n, used |-> TRUE]
           H == HeapHeaderSize
<1>1. /\ b.at \in Nat /\ b.size \in Nat /\ H \in Nat \ {0} /\ HEAP_MIN_SPLIT_SIZE \in Nat
      /\ BlockEnd(b) = b.at + H + b.size /\ Payload(b) = b.at + H
  BY Constants, BlockFacts, Zenon
<1>2. rest = [at |-> b.at + H + n, size |-> b.size - n - H, used |-> FALSE]
  BY <1>1, Zenon DEF heap_initialize_block
<1>. HIDE DEF rest
<1>3. rest.at = b.at + H + n /\ rest.size = b.size - n - H /\ ~rest.used
  BY <1>2, Zenon
<1>4. rest \in Block
  BY <1>1, <1>2 DEF Block
<1>5. BlockEnd(rest) = rest.at + H + rest.size
  BY <1>4, BlockFacts, Zenon
<1>6. BlockEnd(rest) = BlockEnd(b)
  BY <1>1, <1>3, <1>5
<1>7. rest.at % HEAP_ALIGNMENT = 0
  <2>1. (b.at + H) % HEAP_ALIGNMENT = 0
    BY <1>1, Constants, HeapAssumption, SumOfMultiples DEF heap_block_header_is_sane
  <2>2. b.at + H \in Nat /\ rest.at = (b.at + H) + n
    BY <1>1, <1>3
  <2>3. ((b.at + H) + n) % HEAP_ALIGNMENT = 0
    BY <2>1, <2>2, Constants, SumOfMultiples, Zenon
  <2>. QED BY <2>2, <2>3, Zenon
<1>8. heap_block_header_is_sane(rest)
  <2>1. rest.size # 0
    BY <1>1, <1>3
  <2>2. BlockEnd(rest) - 1 <= MEMORY_LAYOUT_KERNEL_HEAP_END
    BY <1>6, Zenon DEF heap_block_header_is_sane
  <2>3. /\ rest.at >= MEMORY_LAYOUT_KERNEL_HEAP_START
        /\ rest.at <= MEMORY_LAYOUT_KERNEL_HEAP_END
    <3>1. b.at >= MEMORY_LAYOUT_KERNEL_HEAP_START
      BY DEF heap_block_header_is_sane
    <3>. QED BY <1>1, <1>3, <1>5, <2>2, <3>1, Constants
  <2>4. rest.at \in MEMORY_LAYOUT_KERNEL_HEAP_START .. MEMORY_LAYOUT_KERNEL_HEAP_END
    BY <1>4, <2>3, Constants, BlockFacts
  <2>. QED BY <1>7, <2>1, <2>2, <2>4, Zenon DEF heap_block_header_is_sane
<1>9. cut \in Block /\ cut.at = b.at /\ cut.size = n
  BY <1>1, Zenon DEF Block
<1>. HIDE DEF cut
<1>10. BlockEnd(cut) = b.at + H + n
  BY <1>9, BlockFacts, Zenon
<1>11. heap_block_header_is_sane(cut)
  <2>1. BlockEnd(cut) - 1 <= MEMORY_LAYOUT_KERNEL_HEAP_END
    BY <1>1, <1>10, Constants DEF heap_block_header_is_sane
  <2>. QED BY <1>9, <2>1, Zenon DEF heap_block_header_is_sane
<1>. QED BY <1>3, <1>4, <1>6, <1>8, <1>9, <1>10, <1>11, Zenon DEF rest, cut


\* Block i of a list is given to a caller that asked for n bytes.
TakenIn(blocks, new, top, i, n) ==
    /\ Tiled(new, top) /\ Merged(new)
    /\ \E b \in Block : /\ b.used /\ b.at = blocks[i].at /\ b.size >= n
                        /\ Used(new) = Used(blocks) \cup {b}

\* What kmalloc makes of the block it found: the block is in use with at least n
\* bytes, and the rest of the list is as it was.
LEMMA Taken ==
    ASSUME NEW blocks, NEW top, Tiled(blocks, top), Merged(blocks),
           NEW i \in 1 .. Len(blocks), i <= HEAP_MAX_AUDIT_BLOCKS, ~blocks[i].used,
           NEW n \in Nat \ {0}, n % HEAP_ALIGNMENT = 0, blocks[i].size >= n
    PROVE  TakenIn(blocks, [heap_split_block(blocks, i, n) EXCEPT ![i].used = TRUE], top, i, n)
<1>. DEFINE b == blocks[i]
           len == Len(blocks)
           new == [heap_split_block(blocks, i, n) EXCEPT ![i].used = TRUE]
<1>1. blocks \in Seq(Block) /\ len \in Nat /\ b \in Block
  BY LenProperties, BlockAt, Zenon DEF Tiled
<1>2. \A j \in 1 .. len : blocks[j] \in Block
  BY <1>1, BlockAt, Zenon
<1>3. CASE b.size <= n + HeapHeaderSize + HEAP_MIN_SPLIT_SIZE
  <2>. DEFINE x == [b EXCEPT !.used = TRUE]
  <2>1. x \in Block /\ x.at = b.at /\ x.size = b.size /\ x.used
    BY <1>1, Zenon DEF Block
  <2>2. new = [blocks EXCEPT ![i] = x]
    BY <1>3, Zenon DEF heap_split_block
  <2>. HIDE DEF x
  <2>3. Tiled([blocks EXCEPT ![i] = x], top)
    BY <2>1, Marked, Zenon
  <2>. DEFINE marked == [blocks EXCEPT ![i] = x]
  <2>4. /\ Len(marked) = len
        /\ \A j \in 1 .. len : marked[j] = IF j = i THEN x ELSE blocks[j]
    BY <1>1, <2>1, Replaced
  <2>. HIDE DEF marked
  <2>5. Merged(marked)
    <3>1. \A j \in 1 .. len : blocks[j].used => marked[j].used
      BY <2>1, <2>4, Zenon
    <3>2. \A j \in 2 .. len : j \in 1 .. len /\ j - 1 \in 1 .. len
      BY <1>1
    <3>. QED BY <2>4, <3>1, <3>2, Zenon DEF Merged
  <2>6. Used(marked) = Used(blocks) \cup {x}
    <3>1. ASSUME NEW y, y.used
          PROVE  (\E j \in 1 .. len : marked[j] = y) <=> y = x \/ \E j \in 1 .. len : blocks[j] = y
      BY <2>4, <3>1, Zenon
    <3>. QED BY <2>1, <2>4, <3>1 DEF Used
  <2>7. x.size >= n
    BY <2>1, Zenon
  <2>. QED BY <2>1, <2>2, <2>3, <2>5, <2>6, <2>7, Zenon DEF marked, TakenIn
<1>4. CASE ~(b.size <= n + HeapHeaderSize + HEAP_MIN_SPLIT_SIZE)
  <2>. DEFINE rest == heap_initialize_block(Payload(b) + n, b.size - n - HeapHeaderSize)
             cut == [at |-> b.at, size |-> n, used |-> TRUE]
             short == [b EXCEPT !.size = n]
             shorter == [blocks EXCEPT ![i] = short]
             longer == LinkedIn(shorter, i + 1, rest)
  <2>1. b.size > n + HeapHeaderSize + HEAP_MIN_SPLIT_SIZE /\ heap_block_header_is_sane(b)
    <3>1. b.size \in Nat
      BY <1>1, BlockFacts, Zenon
    <3>2. heap_block_header_is_sane(b)
      BY Zenon DEF Tiled
    <3>. HIDE DEF b
    <3>. QED BY <1>4, <3>1, <3>2, Constants
  <2>2. /\ rest \in Block /\ heap_block_header_is_sane(rest) /\ ~rest.used
        /\ rest.at = BlockEnd(cut) /\ BlockEnd(rest) = BlockEnd(b)
        /\ cut \in Block /\ heap_block_header_is_sane(cut)
    BY <1>1, <2>1, RestIsSane, Zenon
  <2>3. new = [longer EXCEPT ![i].used = TRUE]
    BY <1>4, Zenon DEF heap_split_block
  <2>4. short \in Block /\ [short EXCEPT !.used = TRUE] = cut /\ cut.at = b.at /\ cut.size = n /\ cut.used
    <3>. HIDE DEF b
    <3>1. short \in Block /\ short.at = b.at /\ short.size = n
      BY <1>1, Resized, Zenon
    <3>2. [short EXCEPT !.used = TRUE] = [at |-> short.at, size |-> short.size, used |-> TRUE]
      <4>. HIDE DEF short
      <4>. QED BY <3>1, Remarked, Zenon
    <3>3. [short EXCEPT !.used = TRUE] = cut
      <4>. HIDE DEF short
      <4>. QED BY <3>1, <3>2, Zenon
    <3>4. cut.at = b.at /\ cut.size = n /\ cut.used
      BY Zenon
    <3>. HIDE DEF short, cut
    <3>. QED BY <3>1, <3>3, <3>4, Zenon
  <2>. HIDE DEF rest, cut, short
  <2>5. /\ shorter \in Seq(Block) /\ Len(shorter) = len
        /\ \A j \in 1 .. len : shorter[j] = IF j = i THEN short ELSE blocks[j]
    BY <1>1, <2>4, Replaced
  <2>. HIDE DEF shorter
  <2>6. /\ longer \in Seq(Block) /\ Len(longer) = len + 1
        /\ \A j \in 1 .. len + 1 :
              longer[j] = IF j < i + 1 THEN shorter[j] ELSE IF j = i + 1 THEN rest ELSE shorter[j - 1]
    <3>1. i + 1 \in 1 .. Len(shorter) + 1
      BY <1>1, <2>5
    <3>2. /\ longer \in Seq(Block) /\ Len(longer) = Len(shorter) + 1
          /\ \A j \in 1 .. Len(shorter) + 1 :
                longer[j] = IF j < i + 1 THEN shorter[j]
                            ELSE IF j = i + 1 THEN rest ELSE shorter[j - 1]
      <4>. DEFINE k == i + 1
      <4>1. k \in 1 .. Len(shorter) + 1 /\ rest \in Block /\ shorter \in Seq(Block)
        BY <2>2, <2>5, <3>1, Zenon
      <4>. HIDE DEF k
      <4>2. /\ LinkedIn(shorter, k, rest) \in Seq(Block)
            /\ Len(LinkedIn(shorter, k, rest)) = Len(shorter) + 1
            /\ \A j \in 1 .. Len(shorter) + 1 :
                  LinkedIn(shorter, k, rest)[j] =
                      IF j < k THEN shorter[j] ELSE IF j = k THEN rest ELSE shorter[j - 1]
        BY <4>1, Inserted
      <4>. QED BY <4>2, Zenon DEF k, longer
    <3>. QED BY <2>5, <3>2, Zenon
  <2>. HIDE DEF longer
  <2>7. i \in 1 .. len + 1 /\ longer[i] = short
    BY <1>1, <2>5, <2>6
  <2>8. [longer EXCEPT ![i].used = TRUE] = [longer EXCEPT ![i] = cut]
    BY <2>4, <2>7, Zenon
  <2>9. /\ new \in Seq(Block) /\ Len(new) = len + 1
        /\ \A j \in 1 .. len + 1 : new[j] = IF j = i THEN cut ELSE longer[j]
    <3>1. i \in 1 .. Len(longer) /\ new = [longer EXCEPT ![i] = cut]
      BY <2>3, <2>6, <2>7, <2>8, Zenon
    <3>. HIDE DEF new
    <3>2. /\ new \in Seq(Block) /\ Len(new) = Len(longer)
          /\ \A j \in 1 .. Len(longer) : new[j] = IF j = i THEN cut ELSE longer[j]
      BY <2>2, <2>6, <3>1, Replaced
    <3>. QED BY <2>6, <3>2, Zenon
  <2>. HIDE DEF new
  <2>10. \A j \in 1 .. len + 1 : /\ j < i => new[j] = blocks[j]
                                 /\ j = i => new[j] = cut
                                 /\ j = i + 1 => new[j] = rest
                                 /\ j > i + 1 => new[j] = blocks[j - 1]
    <3>. SUFFICES ASSUME NEW j \in 1 .. len + 1
                  PROVE  /\ j < i => new[j] = blocks[j]
                         /\ j = i => new[j] = cut
                         /\ j = i + 1 => new[j] = rest
                         /\ j > i + 1 => new[j] = blocks[j - 1]
      BY Zenon
    <3>1. /\ new[j] = IF j = i THEN cut ELSE longer[j]
          /\ longer[j] = IF j < i + 1 THEN shorter[j] ELSE IF j = i + 1 THEN rest ELSE shorter[j - 1]
      BY <2>6, <2>9, Zenon
    <3>2. ASSUME j < i PROVE new[j] = blocks[j]
      <4>1. j \in 1 .. len /\ j # i /\ j < i + 1
        BY <1>1, <3>2
      <4>. QED BY <2>5, <3>1, <4>1, Zenon
    <3>3. ASSUME j = i + 1 PROVE new[j] = rest
      BY <3>1, <3>3
    <3>4. ASSUME j > i + 1 PROVE new[j] = blocks[j - 1]
      <4>1. j - 1 \in 1 .. len /\ j - 1 # i /\ j # i /\ ~(j < i + 1) /\ j # i + 1
        BY <1>1, <3>4
      <4>. QED BY <2>5, <3>1, <4>1, Zenon
    <3>. QED BY <3>1, <3>2, <3>3, <3>4, Zenon
  <2>11. ASSUME NEW j \in 1 .. len + 1
         PROVE  /\ heap_block_header_is_sane(new[j])
                /\ new[j].at = IF j = 1 THEN MEMORY_LAYOUT_KERNEL_HEAP_START ELSE BlockEnd(new[j - 1])
    <3>1. CASE j < i
      <4>1. j \in 1 .. len /\ (j # 1 => j - 1 \in 1 .. len + 1 /\ j - 1 < i)
        BY <1>1, <3>1
      <4>. QED BY <2>10, <3>1, <4>1 DEF Tiled
    <3>2. CASE j = i
      <4>1. j # 1 => j - 1 \in 1 .. len + 1 /\ j - 1 < i
        BY <1>1, <3>2
      <4>. QED BY <2>2, <2>4, <2>10, <3>2, <4>1 DEF Tiled
    <3>3. CASE j = i + 1
      <4>1. j # 1 /\ j - 1 = i
        BY <3>3
      <4>. QED BY <2>2, <2>7, <2>10, <3>3, <4>1, Zenon
    <3>4. CASE j = i + 2
      <4>1. j # 1 /\ j - 1 = i + 1 /\ j > i + 1 /\ j - 1 \in 1 .. len /\ j - 1 # 1 /\ (j - 1) - 1 = i
        BY <1>1, <3>4
      <4>2. blocks[j - 1].at = BlockEnd(b) /\ heap_block_header_is_sane(blocks[j - 1])
        BY <4>1, Zenon DEF Tiled
      <4>3. new[j] = blocks[j - 1] /\ j - 1 \in 1 .. len + 1
        BY <1>1, <2>10, <4>1
      <4>4. new[j - 1] = rest
        BY <2>10, <4>1, <4>3, Zenon
      <4>. QED BY <2>2, <4>1, <4>2, <4>3, <4>4, Zenon
    <3>5. CASE j > i + 2
      <4>1. /\ j # 1 /\ j - 1 \in 1 .. len + 1 /\ j - 1 > i + 1 /\ j > i + 1
            /\ j - 1 \in 1 .. len /\ j - 1 # 1
        BY <1>1, <3>5
      <4>2. new[j] = blocks[j - 1] /\ new[j - 1] = blocks[(j - 1) - 1]
        BY <2>10, <4>1, Zenon
      <4>3. blocks[j - 1].at = BlockEnd(blocks[(j - 1) - 1]) /\ heap_block_header_is_sane(blocks[j - 1])
        BY <4>1, Zenon DEF Tiled
      <4>. QED BY <4>1, <4>2, <4>3, Zenon
    <3>. QED BY <1>1, <3>1, <3>2, <3>3, <3>4, <3>5
  <2>12. Tiled(new, top)
    <3>1. top = BlockEnd(blocks[len]) /\ len \in 1 .. len
      BY <1>1 DEF Tiled
    <3>2. BlockEnd(new[len + 1]) = BlockEnd(blocks[len])
      <4>1. CASE i = len
        <5>1. len + 1 \in 1 .. len + 1 /\ len + 1 = i + 1
          BY <1>1, <4>1
        <5>. QED BY <2>2, <2>10, <4>1, <5>1, Zenon
      <4>2. CASE i # len
        <5>1. len + 1 \in 1 .. len + 1 /\ len + 1 > i + 1 /\ (len + 1) - 1 = len
          BY <1>1, <4>2
        <5>2. new[len + 1] = blocks[(len + 1) - 1]
          BY <2>10, <5>1, Zenon
        <5>. QED BY <5>1, <5>2, Zenon
      <4>. QED BY <4>1, <4>2, Zenon
    <3>3. len + 1 # 0
      BY <1>1
    <3>. QED BY <2>9, <2>11, <3>1, <3>2, <3>3, Zenon DEF Tiled
  <2>13. Merged(new)
    <3>. SUFFICES ASSUME NEW j \in 2 .. len + 1, j - 1 <= HEAP_MAX_AUDIT_BLOCKS
                  PROVE  new[j - 1].used \/ new[j].used
      BY <2>9, Zenon DEF Merged
    <3>1. j \in 1 .. len + 1 /\ j - 1 \in 1 .. len + 1
      BY <1>1
    <3>2. CASE j < i
      <4>1. j \in 2 .. len /\ new[j] = blocks[j] /\ new[j - 1] = blocks[j - 1]
        BY <1>1, <2>10, <3>1, <3>2
      <4>. QED BY <4>1, Zenon DEF Merged
    <3>3. CASE j = i \/ j - 1 = i
      BY <2>4, <2>10, <3>1, <3>3, Zenon
    <3>4. CASE j = i + 2
      <4>1. i + 1 \in 2 .. len /\ (i + 1) - 1 = i /\ (i + 1) - 1 <= HEAP_MAX_AUDIT_BLOCKS
        BY <1>1, <3>4
      <4>2. blocks[(i + 1) - 1].used \/ blocks[i + 1].used
        BY <4>1, Zenon DEF Merged
      <4>3. j > i + 1 /\ j - 1 = i + 1
        BY <3>4
      <4>4. new[j] = blocks[j - 1]
        BY <2>10, <3>1, <4>3, Zenon
      <4>. QED BY <4>1, <4>2, <4>3, <4>4, Zenon
    <3>5. CASE j > i + 2
      <4>1. j > i + 1 /\ j - 1 > i + 1 /\ j - 1 \in 2 .. len /\ (j - 1) - 1 <= HEAP_MAX_AUDIT_BLOCKS
        BY <1>1, <3>1, <3>5, Constants
      <4>2. new[j] = blocks[j - 1] /\ new[j - 1] = blocks[(j - 1) - 1]
        BY <2>10, <3>1, <4>1, Zenon
      <4>. QED BY <4>1, <4>2, Zenon DEF Merged
    <3>. QED BY <1>1, <3>1, <3>2, <3>3, <3>4, <3>5
  <2>14. Used(new) = Used(blocks) \cup {cut}
    <3>1. ASSUME NEW y, y.used, NEW j \in 1 .. len + 1, new[j] = y
          PROVE  y = cut \/ \E k \in 1 .. len : blocks[k] = y
      <4>1. CASE j < i
        BY <1>1, <2>10, <3>1, <4>1
      <4>2. CASE j = i
        BY <2>10, <3>1, <4>2, Zenon
      <4>3. CASE j = i + 1
        BY <2>2, <2>10, <3>1, <4>3, Zenon
      <4>4. CASE j > i + 1
        <5>1. j - 1 \in 1 .. len /\ blocks[j - 1] = y
          BY <1>1, <2>10, <3>1, <4>4
        <5>. QED BY <5>1, Zenon
      <4>. QED BY <1>1, <4>1, <4>2, <4>3, <4>4
    <3>2. ASSUME NEW y, y.used, NEW k \in 1 .. len, blocks[k] = y
          PROVE  \E j \in 1 .. len + 1 : new[j] = y
      <4>1. k # i
        BY <3>2, Zenon
      <4>2. CASE k < i
        <5>1. k \in 1 .. len + 1 /\ new[k] = y
          BY <1>1, <2>10, <3>2, <4>2
        <5>. QED BY <5>1, Zenon
      <4>3. CASE k > i
        <5>1. k + 1 \in 1 .. len + 1 /\ k + 1 > i + 1 /\ (k + 1) - 1 = k
          BY <1>1, <4>3
        <5>2. new[k + 1] = blocks[(k + 1) - 1]
          BY <2>10, <5>1, Zenon
        <5>. QED BY <3>2, <5>1, <5>2, Zenon
      <4>. QED BY <1>1, <4>1, <4>2, <4>3
    <3>3. new[i] = cut /\ i \in 1 .. len + 1
      BY <2>7, <2>10, Zenon
    <3>4. ASSUME NEW y, y.used
          PROVE  (\E j \in 1 .. len + 1 : new[j] = y) <=> y = cut \/ \E k \in 1 .. len : blocks[k] = y
      BY <3>1, <3>2, <3>3, <3>4, Zenon
    <3>. QED BY <2>2, <2>4, <2>9, <3>4 DEF Used
  <2>15. cut \in Block /\ cut.used /\ cut.at = b.at /\ cut.size >= n
    BY <2>2, <2>4
  <2>16. \E y \in Block : /\ y.used /\ y.at = b.at /\ y.size >= n
                          /\ Used(new) = Used(blocks) \cup {y}
    BY <2>14, <2>15, Zenon
  <2>. QED BY <2>12, <2>13, <2>16, Zenon DEF new, TakenIn
<1>. QED BY <1>3, <1>4, Zenon


-----------------------------------------------------------------------------
(* Growing. *)

\* The end of a tiled list is an address behind the start of the heap.
LEMMA TopAbove ==
    ASSUME NEW blocks, NEW top, Tiled(blocks, top)
    PROVE  top \in Nat /\ top >= MEMORY_LAYOUT_KERNEL_HEAP_START
<1>. DEFINE n == Len(blocks)
<1>1. blocks \in Seq(Block) /\ n \in Nat
  BY LenProperties, Zenon DEF Tiled
<1>2. CASE n = 0
  BY <1>2, Constants DEF Tiled
<1>3. CASE n # 0
  <2>1. n \in 1 .. n /\ top = BlockEnd(blocks[n]) /\ heap_block_header_is_sane(blocks[n])
    BY <1>1, <1>3 DEF Tiled
  <2>2. /\ BlockEnd(blocks[n]) \in Nat /\ blocks[n].at \in Nat
        /\ BlockEnd(blocks[n]) > blocks[n].at
    BY <1>1, <2>1, BlockAt, BlockFacts, Zenon
  <2>3. blocks[n].at >= MEMORY_LAYOUT_KERNEL_HEAP_START
    BY <2>1 DEF heap_block_header_is_sane
  <2>. QED BY <2>1, <2>2, <2>3, Constants
<1>. QED BY <1>2, <1>3, Zenon

\* Where page i of k behind top begins and ends.
LEMMA PageBounds ==
    ASSUME NEW top \in Nat, NEW k \in Nat, NEW i \in 1 .. k
    PROVE  LET at == top + (i - 1) * PMM_PAGE_SIZE
           IN /\ at \in Nat /\ at >= top
              /\ at + PMM_PAGE_SIZE = top + i * PMM_PAGE_SIZE
              /\ at + PMM_PAGE_SIZE <= top + k * PMM_PAGE_SIZE
              /\ top % PMM_PAGE_SIZE = 0 => at % PMM_PAGE_SIZE = 0 /\ at % HEAP_ALIGNMENT = 0
<1>. DEFINE P == PMM_PAGE_SIZE
           a == (i - 1) * P
<1>1. P \in Nat \ {0} /\ i - 1 \in Nat /\ k - i \in Nat
  BY Constants
<1>2. a \in Nat /\ a + P = i * P /\ i * P \in Nat
  BY <1>1
<1>3. k * P = i * P + (k - i) * P /\ (k - i) * P \in Nat
  BY <1>1
<1>4. ASSUME top % P = 0 PROVE (top + a) % P = 0 /\ (top + a) % HEAP_ALIGNMENT = 0
  <2>1. P % P = 0
    <3>1. P = P * 1
      BY <1>1
    <3>. QED BY <1>1, <3>1, Multiple, Zenon
  <2>2. a % P = 0
    BY <1>1, <2>1, MultipleOfMultiple, Zenon
  <2>3. (top + a) % P = 0
    BY <1>1, <1>2, <1>4, <2>2, SumOfMultiples, Zenon
  <2>4. PICK q \in Nat : top + a = P * q
    <3>1. top + a \in Nat
      BY <1>2
    <3>. QED BY <1>1, <2>3, <3>1, Multiple, Zenon
  <2>5. (q * P) % HEAP_ALIGNMENT = 0
    <3>1. P % HEAP_ALIGNMENT = 0
      BY HeapAssumption, Zenon
    <3>2. P \in Nat /\ HEAP_ALIGNMENT \in Nat \ {0}
      BY <1>1, Constants, Zenon
    <3>. QED BY <3>1, <3>2, MultipleOfMultiple, Zenon
  <2>6. top + a = q * P
    BY <1>1, <2>4
  <2>. QED BY <2>3, <2>5, <2>6, Zenon
<1>. HIDE DEF a, P
<1>. QED BY <1>1, <1>2, <1>3, <1>4 DEF a, P

\* The pages a growth adds, each a free block of its own.
NewPages(top, k) ==
    [i \in 1 .. k |-> heap_initialize_block(top + (i - 1) * PMM_PAGE_SIZE,
                                            PMM_PAGE_SIZE - HeapHeaderSize)]

\* They are sane blocks.
LEMMA NewPage ==
    ASSUME NEW top \in Nat, NEW k \in Nat, NEW i \in 1 .. k, top % PMM_PAGE_SIZE = 0,
           top >= MEMORY_LAYOUT_KERNEL_HEAP_START,
           top + k * PMM_PAGE_SIZE - 1 <= MEMORY_LAYOUT_KERNEL_HEAP_END
    PROVE  LET b == NewPages(top, k)[i]
           IN /\ b \in Block /\ ~b.used /\ heap_block_header_is_sane(b)
              /\ b.at = top + (i - 1) * PMM_PAGE_SIZE
              /\ b.size = PMM_PAGE_SIZE - HeapHeaderSize
              /\ BlockEnd(b) = top + i * PMM_PAGE_SIZE
<1>. DEFINE b == NewPages(top, k)[i]
           at == top + (i - 1) * PMM_PAGE_SIZE
           end == top + k * PMM_PAGE_SIZE
<1>1. /\ at \in Nat /\ at >= top /\ at + PMM_PAGE_SIZE = top + i * PMM_PAGE_SIZE
      /\ at + PMM_PAGE_SIZE <= end /\ at % HEAP_ALIGNMENT = 0
  BY PageBounds, Zenon
<1>2. b = [at |-> at, size |-> PMM_PAGE_SIZE - HeapHeaderSize, used |-> FALSE]
  BY Zenon DEF NewPages, heap_initialize_block
<1>3. /\ PMM_PAGE_SIZE \in Nat /\ HeapHeaderSize \in Nat /\ PMM_PAGE_SIZE > HeapHeaderSize
      /\ PMM_PAGE_SIZE - HeapHeaderSize \in Nat \ {0}
  BY Constants, HeapAssumption
<1>4. end \in Nat /\ end - 1 <= MEMORY_LAYOUT_KERNEL_HEAP_END
  <2>1. k * PMM_PAGE_SIZE \in Nat
    BY Constants
  <2>. QED BY <2>1
<1>. HIDE DEF b, at, end
<1>5. b \in Block /\ b.at = at /\ b.size = PMM_PAGE_SIZE - HeapHeaderSize /\ ~b.used
  BY <1>1, <1>2, <1>3, Zenon DEF Block
<1>6. BlockEnd(b) = at + PMM_PAGE_SIZE
  <2>1. BlockEnd(b) = b.at + HeapHeaderSize + b.size
    BY <1>5, BlockFacts, Zenon
  <2>. QED BY <1>1, <1>3, <1>5, <2>1
<1>7. heap_block_header_is_sane(b)
  <2>1. end - 1 <= MEMORY_LAYOUT_KERNEL_HEAP_END
    BY <1>4, Zenon
  <2>2. BlockEnd(b) - 1 <= MEMORY_LAYOUT_KERNEL_HEAP_END
    BY <1>1, <1>3, <1>4, <1>6, <2>1, Constants
  <2>3. b.at \in MEMORY_LAYOUT_KERNEL_HEAP_START .. MEMORY_LAYOUT_KERNEL_HEAP_END
    BY <1>1, <1>3, <1>4, <1>5, <2>1, Constants
  <2>4. b.size # 0
    BY <1>3, <1>5, Zenon
  <2>. QED BY <1>1, <1>5, <2>2, <2>3, <2>4, Zenon DEF heap_block_header_is_sane
<1>. QED BY <1>1, <1>5, <1>6, <1>7, Zenon DEF b, at

\* New pages behind the blocks of the heap.
LEMMA Joined ==
    ASSUME NEW blocks, NEW top, Tiled(blocks, top), NEW k \in Nat, top % PMM_PAGE_SIZE = 0,
           top + k * PMM_PAGE_SIZE - 1 <= MEMORY_LAYOUT_KERNEL_HEAP_END
    PROVE  LET new == blocks \o NewPages(top, k)
           IN Tiled(new, top + k * PMM_PAGE_SIZE) /\ Used(new) = Used(blocks)
<1>. DEFINE n == Len(blocks)
           pages == NewPages(top, k)
           new == blocks \o pages
<1>0. top \in Nat /\ top >= MEMORY_LAYOUT_KERNEL_HEAP_START
  BY TopAbove, Zenon
<1>1. blocks \in Seq(Block) /\ n \in Nat /\ \A j \in 1 .. n : blocks[j] \in Block
  BY LenProperties, BlockAt, Zenon DEF Tiled
<1>2. \A i \in 1 .. k : /\ pages[i] \in Block /\ ~pages[i].used /\ heap_block_header_is_sane(pages[i])
                        /\ pages[i].at = top + (i - 1) * PMM_PAGE_SIZE
                        /\ BlockEnd(pages[i]) = top + i * PMM_PAGE_SIZE
  BY <1>0, NewPage, Zenon
<1>3. pages \in Seq(Block) /\ Len(pages) = k
  <2>1. pages = [i \in 1 .. k |-> pages[i]]
    BY Zenon DEF NewPages
  <2>. HIDE DEF pages
  <2>. QED BY <1>2, <2>1
<1>. HIDE DEF pages
<1>4. /\ new \in Seq(Block) /\ Len(new) = n + k
      /\ \A j \in 1 .. n + k : new[j] = IF j <= n THEN blocks[j] ELSE pages[j - n]
  BY <1>1, <1>3, ConcatProperties, Zenon
<1>. HIDE DEF new
<1>5. ASSUME NEW j \in 1 .. n + k
      PROVE  /\ heap_block_header_is_sane(new[j])
             /\ new[j].at = IF j = 1 THEN MEMORY_LAYOUT_KERNEL_HEAP_START ELSE BlockEnd(new[j - 1])
  <2>1. CASE j <= n
    <3>1. j \in 1 .. n /\ (j # 1 => j - 1 \in 1 .. n + k /\ j - 1 <= n)
      BY <1>1, <2>1
    <3>. QED BY <1>4, <2>1, <3>1, Zenon DEF Tiled
  <2>2. CASE j = n + 1
    <3>1. ~(j <= n) /\ j - n \in 1 .. k /\ j - n = 1
      BY <1>1, <2>2
    <3>2. new[j] = pages[1] /\ heap_block_header_is_sane(pages[1]) /\ pages[1].at = top + (1 - 1) * PMM_PAGE_SIZE
      BY <1>2, <1>4, <3>1, Zenon
    <3>3. pages[1].at = top
      BY <1>0, <3>2, Constants
    <3>4. CASE n = 0
      BY <2>2, <3>2, <3>3, <3>4 DEF Tiled
    <3>5. CASE n # 0
      <4>1. j # 1 /\ j - 1 = n /\ n \in 1 .. n + k /\ n <= n
        BY <1>1, <2>2, <3>5
      <4>2. new[n] = blocks[n]
        BY <1>4, <4>1, Zenon
      <4>. QED BY <3>2, <3>3, <3>5, <4>1, <4>2, Zenon DEF Tiled
    <3>. QED BY <3>4, <3>5, Zenon
  <2>3. CASE j > n + 1
    <3>. DEFINE i == j - n
    <3>1. /\ ~(j <= n) /\ i \in 1 .. k /\ i - 1 \in 1 .. k /\ j # 1
          /\ j - 1 \in 1 .. n + k /\ ~(j - 1 <= n) /\ (j - 1) - n = i - 1
      BY <1>1, <2>3
    <3>2. new[j] = pages[i] /\ new[j - 1] = pages[i - 1]
      <4>1. new[j] = pages[i]
        BY <1>4, <3>1, Zenon
      <4>2. new[j - 1] = pages[(j - 1) - n]
        BY <1>4, <3>1, Zenon
      <4>. QED BY <3>1, <4>1, <4>2, Zenon
    <3>. HIDE DEF i
    <3>3. /\ heap_block_header_is_sane(pages[i]) /\ pages[i].at = top + (i - 1) * PMM_PAGE_SIZE
          /\ BlockEnd(pages[i - 1]) = top + (i - 1) * PMM_PAGE_SIZE
      BY <1>2, <3>1, Zenon
    <3>. QED BY <3>1, <3>2, <3>3, Zenon
  <2>4. j <= n \/ j = n + 1 \/ j > n + 1
    BY <1>1
  <2>. QED BY <2>1, <2>2, <2>3, <2>4, Zenon
<1>6. top + k * PMM_PAGE_SIZE = IF n + k = 0 THEN MEMORY_LAYOUT_KERNEL_HEAP_START ELSE BlockEnd(new[n + k])
  <2>1. CASE k = 0
    <3>1. k * PMM_PAGE_SIZE = 0 /\ top + 0 = top /\ n + k = n
      BY <1>0, <1>1, <2>1, Constants
    <3>2. n # 0 => new[n] = blocks[n]
      BY <1>1, <1>4, <3>1
    <3>. QED BY <3>1, <3>2, Zenon DEF Tiled
  <2>2. CASE k # 0
    <3>1. n + k # 0 /\ n + k \in 1 .. n + k /\ ~(n + k <= n) /\ (n + k) - n = k /\ k \in 1 .. k
      BY <1>1, <2>2
    <3>2. new[n + k] = pages[(n + k) - n]
      BY <1>4, <3>1, Zenon
    <3>. QED BY <1>2, <3>1, <3>2, Zenon
  <2>. QED BY <2>1, <2>2, Zenon
<1>7. Tiled(new, top + k * PMM_PAGE_SIZE)
  BY <1>4, <1>5, <1>6, Zenon DEF Tiled
<1>8. Used(new) = Used(blocks)
  <2>1. ASSUME NEW x, x.used
        PROVE  (\E j \in 1 .. n + k : new[j] = x) <=> (\E j \in 1 .. n : blocks[j] = x)
    <3>1. ASSUME NEW j \in 1 .. n + k, new[j] = x PROVE j \in 1 .. n /\ blocks[j] = x
      <4>1. CASE j <= n
        BY <1>1, <1>4, <3>1, <4>1
      <4>2. CASE ~(j <= n)
        <5>1. j - n \in 1 .. k /\ new[j] = pages[j - n]
          BY <1>1, <1>4, <4>2
        <5>. QED BY <1>2, <2>1, <3>1, <5>1, Zenon
      <4>. QED BY <4>1, <4>2, Zenon
    <3>2. ASSUME NEW j \in 1 .. n, blocks[j] = x PROVE j \in 1 .. n + k /\ new[j] = x
      BY <1>1, <1>4, <3>2
    <3>. QED BY <3>1, <3>2, Zenon
  <2>. QED BY <1>4, <2>1 DEF Used
<1>. QED BY <1>7, <1>8, Zenon DEF new, pages


\* A sequence stays one when anything is appended to it.
IsOneLonger(new, s, e) ==
    /\ \E U : new \in Seq(U)
    /\ Len(s) \in Nat /\ Len(new) = Len(s) + 1
    /\ \A j \in 1 .. Len(s) : new[j] = s[j]
    /\ new[Len(s) + 1] = e

LEMMA AppendAny ==
    ASSUME NEW T, NEW s \in Seq(T), NEW e
    PROVE  IsOneLonger(Append(s, e), s, e)
<1>. DEFINE U == T \cup {e}
<1>1. s \in Seq(U)
  <2>1. s \in [1 .. Len(s) -> T] /\ Len(s) \in Nat
    BY LenProperties, Zenon
  <2>2. s \in [1 .. Len(s) -> U]
    BY <2>1, Zenon
  <2>. QED BY <2>1, <2>2
<1>2. e \in U
  BY Zenon
<1>. HIDE DEF U
<1>. QED BY <1>1, <1>2, AppendProperties DEF IsOneLonger

\* A growth that succeeds has mapped a page at every address it was to.
LEMMA GrownPages ==
    ASSUME NEW start, DOMAIN start = {"ok", "m", "pages"}, start.ok = TRUE, start.pages = <<>>,
           NEW virtuals, Len(virtuals) \in Nat
    PROVE  LET grown == PagesGrown(start, virtuals)
           IN /\ grown.ok \in BOOLEAN
              /\ grown.ok => /\ DOMAIN grown.pages = 1 .. Len(virtuals)
                             /\ \A i \in 1 .. Len(virtuals) : grown.pages[i].virtual = virtuals[i]
<1>. DEFINE n == Len(virtuals)
<1>0. PICK f : GrowRun(f, start, virtuals) /\ PagesGrown(start, virtuals) = f[n]
  BY GrowLoop, Zenon
<1>1. /\ f[0] = start
      /\ \A i \in 1 .. n : f[i] = GrowPage(f[i - 1], virtuals[i])
  BY <1>0, Zenon DEF GrowRun
<1>. DEFINE Fits(g, i) ==
         /\ DOMAIN g = {"ok", "m", "pages"} /\ g.ok \in BOOLEAN
         /\ g.ok => /\ \E T : g.pages \in Seq(T)
                    /\ Len(g.pages) = i
                    /\ \A k \in 1 .. i : g.pages[k].virtual = virtuals[k]
           S == {i \in 0 .. n : Fits(f[i], i)}
<1>2. 0 \in S
  <2>1. start.pages \in Seq(Nat) /\ Len(start.pages) = 0
    OBVIOUS
  <2>2. \E T : start.pages \in Seq(T)
    BY <2>1, Zenon
  <2>3. 0 \in 0 .. n /\ 1 .. 0 = {}
    OBVIOUS
  <2>4. Fits(start, 0)
    BY <2>1, <2>2, <2>3, Zenon
  <2>. QED BY <1>1, <2>3, <2>4, Zenon
<1>3. ASSUME NEW i \in 1 .. n, i - 1 \in S PROVE i \in S
  <2>. DEFINE g == f[i - 1]
             virtual == virtuals[i]
             got == pmm_alloc_page(g.m.pmm)
             page == [virtual |-> virtual, physical |-> got.page]
  <2>1. Fits(g, i - 1) /\ i \in 0 .. n /\ f[i] = GrowPage(g, virtual)
    BY <1>1, <1>3
  <2>. HIDE DEF g, S
  <2>2. CASE ~g.ok
    <3>1. f[i] = g
      BY <2>1, <2>2, Zenon DEF GrowPage
    <3>. QED BY <2>1, <2>2, <3>1, Zenon DEF S
  <2>3. CASE f[i].ok = FALSE /\ DOMAIN f[i] = {"ok", "m", "pages"}
    BY <2>1, <2>3, Zenon DEF S
  <2>4. CASE g.ok /\ ~(f[i].ok = FALSE /\ DOMAIN f[i] = {"ok", "m", "pages"})
    <3>1. \E x : f[i] = [g EXCEPT !.m = x, !.pages = Append(@, page)]
      <4>1. \A x : LET y == [g EXCEPT !.ok = FALSE, !.m = x]
                   IN y.ok = FALSE /\ DOMAIN y = {"ok", "m", "pages"}
        BY <2>1, Zenon
      <4>. QED BY <2>1, <2>4, <4>1, Zenon DEF GrowPage
    <3>2. /\ DOMAIN f[i] = {"ok", "m", "pages"} /\ f[i].ok = g.ok
          /\ f[i].pages = Append(g.pages, page)
      BY <2>1, <3>1, Zenon
    <3>3. /\ \E T : Append(g.pages, page) \in Seq(T)
          /\ Len(Append(g.pages, page)) = (i - 1) + 1
          /\ \A k \in 1 .. i - 1 : Append(g.pages, page)[k] = g.pages[k]
          /\ Append(g.pages, page)[(i - 1) + 1] = page
      <4>1. PICK T : g.pages \in Seq(T)
        BY <2>1, <2>4, Zenon
      <4>2. Len(g.pages) = i - 1
        BY <2>1, <2>4, Zenon
      <4>. HIDE DEF page
      <4>3. IsOneLonger(Append(g.pages, page), g.pages, page)
        BY <4>1, AppendAny, Zenon
      <4>. QED BY <4>2, <4>3, Zenon DEF IsOneLonger
    <3>4. (i - 1) + 1 = i
      OBVIOUS
    <3>5. page.virtual = virtuals[i]
      BY Zenon
    <3>6. ASSUME NEW k \in 1 .. i PROVE Append(g.pages, page)[k].virtual = virtuals[k]
      <4>1. CASE k = i
        BY <3>3, <3>4, <3>5, <4>1, Zenon
      <4>2. CASE k # i
        <5>1. k \in 1 .. i - 1
          BY <4>2
        <5>. QED BY <2>1, <2>4, <3>3, <5>1, Zenon
      <4>. QED BY <4>1, <4>2, Zenon
    <3>. HIDE DEF page
    <3>7. Fits(f[i], i)
      BY <2>1, <2>4, <3>2, <3>3, <3>4, <3>6, Zenon
    <3>. QED BY <2>1, <3>7, Zenon DEF S
  <2>. QED BY <2>1, <2>2, <2>3, <2>4, Zenon
<1>4. n \in S
  <2>. HIDE DEF S
  <2>1. 0 .. n \subseteq S
    BY <1>2, <1>3, CountUp, Zenon
  <2>. QED BY <2>1
<1>5. Fits(f[n], n)
  BY <1>4, Zenon
<1>6. f[n].ok => DOMAIN f[n].pages = 1 .. n
  <2>. SUFFICES ASSUME f[n].ok PROVE DOMAIN f[n].pages = 1 .. n
    BY Zenon
  <2>1. PICK T : f[n].pages \in Seq(T)
    BY <1>5, Zenon
  <2>2. DOMAIN f[n].pages = 1 .. Len(f[n].pages)
    BY <2>1, LenProperties, Zenon
  <2>. QED BY <1>5, <2>2, Zenon
<1>. QED BY <1>0, <1>5, <1>6, Zenon


HeapFields ==
    {"blocks", "next_virtual_page", "initialized", "used_bytes", "free_bytes", "grow_failed"}

\* The counters are those of the list.
Counted(h) ==
    /\ h.used_bytes = SumOfSizes(h.blocks, {i \in Visited(h.blocks) : h.blocks[i].used})
    /\ h.free_bytes = SumOfSizes(h.blocks, {i \in Visited(h.blocks) : ~h.blocks[i].used})

\* The blocks cover the pages of the heap, and no more than the heap may have.
HeapOK(h) ==
    /\ DOMAIN h = HeapFields
    /\ h.initialized \in BOOLEAN /\ h.grow_failed \in BOOLEAN
    /\ Tiled(h.blocks, h.next_virtual_page)
    /\ Merged(h.blocks)
    /\ h.next_virtual_page % PMM_PAGE_SIZE = 0
    /\ h.next_virtual_page - 1 <= MEMORY_LAYOUT_KERNEL_HEAP_END
    /\ h.initialized => Counted(h)

\* heap_recalculate_stats counts, and leaves the rest alone.
LEMMA Recalculated ==
    ASSUME NEW h, DOMAIN h = HeapFields
    PROVE  LET r == heap_recalculate_stats(h)
           IN /\ DOMAIN r = HeapFields /\ Counted(r)
              /\ r.blocks = h.blocks /\ r.next_virtual_page = h.next_virtual_page
              /\ r.initialized = h.initialized /\ r.grow_failed = h.grow_failed
BY Zenon DEF heap_recalculate_stats, HeapFields, Counted

\* A growth asks for at least one page.
LEMMA SomePages ==
    ASSUME NEW minimum_size \in Nat
    PROVE  required_pages(minimum_size) \in Nat \ {0}
<1>. DEFINE w == (minimum_size + HeapHeaderSize + PMM_PAGE_SIZE - 1) % AddressLimit
           q == w \div PMM_PAGE_SIZE
<1>1. w \in Nat
  <2>1. minimum_size + HeapHeaderSize + PMM_PAGE_SIZE - 1 \in Nat
    BY Constants
  <2>. QED BY <2>1, Quotient, Constants
<1>. HIDE DEF w
<1>2. q \in Nat
  BY <1>1, Quotient, Constants, Zenon
<1>. HIDE DEF q
<1>3. q * PMM_PAGE_SIZE \in Nat
  BY <1>2, Constants
<1>4. (q * PMM_PAGE_SIZE) \div PMM_PAGE_SIZE \in Nat
  BY <1>3, Quotient, Constants, Zenon
<1>5. align_up(minimum_size + HeapHeaderSize, PMM_PAGE_SIZE) = q * PMM_PAGE_SIZE
  BY Zenon DEF align_up, q, w
<1>. QED BY <1>4, <1>5 DEF required_pages

\* What a growth g makes of a heap.
GrowthOf(h, g, minimum_size) ==
    /\ HeapOK(g.heap) /\ g.ok \in BOOLEAN
    /\ Used(g.heap.blocks) = Used(h.blocks)
    /\ g.heap.initialized = h.initialized
    /\ g.ok => /\ Counted(g.heap) /\ g.heap.grow_failed = h.grow_failed
               /\ g.heap.next_virtual_page
                    = h.next_virtual_page + required_pages(minimum_size) * PMM_PAGE_SIZE
               /\ g.heap.blocks = heap_merge_free_blocks(
                      h.blocks \o NewPages(h.next_virtual_page, required_pages(minimum_size)))
    /\ ~g.ok => /\ g.heap.grow_failed /\ g.heap.blocks = h.blocks
                /\ g.heap.next_virtual_page = h.next_virtual_page

\* A growth keeps the blocks in use; when it succeeds the heap has more pages, and
\* when it does not, it has the blocks and pages it had.
LEMMA GrowHeap ==
    ASSUME NEW h, HeapOK(h), NEW m, NEW minimum_size \in Nat
    PROVE  GrowthOf(h, heap_grow(h, m, minimum_size), minimum_size)
<1>. DEFINE k == required_pages(minimum_size)
           top == h.next_virtual_page
           virtuals == [i \in 1 .. k |-> top + (i - 1) * PMM_PAGE_SIZE]
           start == [ok |-> TRUE, m |-> m, pages |-> <<>>]
           grown == PagesGrown(start, virtuals)
           g == heap_grow(h, m, minimum_size)
           failed == [h EXCEPT !.grow_failed = TRUE]
           end == top + k * PMM_PAGE_SIZE
           joined == h.blocks \o NewPages(top, k)
           longer == [h EXCEPT !.next_virtual_page = end, !.blocks = heap_merge_free_blocks(joined)]
<1>1. k \in Nat \ {0}
  BY SomePages, Zenon
<1>2. Len(virtuals) = k /\ Len(virtuals) \in Nat /\ \A i \in 1 .. k : virtuals[i] = top + (i - 1) * PMM_PAGE_SIZE
  BY <1>1
<1>3. DOMAIN h = HeapFields
  BY Zenon DEF HeapOK
<1>. HIDE DEF k
<1>4. /\ grown.ok \in BOOLEAN
      /\ grown.ok => /\ DOMAIN grown.pages = 1 .. k
                     /\ \A i \in 1 .. k : grown.pages[i].virtual = virtuals[i]
  <2>1. DOMAIN start = {"ok", "m", "pages"} /\ start.ok = TRUE /\ start.pages = <<>>
    BY Zenon
  <2>. HIDE DEF virtuals, start
  <2>. QED BY <1>2, <2>1, GrownPages, Zenon
<1>5. /\ DOMAIN failed = HeapFields /\ failed.grow_failed = TRUE /\ failed.blocks = h.blocks
      /\ failed.next_virtual_page = top /\ failed.initialized = h.initialized
      /\ failed.used_bytes = h.used_bytes /\ failed.free_bytes = h.free_bytes
  BY <1>3, Zenon DEF HeapFields
<1>6. HeapOK(failed)
  <2>. HIDE DEF failed
  <2>. QED BY <1>5, Zenon DEF HeapOK, Counted
<1>. DEFINE new == [i \in DOMAIN grown.pages |->
                       heap_initialize_block(grown.pages[i].virtual, PMM_PAGE_SIZE - HeapHeaderSize)]
           fits == k <= HEAP_MAX_GROW_PAGES /\ heap_virtual_range_has_space(h, k)
<1>7. /\ (fits /\ grown.ok) => g.ok = TRUE /\ g.heap = heap_recalculate_stats(
                 [h EXCEPT !.next_virtual_page = @ + k * PMM_PAGE_SIZE,
                           !.blocks = heap_merge_free_blocks(@ \o new)])
      /\ ~(fits /\ grown.ok) => g.ok = FALSE /\ g.heap = failed
  <2>1. k <= HEAP_MAX_GROW_PAGES <=> ~(k > HEAP_MAX_GROW_PAGES)
    BY <1>1, Constants
  <2>. QED BY <2>1, Zenon DEF heap_grow, PagesGrown, k
<1>. HIDE DEF grown, g
<1>8. CASE ~(fits /\ grown.ok)
  <2>. HIDE DEF failed
  <2>1. g.ok = FALSE /\ g.heap = failed
    BY <1>7, <1>8, Zenon
  <2>. QED BY <1>5, <1>6, <2>1, Zenon DEF g, k, GrowthOf
<1>9. CASE fits /\ grown.ok
  <2>1. new = NewPages(top, k)
    <3>1. DOMAIN grown.pages = 1 .. k /\ \A i \in 1 .. k : grown.pages[i].virtual = top + (i - 1) * PMM_PAGE_SIZE
      BY <1>2, <1>4, <1>9, Zenon
    <3>. QED BY <3>1, Zenon DEF NewPages
  <2>2. g.ok = TRUE /\ g.heap = heap_recalculate_stats(longer)
    <3>. HIDE DEF new
    <3>. QED BY <1>7, <1>9, <2>1, Zenon
  <2>3. end - 1 <= MEMORY_LAYOUT_KERNEL_HEAP_END
    <3>1. heap_virtual_range_has_space(h, k)
      BY <1>9, Zenon
    <3>2. k * PMM_PAGE_SIZE \in Nat /\ top \in Nat
      BY <1>1, Constants, TopAbove DEF HeapOK
    <3>. QED BY <3>1, <3>2 DEF heap_virtual_range_has_space
  <2>4. Tiled(h.blocks, top) /\ top % PMM_PAGE_SIZE = 0 /\ k \in Nat
    BY <1>1, Zenon DEF HeapOK
  <2>5. Tiled(joined, end) /\ Used(joined) = Used(h.blocks)
    <3>1. top + k * PMM_PAGE_SIZE - 1 <= MEMORY_LAYOUT_KERNEL_HEAP_END
      <4>1. k * PMM_PAGE_SIZE \in Nat /\ top \in Nat
        BY <2>4, Constants, TopAbove
      <4>. QED BY <2>3, <4>1
    <3>. HIDE DEF top
    <3>. QED BY <2>4, <3>1, Joined, Zenon
  <2>. HIDE DEF joined, new
  <2>6. /\ Tiled(heap_merge_free_blocks(joined), end) /\ Merged(heap_merge_free_blocks(joined))
        /\ Used(heap_merge_free_blocks(joined)) = Used(h.blocks)
    BY <2>5, MergedList, Zenon
  <2>7. end % PMM_PAGE_SIZE = 0
    <3>1. top \in Nat
      BY <2>4, TopAbove, Zenon
    <3>2. (k * PMM_PAGE_SIZE) % PMM_PAGE_SIZE = 0 /\ k * PMM_PAGE_SIZE \in Nat
      <4>1. PMM_PAGE_SIZE = PMM_PAGE_SIZE * 1 /\ PMM_PAGE_SIZE \in Nat \ {0}
        BY Constants
      <4>2. PMM_PAGE_SIZE % PMM_PAGE_SIZE = 0
        BY <4>1, Multiple, Zenon
      <4>. QED BY <2>4, <4>1, <4>2, MultipleOfMultiple, Zenon
    <3>. QED BY <2>4, <3>1, <3>2, Constants, SumOfMultiples, Zenon
  <2>. HIDE DEF end
  <2>8. /\ DOMAIN longer = HeapFields /\ longer.next_virtual_page = end
        /\ longer.blocks = heap_merge_free_blocks(joined)
        /\ longer.initialized = h.initialized /\ longer.grow_failed = h.grow_failed
    BY <1>3, Zenon DEF HeapFields
  <2>. HIDE DEF longer
  <2>9. /\ DOMAIN g.heap = HeapFields /\ Counted(g.heap)
        /\ g.heap.blocks = heap_merge_free_blocks(joined) /\ g.heap.next_virtual_page = end
        /\ g.heap.initialized = h.initialized /\ g.heap.grow_failed = h.grow_failed
    BY <2>2, <2>8, Recalculated
  <2>10. HeapOK(g.heap)
    BY <2>3, <2>6, <2>7, <2>9, Zenon DEF HeapOK
  <2>. QED BY <2>2, <2>6, <2>9, <2>10, Zenon DEF g, k, end, joined, GrowthOf
<1>. QED BY <1>8, <1>9, Zenon

-----------------------------------------------------------------------------
(* Allocating and freeing. *)

\* Two blocks of a list overlap in nothing, and none begins where another does.
LEMMA Disjoint ==
    ASSUME NEW blocks, NEW top, Tiled(blocks, top),
           NEW i \in 1 .. Len(blocks), NEW j \in 1 .. Len(blocks), i # j
    PROVE  /\ blocks[i].at # blocks[j].at
           /\ BlockEnd(blocks[i]) <= blocks[j].at \/ BlockEnd(blocks[j]) <= blocks[i].at
<1>1. blocks \in Seq(Block) /\ Len(blocks) \in Nat
  BY LenProperties, Zenon DEF Tiled
<1>2. /\ blocks[i].at \in Nat /\ BlockEnd(blocks[i]) \in Nat /\ BlockEnd(blocks[i]) > blocks[i].at
      /\ blocks[j].at \in Nat /\ BlockEnd(blocks[j]) \in Nat /\ BlockEnd(blocks[j]) > blocks[j].at
  BY <1>1, BlockAt, BlockFacts, Zenon
<1>3. i \in 1 .. j - 1 \/ j \in 1 .. i - 1
  BY <1>1
<1>4. BlockEnd(blocks[i]) <= blocks[j].at \/ BlockEnd(blocks[j]) <= blocks[i].at
  BY <1>3, InOrder, Zenon
<1>. QED BY <1>2, <1>4

\* The blocks in use are blocks of the list.
LEMMA UsedAt ==
    ASSUME NEW blocks, NEW top, Tiled(blocks, top), NEW b \in Used(blocks)
    PROVE  /\ b \in Block /\ b.used /\ heap_block_header_is_sane(b)
           /\ \E i \in 1 .. Len(blocks) : blocks[i] = b
BY Zenon DEF Used, Tiled

\* No block in use begins where a free one does.
LEMMA FreePlace ==
    ASSUME NEW blocks, NEW top, Tiled(blocks, top),
           NEW i \in 1 .. Len(blocks), ~blocks[i].used, NEW b \in Used(blocks)
    PROVE  b.at # blocks[i].at
<1>1. PICK j \in 1 .. Len(blocks) : blocks[j] = b /\ b.used
  BY Zenon DEF Used
<1>2. j # i
  BY <1>1, Zenon
<1>. QED BY <1>1, <1>2, Disjoint, Zenon

\* Sizes that do not wrap around when they are aligned.
SmallRequests == \A size \in Sizes : size + HEAP_ALIGNMENT <= AddressLimit

\* An aligned size can be aligned again.
LEMMA AlignedSize ==
    ASSUME NEW size \in Nat, size + HEAP_ALIGNMENT <= AddressLimit
    PROVE  LET n == align_up(size, HEAP_ALIGNMENT)
           IN n \in Nat /\ n % HEAP_ALIGNMENT = 0 /\ n >= size /\ n + HEAP_ALIGNMENT <= AddressLimit
<1>. DEFINE A == HEAP_ALIGNMENT
           n == align_up(size, A)
<1>0. A \in Nat \ {0} /\ AddressLimit \in Nat /\ PMM_PAGE_SIZE \in Nat \ {0}
  BY Constants, Zenon
<1>1. n \in Nat /\ n % A = 0 /\ n >= size /\ n < size + A
  BY <1>0, AlignUp, Zenon
<1>. HIDE DEF n
<1>2. AddressLimit % A = 0
  <2>1. PICK q \in Nat : AddressLimit = PMM_PAGE_SIZE * q
    BY <1>0, PhysicalAssumption, Multiple, Zenon
  <2>2. PMM_PAGE_SIZE % A = 0 /\ PMM_PAGE_SIZE \in Nat
    BY <1>0, HeapAssumption, Zenon
  <2>. HIDE DEF A
  <2>3. (q * PMM_PAGE_SIZE) % A = 0
    BY <1>0, <2>2, MultipleOfMultiple, Zenon
  <2>4. AddressLimit = q * PMM_PAGE_SIZE
    BY <1>0, <2>1
  <2>. QED BY <2>3, <2>4, Zenon
<1>. HIDE DEF A
<1>3. PICK x \in Nat : n = A * x
  BY <1>0, <1>1, Multiple, Zenon
<1>4. PICK y \in Nat : AddressLimit = A * y
  BY <1>0, <1>2, Multiple, Zenon
<1>5. A * x < A * y
  BY <1>0, <1>1, <1>3, <1>4 DEF A
<1>6. A * x < A * (y - 1) + A
  BY <1>0, <1>5
<1>7. x <= y - 1
  BY <1>0, <1>6, Apart
<1>8. A * x <= A * (y - 1) /\ A * (y - 1) = A * y - A
  BY <1>0, <1>7
<1>9. n + A <= AddressLimit
  BY <1>0, <1>3, <1>4, <1>8
<1>. QED BY <1>1, <1>9, Zenon DEF n, A

\* The block in use that h has and old does not.
NewUse(old, new, pointer, size) ==
    \E b \in Block : /\ b.used /\ Payload(b) = pointer /\ b.size >= size
                     /\ Used(new) = Used(old) \cup {b}
                     /\ \A u \in Used(old) : u.at # b.at

CallFields == {"done", "pointer", "heap", "m", "size"}

\* Where kmalloc stands: it has found a block, or uses the blocks it used before.
CallOK(s, h, size) ==
    /\ DOMAIN s = CallFields
    /\ s.done \in BOOLEAN
    /\ HeapOK(s.heap) /\ s.heap.initialized = h.initialized
    /\ s.size \in Nat /\ s.size >= size /\ s.size + HEAP_ALIGNMENT <= AddressLimit
    /\ \/ s.pointer = 0 /\ Used(s.heap.blocks) = Used(h.blocks)
       \/ s.done /\ NewUse(h.blocks, s.heap.blocks, s.pointer, size)

\* The blocks a walk visits are blocks of the list.
LEMMA VisitedOnes ==
    ASSUME NEW blocks \in Seq(Block), NEW i \in Visited(blocks)
    PROVE  i \in 1 .. Len(blocks) /\ i <= HEAP_MAX_AUDIT_BLOCKS
BY LenProperties, Zenon DEF Visited

\* Block i of heap h is given away: the heap is new.
TakenFrom(h, new, i, n) ==
    /\ HeapOK(new) /\ new.initialized = h.initialized
    /\ NewUse(h.blocks, new.blocks, Payload(h.blocks[i]), n)

\* The block that kmalloc takes.
LEMMA TakeBlock ==
    ASSUME NEW h, HeapOK(h), NEW n \in Nat \ {0}, n % HEAP_ALIGNMENT = 0,
           NEW i \in Visited(h.blocks), ~h.blocks[i].used, h.blocks[i].size >= n
    PROVE  TakenFrom(h, heap_recalculate_stats(
               [h EXCEPT !.blocks = [heap_split_block(h.blocks, i, n) EXCEPT ![i].used = TRUE]]), i, n)
<1>. DEFINE list == [heap_split_block(h.blocks, i, n) EXCEPT ![i].used = TRUE]
           taken == [h EXCEPT !.blocks = list]
           new == heap_recalculate_stats(taken)
           top == h.next_virtual_page
<1>1. DOMAIN h = HeapFields /\ Tiled(h.blocks, top) /\ Merged(h.blocks) /\ h.blocks \in Seq(Block)
  BY Zenon DEF HeapOK, Tiled
<1>2. i \in 1 .. Len(h.blocks) /\ i <= HEAP_MAX_AUDIT_BLOCKS
  BY <1>1, VisitedOnes, Zenon
<1>a. TakenIn(h.blocks, list, top, i, n)
  BY <1>1, <1>2, Taken, Zenon
<1>3. /\ Tiled(list, top) /\ Merged(list)
      /\ \E b \in Block : /\ b.used /\ b.at = h.blocks[i].at /\ b.size >= n
                          /\ Used(list) = Used(h.blocks) \cup {b}
  BY <1>a, Zenon DEF TakenIn
<1>. HIDE DEF list
<1>4. /\ DOMAIN taken = HeapFields /\ taken.blocks = list /\ taken.next_virtual_page = top
      /\ taken.initialized = h.initialized /\ taken.grow_failed = h.grow_failed
  BY <1>1, Zenon DEF HeapFields
<1>. HIDE DEF taken
<1>5. /\ DOMAIN new = HeapFields /\ Counted(new) /\ new.blocks = list /\ new.next_virtual_page = top
      /\ new.initialized = h.initialized /\ new.grow_failed = h.grow_failed
  BY <1>4, Recalculated, Zenon
<1>. HIDE DEF new
<1>6. HeapOK(new)
  BY <1>3, <1>5, Zenon DEF HeapOK
<1>7. NewUse(h.blocks, list, Payload(h.blocks[i]), n)
  <2>1. PICK b \in Block : /\ b.used /\ b.at = h.blocks[i].at /\ b.size >= n
                           /\ Used(list) = Used(h.blocks) \cup {b}
    BY <1>3, Zenon
  <2>2. \A u \in Used(h.blocks) : u.at # b.at
    BY <1>1, <1>2, <2>1, FreePlace, Zenon
  <2>3. Payload(b) = Payload(h.blocks[i])
    BY <2>1, Zenon DEF Payload
  <2>. QED BY <2>1, <2>2, <2>3, Zenon DEF NewUse
<1>. QED BY <1>5, <1>6, <1>7, Zenon DEF new, taken, list, TakenFrom

\* One call of kmalloc.
LEMMA KmallocTurn ==
    ASSUME NEW s, NEW h, NEW size \in Nat, NEW call, CallOK(s, h, size)
    PROVE  CallOK(KmallocCall(s, call), h, size)
<1>. DEFINE H == s.heap
           n == align_up(s.size, HEAP_ALIGNMENT)
           fits == {i \in Visited(H.blocks) : ~H.blocks[i].used /\ H.blocks[i].size >= n}
           i == Min(fits)
           grown == heap_grow(H, s.m, n)
           stopped == [s EXCEPT !.done = TRUE]
           taken == heap_recalculate_stats(
                        [H EXCEPT !.blocks = [heap_split_block(H.blocks, i, n) EXCEPT ![i].used = TRUE]])
           found == [s EXCEPT !.done = TRUE, !.pointer = Payload(H.blocks[i]), !.heap = taken]
           more == [s EXCEPT !.done = ~grown.ok, !.heap = grown.heap, !.m = grown.m, !.size = n]
           bad == \E j \in DOMAIN H.blocks :
                      j <= HEAP_MAX_AUDIT_BLOCKS /\ ~heap_block_header_is_sane(H.blocks[j])
           idle == ~H.initialized \/ s.size = 0
<1>1. /\ DOMAIN s = CallFields /\ s.done \in BOOLEAN /\ HeapOK(H) /\ H.initialized = h.initialized
      /\ s.size \in Nat /\ s.size >= size /\ s.size + HEAP_ALIGNMENT <= AddressLimit
  BY Zenon DEF CallOK
<1>2. n \in Nat /\ n % HEAP_ALIGNMENT = 0 /\ n >= s.size /\ n + HEAP_ALIGNMENT <= AddressLimit
  BY <1>1, AlignedSize, Zenon
<1>3. HEAP_ALIGNMENT \in Nat
  BY Constants, Zenon
<1>4. \/ KmallocCall(s, call) = s
      \/ KmallocCall(s, call) = stopped
      \/ ~s.done /\ ~idle /\ fits # {} /\ KmallocCall(s, call) = found
      \/ ~s.done /\ KmallocCall(s, call) = more
  <2>1. s.done => KmallocCall(s, call) = s
    BY Zenon DEF KmallocCall
  <2>2. ~s.done /\ idle => KmallocCall(s, call) = stopped
    BY Zenon DEF KmallocCall
  <2>3. ~s.done /\ ~idle /\ fits # {} => KmallocCall(s, call) = found
    BY Zenon DEF KmallocCall
  <2>4. ~s.done /\ ~idle /\ fits = {} /\ bad => KmallocCall(s, call) = stopped
    BY Zenon DEF KmallocCall
  <2>5. ~s.done /\ ~idle /\ fits = {} /\ ~bad => KmallocCall(s, call) = more
    BY Zenon DEF KmallocCall
  <2>. HIDE DEF idle, fits, bad, stopped, found, more
  <2>. QED BY <2>1, <2>2, <2>3, <2>4, <2>5, Zenon
<1>5. CallOK(stopped, h, size)
  <2>1. /\ DOMAIN stopped = CallFields /\ stopped.done = TRUE /\ stopped.pointer = s.pointer
        /\ stopped.heap = s.heap /\ stopped.size = s.size
    BY <1>1, Zenon DEF CallFields
  <2>. HIDE DEF stopped
  <2>. QED BY <2>1, Zenon DEF CallOK
<1>6. ASSUME ~s.done, ~idle, fits # {} PROVE CallOK(found, h, size)
  <2>1. i \in fits
    <3>1. fits \subseteq Nat
      <4>1. H.blocks \in Seq(Block)
        BY <1>1, Zenon DEF HeapOK, Tiled
      <4>. QED BY <4>1, VisitedOnes
    <3>. HIDE DEF fits
    <3>. QED BY <1>6, <3>1, MinIs, Zenon
  <2>. HIDE DEF i
  <2>2. i \in Visited(H.blocks) /\ ~H.blocks[i].used /\ H.blocks[i].size >= n
    BY <2>1, Zenon
  <2>3. n # 0
    BY <1>1, <1>2, <1>6
  <2>. HIDE DEF n
  <2>4. TakenFrom(H, taken, i, n)
    <3>. HIDE DEF H
    <3>. QED BY <1>1, <1>2, <2>2, <2>3, TakeBlock, Zenon
  <2>. HIDE DEF taken
  <2>5. /\ DOMAIN found = CallFields /\ found.done = TRUE /\ found.pointer = Payload(H.blocks[i])
        /\ found.heap = taken /\ found.size = s.size
    BY <1>1, Zenon DEF CallFields
  <2>. HIDE DEF found
  <2>6. Used(H.blocks) = Used(h.blocks)
    BY <1>6, Zenon DEF CallOK
  <2>7. NewUse(h.blocks, taken.blocks, Payload(H.blocks[i]), size)
    <3>1. NewUse(H.blocks, taken.blocks, Payload(H.blocks[i]), n)
      BY <2>4, Zenon DEF TakenFrom
    <3>2. n >= size
      BY <1>1, <1>2
    <3>3. \A b \in Block : b.size >= n => b.size >= size
      BY <1>2, <3>2 DEF Block
    <3>. HIDE DEF H
    <3>. QED BY <2>6, <3>1, <3>3, Zenon DEF NewUse
  <2>8. HeapOK(taken) /\ taken.initialized = h.initialized
    BY <1>1, <2>4, Zenon DEF TakenFrom
  <2>. QED BY <1>1, <2>5, <2>7, <2>8, Zenon DEF CallOK
<1>7. ASSUME ~s.done PROVE CallOK(more, h, size)
  <2>1. GrowthOf(H, grown, n)
    <3>. HIDE DEF H, n
    <3>. QED BY <1>1, <1>2, GrowHeap, Zenon
  <2>. HIDE DEF grown, n
  <2>2. /\ DOMAIN more = CallFields /\ more.done = ~grown.ok /\ more.pointer = s.pointer
        /\ more.heap = grown.heap /\ more.size = n
    BY <1>1, Zenon DEF CallFields
  <2>. HIDE DEF more
  <2>3. s.pointer = 0 /\ Used(H.blocks) = Used(h.blocks)
    BY <1>7, Zenon DEF CallOK
  <2>4. n >= size
    BY <1>1, <1>2
  <2>5. more.done \in BOOLEAN
    BY <2>2, Zenon
  <2>6. HeapOK(more.heap) /\ more.heap.initialized = h.initialized /\ Used(more.heap.blocks) = Used(h.blocks)
    BY <1>1, <2>1, <2>2, <2>3, Zenon DEF GrowthOf
  <2>. QED BY <1>2, <2>2, <2>3, <2>4, <2>5, <2>6, Zenon DEF CallOK
<1>. HIDE DEF idle, fits, stopped, found, more
<1>. QED BY <1>4, <1>5, <1>6, <1>7, Zenon

\* All the calls of a kmalloc.
LEMMA KmallocEnds ==
    ASSUME NEW h, HeapOK(h), NEW m, NEW size \in Nat, size + HEAP_ALIGNMENT <= AddressLimit
    PROVE  CallOK(kmalloc_from(h, m, size), h, size)
<1>. DEFINE start == [done |-> FALSE, pointer |-> 0, heap |-> h, m |-> m, size |-> size]
           calls == [call \in 1 .. MaxCalls |-> call]
<1>1. MaxCalls \in Nat
  <2>1. MEMORY_LAYOUT_KERNEL_HEAP_END + 1 - MEMORY_LAYOUT_KERNEL_HEAP_START \in Nat
    BY Constants, HeapAssumption
  <2>. QED BY <2>1, Constants, Quotient DEF MaxCalls
<1>2. Len(calls) = MaxCalls
  BY <1>1
<1>3. CallOK(start, h, size)
  <2>1. /\ DOMAIN start = CallFields /\ start.done = FALSE /\ start.pointer = 0 /\ start.heap = h
        /\ start.size = size
    BY Zenon DEF CallFields
  <2>2. size >= size
    OBVIOUS
  <2>. HIDE DEF start
  <2>. QED BY <2>1, <2>2, Zenon DEF CallOK
<1>4. kmalloc_from(h, m, size) = CallsFrom(start, calls)
  BY Zenon DEF kmalloc_from, CallsFrom
<1>. HIDE DEF start, calls
<1>5. PICK f : KmallocRun(f, start, calls) /\ CallsFrom(start, calls) = f[Len(calls)]
  BY <1>1, <1>2, KmallocLoop, Zenon
<1>. DEFINE S == {i \in 0 .. MaxCalls : CallOK(f[i], h, size)}
<1>6. 0 \in S
  BY <1>1, <1>3, <1>5 DEF KmallocRun
<1>7. ASSUME NEW i \in 1 .. MaxCalls, i - 1 \in S PROVE i \in S
  <2>1. f[i] = KmallocCall(f[i - 1], calls[i])
    BY <1>2, <1>5, Zenon DEF KmallocRun
  <2>2. CallOK(f[i - 1], h, size)
    BY <1>7, Zenon
  <2>3. CallOK(f[i], h, size)
    BY <2>1, <2>2, KmallocTurn, Zenon
  <2>. QED BY <1>1, <2>3
<1>8. 0 .. MaxCalls \subseteq S
  <2>. HIDE DEF S
  <2>. QED BY <1>1, <1>6, <1>7, CountUp, Zenon
<1>9. MaxCalls \in 0 .. MaxCalls
  BY <1>1
<1>. QED BY <1>2, <1>4, <1>5, <1>8, <1>9, Zenon


\* What a kfree makes of a heap: it releases the block of the pointer, or nothing.
FreedFrom(h, new, pointer) ==
    /\ HeapOK(new)
    /\ \/ Used(new.blocks) = Used(h.blocks)
       \/ \E b \in Used(h.blocks) :
             /\ Payload(b) = pointer
             /\ pointer \in MEMORY_LAYOUT_KERNEL_HEAP_START .. MEMORY_LAYOUT_KERNEL_HEAP_END
             /\ Used(new.blocks) = Used(h.blocks) \ {b}

\* A used block marked free is no longer among those in use.
LEMMA Unused ==
    ASSUME NEW blocks, NEW top, Tiled(blocks, top), NEW i \in 1 .. Len(blocks), blocks[i].used
    PROVE  LET new == [blocks EXCEPT ![i].used = FALSE]
           IN Tiled(new, top) /\ Used(new) = Used(blocks) \ {blocks[i]}
<1>. DEFINE b == blocks[i]
           x == [b EXCEPT !.used = FALSE]
           new == [blocks EXCEPT ![i] = x]
           n == Len(blocks)
<1>1. blocks \in Seq(Block) /\ n \in Nat /\ b \in Block
  BY LenProperties, BlockAt, Zenon DEF Tiled
<1>2. [blocks EXCEPT ![i].used = FALSE] = new
  BY Zenon
<1>3. x \in Block /\ x.at = b.at /\ x.size = b.size /\ x.used = FALSE
  BY <1>1, Remarked, Zenon
<1>. HIDE DEF x
<1>4. Tiled(new, top)
  BY <1>1, <1>3, Marked, Zenon
<1>5. Len(new) = n /\ new[i] = x /\ \A j \in 1 .. n : j # i => new[j] = blocks[j]
  BY <1>1, <1>3, Replaced
<1>. HIDE DEF new
<1>6. \A j \in 1 .. n : j # i => blocks[j] # b
  BY Disjoint, Zenon
<1>7. ASSUME NEW y \in Block, y.used
      PROVE  (\E j \in 1 .. n : new[j] = y) <=> y # b /\ \E j \in 1 .. n : blocks[j] = y
  <2>1. ASSUME NEW j \in 1 .. n, new[j] = y PROVE y # b /\ blocks[j] = y
    <3>1. j # i
      BY <1>3, <1>5, <1>7, <2>1, Zenon
    <3>. QED BY <1>5, <1>6, <2>1, <3>1, Zenon
  <2>2. ASSUME NEW j \in 1 .. n, blocks[j] = y, y # b PROVE new[j] = y
    BY <1>5, <2>2, Zenon
  <2>. QED BY <2>1, <2>2, Zenon
<1>8. Used(new) = Used(blocks) \ {b}
  <2>1. Used(new) = {y \in Block : y.used /\ \E j \in 1 .. n : new[j] = y}
    BY <1>5, Zenon DEF Used
  <2>2. Used(blocks) = {y \in Block : y.used /\ \E j \in 1 .. n : blocks[j] = y}
    BY Zenon DEF Used
  <2>. HIDE DEF b, n
  <2>. QED BY <1>7, <2>1, <2>2, Zenon
<1>. QED BY <1>2, <1>4, <1>8, Zenon

\* kfree.
LEMMA KfreeEnds ==
    ASSUME NEW h, HeapOK(h), NEW pointer \in Nat
    PROVE  FreedFrom(h, kfree_in(h, pointer), pointer)
<1>. DEFINE i == heap_find_block_for_pointer(h, pointer)
           found == {j \in Visited(h.blocks) : Payload(h.blocks[j]) = pointer}
           marked == [h.blocks EXCEPT ![i].used = FALSE]
           list == heap_merge_free_blocks(marked)
           freed == [h EXCEPT !.blocks = list]
           new == heap_recalculate_stats(freed)
           top == h.next_virtual_page
<1>1. DOMAIN h = HeapFields /\ Tiled(h.blocks, top) /\ Merged(h.blocks) /\ h.blocks \in Seq(Block)
  BY Zenon DEF HeapOK, Tiled
<1>2. CASE i = 0 \/ ~h.blocks[i].used
  <2>1. kfree_in(h, pointer) = h
    BY <1>2, Zenon DEF kfree_in
  <2>. QED BY <2>1, Zenon DEF FreedFrom
<1>3. CASE ~(i = 0 \/ ~h.blocks[i].used)
  <2>1. kfree_in(h, pointer) = new
    BY <1>3, Zenon DEF kfree_in
  <2>2. /\ i = Min(found) /\ found # {}
        /\ pointer >= MEMORY_LAYOUT_KERNEL_HEAP_START + HeapHeaderSize
        /\ pointer <= MEMORY_LAYOUT_KERNEL_HEAP_END
    BY <1>3, Zenon DEF heap_find_block_for_pointer
  <2>3. found \subseteq Nat
    BY <1>1, VisitedOnes
  <2>4. i \in found
    <3>. HIDE DEF found, i
    <3>. QED BY <2>2, <2>3, MinIs, Zenon
  <2>. HIDE DEF i
  <2>5. i \in 1 .. Len(h.blocks) /\ Payload(h.blocks[i]) = pointer /\ h.blocks[i].used
    BY <1>1, <1>3, <2>4, VisitedOnes, Zenon
  <2>6. Tiled(marked, top) /\ Used(marked) = Used(h.blocks) \ {h.blocks[i]}
    <3>. DEFINE blocks == h.blocks
    <3>1. Tiled(blocks, top) /\ i \in 1 .. Len(blocks) /\ blocks[i].used
      BY <1>1, <2>5, Zenon
    <3>. HIDE DEF blocks, top
    <3>2. LET w == [blocks EXCEPT ![i].used = FALSE]
          IN Tiled(w, top) /\ Used(w) = Used(blocks) \ {blocks[i]}
      BY <3>1, Unused, Zenon
    <3>. QED BY <3>2, Zenon DEF blocks
  <2>. HIDE DEF marked
  <2>7. Tiled(list, top) /\ Merged(list) /\ Used(list) = Used(h.blocks) \ {h.blocks[i]}
    BY <2>6, MergedList, Zenon
  <2>. HIDE DEF list
  <2>8. /\ DOMAIN freed = HeapFields /\ freed.blocks = list /\ freed.next_virtual_page = top
        /\ freed.initialized = h.initialized /\ freed.grow_failed = h.grow_failed
    BY <1>1, Zenon DEF HeapFields
  <2>. HIDE DEF freed
  <2>9. /\ DOMAIN new = HeapFields /\ Counted(new) /\ new.blocks = list /\ new.next_virtual_page = top
        /\ new.initialized = h.initialized /\ new.grow_failed = h.grow_failed
    BY <2>8, Recalculated, Zenon
  <2>. HIDE DEF new
  <2>10. HeapOK(new)
    BY <2>7, <2>9, Zenon DEF HeapOK
  <2>11. h.blocks[i] \in Used(h.blocks)
    BY <1>1, <2>5, BlockAt, Zenon DEF Used
  <2>12. pointer \in MEMORY_LAYOUT_KERNEL_HEAP_START .. MEMORY_LAYOUT_KERNEL_HEAP_END
    BY <2>2, Constants
  <2>. QED BY <2>1, <2>5, <2>7, <2>9, <2>10, <2>11, <2>12, Zenon DEF FreedFrom
<1>. QED BY <1>2, <1>3, Zenon

-----------------------------------------------------------------------------
(* Live allocations. *)

\* The payload says where its block is.
LEMMA SamePlace ==
    ASSUME NEW b \in Block, NEW c \in Block
    PROVE  Payload(b) = Payload(c) <=> b.at = c.at
<1>1. b.at \in Nat /\ c.at \in Nat /\ HeapHeaderSize \in Nat
  BY Constants, Zenon DEF Block
<1>2. b.at + HeapHeaderSize = c.at + HeapHeaderSize <=> b.at = c.at
  BY <1>1
<1>. QED BY <1>2, Zenon DEF Payload

\* LiveAllocations of any list.
LiveIn(blocks) ==
    LET used == {i \in DOMAIN blocks : blocks[i].used}
        at(pointer) == CHOOSE i \in used : Payload(blocks[i]) = pointer
    IN [pointer \in {Payload(blocks[i]) : i \in used} |-> blocks[at(pointer)].size]

\* Each live allocation is the payload of a block in use.
IsLive(live, used) ==
    /\ DOMAIN live = {Payload(b) : b \in used}
    /\ live = [pointer \in DOMAIN live |-> live[pointer]]
    /\ \A b \in used : live[Payload(b)] = b.size

LEMMA LiveBlocks ==
    ASSUME NEW blocks, NEW top, Tiled(blocks, top)
    PROVE  IsLive(LiveIn(blocks), Used(blocks))
<1>. DEFINE used == {i \in DOMAIN blocks : blocks[i].used}
           at(pointer) == CHOOSE i \in used : Payload(blocks[i]) = pointer
           live == [pointer \in {Payload(blocks[i]) : i \in used} |-> blocks[at(pointer)].size]
<1>1. blocks \in Seq(Block) /\ DOMAIN blocks = 1 .. Len(blocks)
  BY LenProperties, Zenon DEF Tiled
<1>2. \A i \in used : blocks[i] \in Used(blocks)
  BY <1>1, BlockAt, Zenon DEF Used
<1>3. \A b \in Used(blocks) : \E i \in used : blocks[i] = b
  BY <1>1, Zenon DEF Used
<1>4. {Payload(blocks[i]) : i \in used} = {Payload(b) : b \in Used(blocks)}
  <2>. HIDE DEF used
  <2>. QED BY <1>2, <1>3, Zenon
<1>5. ASSUME NEW b \in Used(blocks) PROVE live[Payload(b)] = b.size
  <2>1. PICK i \in used : blocks[i] = b
    BY <1>3, Zenon
  <2>2. at(Payload(b)) \in used /\ Payload(blocks[at(Payload(b))]) = Payload(b)
    <3>. HIDE DEF used
    <3>. QED BY <2>1, Zenon
  <2>. DEFINE j == at(Payload(b))
  <2>. HIDE DEF j
  <2>3. j \in 1 .. Len(blocks) /\ i \in 1 .. Len(blocks) /\ Payload(blocks[j]) = Payload(blocks[i])
    BY <1>1, <2>1, <2>2, Zenon DEF j
  <2>4. blocks[j].at = blocks[i].at
    <3>1. blocks[j] \in Block /\ blocks[i] \in Block
      BY <1>1, <2>3, BlockAt, Zenon
    <3>. QED BY <2>3, <3>1, SamePlace, Zenon
  <2>5. j = i
    BY <2>3, <2>4, Disjoint, Zenon
  <2>6. Payload(b) \in {Payload(blocks[k]) : k \in used}
    BY <2>1, Zenon
  <2>7. live[Payload(b)] = blocks[j].size
    <3>. HIDE DEF used, at
    <3>. QED BY <2>6, Zenon DEF j
  <2>. QED BY <2>1, <2>5, <2>7, Zenon
<1>6. LiveIn(blocks) = live
  BY Zenon DEF LiveIn
<1>7. DOMAIN live = {Payload(b) : b \in Used(blocks)} /\ live = [pointer \in DOMAIN live |-> live[pointer]]
  <2>. HIDE DEF used, at
  <2>. QED BY <1>4, Zenon
<1>. HIDE DEF live
<1>. QED BY <1>5, <1>6, <1>7, Zenon DEF IsLive

\* The blocks in use say what is live.
LEMMA SameLive ==
    ASSUME NEW f, NEW g, NEW used, IsLive(f, used), IsLive(g, used)
    PROVE  f = g
<1>1. DOMAIN f = DOMAIN g
  BY Zenon DEF IsLive
<1>2. \A p \in DOMAIN f : f[p] = g[p]
  BY DEF IsLive
<1>3. f = [p \in DOMAIN f |-> f[p]] /\ g = [p \in DOMAIN g |-> g[p]]
  BY Zenon DEF IsLive
<1>. QED BY <1>1, <1>2, <1>3, Zenon


\* What an allocation of n bytes at base makes of the live allocations.
AllocatedAt(old, new, n, base) ==
    /\ base \in DOMAIN new \ DOMAIN old
    /\ DOMAIN new = DOMAIN old \cup {base}
    /\ \A other \in DOMAIN old :
          /\ new[other] = old[other]
          /\ (other .. (other + old[other] - 1)) \cap (base .. (base + new[base] - 1)) = {}
    /\ base % HEAP_ALIGNMENT = 0
    /\ new[base] >= n
    /\ base .. (base + new[base] - 1)
           \subseteq MEMORY_LAYOUT_KERNEL_HEAP_START .. MEMORY_LAYOUT_KERNEL_HEAP_END

\* Two ranges, one of which ends before the other begins.
LEMMA SpansApart ==
    ASSUME NEW a \in Nat, NEW x \in Nat, NEW c \in Nat, NEW y \in Nat,
           a + x <= c \/ c + y <= a
    PROVE  (a .. (a + x - 1)) \cap (c .. (c + y - 1)) = {}
OBVIOUS

\* The payloads of two blocks, one of which ends before the other begins.
LEMMA PayloadsApart ==
    ASSUME NEW b \in Block, NEW c \in Block, BlockEnd(b) <= c.at
    PROVE  Payload(b) + b.size <= Payload(c)
<1>1. b.at \in Nat /\ c.at \in Nat /\ b.size \in Nat /\ HeapHeaderSize \in Nat
  BY Constants, Zenon DEF Block
<1>2. (b.at + HeapHeaderSize) + b.size <= c.at
  BY Zenon DEF BlockEnd, Payload
<1>3. (b.at + HeapHeaderSize) + b.size <= c.at + HeapHeaderSize
  BY <1>1, <1>2
<1>. QED BY <1>3, Zenon DEF Payload

\* A block in use that was not in use before is a new live allocation that
\* overlaps no other.
LEMMA NewAllocation ==
    ASSUME NEW blocks, NEW top, Tiled(blocks, top), NEW used, NEW b \in Block, b.used,
           Used(blocks) = used \cup {b}, \A u \in used : u.at # b.at,
           NEW n \in Nat, b.size >= n,
           NEW old, IsLive(old, used), NEW new, IsLive(new, Used(blocks))
    PROVE  AllocatedAt(old, new, n, Payload(b))
<1>. DEFINE base == Payload(b)
<1>1. b \in Used(blocks) /\ \A u \in used : u \in Used(blocks)
  BY Zenon
<1>2. \A u \in Used(blocks) : u \in Block /\ u.used /\ heap_block_header_is_sane(u)
  BY UsedAt, Zenon
<1>3. /\ b.at \in Nat /\ b.size \in Nat /\ base = b.at + HeapHeaderSize /\ base \in Nat
      /\ BlockEnd(b) = base + b.size
  BY BlockFacts, Zenon DEF BlockEnd
<1>4. new[base] = b.size /\ DOMAIN new = {Payload(u) : u \in Used(blocks)}
  BY <1>1, Zenon DEF IsLive
<1>5. DOMAIN old = {Payload(u) : u \in used}
  BY Zenon DEF IsLive
<1>6. ASSUME NEW u \in used
      PROVE  /\ Payload(u) # base /\ Payload(u) \in Nat
             /\ new[Payload(u)] = u.size /\ old[Payload(u)] = u.size
             /\ (Payload(u) .. (Payload(u) + u.size - 1)) \cap (base .. (base + b.size - 1)) = {}
  <2>1. u \in Block /\ u.at # b.at
    BY <1>1, <1>2, Zenon
  <2>2. /\ u.at \in Nat /\ u.size \in Nat /\ Payload(u) = u.at + HeapHeaderSize /\ Payload(u) \in Nat
        /\ BlockEnd(u) = Payload(u) + u.size
    BY <2>1, BlockFacts, Zenon DEF BlockEnd
  <2>3. new[Payload(u)] = u.size /\ old[Payload(u)] = u.size
    BY <1>1, Zenon DEF IsLive
  <2>4. PICK i \in 1 .. Len(blocks) : blocks[i] = u
    BY <1>1, UsedAt, Zenon
  <2>5. PICK j \in 1 .. Len(blocks) : blocks[j] = b
    BY <1>1, UsedAt, Zenon
  <2>6. i # j
    BY <2>1, <2>4, <2>5, Zenon
  <2>7. BlockEnd(u) <= b.at \/ BlockEnd(b) <= u.at
    BY <2>4, <2>5, <2>6, Disjoint, Zenon
  <2>9. (Payload(u) .. (Payload(u) + u.size - 1)) \cap (base .. (base + b.size - 1)) = {}
    <3>1. Payload(u) + u.size <= base \/ base + b.size <= Payload(u)
      <4>1. CASE BlockEnd(u) <= b.at
        BY <2>1, <4>1, PayloadsApart, Zenon
      <4>2. CASE BlockEnd(b) <= u.at
        BY <2>1, <4>2, PayloadsApart, Zenon
      <4>. QED BY <2>7, <4>1, <4>2, Zenon
    <3>. QED BY <1>3, <2>2, <3>1, SpansApart, Zenon
  <2>10. Payload(u) # base
    BY <2>1, SamePlace, Zenon
  <2>. QED BY <2>2, <2>3, <2>9, <2>10, Zenon
<1>. HIDE DEF base
<1>7. base \in DOMAIN new \ DOMAIN old /\ DOMAIN new = DOMAIN old \cup {base}
  BY <1>4, <1>5, <1>6, Zenon DEF base
<1>8. ASSUME NEW other \in DOMAIN old
      PROVE  /\ new[other] = old[other]
             /\ (other .. (other + old[other] - 1)) \cap (base .. (base + new[base] - 1)) = {}
  <2>1. PICK u \in used : other = Payload(u)
    BY <1>5, Zenon
  <2>. QED BY <1>4, <1>6, <2>1, Zenon
<1>9. base % HEAP_ALIGNMENT = 0
  <2>1. b.at % HEAP_ALIGNMENT = 0
    BY <1>1, <1>2, Zenon DEF heap_block_header_is_sane
  <2>. QED BY <1>3, <2>1, HeapAssumption, Constants, SumOfMultiples
<1>10. base .. (base + new[base] - 1)
           \subseteq MEMORY_LAYOUT_KERNEL_HEAP_START .. MEMORY_LAYOUT_KERNEL_HEAP_END
  <2>1. b.at >= MEMORY_LAYOUT_KERNEL_HEAP_START /\ BlockEnd(b) - 1 <= MEMORY_LAYOUT_KERNEL_HEAP_END
    BY <1>1, <1>2, Constants DEF heap_block_header_is_sane
  <2>. QED BY <1>3, <1>4, <2>1, Constants
<1>. QED BY <1>4, <1>7, <1>8, <1>9, <1>10, Zenon DEF AllocatedAt, base

\* Freeing a block takes its payload, and nothing else, from what is live.
LEMMA ReleasedAllocation ==
    ASSUME NEW blocks, NEW top, Tiled(blocks, top), NEW b \in Used(blocks),
           NEW old, IsLive(old, Used(blocks)), NEW new, IsLive(new, Used(blocks) \ {b})
    PROVE  new = [other \in DOMAIN old \ {Payload(b)} |-> old[other]]
<1>1. ASSUME NEW u \in Used(blocks), u # b PROVE Payload(u) # Payload(b)
  <2>1. PICK i \in 1 .. Len(blocks) : blocks[i] = u
    BY UsedAt, Zenon
  <2>2. PICK j \in 1 .. Len(blocks) : blocks[j] = b
    BY UsedAt, Zenon
  <2>3. i # j
    BY <1>1, <2>1, <2>2, Zenon
  <2>4. u.at # b.at
    BY <2>1, <2>2, <2>3, Disjoint, Zenon
  <2>5. u \in Block /\ b \in Block
    BY UsedAt, Zenon
  <2>. QED BY <2>4, <2>5, SamePlace, Zenon
<1>2. DOMAIN new = DOMAIN old \ {Payload(b)}
  BY <1>1, Zenon DEF IsLive
<1>3. \A p \in DOMAIN new : new[p] = old[p]
  BY DEF IsLive
<1>4. new = [p \in DOMAIN new |-> new[p]]
  BY Zenon DEF IsLive
<1>. QED BY <1>2, <1>3, <1>4, Zenon

-----------------------------------------------------------------------------
(* The heap implements the allocator. *)

\* The live allocations, before and after a step.
LEMMA LiveNow ==
    HeapOK(heap) => IsLive(LiveAllocations, Used(heap.blocks))
<1>1. LiveAllocations = LiveIn(heap.blocks)
  BY Zenon DEF LiveAllocations, LiveIn
<1>. QED BY <1>1, LiveBlocks, Zenon DEF HeapOK

LEMMA LiveThen ==
    HeapOK(heap') => IsLive(LiveAllocations', Used(heap'.blocks))
<1>1. LiveAllocations' = LiveIn(heap'.blocks)
  BY Zenon DEF LiveAllocations, LiveIn
<1>. QED BY <1>1, LiveBlocks, Zenon DEF HeapOK

\* The heap before heap_initialize.
LEMMA EmptyHeapOK == HeapOK(EmptyHeap) /\ EmptyHeap.blocks = <<>>
<1>. DEFINE S == MEMORY_LAYOUT_KERNEL_HEAP_START
<1>1. /\ DOMAIN EmptyHeap = HeapFields /\ EmptyHeap.blocks = <<>> /\ EmptyHeap.next_virtual_page = S
      /\ EmptyHeap.initialized = FALSE /\ EmptyHeap.grow_failed = FALSE
  BY Zenon DEF EmptyHeap, HeapFields
<1>2. S \in Nat /\ S % PMM_PAGE_SIZE = 0 /\ S - 1 <= MEMORY_LAYOUT_KERNEL_HEAP_END
  BY Constants, HeapAssumption
<1>3. <<>> \in Seq(Block) /\ Len(<<>>) = 0
  OBVIOUS
<1>4. Tiled(<<>>, S) /\ Merged(<<>>)
  BY <1>3 DEF Tiled, Merged
<1>. QED BY <1>1, <1>2, <1>4, Zenon DEF HeapOK

LEMMA AllocatorInit == Init => HeapOK(heap) /\ Abstract!AInit
<1>. SUFFICES ASSUME Init PROVE HeapOK(heap) /\ Abstract!AInit
  BY Zenon
<1>1. HeapOK(heap) /\ heap.blocks = <<>>
  BY EmptyHeapOK, Zenon DEF Init
<1>2. Used(<<>>) = {}
  BY DEF Used
<1>3. IsLive(LiveAllocations, {})
  BY <1>1, <1>2, LiveNow, Zenon
<1>4. IsLive(<<>>, {})
  <2>1. DOMAIN <<>> = {} /\ <<>> = [p \in {} |-> <<>>[p]]
    OBVIOUS
  <2>. QED BY <2>1, Zenon DEF IsLive
<1>5. LiveAllocations = <<>>
  BY <1>3, <1>4, SameLive, Zenon
<1>. QED BY <1>1, <1>5, Zenon DEF Init, Abstract!AInit


\* A step that leaves the blocks in use as they are leaves the live ones.
LEMMA LiveStays ==
    ASSUME HeapOK(heap), HeapOK(heap'), Used(heap'.blocks) = Used(heap.blocks)
    PROVE  LiveAllocations' = LiveAllocations
BY LiveNow, LiveThen, SameLive, Zenon

\* heap_initialize brings the heap up with nothing in use.
LEMMA InitializeStep ==
    ASSUME HeapOK(heap), HeapInitialize
    PROVE  HeapOK(heap') /\ UNCHANGED <<LiveAllocations, request, result>>
<1>. DEFINE size == PMM_PAGE_SIZE - HeapHeaderSize
           g == heap_grow(EmptyHeap, Memory, size)
           up == [g.heap EXCEPT !.initialized = g.ok]
<1>1. size \in Nat
  BY Constants, HeapAssumption
<1>2. GrowthOf(EmptyHeap, g, size)
  <2>. HIDE DEF size
  <2>. QED BY <1>1, EmptyHeapOK, GrowHeap, Zenon
<1>3. heap = EmptyHeap /\ heap' = up /\ request' = request /\ result' = result
  BY Zenon DEF HeapInitialize
<1>. HIDE DEF g
<1>4. /\ HeapOK(g.heap) /\ g.ok \in BOOLEAN
      /\ g.ok => Counted(g.heap)
      /\ Used(g.heap.blocks) = Used(EmptyHeap.blocks)
  BY <1>2, Zenon DEF GrowthOf
<1>5. DOMAIN g.heap = HeapFields
  BY <1>4, Zenon DEF HeapOK
<1>6. /\ DOMAIN up = HeapFields /\ up.blocks = g.heap.blocks /\ up.initialized = g.ok
      /\ up.next_virtual_page = g.heap.next_virtual_page /\ up.grow_failed = g.heap.grow_failed
      /\ up.used_bytes = g.heap.used_bytes /\ up.free_bytes = g.heap.free_bytes
  BY <1>5, Zenon DEF HeapFields
<1>. HIDE DEF up
<1>7. HeapOK(up)
  BY <1>4, <1>6, Zenon DEF HeapOK, Counted
<1>8. Used(heap'.blocks) = Used(heap.blocks)
  BY <1>3, <1>4, <1>6, Zenon
<1>. QED BY <1>3, <1>7, <1>8, LiveStays, Zenon

\* kmalloc gives the caller an allocation of its own, or refuses.
LEMMA KmallocStep ==
    ASSUME HeapOK(heap), SmallRequests, NEW size \in Sizes, Kmalloc(size)
    PROVE  /\ HeapOK(heap')
           /\ request' = size
           /\ \/ AllocatedAt(LiveAllocations, LiveAllocations', size, result')
              \/ result' = 0 /\ LiveAllocations' = LiveAllocations
<1>. DEFINE done == kmalloc_from(heap, Memory, size)
<1>1. size \in Nat /\ size + HEAP_ALIGNMENT <= AddressLimit
  BY HeapAssumption, Zenon DEF SmallRequests
<1>2. CallOK(done, heap, size)
  BY <1>1, KmallocEnds, Zenon
<1>3. heap' = done.heap /\ request' = size /\ result' = done.pointer
  BY Zenon DEF Kmalloc
<1>. HIDE DEF done
<1>4. HeapOK(heap')
  BY <1>2, <1>3, Zenon DEF CallOK
<1>5. CASE done.pointer = 0 /\ Used(done.heap.blocks) = Used(heap.blocks)
  BY <1>3, <1>4, <1>5, LiveStays, Zenon
<1>6. CASE NewUse(heap.blocks, done.heap.blocks, done.pointer, size)
  <2>1. PICK b \in Block : /\ b.used /\ Payload(b) = result' /\ b.size >= size
                           /\ Used(heap'.blocks) = Used(heap.blocks) \cup {b}
                           /\ \A u \in Used(heap.blocks) : u.at # b.at
    BY <1>3, <1>6, Zenon DEF NewUse
  <2>2. IsLive(LiveAllocations, Used(heap.blocks)) /\ IsLive(LiveAllocations', Used(heap'.blocks))
    BY <1>4, LiveNow, LiveThen, Zenon
  <2>3. Tiled(heap'.blocks, heap'.next_virtual_page)
    BY <1>4, Zenon DEF HeapOK
  <2>4. AllocatedAt(LiveAllocations, LiveAllocations', size, Payload(b))
    BY <1>1, <2>1, <2>2, <2>3, NewAllocation, Zenon
  <2>. QED BY <1>3, <1>4, <2>1, <2>4, Zenon
<1>7. (done.pointer = 0 /\ Used(done.heap.blocks) = Used(heap.blocks))
      \/ NewUse(heap.blocks, done.heap.blocks, done.pointer, size)
  BY <1>2, Zenon DEF CallOK
<1>. QED BY <1>5, <1>6, <1>7, Zenon

\* kfree releases the allocation of its pointer, or nothing.
LEMMA KfreeStep ==
    ASSUME HeapOK(heap), NEW pointer \in Pointers, Kfree(pointer)
    PROVE  /\ HeapOK(heap')
           /\ request' = 0 /\ result' = 0
           /\ \E base \in MEMORY_LAYOUT_KERNEL_HEAP_START .. MEMORY_LAYOUT_KERNEL_HEAP_END :
                 LiveAllocations' = [other \in DOMAIN LiveAllocations \ {base} |-> LiveAllocations[other]]
<1>1. FreedFrom(heap, heap', pointer) /\ request' = 0 /\ result' = 0
  BY HeapAssumption, KfreeEnds, Zenon DEF Kfree
<1>2. HeapOK(heap')
  BY <1>1, Zenon DEF FreedFrom
<1>3. IsLive(LiveAllocations, Used(heap.blocks)) /\ IsLive(LiveAllocations', Used(heap'.blocks))
  BY <1>2, LiveNow, LiveThen, Zenon
<1>4. CASE Used(heap'.blocks) = Used(heap.blocks)
  <2>. DEFINE S == MEMORY_LAYOUT_KERNEL_HEAP_START
  <2>1. LiveAllocations' = LiveAllocations
    BY <1>2, <1>4, LiveStays, Zenon
  <2>2. S \in MEMORY_LAYOUT_KERNEL_HEAP_START .. MEMORY_LAYOUT_KERNEL_HEAP_END
    BY Constants, HeapAssumption
  <2>3. S \notin DOMAIN LiveAllocations
    <3>1. ASSUME NEW b \in Used(heap.blocks) PROVE Payload(b) # S
      <4>1. b \in Block /\ heap_block_header_is_sane(b)
        BY UsedAt, Zenon DEF HeapOK
      <4>2. b.at \in Nat /\ b.at >= S /\ HeapHeaderSize \in Nat \ {0} /\ S \in Nat
        BY <4>1, Constants DEF Block, heap_block_header_is_sane
      <4>3. b.at + HeapHeaderSize # S
        BY <4>2
      <4>. QED BY <4>3, Zenon DEF Payload
    <3>. QED BY <1>3, <3>1, Zenon DEF IsLive
  <2>4. LiveAllocations = [other \in DOMAIN LiveAllocations |-> LiveAllocations[other]]
    BY <1>3, Zenon DEF IsLive
  <2>5. DOMAIN LiveAllocations \ {S} = DOMAIN LiveAllocations
    BY <2>3, Zenon
  <2>6. LiveAllocations' = [other \in DOMAIN LiveAllocations \ {S} |-> LiveAllocations[other]]
    BY <2>1, <2>4, <2>5, Zenon
  <2>. QED BY <1>1, <1>2, <2>2, <2>6, Zenon
<1>5. CASE Used(heap'.blocks) # Used(heap.blocks)
  <2>1. PICK b \in Used(heap.blocks) :
            /\ Payload(b) = pointer
            /\ pointer \in MEMORY_LAYOUT_KERNEL_HEAP_START .. MEMORY_LAYOUT_KERNEL_HEAP_END
            /\ Used(heap'.blocks) = Used(heap.blocks) \ {b}
    BY <1>1, <1>5, Zenon DEF FreedFrom
  <2>2. Tiled(heap.blocks, heap.next_virtual_page)
    BY Zenon DEF HeapOK
  <2>3. LiveAllocations' = [other \in DOMAIN LiveAllocations \ {Payload(b)} |-> LiveAllocations[other]]
    <3>1. IsLive(LiveAllocations', Used(heap.blocks) \ {b})
      BY <1>3, <2>1, Zenon
    <3>. QED BY <1>3, <2>2, <3>1, ReleasedAllocation, Zenon
  <2>. QED BY <1>1, <1>2, <2>1, <2>3, Zenon
<1>. QED BY <1>4, <1>5, Zenon

\* Each step of the heap is a step of the allocator, or leaves it as it is.
LEMMA AllocatorStep ==
    ASSUME HeapOK(heap), SmallRequests, [Next]_vars
    PROVE  HeapOK(heap') /\ [Abstract!ANext]_(Abstract!avars)
<1>1. CASE Ring3Initialize
  <2>1. heap' = heap /\ request' = request /\ result' = result
    BY <1>1, Zenon DEF Ring3Initialize
  <2>2. LiveAllocations' = LiveAllocations
    BY <2>1, LiveStays, Zenon
  <2>. QED BY <2>1, <2>2, Zenon DEF Abstract!avars
<1>2. CASE HeapInitialize
  BY <1>2, InitializeStep, Zenon DEF Abstract!avars
<1>3. ASSUME NEW size \in Sizes, Kmalloc(size)
      PROVE  HeapOK(heap') /\ [Abstract!ANext]_(Abstract!avars)
  <2>1. /\ HeapOK(heap') /\ request' = size
        /\ \/ AllocatedAt(LiveAllocations, LiveAllocations', size, result')
           \/ result' = 0 /\ LiveAllocations' = LiveAllocations
    BY <1>3, KmallocStep, Zenon
  <2>2. CASE AllocatedAt(LiveAllocations, LiveAllocations', size, result')
    <3>1. Abstract!Allocate(size)
      BY <2>1, <2>2, Zenon DEF AllocatedAt, Abstract!Allocate, Abstract!Span
    <3>. QED BY <2>1, <3>1, Zenon DEF Abstract!ANext
  <2>3. CASE result' = 0 /\ LiveAllocations' = LiveAllocations
    <3>1. Abstract!Refuse(size)
      BY <2>1, <2>3, Zenon DEF Abstract!Refuse
    <3>. QED BY <2>1, <3>1, Zenon DEF Abstract!ANext
  <2>. QED BY <2>1, <2>2, <2>3, Zenon
<1>4. ASSUME NEW pointer \in Pointers, Kfree(pointer)
      PROVE  HeapOK(heap') /\ [Abstract!ANext]_(Abstract!avars)
  <2>1. HeapOK(heap') /\ request' = 0 /\ result' = 0
    BY <1>4, KfreeStep, Zenon
  <2>2. PICK base \in MEMORY_LAYOUT_KERNEL_HEAP_START .. MEMORY_LAYOUT_KERNEL_HEAP_END :
            LiveAllocations' = [other \in DOMAIN LiveAllocations \ {base} |-> LiveAllocations[other]]
    BY <1>4, KfreeStep, Zenon
  <2>3. Abstract!Release(base)
    BY <2>1, <2>2, Zenon DEF Abstract!Release
  <2>. QED BY <2>1, <2>3, Zenon DEF Abstract!ANext
<1>5. CASE UNCHANGED vars
  <2>1. heap' = heap /\ request' = request /\ result' = result
    BY <1>5, Zenon DEF vars
  <2>2. LiveAllocations' = LiveAllocations
    BY <2>1, LiveStays, Zenon
  <2>. QED BY <2>1, <2>2, Zenon DEF Abstract!avars
<1>. QED BY <1>1, <1>2, <1>3, <1>4, <1>5, Zenon DEF Next

\* kmalloc and kfree implement the abstract allocator, for every size of the heap
\* and its pages, every memory map and every sequence of calls: as long as no
\* caller asks for a size that wraps around when it is aligned, an allocation is
\* aligned, as large as asked for, inside the heap and disjoint from every live
\* one, and kfree releases the allocation of its pointer or nothing (heap.c).
THEOREM HeapIsAllocator == SmallRequests => (Spec => AllocatorSpec)
<1>1. Init => HeapOK(heap) /\ Abstract!AInit
  BY AllocatorInit, Zenon
<1>2. SmallRequests /\ HeapOK(heap) /\ [Next]_vars => HeapOK(heap)' /\ [Abstract!ANext]_(Abstract!avars)
  <2>1. HeapOK(heap)' <=> HeapOK(heap')
    BY Zenon DEF HeapOK, Counted
  <2>. QED BY <2>1, AllocatorStep, Zenon
<1>. SUFFICES ASSUME SmallRequests PROVE Spec => AllocatorSpec
  BY Zenon
<1>3. HeapOK(heap) /\ [Next]_vars => HeapOK(heap)' /\ [Abstract!ANext]_(Abstract!avars)
  BY <1>2, Zenon
<1>. QED BY <1>1, <1>3, PTL DEF Spec, AllocatorSpec, Abstract!ASpec

=============================================================================
