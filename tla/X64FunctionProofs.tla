-------------------------- MODULE X64FunctionProofs --------------------------
(***************************************************************************)
(* What the functions of the x86_64 kernel's input, files and loader do,   *)
(* for rings, files and images of every size: module X64ServicesProofs     *)
(* builds on these lemmas.                                                 *)
(*                                                                         *)
(* A ring of the keyboard (idt.c) is an array, a head and a count; the     *)
(* lemmas on rings say that writing at the tail appends and that moving    *)
(* the head drops, wherever the indices wrap.  The probe of the session    *)
(* file (vfs.c) finds the file ready.  The loader's loop over the segments *)
(* of an image (syscall_dispatch.h) leaves their bytes in the pages and    *)
(* nothing else.                                                           *)
(***************************************************************************)
EXTENDS X64Input, X64Vfs, X64Loader, SequenceTheorems, WellFoundedInduction, TLAPS

\* The smaller of two numbers.
LEMMA MinOfTwo ==
  ASSUME NEW a \in Nat, NEW b \in Nat
  PROVE  Min({a, b}) = IF a =< b THEN a ELSE b
<1> DEFINE m == IF a =< b THEN a ELSE b
<1>1. m \in {a, b} /\ \A y \in {a, b} : m =< y
  OBVIOUS
<1>2. \A x \in {a, b} : (\A y \in {a, b} : x =< y) => x = m
  OBVIOUS
<1>3. Min({a, b}) \in {a, b} /\ \A y \in {a, b} : Min({a, b}) =< y
  BY <1>1, Zenon DEF Min
<1>4. QED
  BY <1>2, <1>3, Zenon

\* The larger of two numbers.
LEMMA MaxOfTwo ==
  ASSUME NEW a \in Nat, NEW b \in Nat
  PROVE  Max({a, b}) = IF a >= b THEN a ELSE b
<1> DEFINE m == IF a >= b THEN a ELSE b
<1>1. m \in {a, b} /\ \A y \in {a, b} : m >= y
  OBVIOUS
<1>2. \A x \in {a, b} : (\A y \in {a, b} : x >= y) => x = m
  OBVIOUS
<1>3. Max({a, b}) \in {a, b} /\ \A y \in {a, b} : Max({a, b}) >= y
  BY <1>1, Zenon DEF Max
<1>4. QED
  BY <1>2, <1>3, Zenon

\* A set of numbers has a least one.
LEMMA LeastNumber ==
  ASSUME NEW T, T \subseteq Nat, T # {}
  PROVE  \E x \in T : \A y \in T : x <= y
<1>1. PICK x \in T : \A y \in T : ~(<<y, x>> \in OpToRel(<, Nat))
  BY NatLessThanWellFounded, WFMin, Zenon
<1>2. ASSUME NEW a \in Nat, NEW b \in Nat, a < b PROVE <<a, b>> \in OpToRel(<, Nat)
  BY <1>2, Zenon DEF OpToRel
<1>3. \A y \in T : ~(y < x)
  BY <1>1, <1>2, Zenon
<1>4. QED
  BY <1>3

-----------------------------------------------------------------------------
(* The rings of the keyboard *)

\* What a ring of c places holds, oldest first.
Ring(f, c, head, n) == [i \in 1..n |-> f[(head + i - 1) % c]]

\* The place of the i-th element.
Place(c, head, i) == IF head + i - 1 < c THEN head + i - 1 ELSE head + i - 1 - c

\* A ring holds a sequence of what its places hold.
LEMMA RingIsSeq ==
  ASSUME NEW c \in Nat \ {0}, NEW S, NEW f \in [0..c - 1 -> S],
         NEW head \in 0..c - 1, NEW n \in 0..c
  PROVE  Ring(f, c, head, n) \in Seq(S)
<1>1. \A i \in 1..n : f[(head + i - 1) % c] \in S
  OBVIOUS
<1>2. QED
  BY <1>1 DEF Ring

\* x comes last once it is written at the tail.
Appended(f, c, head, n, tail, x) ==
  /\ tail \in 0..c - 1
  /\ (tail + 1) % c = (head + (n + 1)) % c
  /\ (tail + 1) % c \in 0..c - 1
  /\ Ring([f EXCEPT ![tail] = x], c, head, n + 1) = Append(Ring(f, c, head, n), x)

\* Writing at the tail of a ring that is not full appends.
LEMMA RingAppend ==
  ASSUME NEW S, NEW c \in Nat \ {0}, NEW f \in [0..c - 1 -> S], NEW x \in S,
         NEW head \in 0..c - 1, NEW n \in 0..c - 1, NEW tail, tail = (head + n) % c
  PROVE  Appended(f, c, head, n, tail, x)
<1> DEFINE g == [f EXCEPT ![tail] = x]
           old == Ring(f, c, head, n)
           new == Ring(g, c, head, n + 1)
<1>1. tail = Place(c, head, n + 1) /\ tail \in 0..c - 1
  BY DEF Place
<1>2. /\ (tail + 1) % c = (head + (n + 1)) % c
      /\ (tail + 1) % c \in 0..c - 1
  <2>1. (tail + 1) % c = IF tail + 1 < c THEN tail + 1 ELSE tail + 1 - c
    BY <1>1
  <2>2. (head + (n + 1)) % c = IF head + (n + 1) < c THEN head + (n + 1) ELSE head + (n + 1) - c
    OBVIOUS
  <2>3. QED
    BY <1>1, <2>1, <2>2 DEF Place
<1>3. g \in [0..c - 1 -> S]
  BY <1>1, Zenon
<1>4. n \in 0..c /\ n + 1 \in 0..c
  OBVIOUS
<1> HIDE DEF g
<1>4a. old \in Seq(S)
  BY <1>4, RingIsSeq, Zenon
<1>4b. Len(old) = n /\ \A i \in 1..n : old[i] = f[Place(c, head, i)]
  BY <1>4 DEF Ring, Place
<1>5a. new \in Seq(S)
  BY <1>3, <1>4, RingIsSeq, Zenon
<1>5b. Len(new) = n + 1 /\ \A i \in 1..n + 1 : new[i] = g[Place(c, head, i)]
  BY <1>4 DEF Ring, Place
<1> USE DEF g
<1>6. \A i \in 1..n : g[Place(c, head, i)] = f[Place(c, head, i)]
  BY <1>1 DEF Place
<1>7. g[Place(c, head, n + 1)] = x
  BY <1>1, Zenon
<1> HIDE DEF g, old, new
<1>9. /\ Append(old, x) \in Seq(S) /\ Len(Append(old, x)) = n + 1
      /\ \A i \in 1..n : Append(old, x)[i] = old[i]
      /\ Append(old, x)[n + 1] = x
  BY <1>4, <1>4a, <1>4b, AppendProperties
<1>10. \A i \in 1..n + 1 : new[i] = Append(old, x)[i]
  <2>1. \A i \in 1..n : new[i] = Append(old, x)[i]
    BY <1>4b, <1>5b, <1>6, <1>9
  <2>2. new[n + 1] = Append(old, x)[n + 1]
    BY <1>5b, <1>7, <1>9
  <2>3. \A i \in 1..n + 1 : i \in 1..n \/ i = n + 1
    OBVIOUS
  <2>4. QED
    BY <2>1, <2>2, <2>3, Zenon
<1>11. new = Append(old, x)
  BY <1>5a, <1>5b, <1>9, <1>10, SeqEqual, Zenon
<1>12. QED
  BY <1>1, <1>2, <1>11, Zenon DEF new, old, g, Appended

\* The m oldest elements go once the head is moved over them.
Dropped(f, c, head, n, m) ==
  /\ (head + m) % c \in 0..c - 1
  /\ (((head + m) % c) + (n - m)) % c = (head + n) % c
  /\ Ring(f, c, (head + m) % c, n - m) = SubSeq(Ring(f, c, head, n), m + 1, n)

\* Moving the head over the m oldest elements takes them out.
LEMMA RingDrop ==
  ASSUME NEW S, NEW c \in Nat \ {0}, NEW f \in [0..c - 1 -> S],
         NEW head \in 0..c - 1, NEW n \in 0..c, NEW m \in 0..n
  PROVE  Dropped(f, c, head, n, m)
<1> DEFINE h == (head + m) % c
           old == Ring(f, c, head, n)
           new == Ring(f, c, h, n - m)
<1>1. h = (IF head + m < c THEN head + m ELSE head + m - c) /\ h \in 0..c - 1
  OBVIOUS
<1> HIDE DEF h
<1>2. (h + (n - m)) % c = (head + n) % c
  <2>1. (h + (n - m)) % c = IF h + (n - m) < c THEN h + (n - m) ELSE h + (n - m) - c
    BY <1>1
  <2>2. (head + n) % c = IF head + n < c THEN head + n ELSE head + n - c
    OBVIOUS
  <2>3. QED
    BY <1>1, <2>1, <2>2
<1>4. n - m \in 0..c
  OBVIOUS
<1>4a. old \in Seq(S)
  BY RingIsSeq, Zenon
<1>4b. Len(old) = n /\ \A i \in 1..n : old[i] = f[Place(c, head, i)]
  BY DEF Ring, Place
<1>5a. new \in Seq(S)
  BY <1>1, <1>4, RingIsSeq, Zenon
<1>5b. Len(new) = n - m /\ \A i \in 1..n - m : new[i] = f[Place(c, h, i)]
  BY <1>1, <1>4 DEF Ring, Place
<1>6. \A i \in 1..n - m : Place(c, h, i) = Place(c, head, m + i)
  BY <1>1 DEF Place
<1> HIDE DEF old, new
<1>7. \A i \in m + 1..n : old[i] \in S
  BY <1>4, <1>4a, <1>4b, ElementOfSeq
<1>8. /\ SubSeq(old, m + 1, n) \in Seq(S)
      /\ Len(SubSeq(old, m + 1, n)) = n - m
      /\ \A i \in 1..n - m : SubSeq(old, m + 1, n)[i] = old[m + i]
  BY <1>7, SubSeqProperties
<1>9a. \A i \in 1..n - m : m + i \in 1..n
  OBVIOUS
<1>9. \A i \in 1..n - m : new[i] = SubSeq(old, m + 1, n)[i]
  BY <1>4, <1>4a, <1>4b, <1>5a, <1>5b, <1>6, <1>8, <1>9a, SMTT(40)
<1>10. new = SubSeq(old, m + 1, n)
  BY <1>5a, <1>5b, <1>8, <1>9, SeqEqual, Zenon
<1>11. QED
  BY <1>1, <1>2, <1>10, Zenon DEF new, old, h, Dropped

\* What the keys type.
Chars == {Nul} \cup {scancode_ascii_map[c] : c \in DOMAIN scancode_ascii_map}
               \cup {scancode_shift_ascii_map[c] : c \in DOMAIN scancode_ascii_map}

Event == [code : Scancodes \cup {Nul}, value : Chars, sequence : Nat]

CharPlaces == 0..X86_64_KEYBOARD_BUFFER_CAPACITY - 1
EventPlaces == 0..X86_64_INPUT_EVENT_QUEUE_CAPACITY - 1

KeyboardState ==
  [shift_pressed : BOOLEAN,
   buffer : [CharPlaces -> Chars],
   head : CharPlaces, tail : CharPlaces, count : 0..X86_64_KEYBOARD_BUFFER_CAPACITY,
   overflows : Nat,
   queue : [EventPlaces -> Event],
   event_head : EventPlaces, event_tail : EventPlaces,
   event_count : 0..X86_64_INPUT_EVENT_QUEUE_CAPACITY,
   next_sequence : Nat \ {0}, drops : Nat]

\* Each tail is where its ring ends; the events kept are the latest ones, in
\* the order of their numbers.
KeyboardOK(k) ==
  /\ k \in KeyboardState
  /\ k.tail = (k.head + k.count) % X86_64_KEYBOARD_BUFFER_CAPACITY
  /\ k.event_tail = (k.event_head + k.event_count) % X86_64_INPUT_EVENT_QUEUE_CAPACITY
  /\ k.event_count <= k.next_sequence - 1
  /\ k.event_count = 0 => k.next_sequence = 1
  /\ \A i \in 1..k.event_count :
       Queued(k)[i].sequence = k.next_sequence - 1 - k.event_count + i

\* The two rings of the keyboard are such rings.
LEMMA RingsOf ==
  \A k : /\ Buffered(k) = Ring(k.buffer, X86_64_KEYBOARD_BUFFER_CAPACITY, k.head, k.count)
         /\ Queued(k) = Ring(k.queue, X86_64_INPUT_EVENT_QUEUE_CAPACITY, k.event_head, k.event_count)
  BY Zenon DEF Buffered, Queued, Ring

\* The rings' contents as sequences.
LEMMA RingsAreSeqs ==
  ASSUME NEW k, KeyboardOK(k)
  PROVE  /\ Buffered(k) \in Seq(Chars) /\ Len(Buffered(k)) = k.count
         /\ Queued(k) \in Seq(Event) /\ Len(Queued(k)) = k.event_count
<1>1. Buffered(k) \in Seq(Chars)
  BY RingsOf, RingIsSeq, InputAssumption, Zenon DEF KeyboardOK, KeyboardState, CharPlaces
<1>2. Queued(k) \in Seq(Event)
  BY RingsOf, RingIsSeq, InputAssumption, Zenon DEF KeyboardOK, KeyboardState, EventPlaces
<1>3. Len(Buffered(k)) = k.count
  BY InputAssumption DEF Buffered, KeyboardOK, KeyboardState
<1>4. Len(Queued(k)) = k.event_count
  BY InputAssumption DEF Queued, KeyboardOK, KeyboardState
<1>5. QED
  BY <1>1, <1>2, <1>3, <1>4, Zenon

\* keyboard_buffer_push appends a character, or refuses it when the ring is full.
LEMMA PushChar ==
  ASSUME NEW k, KeyboardOK(k), NEW ascii \in Chars,
         NEW n, n = keyboard_buffer_push(k, ascii)
  PROVE  /\ KeyboardOK(n)
         /\ Queued(n) = Queued(k) /\ n.next_sequence = k.next_sequence
         /\ \/ /\ Len(Buffered(k)) < X86_64_KEYBOARD_BUFFER_CAPACITY
               /\ Buffered(n) = Append(Buffered(k), ascii) /\ n.overflows = k.overflows
            \/ /\ Len(Buffered(k)) = X86_64_KEYBOARD_BUFFER_CAPACITY
               /\ Buffered(n) = Buffered(k) /\ n.overflows = k.overflows + 1
<1> DEFINE C == X86_64_KEYBOARD_BUFFER_CAPACITY
<1>0. C \in Nat \ {0} /\ Len(Buffered(k)) = k.count
  BY RingsAreSeqs, InputAssumption, Zenon
<1>1. CASE k.count >= C
  <2>1. n = [k EXCEPT !.overflows = @ + 1] /\ k.count = C
    BY <1>0, <1>1 DEF keyboard_buffer_push, KeyboardOK, KeyboardState
  <2>2. n \in KeyboardState
    BY <2>1 DEF KeyboardOK, KeyboardState
  <2>3. Buffered(n) = Buffered(k) /\ Queued(n) = Queued(k)
    BY <2>1, Zenon DEF Buffered, Queued, KeyboardOK, KeyboardState
  <2>4. KeyboardOK(n)
    BY <2>1, <2>2, <2>3, Zenon DEF KeyboardOK, KeyboardState
  <2>5. QED
    BY <1>0, <2>1, <2>3, <2>4, Zenon DEF KeyboardOK, KeyboardState
<1>2. CASE ~(k.count >= C)
  <2>1. /\ n = [k EXCEPT !.buffer[k.tail] = ascii, !.tail = (@ + 1) % C, !.count = @ + 1]
        /\ k.count \in 0..C - 1
    BY <1>0, <1>2 DEF keyboard_buffer_push, KeyboardOK, KeyboardState
  <2>2. /\ n.buffer = [k.buffer EXCEPT ![k.tail] = ascii] /\ n.head = k.head
        /\ n.tail = (k.tail + 1) % C /\ n.count = k.count + 1 /\ n.overflows = k.overflows
        /\ n.queue = k.queue /\ n.event_head = k.event_head /\ n.event_tail = k.event_tail
        /\ n.event_count = k.event_count /\ n.next_sequence = k.next_sequence
        /\ n.drops = k.drops /\ n.shift_pressed = k.shift_pressed
        /\ DOMAIN n = DOMAIN k
    BY <2>1, Zenon DEF KeyboardOK, KeyboardState
  <2>3. /\ k.tail \in 0..C - 1
        /\ (k.tail + 1) % C = (k.head + (k.count + 1)) % C
        /\ (k.tail + 1) % C \in 0..C - 1
        /\ Ring([k.buffer EXCEPT ![k.tail] = ascii], C, k.head, k.count + 1)
            = Append(Ring(k.buffer, C, k.head, k.count), ascii)
    <3>1. /\ k.buffer \in [0..C - 1 -> Chars] /\ k.head \in 0..C - 1
          /\ k.tail = (k.head + k.count) % C
      BY Zenon DEF KeyboardOK, KeyboardState, CharPlaces
    <3> HIDE DEF C
    <3>2. Appended(k.buffer, C, k.head, k.count, k.tail, ascii)
      BY <1>0, <2>1, <3>1, RingAppend, Zenon
    <3>3. QED
      BY <3>2, ZenonT(40) DEF Appended
  <2>4. Buffered(n) = Append(Buffered(k), ascii)
    BY <2>2, <2>3, RingsOf, Zenon
  <2>5. Queued(n) = Queued(k)
    BY <2>2, Zenon DEF Queued
  <2>6. n \in KeyboardState
    <3> DEFINE b0 == [k.buffer EXCEPT ![k.tail] = ascii]
               t0 == (k.tail + 1) % C
               c0 == k.count + 1
    <3>1. b0 \in [CharPlaces -> Chars]
      BY Zenon DEF KeyboardOK, KeyboardState
    <3>2. t0 \in CharPlaces /\ c0 \in 0..C
      BY <1>0, <2>1, <2>3 DEF CharPlaces
    <3>3. n = [k EXCEPT !.buffer = b0, !.tail = t0, !.count = c0]
      BY <2>1, Zenon DEF KeyboardOK, KeyboardState
    <3> HIDE DEF b0, t0, c0
    <3>4. QED
      BY <3>1, <3>2, <3>3, Zenon DEF KeyboardOK, KeyboardState
  <2>7. KeyboardOK(n)
    BY <2>2, <2>3, <2>5, <2>6 DEF KeyboardOK
  <2>8. QED
    BY <1>0, <1>2, <2>1, <2>2, <2>4, <2>5, <2>7
<1>3. QED
  BY <1>1, <1>2, Zenon

\* DropOldest leaves room for an event, at the price of the oldest one.
LEMMA MakeRoom ==
  ASSUME NEW k, KeyboardOK(k), NEW r, r = DropOldest(k)
  PROVE  /\ r \in KeyboardState /\ r.event_count \in 0..X86_64_INPUT_EVENT_QUEUE_CAPACITY - 1
         /\ r.event_tail = (r.event_head + r.event_count) % X86_64_INPUT_EVENT_QUEUE_CAPACITY
         /\ r.event_tail = k.event_tail /\ r.next_sequence = k.next_sequence
         /\ r.buffer = k.buffer /\ r.head = k.head /\ r.tail = k.tail
         /\ r.count = k.count /\ r.overflows = k.overflows
         /\ \/ /\ k.event_count < X86_64_INPUT_EVENT_QUEUE_CAPACITY
               /\ r = k
            \/ /\ k.event_count = X86_64_INPUT_EVENT_QUEUE_CAPACITY
               /\ r.event_count = k.event_count - 1
               /\ Queued(r) = SubSeq(Queued(k), 2, k.event_count)
<1> DEFINE E == X86_64_INPUT_EVENT_QUEUE_CAPACITY
<1>0. E \in Nat \ {0}
  BY InputAssumption, Zenon
<1>1. CASE k.event_count < E
  <2>1. r = k
    BY <1>1, Zenon DEF DropOldest
  <2>2. QED
    BY <1>0, <1>1, <2>1 DEF KeyboardOK, KeyboardState
<1>2. CASE ~(k.event_count < E)
  <2> DEFINE h0 == (k.event_head + 1) % E
             c0 == k.event_count - 1
             d0 == k.drops + 1
  <2>1. /\ r = [k EXCEPT !.event_head = h0, !.event_count = c0, !.drops = d0]
        /\ k.event_count = E
    BY <1>0, <1>2 DEF DropOldest, KeyboardOK, KeyboardState
  <2>2. Dropped(k.queue, E, k.event_head, k.event_count, 1)
    <3>1. /\ k.queue \in [0..E - 1 -> Event] /\ k.event_head \in 0..E - 1
          /\ k.event_count \in 0..E /\ 1 \in 0..k.event_count
      BY <1>0, <2>1 DEF KeyboardOK, KeyboardState, EventPlaces
    <3> HIDE DEF E
    <3>2. QED
      BY <1>0, <3>1, RingDrop, Zenon
  <2>3. h0 \in EventPlaces /\ c0 \in 0..E /\ c0 \in 0..E - 1 /\ d0 \in Nat
    <3>1. h0 \in EventPlaces
      BY <2>2, Zenon DEF Dropped, EventPlaces
    <3>2. c0 \in 0..E /\ c0 \in 0..E - 1
      BY <1>0, <2>1
    <3>3. d0 \in Nat
      BY DEF KeyboardOK, KeyboardState
    <3>4. QED
      BY <3>1, <3>2, <3>3, Zenon
  <2>4. /\ (h0 + c0) % E = (k.event_head + k.event_count) % E
        /\ Ring(k.queue, E, h0, c0) = SubSeq(Queued(k), 1 + 1, k.event_count)
    BY <2>2, RingsOf, Zenon DEF Dropped
  <2> HIDE DEF h0, c0, d0
  <2>5. r \in KeyboardState
    BY <2>1, <2>3, Zenon DEF KeyboardOK, KeyboardState
  <2>6. /\ r.event_head = h0 /\ r.event_count = c0 /\ r.event_tail = k.event_tail
        /\ r.queue = k.queue /\ r.next_sequence = k.next_sequence
        /\ r.buffer = k.buffer /\ r.head = k.head /\ r.tail = k.tail
        /\ r.count = k.count /\ r.overflows = k.overflows
    BY <2>1, Zenon DEF KeyboardOK, KeyboardState
  <2>7. Queued(r) = SubSeq(Queued(k), 2, k.event_count)
    BY <2>4, <2>6, RingsOf
  <2>8. r.event_tail = (r.event_head + r.event_count) % E
    BY <2>4, <2>6, Zenon DEF KeyboardOK
  <2>9. QED
    BY <2>1, <2>3, <2>5, <2>6, <2>7, <2>8, Zenon DEF c0
<1>3. QED
  BY <1>1, <1>2, Zenon

\* The window after an event, as module InputService has it.
Longer(window, event) ==
  IF Len(Append(window, event)) > X86_64_INPUT_EVENT_QUEUE_CAPACITY
  THEN Tail(Append(window, event)) ELSE Append(window, event)

\* input_event_push notes the next event and forgets the oldest when it must.
LEMMA PushEvent ==
  ASSUME NEW k, KeyboardOK(k), NEW code \in Scancodes, NEW value \in Chars,
         NEW n, n = input_event_push(k, code, value)
  PROVE  /\ KeyboardOK(n)
         /\ Buffered(n) = Buffered(k) /\ n.overflows = k.overflows
         /\ n.next_sequence = k.next_sequence + 1
         /\ Queued(n) = Longer(Queued(k), [code |-> code, value |-> value,
                                           sequence |-> k.next_sequence])
<1> DEFINE E == X86_64_INPUT_EVENT_QUEUE_CAPACITY
           r == DropOldest(k)
           e == [code |-> code, value |-> value, sequence |-> k.next_sequence]
           q0 == [r.queue EXCEPT ![r.event_tail] = e]
           t0 == (r.event_tail + 1) % E
           c0 == r.event_count + 1
           s0 == k.next_sequence + 1
<1>0. E \in Nat \ {0}
  BY InputAssumption, Zenon
<1>1. /\ r \in KeyboardState /\ r.event_count \in 0..E - 1
      /\ r.event_tail = (r.event_head + r.event_count) % E
      /\ r.event_tail = k.event_tail /\ r.next_sequence = k.next_sequence
      /\ r.buffer = k.buffer /\ r.head = k.head /\ r.tail = k.tail
      /\ r.count = k.count /\ r.overflows = k.overflows
  BY MakeRoom, Zenon
<1>2. \/ k.event_count < E /\ r = k
      \/ /\ k.event_count = E /\ r.event_count = k.event_count - 1
         /\ Queued(r) = SubSeq(Queued(k), 2, k.event_count)
  BY MakeRoom
<1>3. n = [r EXCEPT !.queue[r.event_tail] = [code |-> code, value |-> value,
                                             sequence |-> r.next_sequence],
                    !.next_sequence = @ + 1,
                    !.event_tail = (@ + 1) % E,
                    !.event_count = @ + 1]
  BY Zenon DEF input_event_push
<1> HIDE DEF r
<1>4. n = [r EXCEPT !.queue = q0, !.next_sequence = s0, !.event_tail = t0, !.event_count = c0]
  BY <1>1, <1>3, Zenon DEF KeyboardState
<1>5. e \in Event /\ e.sequence = k.next_sequence
  BY Zenon DEF Event, KeyboardOK, KeyboardState
<1> HIDE DEF e
<1>6. Appended(r.queue, E, r.event_head, r.event_count, r.event_tail, e)
  <2>1. r.queue \in [0..E - 1 -> Event] /\ r.event_head \in 0..E - 1
    BY <1>1, Zenon DEF KeyboardState, EventPlaces
  <2> HIDE DEF E
  <2>2. QED
    BY <1>0, <1>1, <1>5, <2>1, RingAppend, Zenon
<1>7. q0 \in [EventPlaces -> Event]
  BY <1>1, <1>5, Zenon DEF KeyboardState
<1>8. t0 \in EventPlaces /\ c0 \in 0..E /\ s0 \in Nat \ {0}
  <2>1. t0 \in EventPlaces
    BY <1>6, Zenon DEF Appended, EventPlaces
  <2>2. c0 \in 0..E
    BY <1>0, <1>1
  <2>3. s0 \in Nat \ {0}
    BY DEF KeyboardOK, KeyboardState
  <2>4. QED
    BY <2>1, <2>2, <2>3, Zenon
<1>9. /\ t0 = (r.event_head + c0) % E
      /\ Ring(q0, E, r.event_head, c0) = Append(Queued(r), e)
  BY <1>6, RingsOf, Zenon DEF Appended
<1> HIDE DEF q0, t0, c0, s0
<1>10. n \in KeyboardState
  BY <1>1, <1>4, <1>7, <1>8, ZenonT(40) DEF KeyboardState
<1>11. /\ n.queue = q0 /\ n.event_head = r.event_head /\ n.event_tail = t0
       /\ n.event_count = c0 /\ n.next_sequence = s0
       /\ n.buffer = k.buffer /\ n.head = k.head /\ n.tail = k.tail
       /\ n.count = k.count /\ n.overflows = k.overflows
  BY <1>1, <1>4 DEF KeyboardState
<1>12. Buffered(n) = Buffered(k)
  BY <1>11, Zenon DEF Buffered
<1>13. Queued(n) = Append(Queued(r), e)
  BY <1>9, <1>11, RingsOf, Zenon
<1>14. /\ Queued(k) \in Seq(Event) /\ Len(Queued(k)) = k.event_count
       /\ k.event_count \in 0..E /\ k.next_sequence \in Nat \ {0}
       /\ k.event_count <= k.next_sequence - 1
       /\ \A i \in 1..k.event_count :
            Queued(k)[i].sequence = k.next_sequence - 1 - k.event_count + i
  BY RingsAreSeqs, Zenon DEF KeyboardOK, KeyboardState
<1>15. /\ Queued(n) = Longer(Queued(k), e)
       /\ c0 <= s0 - 1 /\ c0 # 0
       /\ \A i \in 1..c0 : Queued(n)[i].sequence = s0 - 1 - c0 + i
  <2> DEFINE q == Queued(k)
  <2>1. /\ Append(q, e) \in Seq(Event) /\ Append(q, e) # <<>>
        /\ Len(Append(q, e)) = k.event_count + 1
        /\ \A i \in 1..k.event_count : Append(q, e)[i] = q[i]
        /\ Append(q, e)[k.event_count + 1] = e
    BY <1>5, <1>14, AppendProperties
  <2>2. CASE k.event_count < E /\ r = k
    <3>1. Queued(n) = Append(q, e) /\ c0 = k.event_count + 1
      BY <1>13, <2>2, Zenon DEF c0
    <3>2. Queued(n) = Longer(q, e)
      BY <1>0, <1>14, <2>1, <2>2, <3>1 DEF Longer
    <3>3. \A i \in 1..c0 : i \in 1..k.event_count \/ i = k.event_count + 1
      BY <1>14, <3>1
    <3>4. ASSUME NEW i \in 1..c0
          PROVE  Queued(n)[i].sequence = s0 - 1 - c0 + i
      <4>1. CASE i \in 1..k.event_count
        BY <1>14, <2>1, <3>1, <4>1 DEF s0
      <4>2. CASE i = k.event_count + 1
        BY <1>5, <1>14, <2>1, <3>1, <4>2 DEF s0
      <4>3. QED
        BY <3>3, <4>1, <4>2, Zenon
    <3>5. c0 <= s0 - 1 /\ c0 # 0
      BY <1>14, <3>1 DEF s0
    <3>6. QED
      BY <3>2, <3>4, <3>5, Zenon
  <2>3. CASE /\ k.event_count = E /\ r.event_count = k.event_count - 1
             /\ Queued(r) = SubSeq(Queued(k), 2, k.event_count)
    <3> DEFINE a == Append(q, e)
               tl == SubSeq(q, 2, k.event_count)
    <3>1. c0 = k.event_count
      BY <1>0, <2>3 DEF c0
    <3>2. Longer(q, e) = Tail(a)
      BY <1>0, <2>1, <2>3 DEF Longer
    <3>3. /\ Tail(a) \in Seq(Event) /\ Len(Tail(a)) = k.event_count
          /\ \A i \in 1..k.event_count : Tail(a)[i] = a[i + 1]
      <4> HIDE DEF a
      <4>1. a \in Seq(Event) /\ a # <<>> /\ Len(a) = k.event_count + 1
        BY <2>1, Zenon DEF a
      <4>2. /\ Tail(a) \in Seq(Event) /\ Len(Tail(a)) = Len(a) - 1
            /\ \A i \in 1..Len(Tail(a)) : Tail(a)[i] = a[i + 1]
        BY <4>1, HeadTailProperties, Zenon
      <4>3. QED
        BY <1>14, <4>1, <4>2
    <3>4. /\ tl \in Seq(Event) /\ Len(tl) = k.event_count - 1
          /\ \A i \in 1..k.event_count - 1 : tl[i] = q[i + 1]
      <4>1. \A i \in 2..k.event_count : q[i] \in Event
        BY <1>14, ElementOfSeq
      <4>2. QED
        BY <1>0, <1>14, <2>3, <4>1, SubSeqProperties
    <3> HIDE DEF tl
    <3>5. /\ Append(tl, e) \in Seq(Event) /\ Len(Append(tl, e)) = k.event_count
          /\ \A i \in 1..k.event_count - 1 : Append(tl, e)[i] = tl[i]
          /\ Append(tl, e)[k.event_count] = e
      BY <1>0, <1>5, <1>14, <2>3, <3>4, AppendProperties
    <3>6. \A i \in 1..k.event_count : Append(tl, e)[i] = Tail(a)[i]
      <4>1. ASSUME NEW i \in 1..k.event_count - 1 PROVE Append(tl, e)[i] = Tail(a)[i]
        <5>1. i + 1 \in 1..k.event_count /\ i \in 1..k.event_count
          BY <1>14
        <5>2. QED
          BY <2>1, <3>3, <3>4, <3>5, <5>1, ZenonT(40)
      <4>2. Append(tl, e)[k.event_count] = Tail(a)[k.event_count]
        <5>1. k.event_count \in 1..k.event_count
          BY <1>0, <2>3
        <5>2. QED
          BY <2>1, <3>3, <3>5, <5>1, Zenon
      <4>3. \A i \in 1..k.event_count : i \in 1..k.event_count - 1 \/ i = k.event_count
        BY <1>14
      <4>4. QED
        BY <4>1, <4>2, <4>3, Zenon
    <3>7. Append(tl, e) = Tail(a)
      <4> HIDE DEF a
      <4>1. QED
        BY <3>3, <3>5, <3>6, SeqEqual, Zenon
    <3>8. Queued(n) = Append(tl, e)
      BY <1>13, <2>3, Zenon DEF tl
    <3>9. ASSUME NEW i \in 1..c0
          PROVE  Queued(n)[i].sequence = s0 - 1 - c0 + i
      <4>1. CASE i \in 1..k.event_count - 1
        <5>1. i + 1 \in 1..k.event_count
          BY <1>14, <4>1
        <5>2. Queued(n)[i] = q[i + 1]
          BY <3>4, <3>5, <3>8, <4>1, Zenon
        <5>3. q[i + 1].sequence = k.next_sequence - 1 - k.event_count + (i + 1)
          BY <1>14, <5>1, Zenon
        <5>4. k.next_sequence - 1 - k.event_count + (i + 1) = s0 - 1 - c0 + i
          <6>1. k.event_count \in Int /\ k.next_sequence \in Int /\ i \in Int
            BY <1>14, <4>1
          <6>2. QED
            BY <3>1, <6>1 DEF s0
        <5>5. QED
          BY <5>2, <5>3, <5>4, Zenon
      <4>2. CASE i = k.event_count
        BY <1>5, <1>14, <3>1, <3>5, <3>8, <4>2 DEF s0
      <4>3. QED
        BY <1>14, <3>1, <4>1, <4>2
    <3>10. c0 <= s0 - 1 /\ c0 # 0
      BY <1>0, <1>14, <2>3, <3>1 DEF s0
    <3>11. QED
      BY <3>2, <3>7, <3>8, <3>9, <3>10, Zenon
  <2>4. QED
    BY <1>2, <2>2, <2>3, Zenon
<1>16. KeyboardOK(n)
  <2>1. n.tail = (n.head + n.count) % X86_64_KEYBOARD_BUFFER_CAPACITY
    BY <1>11, Zenon DEF KeyboardOK
  <2>2. n.event_tail = (n.event_head + n.event_count) % E
    BY <1>9, <1>11, Zenon
  <2>3. QED
    BY <1>10, <1>11, <1>15, <2>1, <2>2, Zenon DEF KeyboardOK
<1>17. QED
  BY <1>11, <1>12, <1>15, <1>16, Zenon DEF e, s0

\* keyboard_read takes the oldest characters.
LEMMA ReadChars ==
  ASSUME NEW k, KeyboardOK(k), NEW size \in Nat, NEW n, n = keyboard_read(k, size),
         NEW m, m = Min({size, k.count})
  PROVE  /\ KeyboardOK(n.keyboard)
         /\ Queued(n.keyboard) = Queued(k) /\ n.keyboard.overflows = k.overflows
         /\ n.keyboard.next_sequence = k.next_sequence
         /\ m \in 0..k.count /\ (m = 0 => size = 0 \/ k.count = 0)
         /\ n.bytes = SubSeq(Buffered(k), 1, m) /\ Len(n.bytes) = m
         /\ Buffered(n.keyboard) = SubSeq(Buffered(k), m + 1, k.count)
<1> DEFINE C == X86_64_KEYBOARD_BUFFER_CAPACITY
           h0 == (k.head + m) % C
           c0 == k.count - m
<1>0. C \in Nat \ {0} /\ k.count \in 0..C /\ k.count \in Nat
  BY InputAssumption DEF KeyboardOK, KeyboardState
<1>1. m \in 0..k.count /\ (m = 0 => size = 0 \/ k.count = 0)
  BY <1>0, MinOfTwo
<1>2. /\ n.bytes = SubSeq(Buffered(k), 1, m)
      /\ n.keyboard = [k EXCEPT !.head = h0, !.count = c0]
  BY Zenon DEF keyboard_read, KeyboardOK, KeyboardState
<1>3. Dropped(k.buffer, C, k.head, k.count, m)
  <2>1. k.buffer \in [0..C - 1 -> Chars] /\ k.head \in 0..C - 1
    BY Zenon DEF KeyboardOK, KeyboardState, CharPlaces
  <2> HIDE DEF C
  <2>2. QED
    BY <1>0, <1>1, <2>1, RingDrop, Zenon
<1>4. h0 \in CharPlaces /\ c0 \in 0..C
  <2>1. h0 \in CharPlaces
    BY <1>3, Zenon DEF Dropped, CharPlaces
  <2>2. c0 \in 0..C
    BY <1>0, <1>1
  <2>3. QED
    BY <2>1, <2>2, Zenon
<1>5. /\ (h0 + c0) % C = (k.head + k.count) % C
      /\ Ring(k.buffer, C, h0, c0) = SubSeq(Buffered(k), m + 1, k.count)
  BY <1>3, RingsOf, Zenon DEF Dropped
<1> DEFINE kb == n.keyboard
<1> HIDE DEF h0, c0
<1>6. kb \in KeyboardState
  BY <1>2, <1>4, Zenon DEF KeyboardOK, KeyboardState
<1>7. /\ kb.head = h0 /\ kb.count = c0 /\ kb.tail = k.tail /\ kb.buffer = k.buffer
      /\ kb.queue = k.queue /\ kb.event_head = k.event_head
      /\ kb.event_tail = k.event_tail /\ kb.event_count = k.event_count
      /\ kb.next_sequence = k.next_sequence /\ kb.overflows = k.overflows
  BY <1>2, Zenon DEF KeyboardOK, KeyboardState
<1> HIDE DEF kb
<1>8. Queued(kb) = Queued(k)
  BY <1>7, Zenon DEF Queued
<1>9. Buffered(kb) = SubSeq(Buffered(k), m + 1, k.count)
  BY <1>5, <1>7, RingsOf, Zenon
<1>10. KeyboardOK(kb)
  BY <1>5, <1>6, <1>7, <1>8, Zenon DEF KeyboardOK
<1>11. Len(n.bytes) = m
  <2>1. \A i \in 1..m : Buffered(k)[i] \in Chars
    BY <1>0, <1>1, RingsAreSeqs, ElementOfSeq
  <2>2. QED
    BY <1>0, <1>1, <1>2, <2>1, SubSeqProperties
<1>12. QED
  BY <1>1, <1>2, <1>7, <1>8, <1>9, <1>10, <1>11, Zenon DEF kb

\* A function defined by recursion on 0..n is the one that satisfies its
\* equation, stated for the loop of input_events_read_from.
EventsStep(k, cursor, from, max_events, f, i) ==
  IF i = 0 THEN [events |-> <<>>, cursor |-> cursor]
  ELSE IF Len(f[i - 1].events) < max_events /\ Queued(k)[i].sequence > from
  THEN [events |-> Append(f[i - 1].events, Queued(k)[i]), cursor |-> Queued(k)[i].sequence]
  ELSE f[i - 1]

\* The loop is that function.
LEMMA LoopIs ==
  ASSUME NEW k, k.event_count \in Nat, NEW from, NEW c, NEW max_events, NEW g,
         g = [i \in 0..k.event_count |-> EventsStep(k, c, from, max_events, g, i)]
  PROVE  EventsAfter(k, c, from, max_events) = g[k.event_count]
<1> DEFINE n == k.event_count
           f == CHOOSE h : h = [i \in 0..n |-> EventsStep(k, c, from, max_events, h, i)]
<1>1. EventsAfter(k, c, from, max_events) = f[n]
  BY Zenon DEF EventsAfter, EventsStep
<1>2. f = [i \in 0..n |-> EventsStep(k, c, from, max_events, f, i)]
  BY Zenon
<1> HIDE DEF f
<1>3. \A i \in 0..n : f[i] = g[i]
  <2> SUFFICES ASSUME NEW j \in 0..n, f[j] # g[j] PROVE FALSE
    BY Zenon
  <2> DEFINE bad == {i \in 0..n : f[i] # g[i]}
  <2>1. bad \subseteq Nat /\ bad # {}
    OBVIOUS
  <2>2. PICK i \in bad : \A y \in bad : i <= y
    <3> HIDE DEF bad
    <3>1. QED
      BY <2>1, LeastNumber, Zenon
  <2>3. \A y \in bad : ~(y < i)
    <3> HIDE DEF bad
    <3>1. QED
      BY <2>1, <2>2
  <2>4. i # 0 => i - 1 \in 0..n /\ f[i - 1] = g[i - 1]
    <3> SUFFICES ASSUME i # 0 PROVE i - 1 \in 0..n /\ f[i - 1] = g[i - 1]
      BY Zenon
    <3>1. i - 1 \in 0..n /\ i - 1 < i
      OBVIOUS
    <3>2. i - 1 \notin bad
      <4> HIDE DEF bad
      <4>1. QED
        BY <2>3, <3>1, Zenon
    <3>3. QED
      BY <3>1, <3>2, Zenon
  <2>5. f[i] = EventsStep(k, c, from, max_events, f, i) /\ g[i] = EventsStep(k, c, from, max_events, g, i)
    BY <1>2, Zenon
  <2>6. QED
    BY <2>4, <2>5, Zenon DEF EventsStep
<1>4. QED
  BY <1>1, <1>3

\* How many of the kept events a reader has seen.
Seen(k, c) == LET dropped == k.next_sequence - 1 - k.event_count
              IN  IF c > dropped THEN c - dropped ELSE 0

\* A reader with cursor c has been handed the m oldest events it had not seen,
\* and its cursor is on the last of them.
EventsRead(k, c, max_events, got, m) ==
  /\ m \in 0..max_events
  /\ got.events = SubSeq(Queued(k), Seen(k, c) + 1, Seen(k, c) + m)
  /\ got.cursor = IF m = 0 THEN c ELSE k.next_sequence - 1 - k.event_count + Seen(k, c) + m
  /\ got.cursor \in 0..k.next_sequence - 1

\* input_events_read_from hands out as many as it is asked for, if it has them.
LEMMA ReadEvents ==
  ASSUME NEW k, KeyboardOK(k), NEW c \in 0..k.next_sequence - 1, NEW max_events \in Nat,
         NEW got, got = input_events_read_from(k, c, max_events),
         NEW m, m = Min({max_events, k.event_count - Seen(k, c)})
  PROVE  EventsRead(k, c, max_events, got, m)
<1> DEFINE n == k.event_count
           s == Seen(k, c)
           d == k.next_sequence - 1 - n
           q == Queued(k)
           e(i) == IF i <= s THEN s ELSE IF i <= s + max_events THEN i ELSE s + max_events
<1>0. /\ n \in Nat /\ k.next_sequence \in Nat \ {0} /\ d \in Nat
      /\ n = 0 => k.next_sequence = 1
  BY InputAssumption DEF KeyboardOK, KeyboardState
<1>1. s \in 0..n /\ (IF c > d THEN s = c - d ELSE s = 0)
  BY <1>0 DEF Seen
<1>2. m = IF max_events <= n - s THEN max_events ELSE n - s
  <2>1. n - s \in Nat
    BY <1>0, <1>1
  <2> HIDE DEF n, s
  <2>2. QED
    BY <2>1, MinOfTwo, Zenon DEF n, s
<1>3. q \in Seq(Event) /\ Len(q) = n /\ \A i \in 1..n : q[i].sequence = d + i
  BY RingsAreSeqs, Zenon DEF KeyboardOK
<1> DEFINE Result == /\ got.events = SubSeq(q, s + 1, s + m)
                     /\ got.cursor = IF m = 0 THEN c ELSE d + s + m
<1> HIDE DEF n, s, d, q
<1>4. ASSUME max_events = 0 PROVE Result
  <2>1. got = [events |-> <<>>, cursor |-> c]
    BY <1>4 DEF input_events_read_from
  <2>2. m = 0
    BY <1>1, <1>2, <1>4, <1>0
  <2>3. SubSeq(q, s + 1, s + m) = <<>>
    BY <1>1, <1>0, <2>2, SubSeqEmpty
  <2>4. got.events = <<>> /\ got.cursor = c
    BY <2>1
  <2>5. got.events = SubSeq(q, s + 1, s + m)
    BY <2>3, <2>4, Zenon
  <2>6. got.cursor = IF m = 0 THEN c ELSE d + s + m
    BY <2>2, <2>4, Zenon
  <2>7. QED
    BY <2>5, <2>6, Zenon
<1>5. ASSUME max_events > 0, n = 0 PROVE Result
  <2>1. got = [events |-> <<>>, cursor |-> latest_sequence(k)]
    BY <1>5 DEF input_events_read_from, n
  <2>2. m = 0 /\ s = 0 /\ c = 0 /\ k.next_sequence = 1
    BY <1>0, <1>1, <1>2, <1>5
  <2>3. SubSeq(q, s + 1, s + m) = <<>>
    BY <1>1, <1>0, <2>2, SubSeqEmpty
  <2>4. latest_sequence(k) = c
    BY <2>2 DEF latest_sequence
  <2>5. got.events = <<>> /\ got.cursor = c
    BY <2>1, <2>4
  <2>6. got.events = SubSeq(q, s + 1, s + m)
    BY <2>3, <2>5, Zenon
  <2>7. got.cursor = IF m = 0 THEN c ELSE d + s + m
    BY <2>2, <2>5, Zenon
  <2>8. QED
    BY <2>6, <2>7, Zenon
<1>6. ASSUME max_events > 0, n > 0 PROVE Result
  <2> DEFINE from == ReadFrom(k, c)
             g == [i \in 0..n |-> [events |-> SubSeq(q, s + 1, e(i)),
                                   cursor |-> IF e(i) = s THEN c ELSE d + e(i)]]
  <2>1. got = EventsAfter(k, c, from, max_events)
    BY <1>0, <1>6 DEF input_events_read_from, n
  <2>2. \A i \in 1..n : q[i].sequence > from <=> i > s
    <3>1. q[1].sequence = d + 1
      BY <1>0, <1>3, <1>6
    <3>2. from = IF c < d THEN d ELSE c
      BY <1>0, <3>1 DEF ReadFrom, q
    <3> HIDE DEF from
    <3>3. QED
      BY <1>0, <1>1, <1>3, <3>2
  <2> HIDE DEF from
  <2>3. \A i \in 0..n : e(i) \in s..s + max_events
    BY <1>0, <1>1
  <2>4. \A i \in 0..n : e(i) \in s..n
    BY <1>0, <1>1
  <2>5. ASSUME NEW i \in 0..n
        PROVE  /\ SubSeq(q, s + 1, e(i)) \in Seq(Event)
               /\ Len(SubSeq(q, s + 1, e(i))) = e(i) - s
    <3>1. \A j \in s + 1..e(i) : q[j] \in Event
      <4>1. \A j \in s + 1..e(i) : j \in 1..Len(q)
        BY <1>0, <1>1, <1>3, <2>4
      <4>2. QED
        BY <1>3, <4>1, ElementOfSeq, Zenon
    <3>2. QED
      BY <1>0, <1>1, <2>4, <3>1, SubSeqProperties
  <2>6. ASSUME NEW i \in 0..n PROVE g[i] = EventsStep(k, c, from, max_events, g, i)
    <3>1. CASE i = 0
      <4>1. e(i) = s
        BY <1>0, <1>1, <3>1
      <4>2. SubSeq(q, s + 1, s) = <<>>
        BY <1>0, <1>1, SubSeqEmpty
      <4>3. QED
        BY <3>1, <4>1, <4>2, Zenon DEF EventsStep
    <3>2. CASE i # 0
      <4>0. i - 1 \in 0..n /\ i \in 1..n
        BY <1>0, <3>2
      <4>1. CASE s < i /\ i <= s + max_events
        <5>1. e(i) = i /\ e(i - 1) = i - 1
          BY <1>0, <1>1, <4>0, <4>1
        <5>2. /\ g[i - 1].events = SubSeq(q, s + 1, i - 1)
              /\ Len(g[i - 1].events) = i - 1 - s
          BY <2>5, <4>0, <5>1, Zenon
        <5>3. Len(g[i - 1].events) < max_events /\ q[i].sequence > from
          BY <1>0, <1>1, <2>2, <4>0, <4>1, <5>2
        <5>4. SubSeq(q, s + 1, i) = Append(SubSeq(q, s + 1, i - 1), q[i])
          <6>1. s + 1 \in 1..Len(q) /\ i \in s + 1..Len(q)
            BY <1>0, <1>1, <1>3, <4>0, <4>1
          <6>2. SubSeq(q, s + 1, i) = SubSeq(q, s + 1, i - 1) \o <<q[i]>>
            BY <1>3, <6>1, SubSeqRecursiveSecond, Zenon
          <6>3. SubSeq(q, s + 1, i - 1) \in Seq(Event) /\ q[i] \in Event
            BY <1>3, <2>5, <4>0, <5>1, ElementOfSeq, Zenon
          <6>4. QED
            BY <6>2, <6>3, AppendIsConcat, Zenon
        <5>5. g[i] = [events |-> SubSeq(q, s + 1, i), cursor |-> d + i]
          <6>1. e(i) # s
            BY <1>1, <4>1, <5>1
          <6> HIDE DEF e
          <6>2. g[i] = [events |-> SubSeq(q, s + 1, e(i)), cursor |-> d + e(i)]
            BY <6>1, Zenon
          <6>3. QED
            BY <5>1, <6>2, Zenon
        <5>6. q[i].sequence = d + i
          BY <1>3, <4>0, Zenon
        <5> HIDE DEF g
        <5>7. QED
          BY <3>2, <5>2, <5>3, <5>4, <5>5, <5>6, Zenon DEF EventsStep, q
      <4>2. CASE ~(s < i /\ i <= s + max_events)
        <5>1. e(i) = e(i - 1) /\ (i > s => e(i - 1) = s + max_events)
          BY <1>0, <1>1, <4>0, <4>2
        <5>2. g[i] = g[i - 1] /\ Len(g[i - 1].events) = e(i - 1) - s
          <6> HIDE DEF e
          <6>1. QED
            BY <2>5, <4>0, <5>1, Zenon
        <5>3. ~(Len(g[i - 1].events) < max_events /\ q[i].sequence > from)
          BY <1>0, <1>1, <2>2, <4>0, <5>1, <5>2
        <5> HIDE DEF g
        <5>4. QED
          BY <3>2, <5>2, <5>3, Zenon DEF EventsStep, q
      <4>3. QED
        BY <4>1, <4>2, Zenon
    <3>3. QED
      BY <3>1, <3>2, Zenon
  <2>7. g = [i \in 0..n |-> EventsStep(k, c, from, max_events, g, i)]
    <3>1. g = [i \in 0..n |-> g[i]]
      BY Zenon
    <3> HIDE DEF g
    <3>2. QED
      BY <2>6, <3>1, Zenon
  <2>8. got = g[n]
    <3> HIDE DEF g
    <3>1. QED
      BY <1>0, <2>1, <2>7, LoopIs, SMTT(40) DEF n
  <2>9. e(n) = s + m
    BY <1>0, <1>1, <1>2
  <2>10. e(n) = s <=> m = 0
    BY <1>0, <1>1, <1>2, <2>9
  <2>11. n \in 0..n
    BY <1>0
  <2> HIDE DEF e
  <2>12. got.events = SubSeq(q, s + 1, e(n)) /\ got.cursor = IF e(n) = s THEN c ELSE d + e(n)
    BY <2>8, <2>11
  <2>13. m \in Int /\ s \in Int
    BY <1>0, <1>1, <1>2
  <2>14. QED
    BY <1>0, <2>9, <2>10, <2>12, <2>13, SMTT(60)
<1>7. Result
  <2>1. max_events = 0 \/ (max_events > 0 /\ n = 0) \/ (max_events > 0 /\ n > 0)
    BY <1>0
  <2> HIDE DEF Result
  <2>2. QED
    BY <2>1, <1>4, <1>5, <1>6, Zenon
<1>8. m \in 0..max_events
  BY <1>0, <1>1, <1>2
<1>9. got.cursor \in 0..k.next_sequence - 1
  <2>1. m # 0 => d + s + m \in 0..k.next_sequence - 1
    BY <1>0, <1>1, <1>2 DEF d
  <2>2. QED
    BY <1>7, <2>1, Zenon
<1>10. got.events = SubSeq(Queued(k), Seen(k, c) + 1, Seen(k, c) + m)
  <2>1. got.events = SubSeq(q, s + 1, s + m)
    BY <1>7, Zenon
  <2>2. QED
    BY <2>1, Zenon DEF q, s
<1>11. got.cursor = IF m = 0 THEN c ELSE k.next_sequence - 1 - k.event_count + Seen(k, c) + m
  BY <1>7, Zenon DEF s, d, n
<1>12. QED
  BY <1>8, <1>9, <1>10, <1>11, Zenon DEF EventsRead

\* latest_sequence, while numbers start from one.
LEMMA LatestIs ==
  ASSUME NEW k, KeyboardOK(k) PROVE latest_sequence(k) = k.next_sequence - 1
  BY Zenon DEF latest_sequence, KeyboardOK, KeyboardState

-----------------------------------------------------------------------------
(* The probe of the session file *)

\* Opening the session file through descriptors of its own, the probe gets the
\* first one.
LEMMA ProbeOpens ==
  ASSUME NEW file, NEW flags \in SUBSET SupportedFlags,
         NEW opened, opened = vfs_open(vfs_init, file, SessionPath, flags)
  PROVE  /\ fd_slot(opened.result.value) = 0 /\ 0 \in Slots
         /\ opened.session = Truncated(file, flags)
         /\ DOMAIN opened.fs = Slots
         /\ opened.fs[0] = [used |-> TRUE, flags |-> flags, node |-> find_node(SessionPath),
                            offset |-> 0]
<1> DEFINE node == find_node(SessionPath)
           new == [used |-> TRUE, flags |-> flags, node |-> node, offset |-> 0]
           free == {slot \in Slots : ~vfs_init[slot].used}
<1>1. free = Slots /\ 0 \in Slots /\ DOMAIN vfs_init = Slots
  BY VfsAssumption, ProbeAssumption DEF vfs_init, FreeSlot, Slots
<1>2. Min(Slots) = 0
  <2>1. 0 \in Slots /\ \A y \in Slots : 0 <= y
    BY <1>1 DEF Slots
  <2>2. \A x \in Slots : (\A y \in Slots : x <= y) => x = 0
    BY <2>1 DEF Slots
  <2>3. Min(Slots) \in Slots /\ \A y \in Slots : Min(Slots) <= y
    BY <2>1, Zenon DEF Min
  <2>4. QED
    BY <2>2, <2>3, Zenon
<1>3. opened = OpenIn(vfs_init, Truncated(file, flags), node, flags)
  BY ProbeAssumption, Zenon DEF vfs_open
<1>4. opened = [fs |-> [vfs_init EXCEPT ![0] = new], session |-> Truncated(file, flags),
                result |-> Value(X86_64_VFS_FD_BASE + 0)]
  BY <1>1, <1>2, <1>3, Zenon DEF OpenIn
<1>5. fd_slot(X86_64_VFS_FD_BASE + 0) = 0
  BY <1>1, ProbeAssumption DEF fd_slot
<1>6. QED
  BY <1>1, <1>4, <1>5 DEF Value

\* The probe writes its three bytes, reads three bytes back and finds them.
LEMMA ProbeSucceeds ==
  ASSUME NEW file, DOMAIN file = {"data", "size"},
         DOMAIN file.data = 0..X86_64_VFS_RAM_FILE_BYTES - 1
  PROVE  session_storage_ready(file).ok
<1> DEFINE opened == vfs_open(vfs_init, file, SessionPath, SupportedFlags)
           written == WriteProbe(opened)
           again == vfs_open(vfs_init, written.session, SessionPath, OPEN_READ)
           emptied == [file EXCEPT !.size = 0]
<1>1. /\ fd_slot(opened.result.value) = 0 /\ 0 \in Slots
      /\ opened.session = emptied
      /\ opened.fs[0] = [used |-> TRUE, flags |-> SupportedFlags, node |-> find_node(SessionPath),
                         offset |-> 0]
  <2>1. SupportedFlags \in SUBSET SupportedFlags
    BY Zenon
  <2>2. Truncated(file, SupportedFlags) = emptied
    BY Zenon DEF Truncated, SupportedFlags
  <2>3. QED
    BY <2>1, <2>2, ProbeOpens
<1>2. /\ emptied.size = 0 /\ DOMAIN emptied.data = 0..X86_64_VFS_RAM_FILE_BYTES - 1
  BY Zenon
<1> HIDE DEF opened, emptied
<1>3. Min({3, X86_64_VFS_RAM_FILE_BYTES - 0}) = 3
  BY MinOfTwo, VfsAssumption, ProbeAssumption
<1>4. Max({0, 0 + 3}) = 3
  BY MaxOfTwo
<1>5. /\ written.result = Value(3)
      /\ written.session.size = 3
      /\ \A i \in 0..2 : written.session.data[i] = Ram[i]
  <2> DEFINE slot == fd_slot(opened.result.value)
             o == opened.fs[slot].offset
             bytes == IF o >= X86_64_VFS_RAM_FILE_BYTES THEN 0
                      ELSE Min({3, X86_64_VFS_RAM_FILE_BYTES - o})
             data == [i \in DOMAIN emptied.data |->
                        IF i \in o..(o + bytes - 1) THEN Ram[i - o] ELSE emptied.data[i]]
             size == IF bytes > 0 THEN Max({emptied.size, o + bytes}) ELSE emptied.size
  <2>1. IsOpen(opened.fs, opened.result.value)
    BY <1>1 DEF IsOpen
  <2>2. "WRITE" \in opened.fs[slot].flags /\ is_session_storage_node(opened.fs[slot].node)
    BY <1>1, ProbeAssumption DEF SupportedFlags
  <2>3. o = 0 /\ bytes = 3
    BY <1>1, <1>3, VfsAssumption, ProbeAssumption
  <2>4. written.result = Value(bytes) /\ written.session = [data |-> data, size |-> size]
    BY <1>1, <2>1, <2>2 DEF WriteProbe, vfs_write, KernelBuffer, NULL
  <2>5. \A i \in 0..2 : i \in DOMAIN emptied.data /\ i - 0 = i
    BY <1>2, VfsAssumption, ProbeAssumption
  <2> HIDE DEF bytes, o
  <2>6. \A i \in 0..2 : data[i] = Ram[i]
    BY <2>3, <2>5
  <2>7. size = 3
    BY <1>2, <1>4, <2>3
  <2> HIDE DEF data, size
  <2>8. QED
    BY <2>3, <2>4, <2>6, <2>7
<1> HIDE DEF written
<1>6. /\ fd_slot(again.result.value) = 0
      /\ again.fs[0] = [used |-> TRUE, flags |-> OPEN_READ, node |-> find_node(SessionPath),
                        offset |-> 0]
  <2>1. OPEN_READ \in SUBSET SupportedFlags
    BY Zenon DEF OPEN_READ
  <2>2. QED
    BY <2>1, ProbeOpens, Zenon
<1> HIDE DEF again
<1>7. ReadProbe(written, again) = Value(3)
  <2>1. IsOpen(again.fs, again.result.value)
    BY <1>1, <1>6 DEF IsOpen
  <2>2. node_size(written.session, again.fs[0].node) = 3
    BY <1>5, <1>6, ProbeAssumption DEF node_size
  <2>3. Min({3, 3 - 0}) = 3
    BY MinOfTwo
  <2>4. BytesRead(again.fs, written.session, again.result.value, 3) = 3
    <3> DEFINE open == again.fs[fd_slot(again.result.value)]
    <3>1. open.offset = 0 /\ node_size(written.session, open.node) = 3
      BY <1>6, <2>2
    <3> HIDE DEF open
    <3>2. QED
      BY <2>3, <3>1 DEF BytesRead, open
  <2>5. QED
    BY <2>1, <2>4 DEF ReadProbe, vfs_read, KernelBuffer, NULL
<1>8. QED
  BY <1>5, <1>7, Zenon DEF session_storage_ready, ProbeDone, ProbeWritten, ProbeRead, written, again, opened

-----------------------------------------------------------------------------
(* The loader *)

\* What the quotient of two numbers is.
LEMMA Quotient ==
  ASSUME NEW a \in Nat, NEW p \in Nat \ {0}
  PROVE  a \div p \in Nat /\ p * (a \div p) <= a /\ a < p * (a \div p) + p
OBVIOUS

\* Multiples of p less than p apart are in order.
LEMMA Multiples ==
  ASSUME NEW p \in Nat \ {0}, NEW x \in Int, NEW y \in Int, p * x < p * y + p
  PROVE  x <= y
<1>1. SUFFICES ASSUME x >= y + 1 PROVE FALSE
  OBVIOUS
<1>2. p * x >= p * (y + 1)
  BY <1>1
<1>3. p * (y + 1) = p * y + p
  OBVIOUS
<1>4. QED
  BY <1>2, <1>3

\* The pages counted for b bytes hold them, up to the page of any byte before
\* the end, and are no more than m when m pages hold them.
LEMMA PagesHold ==
  ASSUME NEW b \in Nat
  PROVE  /\ Pages(b) \in Nat
         /\ b <= Pages(b) * X86_64_USER_PAGE_BYTES
         /\ \A a \in Nat : a < b => a \div X86_64_USER_PAGE_BYTES \in 0..Pages(b) - 1
         /\ \A m \in Nat : b <= m * X86_64_USER_PAGE_BYTES => Pages(b) <= m
<1> DEFINE p == X86_64_USER_PAGE_BYTES
           q == Pages(b)
<1>0. p \in Nat \ {0}
  BY LoaderAssumption, Zenon
<1>1. q \in Nat /\ p * q <= b + p - 1 /\ b + p - 1 < p * q + p
  BY <1>0, Quotient DEF Pages
<1> HIDE DEF p, q
<1>2. q * p = p * q /\ b <= p * q
  BY <1>0, <1>1
<1>3. ASSUME NEW a \in Nat, a < b PROVE a \div p \in 0..q - 1
  <2> DEFINE r == a \div p
  <2>1. r \in Nat /\ p * r <= a
    BY <1>0, Quotient, Zenon
  <2> HIDE DEF r
  <2>2. q - 1 \in Int /\ p * r < p * (q - 1) + p
    BY <1>0, <1>1, <1>2, <1>3, <2>1
  <2>3. r <= q - 1
    BY <1>0, <2>1, <2>2, Multiples
  <2>4. QED
    BY <1>1, <2>1, <2>3 DEF r
<1>4. ASSUME NEW m \in Nat, b <= m * p PROVE q <= m
  <2>1. m * p = p * m /\ p * m \in Nat
    BY <1>0
  <2>2. p * q < p * m + p
    BY <1>0, <1>1, <1>4, <2>1
  <2>3. QED
    BY <1>0, <1>1, <2>2, Multiples
<1>5. QED
  BY <1>1, <1>2, <1>3, <1>4, Zenon DEF p, q

\* The loop of the loader is a sequence of turns.
Turns(after, start, image) ==
  after = [i \in 0..Len(image.segments) |->
             IF i = 0 THEN [ok |-> TRUE, staging |-> start]
             ELSE StageNext(after[i - 1], image, image.segments[i])]

\* There is such a sequence, and StageSegments is its end.
LEMMA LoaderLoop ==
  ASSUME NEW start, NEW image, Len(image.segments) \in Nat
  PROVE  \E after : /\ Turns(after, start, image)
                    /\ StageSegments(start, image) = after[Len(image.segments)]
<1> DEFINE n == Len(image.segments)
           To(m, f) == f = [i \in 0..m |->
                              IF i = 0 THEN [ok |-> TRUE, staging |-> start]
                              ELSE StageNext(f[i - 1], image, image.segments[i])]
           Bad == {m \in 0..n : ~\E f : To(m, f)}
<1>1. Bad = {}
  <2> SUFFICES ASSUME Bad # {} PROVE FALSE
    BY Zenon
  <2>1. PICK m \in Bad : \A k \in Bad : m <= k
    <3>1. Bad \subseteq Nat
      OBVIOUS
    <3> HIDE DEF Bad
    <3>2. QED
      BY <3>1, LeastNumber, Zenon
  <2>2. m \in 0..n /\ ~\E f : To(m, f)
    BY Zenon
  <2>3. CASE m = 0
    <3>1. To(m, [i \in 0..0 |-> [ok |-> TRUE, staging |-> start]])
      BY <2>3
    <3>2. QED
      BY <2>2, <3>1, Zenon
  <2>4. CASE m # 0
    <3>1. m - 1 \in 0..n /\ m - 1 \notin Bad
      <4> HIDE DEF Bad, To
      <4>1. m \in Nat /\ m - 1 \in 0..n /\ ~(m <= m - 1)
        BY <2>2, <2>4
      <4>2. QED
        BY <2>1, <4>1, Zenon
    <3>2. PICK f : To(m - 1, f)
      BY <3>1, Zenon
    <3> DEFINE g == [i \in 0..m |-> IF i = m THEN StageNext(f[m - 1], image, image.segments[m])
                                    ELSE f[i]]
    <3>3. \A i \in 0..m : g[i] = IF i = 0 THEN [ok |-> TRUE, staging |-> start]
                                 ELSE StageNext(g[i - 1], image, image.segments[i])
      <4>1. \A i \in 0..m : i # 0 => g[i - 1] = f[i - 1]
        BY <2>2
      <4>2. \A i \in 0..m - 1 : f[i] = IF i = 0 THEN [ok |-> TRUE, staging |-> start]
                                       ELSE StageNext(f[i - 1], image, image.segments[i])
        BY <3>2, Zenon
      <4>3. \A i \in 0..m : g[i] = IF i = m THEN StageNext(f[m - 1], image, image.segments[m])
                                   ELSE f[i]
        BY Zenon
      <4>4. \A i \in 0..m : i = m \/ i \in 0..m - 1
        BY <2>2
      <4> HIDE DEF g
      <4>5. QED
        BY <2>2, <2>4, <4>1, <4>2, <4>3, <4>4, Zenon
    <3>4. To(m, g)
      <4>1. g = [i \in 0..m |-> g[i]]
        BY Zenon
      <4> HIDE DEF g
      <4>2. QED
        BY <3>3, <4>1, Zenon
    <3>5. QED
      BY <2>2, <3>4, Zenon
  <2>5. QED
    BY <2>3, <2>4, Zenon
<1>2. \E f : To(n, f)
  <2>1. n \in 0..n
    OBVIOUS
  <2>2. QED
    BY <1>1, <2>1, Zenon
<1> DEFINE after == CHOOSE f : To(n, f)
<1>3. To(n, after)
  BY <1>2, Zenon
<1>4. StageSegments(start, image) = after[n]
  BY Zenon DEF StageSegments
<1> HIDE DEF after
<1>5. Turns(after, start, image)
  BY <1>3, Zenon DEF Turns
<1>6. QED
  BY <1>4, <1>5, Zenon

\* The fields of the staging area.
StagingFields == {"pages", "writable", "bytes", "page_count", "entry", "loaded"}

\* The image has a byte of this segment at offset o.
Covers(segment, o) ==
  /\ ~Skipped(segment)
  /\ X86_64_USER_CODE_BASE + o \in segment.address..(segment.address + segment.file_size - 1)

\* Where the segment ends among the staged bytes.
EndOf(segment) == segment.address - X86_64_USER_CODE_BASE + segment.memory_size

\* The staging area while i segments were read and none was refused.
Staged(staging, image, i) ==
  /\ DOMAIN staging.pages = DOMAIN EmptyPages
  /\ \A o \in DOMAIN staging.pages :
       staging.pages[o] = IF \E j \in 1..i : Covers(image.segments[j], o)
                          THEN image.name ELSE Zero
  /\ \A j \in 1..i : ~Skipped(image.segments[j]) =>
       /\ image.segments[j].address >= X86_64_USER_CODE_BASE
       /\ EndOf(image.segments[j]) <= staging.bytes
  /\ staging.writable \subseteq 0..Pages(staging.bytes) - 1

\* The loader's state between two segments.
LoadingOK(so_far, image, i) ==
  /\ DOMAIN so_far = {"ok", "staging"}
  /\ DOMAIN so_far.staging = StagingFields
  /\ so_far.staging.loaded = FALSE
  /\ so_far.staging.bytes \in 0..X86_64_USER_IMAGE_MAX_BYTES
  /\ so_far.ok => Staged(so_far.staging, image, i)

\* The numbers of a segment.
LEMMA SegmentTypes ==
  ASSUME NEW segment \in Segments
  PROVE  /\ segment.address \in 0..AddressSpace - 1 /\ segment.address \in Nat
         /\ segment.memory_size \in 0..AddressSpace - 1 /\ segment.memory_size \in Nat
         /\ segment.file_size \in Nat
         /\ EndOf(segment) \in Int
  BY LoaderAssumption DEF Segments, EndOf

\* Two ways to say that offset o lies in the f bytes from address a on.
LEMMA OffsetOrAddress ==
  ASSUME NEW base \in Nat, NEW a \in Nat, a - base \in Nat, NEW f \in Nat, NEW o \in Nat
  PROVE  base + o \in a..(a + f - 1) <=> o \in (a - base)..((a - base) + f - 1)
  OBVIOUS

\* The end of a segment the loader accepts did not wrap around the address
\* space, and is within the pages.
LEMMA SegmentFits ==
  ASSUME NEW segment \in Segments, NEW size, ~Skipped(segment), segment_ok(segment, size)
  PROVE  /\ segment.address - X86_64_USER_CODE_BASE \in Nat
         /\ segment.memory_size \in Nat \ {0}
         /\ segment.file_size \in Nat /\ segment.file_size <= segment.memory_size
         /\ EndOf(segment) \in 1..X86_64_USER_IMAGE_MAX_BYTES
<1> DEFINE a == segment.address
           m == segment.memory_size
           end == (a + m) % AddressSpace
<1>1. /\ a \in 0..AddressSpace - 1 /\ m \in 0..AddressSpace - 1
      /\ segment.file_size \in Nat
  BY SegmentTypes, Zenon
<1>2. m # 0 /\ end >= a /\ a >= X86_64_USER_CODE_BASE /\ segment.file_size <= m
  BY Zenon DEF Skipped, segment_ok
<1>3. end <= X86_64_USER_CODE_BASE + X86_64_USER_IMAGE_MAX_BYTES
  BY Zenon DEF segment_ok
<1>4. X86_64_USER_IMAGE_MAX_BYTES \in Nat
  BY LoaderAssumption DEF X86_64_USER_IMAGE_MAX_BYTES
<1> HIDE DEF a, m
<1>5. end = IF a + m < AddressSpace THEN a + m ELSE a + m - AddressSpace
  BY <1>1, LoaderAssumption
<1>6. end = a + m
  BY <1>1, <1>2, <1>5, LoaderAssumption
<1> HIDE DEF end
<1>7. QED
  BY <1>1, <1>2, <1>3, <1>4, <1>6, LoaderAssumption DEF EndOf, a, m

\* Staging one more segment puts its bytes, and only its bytes, in the pages.
LEMMA SegmentStaged ==
  ASSUME NEW image, image.segments \in Seq(Segments), NEW i \in 1..Len(image.segments),
         NEW s, DOMAIN s = StagingFields, s.bytes \in 0..X86_64_USER_IMAGE_MAX_BYTES,
         Staged(s, image, i - 1),
         NEW segment, segment = image.segments[i],
         ~Skipped(segment), segment_ok(segment, image.size),
         NEW n, n = StageSegment(s, image, segment)
  PROVE  /\ DOMAIN n = StagingFields /\ n.loaded = s.loaded
         /\ n.bytes \in 0..X86_64_USER_IMAGE_MAX_BYTES
         /\ Staged(n, image, i)
<1> DEFINE offset == segment.address - X86_64_USER_CODE_BASE
           first == offset \div X86_64_USER_PAGE_BYTES
           end == offset + segment.memory_size
           last == (offset + segment.memory_size - 1) \div X86_64_USER_PAGE_BYTES
<1>0. segment \in Segments
  OBVIOUS
<1>1. /\ offset \in Nat /\ segment.memory_size \in Nat \ {0}
      /\ segment.file_size \in Nat /\ segment.file_size <= segment.memory_size
      /\ end \in 1..X86_64_USER_IMAGE_MAX_BYTES
  BY <1>0, SegmentFits, Zenon DEF EndOf
<1>2. /\ DOMAIN n = StagingFields /\ n.loaded = s.loaded
      /\ n.writable = IF "W" \in segment.flags THEN s.writable \cup (first..last) ELSE s.writable
      /\ n.bytes = Max({s.bytes, end})
      /\ n.pages = [o \in DOMAIN s.pages |->
                      IF o \in offset..(offset + segment.file_size - 1) THEN image.name
                      ELSE s.pages[o]]
  BY Zenon DEF StageSegment, StagingFields
<1>3. X86_64_USER_IMAGE_MAX_BYTES \in Nat
  BY LoaderAssumption DEF X86_64_USER_IMAGE_MAX_BYTES
<1>4. /\ n.bytes \in 0..X86_64_USER_IMAGE_MAX_BYTES
      /\ n.bytes >= s.bytes /\ n.bytes >= end
  <2>1. n.bytes = IF s.bytes >= end THEN s.bytes ELSE end
    <3>1. s.bytes \in Nat /\ end \in Nat
      BY <1>1, <1>3
    <3> HIDE DEF end
    <3>2. QED
      BY <1>2, <3>1, MaxOfTwo, Zenon
  <2>2. QED
    BY <1>1, <1>3, <2>1
<1>5. ASSUME NEW o \in DOMAIN n.pages
      PROVE  n.pages[o] = IF \E j \in 1..i : Covers(image.segments[j], o)
                          THEN image.name ELSE Zero
  <2>1. o \in DOMAIN s.pages /\ o \in Nat
    BY <1>2, <1>3, SMTT(120) DEF Staged, EmptyPages
  <2>2. Covers(segment, o) <=> o \in offset..(offset + segment.file_size - 1)
    <3>1. segment.address \in Nat
      BY <1>0, SegmentTypes, Zenon
    <3>2. X86_64_USER_CODE_BASE + o \in segment.address..(segment.address + segment.file_size - 1)
          <=> o \in offset..(offset + segment.file_size - 1)
      BY <1>1, <2>1, <3>1, OffsetOrAddress, LoaderAssumption, Zenon
    <3>3. QED
      BY <3>2, Zenon DEF Covers
  <2>3. (\E j \in 1..i : Covers(image.segments[j], o)) <=>
        (Covers(segment, o) \/ \E j \in 1..i - 1 : Covers(image.segments[j], o))
    <3>1. \A j \in 1..i : j = i \/ j \in 1..i - 1
      OBVIOUS
    <3>2. i \in 1..i /\ \A j \in 1..i - 1 : j \in 1..i
      OBVIOUS
    <3>3. QED
      BY <3>1, <3>2, Zenon
  <2>4. QED
    BY <1>2, <2>1, <2>2, <2>3, Zenon DEF Staged
<1>6. ASSUME NEW j \in 1..i, ~Skipped(image.segments[j])
      PROVE  /\ image.segments[j].address >= X86_64_USER_CODE_BASE
             /\ EndOf(image.segments[j]) <= n.bytes
  <2>1. CASE j = i
    BY <1>1, <1>4, <2>1, Zenon DEF EndOf, segment_ok
  <2>2. CASE j # i
    <3>1. j \in 1..i - 1
      BY <2>2
    <3>2. /\ image.segments[j].address >= X86_64_USER_CODE_BASE
          /\ EndOf(image.segments[j]) <= s.bytes
      BY <1>6, <3>1, Zenon DEF Staged
    <3>3. EndOf(image.segments[j]) \in Int
      <4>1. image.segments[j] \in Segments
        OBVIOUS
      <4>2. QED
        BY <4>1, SegmentTypes, Zenon
    <3>4. QED
      BY <1>3, <1>4, <3>2, <3>3
  <2>3. QED
    BY <2>1, <2>2, Zenon
<1>7. n.writable \subseteq 0..Pages(n.bytes) - 1
  <2>1. n.bytes \in Nat /\ s.bytes \in Nat /\ Pages(n.bytes) \in Nat /\ Pages(s.bytes) \in Nat
    <3>1. n.bytes \in Nat /\ s.bytes \in Nat
      BY <1>3, <1>4
    <3>2. QED
      BY <3>1, PagesHold, Zenon
  <2>2. Pages(s.bytes) <= Pages(n.bytes)
    <3>1. s.bytes <= Pages(n.bytes) * X86_64_USER_PAGE_BYTES
      <4> DEFINE x == Pages(n.bytes) * X86_64_USER_PAGE_BYTES
      <4>1. x \in Nat /\ n.bytes <= x
        <5>1. n.bytes <= x
          BY <2>1, PagesHold, Zenon
        <5>2. X86_64_USER_PAGE_BYTES \in Nat
          BY LoaderAssumption, Zenon
        <5> HIDE DEF x
        <5>3. x \in Nat
          BY <2>1, <5>2 DEF x
        <5>4. QED
          BY <5>1, <5>3, Zenon
      <4> HIDE DEF x
      <4>2. s.bytes <= x
        BY <1>4, <2>1, <4>1
      <4>3. QED
        BY <4>2, Zenon DEF x
    <3>2. QED
      BY <2>1, <3>1, PagesHold, Zenon
  <2>3. first \in Nat /\ last \in 0..Pages(n.bytes) - 1
    <3> DEFINE x == offset + segment.memory_size - 1
    <3>0. \A a \in Nat, m \in Nat \ {0}, b \in Nat :
            b >= a + m => a + m - 1 \in Nat /\ a + m - 1 < b
      OBVIOUS
    <3>1. x \in Nat /\ x < n.bytes
      <4> HIDE DEF offset
      <4>1. offset \in Nat /\ segment.memory_size \in Nat \ {0} /\ n.bytes >= end
        BY <1>1, <1>4, Zenon
      <4>2. QED
        BY <2>1, <3>0, <4>1, Zenon
    <3>2. first \in Nat
      BY <1>1, Quotient, LoaderAssumption, SMTT(40)
    <3> HIDE DEF x
    <3>3. x \div X86_64_USER_PAGE_BYTES \in 0..Pages(n.bytes) - 1
      BY <2>1, <3>1, PagesHold, Zenon
    <3>4. QED
      BY <3>2, <3>3, Zenon DEF x
  <2> HIDE DEF first, last
  <2>4. s.writable \subseteq 0..Pages(s.bytes) - 1
    BY Zenon DEF Staged
  <2>5. QED
    BY <1>2, <2>1, <2>2, <2>3, <2>4, SMTT(60)
<1>8. DOMAIN n.pages = DOMAIN EmptyPages
  BY <1>2, Zenon DEF Staged
<1>9. Staged(n, image, i)
  BY <1>5, <1>6, <1>7, <1>8, ZenonT(40) DEF Staged
<1>10. QED
  BY <1>2, <1>4, <1>9, Zenon

\* A turn of the loader's loop, whether it skips, refuses or stages its segment.
LEMMA TurnOK ==
  ASSUME NEW image, image.segments \in Seq(Segments), NEW i \in 1..Len(image.segments),
         NEW a, LoadingOK(a, image, i - 1),
         NEW b, b = StageNext(a, image, image.segments[i])
  PROVE  LoadingOK(b, image, i)
<1> DEFINE segment == image.segments[i]
<1>1. CASE ~a.ok
  <2>1. b = a
    BY <1>1, Zenon DEF StageNext
  <2>2. QED
    BY <1>1, <2>1, Zenon DEF LoadingOK
<1>2. CASE a.ok /\ Skipped(segment)
  <2>1. b = a
    BY <1>2, Zenon DEF StageNext
  <2>2. \A j \in 1..i : j \in 1..i - 1 \/ j = i
    OBVIOUS
  <2>3. \A o : (\E j \in 1..i : Covers(image.segments[j], o)) <=>
              (\E j \in 1..i - 1 : Covers(image.segments[j], o))
    <3>1. \A o : ~Covers(segment, o)
      BY <1>2, Zenon DEF Covers
    <3>2. \A j \in 1..i - 1 : j \in 1..i
      OBVIOUS
    <3>3. QED
      BY <2>2, <3>1, <3>2, Zenon
  <2>4. Staged(a.staging, image, i - 1)
    BY <1>2, Zenon DEF LoadingOK
  <2>5. \A j \in 1..i : ~Skipped(image.segments[j]) => j \in 1..i - 1
    BY <1>2, <2>2, Zenon
  <2>6. Staged(a.staging, image, i)
    BY <2>3, <2>4, <2>5, Zenon DEF Staged
  <2>7. QED
    BY <2>1, <2>6, Zenon DEF LoadingOK
<1>3. CASE a.ok /\ ~Skipped(segment) /\ ~segment_ok(segment, image.size)
  <2>1. b = [a EXCEPT !.ok = FALSE]
    BY <1>3, Zenon DEF StageNext
  <2>2. b.ok = FALSE /\ b.staging = a.staging /\ DOMAIN b = DOMAIN a
    BY <2>1, Zenon DEF LoadingOK
  <2>3. QED
    BY <2>2, Zenon DEF LoadingOK
<1>4. CASE a.ok /\ ~Skipped(segment) /\ segment_ok(segment, image.size)
  <2> DEFINE n == StageSegment(a.staging, image, segment)
  <2>1. b = [a EXCEPT !.staging = StageSegment(@, image, segment)]
    BY <1>4, Zenon DEF StageNext
  <2>2. b.ok = a.ok /\ b.staging = n /\ DOMAIN b = DOMAIN a
    BY <2>1, Zenon DEF LoadingOK
  <2>3. /\ DOMAIN n = StagingFields /\ n.loaded = a.staging.loaded
        /\ n.bytes \in 0..X86_64_USER_IMAGE_MAX_BYTES
        /\ Staged(n, image, i)
    BY <1>4, SegmentStaged, Zenon DEF LoadingOK
  <2> HIDE DEF n
  <2>4. QED
    BY <2>2, <2>3, Zenon DEF LoadingOK
<1>5. QED
  BY <1>1, <1>2, <1>3, <1>4, Zenon

\* What the loop leaves, when it starts from cleared pages.
LEMMA LoopLoads ==
  ASSUME NEW image, image.segments \in Seq(Segments), NEW staging, staging.loaded = FALSE
  PROVE  LoadingOK(StageSegments(clear_user_image_pages(staging), image), image,
                   Len(image.segments))
<1> DEFINE n == Len(image.segments)
           start == clear_user_image_pages(staging)
<1>0. n \in Nat
  OBVIOUS
<1>1. PICK after : Turns(after, start, image) /\ StageSegments(start, image) = after[n]
  BY <1>0, LoaderLoop, Zenon
<1>2. LoadingOK(after[0], image, 0)
  <2>1. after[0] = [ok |-> TRUE, staging |-> start]
    BY <1>0, <1>1 DEF Turns
  <2>2. /\ DOMAIN start = StagingFields /\ start.loaded = FALSE
        /\ start.bytes = 0 /\ start.writable = {} /\ start.pages = EmptyPages
    BY Zenon DEF clear_user_image_pages, StagingFields
  <2>3. X86_64_USER_IMAGE_MAX_BYTES \in Nat
    BY LoaderAssumption DEF X86_64_USER_IMAGE_MAX_BYTES
  <2> HIDE DEF start
  <2>4. \A o \in DOMAIN start.pages : start.pages[o] = Zero
    BY <2>2, Zenon DEF EmptyPages
  <2>5. Staged(start, image, 0)
    BY <2>2, <2>4 DEF Staged
  <2>6. QED
    BY <2>1, <2>2, <2>3, <2>5 DEF LoadingOK
<1>3. \A i \in 1..n : LoadingOK(after[i - 1], image, i - 1) => LoadingOK(after[i], image, i)
  <2>1. \A i \in 1..n : after[i] = StageNext(after[i - 1], image, image.segments[i])
    <3>1. \A i \in 0..n : after[i] = IF i = 0 THEN [ok |-> TRUE, staging |-> start]
                                    ELSE StageNext(after[i - 1], image, image.segments[i])
      BY <1>1, Zenon DEF Turns
    <3>2. \A i \in 1..n : i \in 0..n /\ i # 0
      BY <1>0
    <3> HIDE DEF start, n
    <3>3. QED
      BY <3>1, <3>2, Zenon
  <2>2. QED
    BY <2>1, TurnOK, Zenon
<1> DEFINE Bad == {i \in 0..n : ~LoadingOK(after[i], image, i)}
<1>4. Bad = {}
  <2> SUFFICES ASSUME Bad # {} PROVE FALSE
    BY Zenon
  <2>1. PICK m \in Bad : \A k \in Bad : m <= k
    <3>1. Bad \subseteq Nat
      OBVIOUS
    <3> HIDE DEF Bad
    <3>2. QED
      BY <3>1, LeastNumber, Zenon
  <2>2. m \in 1..n
    BY <1>0, <1>2
  <2>3. m - 1 \in 0..n /\ m - 1 \notin Bad
    BY <2>1, <2>2
  <2>4. QED
    BY <1>3, <2>2, <2>3, Zenon
<1>5. n \in 0..n
  BY <1>0
<1>6. QED
  BY <1>1, <1>4, <1>5, Zenon

\* The staging area holds this image, all of it and nothing else.
LoadedFrom(staging, image) ==
  /\ \A o \in DOMAIN staging.pages :
       staging.pages[o] = IF \E j \in DOMAIN image.segments : Covers(image.segments[j], o)
                          THEN image.name ELSE Zero
  /\ staging.entry = image.entry
  /\ staging.entry - X86_64_USER_CODE_BASE \in 0..staging.bytes - 1
  /\ staging.bytes <= staging.page_count * X86_64_USER_PAGE_BYTES
  /\ staging.page_count <= X86_64_USER_IMAGE_MAX_PAGES
  /\ staging.writable \subseteq 0..staging.page_count - 1

\* load_exec_elf marks the pages loaded only when they hold the image.
LEMMA LoadOK ==
  ASSUME NEW image, image.segments \in Seq(Segments),
         NEW staging, DOMAIN staging = StagingFields, staging.loaded = FALSE,
         NEW s, s = load_exec_elf(staging, image).staging
  PROVE  DOMAIN s = StagingFields /\ (s.loaded => LoadedFrom(s, image))
<1> DEFINE staged == StageSegments(clear_user_image_pages(staging), image)
           a == staged.staging
           n == Len(image.segments)
<1>1. LoadingOK(staged, image, n)
  BY LoopLoads, Zenon
<1> HIDE DEF staged
<1>2. /\ DOMAIN a = StagingFields /\ a.loaded = FALSE
      /\ a.bytes \in 0..X86_64_USER_IMAGE_MAX_BYTES
      /\ staged.ok => Staged(a, image, n)
  BY <1>1, Zenon DEF LoadingOK
<1>3. \/ s = staging
      \/ s = [a EXCEPT !.bytes = 0]
      \/ /\ staged.ok /\ entry_segment_seen(image)
         /\ s = [a EXCEPT !.entry = image.entry, !.page_count = Pages(a.bytes), !.loaded = TRUE]
  BY Zenon DEF load_exec_elf, staged
<1> HIDE DEF a
<1>4. CASE s = staging
  BY <1>4, Zenon
<1>5. CASE s = [a EXCEPT !.bytes = 0]
  BY <1>2, <1>5, Zenon DEF StagingFields
<1>6. CASE /\ staged.ok /\ entry_segment_seen(image)
           /\ s = [a EXCEPT !.entry = image.entry, !.page_count = Pages(a.bytes), !.loaded = TRUE]
  <2>1. /\ DOMAIN s = StagingFields
        /\ s.pages = a.pages /\ s.bytes = a.bytes /\ s.writable = a.writable
        /\ s.entry = image.entry /\ s.page_count = Pages(a.bytes)
    BY <1>2, <1>6, Zenon DEF StagingFields
  <2>2. Staged(a, image, n)
    BY <1>2, <1>6, Zenon
  <2>3. DOMAIN image.segments = 1..n /\ X86_64_USER_IMAGE_MAX_BYTES \in Nat
    BY LoaderAssumption DEF X86_64_USER_IMAGE_MAX_BYTES
  <2>4. a.bytes \in Nat
    BY <1>2, <2>3
  <2>5. /\ a.bytes <= Pages(a.bytes) * X86_64_USER_PAGE_BYTES
        /\ Pages(a.bytes) <= X86_64_USER_IMAGE_MAX_PAGES
    <3>1. a.bytes <= X86_64_USER_IMAGE_MAX_PAGES * X86_64_USER_PAGE_BYTES
      BY <1>2, <2>3 DEF X86_64_USER_IMAGE_MAX_BYTES
    <3>2. QED
      BY <2>4, <3>1, PagesHold, LoaderAssumption, Zenon
  <2>6. image.entry - X86_64_USER_CODE_BASE \in 0..a.bytes - 1
    <3>1. PICK i \in 1..n :
            /\ ~Skipped(image.segments[i])
            /\ image.entry \in image.segments[i].address
                             ..(image.segments[i].address + image.segments[i].memory_size - 1)
      BY <1>6, <2>3, Zenon DEF entry_segment_seen
    <3> DEFINE segment == image.segments[i]
    <3>2. segment.address \in Nat /\ segment.memory_size \in Nat
      <4>1. segment \in Segments
        OBVIOUS
      <4>2. QED
        BY <4>1, SegmentTypes, Zenon
    <3>3. segment.address >= X86_64_USER_CODE_BASE /\ EndOf(segment) <= a.bytes
      BY <2>2, <3>1, Zenon DEF Staged
    <3>4. image.entry \in segment.address..(segment.address + segment.memory_size - 1)
      BY <3>1, Zenon
    <3> HIDE DEF segment
    <3>5. \A base, x, m, b \in Nat : \A e \in x..(x + m - 1) :
            x >= base /\ x - base + m <= b => e - base \in 0..b - 1
      OBVIOUS
    <3>6. QED
      BY <2>4, <3>2, <3>3, <3>4, <3>5, LoaderAssumption, Zenon DEF EndOf
  <2>7. \A o \in DOMAIN a.pages :
          a.pages[o] = IF \E j \in DOMAIN image.segments : Covers(image.segments[j], o)
                       THEN image.name ELSE Zero
    BY <2>2, <2>3, Zenon DEF Staged
  <2>8. a.writable \subseteq 0..Pages(a.bytes) - 1
    BY <2>2, Zenon DEF Staged
  <2>9. LoadedFrom(s, image)
    BY <2>1, <2>5, <2>6, <2>7, <2>8, Zenon DEF LoadedFrom
  <2>10. QED
    BY <2>1, <2>9, Zenon
<1>7. QED
  BY <1>3, <1>4, <1>5, <1>6, Zenon
=============================================================================
