---------------------------- MODULE UserModeProofs ----------------------------
(***************************************************************************)
(* The invariants of ProcessTable, proved for tables, page stacks and      *)
(* status queues of every size: the operations on sequences of pages are   *)
(* dealt with first, and what is left of the steps is reasoning about      *)
(* sets.                                                                   *)
(*                                                                         *)
(* The kernel loop, the system calls and the shell keep to the process     *)
(* table's operations: UserMode implements TableSpec, so that what is      *)
(* proved of the table holds of it.  On top of that, the pid of the shell  *)
(* and the page tables in use are safe, every exit status is recorded once *)
(* and handed out as it was, the shell leaves nothing behind, and the      *)
(* window service is started once.                                         *)
(***************************************************************************)
EXTENDS UserMode, FiniteSetTheorems, TLAPS

-----------------------------------------------------------------------------
(* Sequences.                                                              *)

(* A sequence is a function on the numbers up to its length.               *)
LEMMA LenProperties ==
    ASSUME NEW S, NEW s \in Seq(S)
    PROVE  Len(s) \in Nat /\ DOMAIN s = 1 .. Len(s) /\ s \in [1 .. Len(s) -> S]
OBVIOUS

LEMMA ElementOfSeq ==
    ASSUME NEW S, NEW s \in Seq(S), NEW i \in 1 .. Len(s)
    PROVE  s[i] \in S
OBVIOUS

(* And every such function is one.                                         *)
LEMMA FunctionIsSeq ==
    ASSUME NEW S, NEW n \in Nat, NEW s \in [1 .. n -> S]
    PROVE  s \in Seq(S) /\ Len(s) = n
OBVIOUS

(* What Append, \o and SubSeq return.                                      *)
LEMMA AppendProperties ==
    ASSUME NEW S, NEW s \in Seq(S), NEW x \in S
    PROVE  /\ Append(s, x) \in Seq(S) /\ Len(Append(s, x)) = Len(s) + 1
           /\ Append(s, x)[Len(s) + 1] = x
           /\ \A i \in 1 .. Len(s) : Append(s, x)[i] = s[i]
OBVIOUS

LEMMA ConcatProperties ==
    ASSUME NEW S, NEW s \in Seq(S), NEW t \in Seq(S)
    PROVE  /\ s \o t \in Seq(S) /\ Len(s \o t) = Len(s) + Len(t)
           /\ \A i \in 1 .. Len(s) : (s \o t)[i] = s[i]
           /\ \A i \in 1 .. Len(t) : (s \o t)[Len(s) + i] = t[i]
OBVIOUS

LEMMA ConcatEmptySeq ==
    ASSUME NEW S, NEW s \in Seq(S)
    PROVE  <<>> \o s = s
OBVIOUS

LEMMA FrontProperties ==
    ASSUME NEW S, NEW s \in Seq(S), NEW n \in 0 .. Len(s)
    PROVE  /\ SubSeq(s, 1, n) \in Seq(S) /\ Len(SubSeq(s, 1, n)) = n
           /\ \A i \in 1 .. n : SubSeq(s, 1, n)[i] = s[i]
OBVIOUS

-----------------------------------------------------------------------------
(* Sequences of pages.                                                     *)

LEMMA PoppedFacts ==
    ASSUME NEW S, NEW s \in Seq(S), NEW n \in Nat, n <= Len(s)
    PROVE  /\ Popped(s, n) \in Seq(S)
           /\ Len(Popped(s, n)) = n
           /\ \A k \in 1 .. n : Popped(s, n)[k] = s[Len(s) + 1 - k]
<1>1. \A k \in 1 .. n : Len(s) + 1 - k \in 1 .. Len(s)
  BY LenProperties
<1>2. \A k \in 1 .. n : s[Len(s) + 1 - k] \in S
  BY <1>1, ElementOfSeq, Zenon
<1>3. Popped(s, n) \in [1 .. n -> S]
  BY <1>2, Zenon DEF Popped
<1>4. Popped(s, n) \in Seq(S)
  BY <1>3, FunctionIsSeq, Zenon
<1>5. Len(Popped(s, n)) = n
  BY <1>3, <1>4, LenProperties
<1>. QED BY <1>4, <1>5, Zenon DEF Popped

LEMMA LeftFacts ==
    ASSUME NEW S, NEW s \in Seq(S), NEW n \in Nat, n <= Len(s)
    PROVE  /\ Left(s, n) \in Seq(S)
           /\ Len(Left(s, n)) = Len(s) - n
           /\ \A k \in 1 .. Len(s) - n : Left(s, n)[k] = s[k]
<1>1. Len(s) - n \in Nat /\ Len(s) - n <= Len(s)
  BY LenProperties
<1>2. \A k \in 1 .. Len(s) - n : s[k] \in S
  BY <1>1, ElementOfSeq, LenProperties
<1>3. SubSeq(s, 1, Len(s) - n) \in Seq(S)
  BY <1>1, <1>2, FrontProperties
<1>. QED BY <1>1, <1>3, FrontProperties, LenProperties DEF Left

LEMMA ReleasedFacts ==
    ASSUME NEW S, NEW s \in Seq(S), NEW r \in Seq(S)
    PROVE  /\ Released(s, r) \in Seq(S)
           /\ Len(Released(s, r)) = Len(s) + Len(r)
           /\ \A k \in 1 .. Len(s) : Released(s, r)[k] = s[k]
           /\ \A k \in 1 .. Len(r) : Released(s, r)[Len(s) + k] = r[k]
BY ConcatProperties, LenProperties DEF Released

(* Pages popped come from the stack, those left stay there.                *)
LEMMA PopSplits ==
    ASSUME NEW s \in Seq(Pages), NoRepeats(s), NEW n \in Nat, n <= Len(s)
    PROVE  /\ NoRepeats(Popped(s, n))
           /\ NoRepeats(Left(s, n))
           /\ RangeOf(Popped(s, n)) \cap RangeOf(Left(s, n)) = {}
           /\ RangeOf(Popped(s, n)) \cup RangeOf(Left(s, n)) = RangeOf(s)
<1>. DEFINE p == Popped(s, n)
            l == Left(s, n)
            m == Len(s)
<1>1. Len(p) = n /\ \A k \in 1 .. n : p[k] = s[m + 1 - k]
  BY PoppedFacts, Zenon
<1>2. Len(l) = m - n /\ \A k \in 1 .. m - n : l[k] = s[k]
  BY LeftFacts, Zenon
<1>3. m \in Nat
  BY LenProperties, Zenon
<1>. HIDE DEF p, l, m
<1>4. \A j, k \in 1 .. m : s[j] = s[k] => j = k
  BY Zenon DEF NoRepeats, m
<1>5. NoRepeats(p)
  BY <1>1, <1>3, <1>4 DEF NoRepeats, m
<1>6. NoRepeats(l)
  BY <1>2, <1>3, <1>4 DEF NoRepeats
<1>7. RangeOf(p) \cap RangeOf(l) = {}
  <2>1. ASSUME NEW j \in 1 .. n, NEW k \in 1 .. m - n PROVE p[j] # l[k]
    <3>1. m + 1 - j \in 1 .. m /\ k \in 1 .. m /\ m + 1 - j # k
      BY <1>3, n <= m DEF m
    <3>. QED BY <1>1, <1>2, <1>4, <3>1, Zenon
  <2>. QED BY <1>1, <1>2, <2>1 DEF RangeOf
<1>8. RangeOf(p) \cup RangeOf(l) = RangeOf(s)
  <2>0. n <= m
    BY Zenon DEF m
  <2>1. ASSUME NEW k \in 1 .. m PROVE s[k] \in RangeOf(p) \cup RangeOf(l)
    <3>1. CASE k \in 1 .. m - n
      BY <1>2, <3>1, Zenon DEF RangeOf
    <3>2. CASE k \notin 1 .. m - n
      <4>1. m + 1 - k \in 1 .. n /\ m + 1 - (m + 1 - k) = k
        BY <1>3, <2>0, <3>2
      <4>2. p[m + 1 - k] = s[k]
        BY <1>1, <4>1, Zenon
      <4>. QED BY <1>1, <4>1, <4>2, Zenon DEF RangeOf
    <3>. QED BY <3>1, <3>2, Zenon
  <2>2. ASSUME NEW k \in 1 .. n PROVE p[k] \in {s[j] : j \in 1 .. m}
    <3>1. m + 1 - k \in 1 .. m
      BY <1>3, <2>0
    <3>. QED BY <1>1, <3>1, Zenon
  <2>3. ASSUME NEW k \in 1 .. m - n PROVE l[k] \in {s[j] : j \in 1 .. m}
    <3>1. k \in 1 .. m
      BY <1>3, <2>0
    <3>. QED BY <1>2, <3>1, Zenon
  <2>4. RangeOf(s) = {s[j] : j \in 1 .. m}
    BY Zenon DEF RangeOf, m
  <2>5. RangeOf(p) = {p[j] : j \in 1 .. n} /\ RangeOf(l) = {l[j] : j \in 1 .. m - n}
    BY <1>1, <1>2, Zenon DEF RangeOf
  <2>. QED BY <2>1, <2>2, <2>3, <2>4, <2>5, Zenon
<1>. QED BY <1>5, <1>6, <1>7, <1>8, Zenon DEF p, l

(* Pages released join those on the stack.                                 *)
LEMMA ReleaseJoins ==
    ASSUME NEW s \in Seq(Pages), NEW r \in Seq(Pages), NoRepeats(s), NoRepeats(r),
           RangeOf(s) \cap RangeOf(r) = {}
    PROVE  /\ NoRepeats(Released(s, r))
           /\ RangeOf(Released(s, r)) = RangeOf(s) \cup RangeOf(r)
<1>0. /\ Len(Released(s, r)) = Len(s) + Len(r)
      /\ \A k \in 1 .. Len(s) : Released(s, r)[k] = s[k]
      /\ \A k \in 1 .. Len(r) : Released(s, r)[Len(s) + k] = r[k]
  BY ConcatProperties, LenProperties DEF Released
<1>. DEFINE t == Released(s, r)
            m == Len(s)
            n == Len(r)
<1>1. /\ Len(t) = m + n
      /\ \A k \in 1 .. m : t[k] = s[k]
      /\ \A k \in 1 .. n : t[m + k] = r[k]
  BY <1>0, Zenon
<1>2. m \in Nat /\ n \in Nat
  BY LenProperties, Zenon
<1>3. \A j \in 1 .. m, k \in 1 .. n : s[j] # r[k]
  BY Zenon DEF RangeOf
<1>4. /\ \A j, k \in 1 .. m : s[j] = s[k] => j = k
      /\ \A j, k \in 1 .. n : r[j] = r[k] => j = k
  BY Zenon DEF NoRepeats
<1>5. RangeOf(s) = {s[k] : k \in 1 .. m} /\ RangeOf(r) = {r[k] : k \in 1 .. n}
  BY Zenon DEF RangeOf
<1>. HIDE DEF t, m, n
<1>6. ASSUME NEW k \in 1 .. m + n
      PROVE  k \in 1 .. m \/ (k - m \in 1 .. n /\ t[k] = r[k - m])
  <2>1. CASE k <= m
    BY <1>2, <2>1
  <2>2. CASE k > m
    <3>1. k - m \in 1 .. n /\ m + (k - m) = k
      BY <1>2, <2>2
    <3>. QED BY <1>1, <3>1, Zenon
  <2>. QED BY <1>2, <2>1, <2>2
<1>7. NoRepeats(t)
  <2>1. SUFFICES ASSUME NEW j \in 1 .. m + n, NEW k \in 1 .. m + n, t[j] = t[k]
                 PROVE  j = k
    BY <1>1, Zenon DEF NoRepeats
  <2>2. CASE j \in 1 .. m /\ k \in 1 .. m
    BY <1>1, <1>4, <2>1, <2>2, Zenon
  <2>3. CASE j \in 1 .. m /\ k \notin 1 .. m
    BY <1>1, <1>3, <1>6, <2>1, <2>3
  <2>4. CASE j \notin 1 .. m /\ k \in 1 .. m
    BY <1>1, <1>3, <1>6, <2>1, <2>4
  <2>5. CASE j \notin 1 .. m /\ k \notin 1 .. m
    <3>1. j - m \in 1 .. n /\ k - m \in 1 .. n /\ r[j - m] = r[k - m]
      BY <1>6, <2>1, <2>5, Zenon
    <3>2. j - m = k - m
      BY <1>4, <3>1, Zenon
    <3>. QED BY <1>2, <3>2
  <2>. QED BY <2>2, <2>3, <2>4, <2>5, Zenon
<1>8. RangeOf(t) = RangeOf(s) \cup RangeOf(r)
  <2>1. RangeOf(t) = {t[k] : k \in 1 .. m + n}
    BY <1>1, Zenon DEF RangeOf
  <2>2. ASSUME NEW k \in 1 .. m + n PROVE t[k] \in RangeOf(s) \cup RangeOf(r)
    BY <1>1, <1>5, <1>6, Zenon
  <2>3. ASSUME NEW k \in 1 .. m PROVE s[k] \in RangeOf(t)
    <3>1. k \in 1 .. m + n
      BY <1>2
    <3>. QED BY <1>1, <2>1, <3>1, Zenon
  <2>4. ASSUME NEW k \in 1 .. n PROVE r[k] \in RangeOf(t)
    <3>1. m + k \in 1 .. m + n
      BY <1>2
    <3>. QED BY <1>1, <2>1, <3>1, Zenon
  <2>. QED BY <1>5, <2>1, <2>2, <2>3, <2>4, ZenonT(30)
<1>. QED BY <1>7, <1>8, Zenon DEF t

(* When pages run out, all that were on the stack end up there again.      *)
LEMMA GivingAllBack ==
    ASSUME NEW s \in Seq(Pages), NoRepeats(s)
    PROVE  LET t == Released(<<>>, Popped(s, Len(s)))
           IN  t \in Seq(Pages) /\ NoRepeats(t) /\ RangeOf(t) = RangeOf(s)
<1>. DEFINE p == Popped(s, Len(s))
            e == <<>>
<1>1. Len(s) \in Nat /\ Len(s) <= Len(s)
  BY LenProperties
<1>2. p \in Seq(Pages) /\ NoRepeats(p)
  BY <1>1, PoppedFacts, PopSplits, Zenon
<1>3. RangeOf(p) \cup RangeOf(Left(s, Len(s))) = RangeOf(s) /\ RangeOf(Left(s, Len(s))) = {}
  <2>1. Len(Left(s, Len(s))) = 0
    BY <1>1, LeftFacts
  <2>2. RangeOf(Left(s, Len(s))) = {}
    BY <2>1 DEF RangeOf
  <2>. QED BY <1>1, <2>2, PopSplits, Zenon
<1>4. e \in Seq(Pages) /\ NoRepeats(e) /\ RangeOf(e) = {}
  BY DEF NoRepeats, RangeOf
<1>. HIDE DEF p, e
<1>5. Released(e, p) \in Seq(Pages)
  BY <1>2, <1>4, ReleasedFacts, Zenon
<1>6. NoRepeats(Released(e, p)) /\ RangeOf(Released(e, p)) = RangeOf(e) \cup RangeOf(p)
  BY <1>2, <1>4, ReleaseJoins, Zenon
<1>. QED BY <1>3, <1>4, <1>5, <1>6, Zenon DEF p, e

(* What remains of the status queue when one entry is taken out.           *)
LEMMA RemovedFacts ==
    ASSUME NEW S, NEW q \in Seq(S), NEW i \in 1 .. Len(q)
    PROVE  /\ Removed(q, i) \in Seq(S)
           /\ Len(Removed(q, i)) = Len(q) - 1
           /\ \A k \in 1 .. Len(q) - 1 :
                Removed(q, i)[k] = IF k < i THEN q[k] ELSE q[k + 1]
<1>1. Len(q) \in Nat /\ Len(q) - 1 \in Nat
  BY LenProperties
<1>2. \A k \in 1 .. Len(q) - 1 : q[k] \in S /\ q[k + 1] \in S
  BY <1>1, ElementOfSeq
<1>3. Removed(q, i) \in [1 .. Len(q) - 1 -> S]
  BY <1>2, Zenon DEF Removed
<1>4. Removed(q, i) \in Seq(S)
  BY <1>1, <1>3, FunctionIsSeq, Zenon
<1>5. Len(Removed(q, i)) = Len(q) - 1
  BY <1>1, <1>3, <1>4, LenProperties
<1>. QED BY <1>4, <1>5, Zenon DEF Removed

-----------------------------------------------------------------------------
(* Type correctness.                                                       *)

(* The entries of the table keep their type under the updates made.        *)
LEMMA ProcessUpdates ==
    /\ ClearedProcess \in Process
    /\ \A p \in Process, st \in States : [p EXCEPT !.state = st] \in Process
    /\ \A mode \in Modes, pid \in 0 .. MaxPid, image \in Images \cup {NoImage},
          pages \in Seq(Pages) :
          [state |-> "ready", mode |-> mode, pid |-> pid, image |-> image,
           pages |-> pages] \in Process
<1>1. ClearedProcess \in Process
  BY ProcessAssumption DEF ClearedProcess, Process, States, Modes, NoPid
<1>2. ASSUME NEW p \in Process, NEW st \in States
      PROVE  [p EXCEPT !.state = st] \in Process
  BY Zenon DEF Process
<1>3. "ready" \in States
  BY Zenon DEF States
<1>. QED BY <1>1, <1>2, <1>3, Zenon DEF Process

LEMMA StateUpdate ==
    ASSUME process_table \in [Slots -> Process], NEW i \in Slots, NEW st \in States
    PROVE  [process_table EXCEPT ![i].state = st] \in [Slots -> Process]
<1>1. [process_table[i] EXCEPT !.state = st] \in Process
  BY ProcessUpdates, Zenon
<1>. QED BY <1>1, Zenon

LEMMA AfterInTable == ASSUME NEW i \in Slots PROVE After(i) \in Slots
BY ProcessAssumption DEF After, Slots

LEMMA CreateType ==
    ASSUME TableTypeOK, NEW mode \in Modes, NEW image \in Images \cup {NoImage},
           create_process(mode, image)
    PROVE  TableTypeOK'
<1>1. /\ page_stack \in Seq(Pages) /\ next_pid \in Pids /\ Len(page_stack) \in Nat
      /\ process_table \in [Slots -> Process] /\ PROCESS_PAGES \in Nat /\ PROCESS_PAGES > 0
  BY ProcessAssumption, LenProperties DEF TableTypeOK, PROCESS_PAGES
<1>2. process_table' \in [Slots -> Process] /\ page_stack' \in Seq(Pages)
      /\ next_pid' \in Pids /\ last_user_cr3' \in Pages \cup {NoPage}
  <2>1. CASE UNCHANGED creation
    BY <2>1, Zenon DEF creation, TableTypeOK
  <2>2. CASE /\ page_stack' = Released(<<>>, Popped(page_stack, Len(page_stack)))
             /\ UNCHANGED <<process_table, next_pid, last_user_cr3>>
    <3>1. Len(page_stack) <= Len(page_stack)
      BY <1>1
    <3>2. Popped(page_stack, Len(page_stack)) \in Seq(Pages)
      BY <1>1, <3>1, PoppedFacts, Zenon
    <3>3. page_stack' \in Seq(Pages)
      BY <2>2, <3>2, ConcatProperties DEF Released
    <3>. QED BY <2>2, <3>3, Zenon DEF TableTypeOK
  <2>3. ASSUME Len(page_stack) >= PROCESS_PAGES, NEW i \in Slots,
               process_table' = [process_table EXCEPT ![i] =
                      [state |-> "ready", mode |-> mode, pid |-> next_pid,
                       image |-> image, pages |-> Popped(page_stack, PROCESS_PAGES)]],
               page_stack' = Left(page_stack, PROCESS_PAGES),
               next_pid' = NextPid, next_pid < MaxPid,
               last_user_cr3' = IF mode = "user" THEN page_stack[Len(page_stack)]
                                ELSE last_user_cr3
        PROVE  process_table' \in [Slots -> Process] /\ page_stack' \in Seq(Pages)
               /\ next_pid' \in Pids /\ last_user_cr3' \in Pages \cup {NoPage}
    <3>1. PROCESS_PAGES <= Len(page_stack)
      BY <1>1, <2>3, Zenon
    <3>2. Popped(page_stack, PROCESS_PAGES) \in Seq(Pages)
      BY <1>1, <3>1, PoppedFacts, Zenon
    <3>3. Left(page_stack, PROCESS_PAGES) \in Seq(Pages)
      BY <1>1, <3>1, LeftFacts, Zenon
    <3>4. next_pid \in 0 .. MaxPid /\ next_pid' \in Pids
      BY <1>1, <2>3, ProcessAssumption DEF Pids, NextPid
    <3>5. [state |-> "ready", mode |-> mode, pid |-> next_pid, image |-> image,
           pages |-> Popped(page_stack, PROCESS_PAGES)] \in Process
      BY <3>2, <3>4, ProcessUpdates, Zenon
    <3>6. process_table' \in [Slots -> Process]
      BY <1>1, <2>3, <3>5, Zenon
    <3>7. page_stack[Len(page_stack)] \in Pages
      BY <1>1, <3>1, ElementOfSeq
    <3>. QED BY <2>3, <3>3, <3>4, <3>6, <3>7, Zenon DEF TableTypeOK
  <2>. QED BY <2>1, <2>2, <2>3, Zenon DEF create_process
<1>. QED BY <1>2, Zenon DEF create_process, TableTypeOK, cursors, queue_vars

LEMMA TableTypeStep ==
    ASSUME TableTypeOK, [TableNext]_table_vars
    PROVE  TableTypeOK'
<1>0. process_table \in [Slots -> Process] /\ page_stack \in Seq(Pages)
      /\ child_status_queue \in Seq(Status) /\ last_wait \in [Pids -> Nat]
      /\ records \in Nat /\ drops \in Nat /\ waits \in Nat
  BY Zenon DEF TableTypeOK
<1>1. CASE create
  BY <1>1, CreateType, Zenon DEF create, Modes
<1>2. ASSUME NEW image \in Images, create_user_image(image) PROVE TableTypeOK'
  BY <1>2, CreateType, Zenon DEF create_user_image, Modes
<1>3. ASSUME NEW pid \in Pids, mark_user_exited(pid) PROVE TableTypeOK'
  <2>1. process_table' \in [Slots -> Process]
    BY <1>0, <1>3, StateUpdate, ZenonT(30) DEF mark_user_exited, States
  <2>. QED BY <1>3, <2>1, Zenon DEF mark_user_exited, TableTypeOK, cursors, queue_vars
<1>4. ASSUME NEW pid \in Pids, reap_user(pid) PROVE TableTypeOK'
  <2>1. process_table' \in [Slots -> Process] /\ page_stack' \in Seq(Pages)
    <3>1. CASE UNCHANGED <<process_table, page_stack>>
      BY <1>0, <3>1, Zenon
    <3>2. ASSUME NEW i \in Slots,
                 process_table' = [process_table EXCEPT ![i] = ClearedProcess],
                 page_stack' = Released(page_stack, process_table[i].pages)
          PROVE  process_table' \in [Slots -> Process] /\ page_stack' \in Seq(Pages)
      <4>1. process_table' \in [Slots -> Process]
        BY <1>0, <3>2, ProcessUpdates, Zenon
      <4>2. process_table[i].pages \in Seq(Pages)
        BY <1>0, Zenon DEF Process
      <4>3. page_stack' \in Seq(Pages)
        BY <1>0, <3>2, <4>2, ConcatProperties, Zenon DEF Released
      <4>. QED BY <4>1, <4>3, Zenon
    <3>. QED BY <1>4, <3>1, <3>2, Zenon DEF reap_user
  <2>. QED BY <1>4, <2>1, Zenon DEF reap_user, TableTypeOK, cursors, queue_vars
<1>5. ASSUME NEW parent \in Clients, wait_child(parent) PROVE TableTypeOK'
  <2>1. CASE UNCHANGED <<child_status_queue, waits, last_wait>>
    BY <1>5, <2>1, Zenon DEF wait_child, TableTypeOK, creation, cursors
  <2>2. ASSUME NEW i \in 1 .. Len(child_status_queue), IsFirstOf(parent, i),
               child_status_queue' = Removed(child_status_queue, i),
               waits' = waits + 1,
               last_wait' = [last_wait EXCEPT ![parent] = child_status_queue[i].n]
        PROVE  TableTypeOK'
    <3>1. child_status_queue' \in Seq(Status)
      BY <1>0, <2>2, RemovedFacts, Zenon
    <3>2. child_status_queue[i] \in Status
      BY <1>0, ElementOfSeq, Zenon
    <3>3. child_status_queue[i].n \in Nat
      BY <3>2, Zenon DEF Status
    <3>4. last_wait' \in [Pids -> Nat] /\ waits' \in Nat
      <4>. DEFINE m == child_status_queue[i].n
      <4>1. m \in Nat /\ last_wait' = [last_wait EXCEPT ![parent] = m]
        BY <2>2, <3>3, Zenon
      <4>2. waits' \in Nat
        BY <1>0, <2>2
      <4>. HIDE DEF m
      <4>3. last_wait' \in [Pids -> Nat]
        BY <1>0, <4>1, Zenon
      <4>. QED BY <4>2, <4>3, Zenon
    <3>. QED BY <1>5, <3>1, <3>4, Zenon DEF wait_child, TableTypeOK, creation, cursors
  <2>. QED BY <1>5, <2>1, <2>2, Zenon DEF wait_child
<1>6. ASSUME NEW parent \in Clients, NEW child \in Clients, NEW code \in ExitCodes,
             record_child_exit(parent, child, code)
      PROVE  TableTypeOK'
  <2>1. CASE parent = NoPid \/ child = NoPid \/ parent = child
    BY <1>6, <2>1, Zenon DEF record_child_exit, TableTypeOK, creation, cursors
  <2>2. CASE ~(parent = NoPid \/ child = NoPid \/ parent = child)
    <3>. DEFINE rec == [parent |-> parent, child |-> child, code |-> code, n |-> records + 1]
    <3>1. parent \in Pids /\ child \in Pids
      BY <2>2, ProcessAssumption DEF Pids, NoPid
    <3>2. rec \in Status
      BY <1>0, <3>1 DEF Status
    <3>. HIDE DEF rec
    <3>3. full => Removed(child_status_queue, 1) \in Seq(Status)
      <4>1. full => 1 \in 1 .. Len(child_status_queue)
        BY <1>0, ProcessAssumption, LenProperties DEF full
      <4>. QED BY <1>0, <4>1, RemovedFacts, Zenon
    <3>4. child_status_queue' =
            Append(IF full THEN Removed(child_status_queue, 1) ELSE child_status_queue, rec)
      BY <1>6, <2>2, Zenon DEF record_child_exit, rec
    <3>5. child_status_queue' \in Seq(Status)
      BY <1>0, <3>2, <3>3, <3>4, AppendProperties, Zenon
    <3>6. records' \in Nat /\ drops' \in Nat
      BY <1>0, <1>6, <2>2 DEF record_child_exit
    <3>. QED BY <1>6, <3>5, <3>6, Zenon DEF record_child_exit, TableTypeOK, creation, cursors
  <2>. QED BY <2>1, <2>2, Zenon
<1>7. CASE run_next_ready
  <2>1. PICK i \in Slots : /\ kernel_cursor' = After(i)
                           /\ process_table' = [process_table EXCEPT ![i].state =
                                                  StateAfterRun(process_table[i])]
    BY <1>7, Zenon DEF run_next_ready
  <2>2. StateAfterRun(process_table[i]) \in States
    BY Zenon DEF StateAfterRun, States
  <2>3. process_table' \in [Slots -> Process]
    BY <1>0, <2>1, <2>2, StateUpdate, Zenon
  <2>4. kernel_cursor' \in Slots
    BY <2>1, AfterInTable, Zenon
  <2>. QED BY <1>7, <2>3, <2>4, Zenon DEF run_next_ready, TableTypeOK, queue_vars
<1>8. CASE prepare_next_user
  <2>1. user_cursor' \in Slots
    BY <1>8, AfterInTable, Zenon DEF prepare_next_user
  <2>. QED BY <1>8, <2>1, Zenon DEF prepare_next_user, TableTypeOK, creation, queue_vars
<1>9. CASE UNCHANGED table_vars
  BY <1>9, Zenon DEF table_vars, creation, cursors, queue_vars, TableTypeOK
<1>. QED BY <1>1, <1>2, <1>3, <1>4, <1>5, <1>6, <1>7, <1>8, <1>9, Zenon DEF TableNext

LEMMA TableTypeInit == TableInit => TableTypeOK
<1>. SUFFICES ASSUME TableInit PROVE TableTypeOK
  BY Zenon
<1>1. process_table \in [Slots -> Process]
  BY ProcessUpdates, Zenon DEF TableInit
<1>2. page_stack \in [1 .. FREE_PAGES -> Pages]
  BY Zenon DEF TableInit, Pages
<1>3. page_stack \in Seq(Pages)
  BY <1>2, ProcessAssumption, FunctionIsSeq, Zenon
<1>4. child_status_queue \in Seq(Status)
  BY DEF TableInit
<1>5. 0 \in Slots /\ 1 \in Pids
  BY ProcessAssumption DEF Slots, Pids
<1>. QED BY <1>1, <1>3, <1>4, <1>5, Zenon DEF TableInit, TableTypeOK

(* Every variable of the process table keeps its type: the cursors of the  *)
(* two scans of process.c never leave the table, whatever its size.        *)
THEOREM TableTypeCorrect == TableSpec => []TableTypeOK
<1>1. TableInit => TableTypeOK
  BY TableTypeInit, Zenon
<1>2. TableTypeOK /\ [TableNext]_table_vars => TableTypeOK'
  BY TableTypeStep, Zenon
<1>. QED BY <1>1, <1>2, PTL DEF TableSpec

-----------------------------------------------------------------------------
(* Page ownership and pids.                                                *)

(* What a step that neither creates nor reaps leaves alone.                *)
SameEntries ==
    \A j \in Slots : /\ process_table'[j].pages = process_table[j].pages
                     /\ process_table'[j].pid = process_table[j].pid
                     /\ process_table'[j].mode = process_table[j].mode
                     /\ used(j)' = used(j)

LEMMA StateOnly ==
    ASSUME TableTypeOK, NEW i \in Slots, used(i), NEW st \in States, st # "unused",
           process_table' = [process_table EXCEPT ![i].state = st]
    PROVE  SameEntries
<1>1. process_table \in [Slots -> Process]
  BY Zenon DEF TableTypeOK
<1>2. ASSUME NEW j \in Slots
      PROVE  /\ process_table'[j].pages = process_table[j].pages
             /\ process_table'[j].pid = process_table[j].pid
             /\ process_table'[j].mode = process_table[j].mode
             /\ (process_table'[j].state # "unused") = (process_table[j].state # "unused")
  <2>1. CASE j # i
    BY <1>1, <2>1, Zenon
  <2>2. CASE j = i
    <3>1. process_table[i] \in Process
      BY <1>1, Zenon
    <3>2. process_table'[i] = [process_table[i] EXCEPT !.state = st]
      BY <1>1, Zenon
    <3>. QED BY <2>2, <3>1, <3>2 DEF Process, used
  <2>. QED BY <2>1, <2>2, Zenon
<1>. QED BY <1>2, Zenon DEF SameEntries, used

(* Every step creates, reaps or leaves pages and pids alone.               *)
Created(i) ==
    /\ ~used(i)
    /\ Len(page_stack) >= PROCESS_PAGES
    /\ \E mode \in Modes, image \in Images \cup {NoImage} :
         process_table' = [process_table EXCEPT ![i] =
             [state |-> "ready", mode |-> mode, pid |-> next_pid,
              image |-> image, pages |-> Popped(page_stack, PROCESS_PAGES)]]
    /\ page_stack' = Left(page_stack, PROCESS_PAGES)
    /\ next_pid' = NextPid

OutOfPages ==
    /\ Len(page_stack) < PROCESS_PAGES
    /\ page_stack' = Released(<<>>, Popped(page_stack, Len(page_stack)))
    /\ UNCHANGED <<process_table, next_pid>>

Reaped(i) ==
    /\ used(i)
    /\ process_table' = [process_table EXCEPT ![i] = ClearedProcess]
    /\ page_stack' = Released(page_stack, process_table[i].pages)
    /\ next_pid' = next_pid

LEMMA KindsOfSteps ==
    ASSUME TableTypeOK, [TableNext]_table_vars
    PROVE  \/ \E i \in Slots : Created(i) \/ Reaped(i)
           \/ OutOfPages
           \/ SameEntries /\ UNCHANGED <<page_stack, next_pid>>
<1>. DEFINE Same == SameEntries /\ UNCHANGED <<page_stack, next_pid>>
<1>0. UNCHANGED process_table => SameEntries
  BY Zenon DEF SameEntries, used
<1>1. ASSUME NEW mode \in Modes, NEW image \in Images \cup {NoImage},
             create_process(mode, image)
      PROVE  (\E i \in Slots : Created(i)) \/ OutOfPages \/ Same
  <2>1. CASE UNCHANGED creation
    BY <1>0, <2>1, Zenon DEF creation
  <2>2. CASE /\ Len(page_stack) < PROCESS_PAGES
             /\ page_stack' = Released(<<>>, Popped(page_stack, Len(page_stack)))
             /\ UNCHANGED <<process_table, next_pid, last_user_cr3>>
    BY <2>2, Zenon DEF OutOfPages
  <2>3. ASSUME Len(page_stack) >= PROCESS_PAGES, NEW i \in Slots, find_unused_process(i),
               process_table' = [process_table EXCEPT ![i] =
                      [state |-> "ready", mode |-> mode, pid |-> next_pid,
                       image |-> image, pages |-> Popped(page_stack, PROCESS_PAGES)]],
               page_stack' = Left(page_stack, PROCESS_PAGES), next_pid' = NextPid
        PROVE  Created(i)
    BY <2>3, Zenon DEF Created, find_unused_process
  <2>. QED BY <1>1, <2>1, <2>2, <2>3, Zenon DEF create_process
<1>2. CASE create
  BY <1>1, <1>2, Zenon DEF create, Modes
<1>3. ASSUME NEW image \in Images, create_user_image(image)
      PROVE  (\E i \in Slots : Created(i)) \/ OutOfPages \/ Same
  BY <1>1, <1>3, Zenon DEF create_user_image, Modes
<1>4. ASSUME NEW pid \in Pids, mark_user_exited(pid) PROVE Same
  <2>1. UNCHANGED <<page_stack, next_pid>>
    BY <1>4, Zenon DEF mark_user_exited
  <2>2. CASE UNCHANGED process_table
    BY <1>0, <2>1, <2>2, Zenon
  <2>3. ASSUME NEW i \in Slots, find_process_by_pid(pid, i),
               process_table' = [process_table EXCEPT ![i].state = "exited"]
        PROVE  Same
    <3>1. "exited" \in States /\ "exited" # "unused" /\ used(i)
      BY <2>3, Zenon DEF States, find_process_by_pid
    <3>. QED BY <2>1, <2>3, <3>1, StateOnly, Zenon
  <2>. QED BY <1>4, <2>2, <2>3, Zenon DEF mark_user_exited
<1>5. ASSUME NEW pid \in Pids, reap_user(pid)
      PROVE  (\E i \in Slots : Reaped(i)) \/ Same
  BY <1>0, <1>5, Zenon DEF reap_user, find_process_by_pid, Reaped
<1>6. ASSUME NEW parent \in Clients, wait_child(parent) PROVE Same
  BY <1>0, <1>6, Zenon DEF wait_child, creation
<1>7. ASSUME NEW parent \in Clients, NEW child \in Clients, NEW code \in ExitCodes,
             record_child_exit(parent, child, code)
      PROVE  Same
  BY <1>0, <1>7, Zenon DEF record_child_exit, creation
<1>8. CASE run_next_ready
  <2>1. PICK i \in Slots : /\ i \in Ready("kernel")
                           /\ process_table' = [process_table EXCEPT ![i].state =
                                                  StateAfterRun(process_table[i])]
    BY <1>8, Zenon DEF run_next_ready, IsNextReady
  <2>2. /\ StateAfterRun(process_table[i]) \in States
        /\ StateAfterRun(process_table[i]) # "unused"
    BY Zenon DEF StateAfterRun, States
  <2>3. used(i)
    BY <2>1, Zenon DEF Ready, used
  <2>4. SameEntries
    BY <2>1, <2>2, <2>3, StateOnly, Zenon
  <2>. QED BY <1>8, <2>4, Zenon DEF run_next_ready
<1>9. CASE prepare_next_user
  BY <1>0, <1>9, Zenon DEF prepare_next_user, creation
<1>10. CASE UNCHANGED table_vars
  BY <1>0, <1>10, Zenon DEF table_vars, creation
<1>. QED BY <1>2, <1>3, <1>4, <1>5, <1>6, <1>7, <1>8, <1>9, <1>10, Zenon DEF TableNext

(* The entries after an entry is filled or cleared.                        *)
LEMMA CreatedEntries ==
    ASSUME TableTypeOK, NEW i \in Slots, Created(i)
    PROVE  /\ process_table'[i].pages = Popped(page_stack, PROCESS_PAGES)
           /\ process_table'[i].pid = next_pid
           /\ process_table'[i].state # "unused"
           /\ \A j \in Slots \ {i} : process_table'[j] = process_table[j]
BY DEF Created, TableTypeOK

LEMMA ReapedEntries ==
    ASSUME TableTypeOK, NEW i \in Slots, Reaped(i)
    PROVE  /\ process_table'[i].pages = <<>>
           /\ process_table'[i].state = "unused"
           /\ \A j \in Slots \ {i} : process_table'[j] = process_table[j]
BY Zenon DEF Reaped, TableTypeOK, ClearedProcess

LEMMA PidsStep ==
    ASSUME TableTypeOK, PidsDistinct, [TableNext]_table_vars
    PROVE  PidsDistinct'
<1>0. next_pid \in Nat /\ next_pid >= 1
  BY DEF TableTypeOK, Pids
<1>1. ASSUME NEW i \in Slots, Created(i) PROVE PidsDistinct'
  <2>1. next_pid' = next_pid + 1
    BY <1>1, Zenon DEF Created, NextPid
  <2>2. \A j \in Slots \ {i} : used(j) => process_table[j].pid \in 1 .. next_pid - 1
    BY Zenon DEF PidsDistinct
  <2>. QED BY <1>0, <1>1, <2>1, <2>2, CreatedEntries DEF PidsDistinct, used
<1>2. ASSUME NEW i \in Slots, Reaped(i) PROVE PidsDistinct'
  <2>1. next_pid' = next_pid
    BY <1>2, Zenon DEF Reaped
  <2>. QED BY <1>2, <2>1, ReapedEntries DEF PidsDistinct, used
<1>3. CASE OutOfPages
  BY <1>3, Zenon DEF OutOfPages, PidsDistinct, used
<1>4. CASE SameEntries /\ UNCHANGED <<page_stack, next_pid>>
  BY <1>4 DEF SameEntries, PidsDistinct, used
<1>. QED BY <1>1, <1>2, <1>3, <1>4, KindsOfSteps, Zenon

(* PageOwnership, in terms of the sets of pages that the entries own.      *)
Own(i) == RangeOf(process_table[i].pages)

PagesPartitioned ==
    /\ NoRepeats(page_stack)
    /\ \A i \in Slots :
         /\ Len(process_table[i].pages) = IF used(i) THEN PROCESS_PAGES ELSE 0
         /\ NoRepeats(process_table[i].pages)
         /\ Own(i) \cap RangeOf(page_stack) = {}
         /\ \A j \in Slots \ {i} : Own(i) \cap Own(j) = {}
    /\ \A q \in Pages : q \in RangeOf(page_stack) \/ \E i \in Slots : q \in Own(i)

LEMMA PartitionIsOwnership ==
    /\ PagesPartitioned <=> PageOwnership
    /\ PagesPartitioned' <=> PageOwnership'
BY Zenon DEF PagesPartitioned, PageOwnership, Own

LEMMA EmptyRange == RangeOf(<<>>) = {} /\ NoRepeats(<<>>) /\ Len(<<>>) = 0
BY DEF RangeOf, NoRepeats

LEMMA CreatedPages ==
    ASSUME TableTypeOK, PagesPartitioned, NEW i \in Slots, Created(i)
    PROVE  PagesPartitioned'
<1>0. page_stack \in Seq(Pages) /\ PROCESS_PAGES \in Nat /\ PROCESS_PAGES <= Len(page_stack)
  BY ProcessAssumption, LenProperties DEF TableTypeOK, PROCESS_PAGES, Created
<1>. DEFINE own == Popped(page_stack, PROCESS_PAGES)
            left == Left(page_stack, PROCESS_PAGES)
<1>1. /\ NoRepeats(own) /\ NoRepeats(left) /\ Len(own) = PROCESS_PAGES
      /\ RangeOf(own) \cap RangeOf(left) = {}
      /\ RangeOf(own) \cup RangeOf(left) = RangeOf(page_stack)
  BY <1>0, PopSplits, PoppedFacts, Zenon DEF PagesPartitioned
<1>2. /\ page_stack' = left /\ process_table'[i].pages = own /\ used(i)'
      /\ \A j \in Slots \ {i} : process_table'[j] = process_table[j]
  BY CreatedEntries, Zenon DEF Created, used
<1>3. Own(i) = {}
  <2>1. Len(process_table[i].pages) = 0
    BY Zenon DEF PagesPartitioned, Created
  <2>. QED BY <2>1 DEF Own, RangeOf
<1>. HIDE DEF own, left
<1>4. Own(i)' = RangeOf(own) /\ \A j \in Slots \ {i} : Own(j)' = Own(j) /\ used(j)' = used(j)
  BY <1>2, Zenon DEF Own, used
<1>5. RangeOf(page_stack)' = RangeOf(left) /\ NoRepeats(page_stack)'
  BY <1>1, <1>2, Zenon
<1>6. ASSUME NEW j \in Slots
      PROVE  /\ Len(process_table'[j].pages) = IF used(j)' THEN PROCESS_PAGES ELSE 0
             /\ NoRepeats(process_table'[j].pages)
             /\ Own(j)' \cap RangeOf(left) = {}
             /\ \A k \in Slots \ {j} : Own(j)' \cap Own(k)' = {}
  <2>1. CASE j = i
    <3>1. \A k \in Slots \ {i} : Own(k) \cap RangeOf(page_stack) = {}
      BY Zenon DEF PagesPartitioned
    <3>2. Len(process_table'[j].pages) = IF used(j)' THEN PROCESS_PAGES ELSE 0
      BY <1>1, <1>2, <2>1, Zenon
    <3>3. NoRepeats(process_table'[j].pages)
      BY <1>1, <1>2, <2>1, Zenon
    <3>. QED BY <1>1, <1>4, <2>1, <3>1, <3>2, <3>3
  <2>2. CASE j # i
    <3>1. /\ Own(j) \cap RangeOf(page_stack) = {}
          /\ \A k \in Slots \ {j} : Own(j) \cap Own(k) = {}
      BY Zenon DEF PagesPartitioned
    <3>2. Len(process_table'[j].pages) = IF used(j)' THEN PROCESS_PAGES ELSE 0
      BY <1>2, <1>4, <2>2, Zenon DEF PagesPartitioned
    <3>3. NoRepeats(process_table'[j].pages)
      BY <1>2, <2>2, Zenon DEF PagesPartitioned
    <3>4. Own(j)' \cap RangeOf(left) = {}
      BY <1>1, <1>4, <2>2, <3>1, Zenon
    <3>5. \A k \in Slots \ {j} : Own(j)' \cap Own(k)' = {}
      BY <1>1, <1>4, <2>2, <3>1, Zenon
    <3>. QED BY <3>2, <3>3, <3>4, <3>5, Zenon
  <2>. QED BY <2>1, <2>2, Zenon
<1>7. ASSUME NEW q \in Pages
      PROVE  q \in RangeOf(left) \/ \E k \in Slots : q \in Own(k)'
  <2>1. q \in RangeOf(page_stack) \/ \E k \in Slots : q \in Own(k)
    BY Zenon DEF PagesPartitioned
  <2>. QED BY <1>1, <1>3, <1>4, <2>1, Zenon
<1>. QED BY <1>5, <1>6, <1>7, Zenon DEF PagesPartitioned, PROCESS_PAGES, Pages, Slots

LEMMA ReapedPages ==
    ASSUME TableTypeOK, PagesPartitioned, NEW i \in Slots, Reaped(i)
    PROVE  PagesPartitioned'
<1>. DEFINE own == process_table[i].pages
            joined == Released(page_stack, own)
<1>0. page_stack \in Seq(Pages) /\ own \in Seq(Pages)
  BY Zenon DEF TableTypeOK, Process
<1>1. NoRepeats(joined) /\ RangeOf(joined) = RangeOf(page_stack) \cup Own(i)
  BY <1>0, ReleaseJoins, Zenon DEF PagesPartitioned, Own
<1>2. /\ page_stack' = joined /\ process_table'[i].pages = <<>> /\ ~used(i)'
      /\ \A j \in Slots \ {i} : process_table'[j] = process_table[j]
  BY ReapedEntries, Zenon DEF Reaped, used
<1>. HIDE DEF own, joined
<1>3. Own(i)' = {} /\ \A j \in Slots \ {i} : Own(j)' = Own(j) /\ used(j)' = used(j)
  BY <1>2, EmptyRange, Zenon DEF Own, used
<1>4. RangeOf(page_stack)' = RangeOf(joined) /\ NoRepeats(page_stack)'
  BY <1>1, <1>2, Zenon
<1>5. ASSUME NEW j \in Slots
      PROVE  /\ Len(process_table'[j].pages) = IF used(j)' THEN PROCESS_PAGES ELSE 0
             /\ NoRepeats(process_table'[j].pages)
             /\ Own(j)' \cap RangeOf(joined) = {}
             /\ \A k \in Slots \ {j} : Own(j)' \cap Own(k)' = {}
  <2>1. CASE j = i
    <3>1. Len(process_table'[j].pages) = IF used(j)' THEN PROCESS_PAGES ELSE 0
      <4>1. Len(process_table'[j].pages) = 0 /\ ~used(j)'
        BY <1>2, <2>1, EmptyRange, Zenon
      <4>. QED BY <4>1, Zenon
    <3>2. NoRepeats(process_table'[j].pages)
      BY <1>2, <2>1, EmptyRange, Zenon
    <3>. QED BY <1>3, <2>1, <3>1, <3>2, Zenon
  <2>2. CASE j # i
    <3>1. /\ Own(j) \cap RangeOf(page_stack) = {}
          /\ \A k \in Slots \ {j} : Own(j) \cap Own(k) = {}
      BY Zenon DEF PagesPartitioned
    <3>2. Len(process_table'[j].pages) = IF used(j)' THEN PROCESS_PAGES ELSE 0
      BY <1>2, <1>3, <2>2, Zenon DEF PagesPartitioned
    <3>3. NoRepeats(process_table'[j].pages)
      BY <1>2, <2>2, Zenon DEF PagesPartitioned
    <3>4. Own(j)' \cap RangeOf(joined) = {}
      BY <1>1, <1>3, <2>2, <3>1, Zenon
    <3>5. \A k \in Slots \ {j} : Own(j)' \cap Own(k)' = {}
      BY <1>3, <2>2, <3>1, Zenon
    <3>. QED BY <3>2, <3>3, <3>4, <3>5, Zenon
  <2>. QED BY <2>1, <2>2, Zenon
<1>6. ASSUME NEW q \in Pages
      PROVE  q \in RangeOf(joined) \/ \E k \in Slots : q \in Own(k)'
  <2>1. q \in RangeOf(page_stack) \/ \E k \in Slots : q \in Own(k)
    BY Zenon DEF PagesPartitioned
  <2>. QED BY <1>1, <1>3, <2>1, Zenon
<1>. QED BY <1>4, <1>5, <1>6, Zenon DEF PagesPartitioned, PROCESS_PAGES, Pages, Slots

(* The stack holds the same pages, perhaps in another order.               *)
LEMMA SamePages ==
    ASSUME PagesPartitioned, NoRepeats(page_stack'), RangeOf(page_stack') = RangeOf(page_stack),
           SameEntries
    PROVE  PagesPartitioned'
<1>1. \A j \in Slots : /\ process_table'[j].pages = process_table[j].pages
                      /\ used(j)' = used(j)
  BY Zenon DEF SameEntries
<1>2. \A j \in Slots : Own(j)' = Own(j)
  BY <1>1, Zenon DEF Own
<1>3. ASSUME NEW j \in Slots
      PROVE  /\ Len(process_table'[j].pages) = IF used(j)' THEN PROCESS_PAGES ELSE 0
             /\ NoRepeats(process_table'[j].pages)
             /\ Own(j)' \cap RangeOf(page_stack') = {}
             /\ \A k \in Slots \ {j} : Own(j)' \cap Own(k)' = {}
  <2>1. /\ Len(process_table[j].pages) = IF used(j) THEN PROCESS_PAGES ELSE 0
        /\ NoRepeats(process_table[j].pages)
        /\ Own(j) \cap RangeOf(page_stack) = {}
        /\ \A k \in Slots \ {j} : Own(j) \cap Own(k) = {}
    BY Zenon DEF PagesPartitioned
  <2>2. Len(process_table'[j].pages) = IF used(j)' THEN PROCESS_PAGES ELSE 0
    BY <1>1, <2>1, Zenon
  <2>3. NoRepeats(process_table'[j].pages)
    BY <1>1, <2>1, Zenon
  <2>4. Own(j)' \cap RangeOf(page_stack') = {}
    BY <1>2, <2>1, Zenon
  <2>5. \A k \in Slots \ {j} : Own(j)' \cap Own(k)' = {}
    BY <1>2, <2>1, Zenon
  <2>. QED BY <2>2, <2>3, <2>4, <2>5, Zenon
<1>4. ASSUME NEW q \in Pages
      PROVE  q \in RangeOf(page_stack') \/ \E k \in Slots : q \in Own(k)'
  <2>1. q \in RangeOf(page_stack) \/ \E k \in Slots : q \in Own(k)
    BY Zenon DEF PagesPartitioned
  <2>. QED BY <1>2, <2>1, Zenon
<1>. QED BY <1>3, <1>4, Zenon DEF PagesPartitioned, PROCESS_PAGES, Pages, Slots

LEMMA PagesStep ==
    ASSUME TableTypeOK, PageOwnership, [TableNext]_table_vars
    PROVE  PageOwnership'
<1>0. PagesPartitioned
  BY PartitionIsOwnership, Zenon
<1>1. ASSUME NEW i \in Slots, Created(i) PROVE PagesPartitioned'
  BY <1>0, <1>1, CreatedPages, Zenon
<1>2. ASSUME NEW i \in Slots, Reaped(i) PROVE PagesPartitioned'
  BY <1>0, <1>2, ReapedPages, Zenon
<1>3. ASSUME OutOfPages PROVE PagesPartitioned'
  <2>1. NoRepeats(page_stack') /\ RangeOf(page_stack') = RangeOf(page_stack)
    BY <1>0, <1>3, GivingAllBack, Zenon DEF OutOfPages, TableTypeOK, PagesPartitioned
  <2>2. SameEntries
    BY <1>3, Zenon DEF OutOfPages, SameEntries, used
  <2>. QED BY <1>0, <2>1, <2>2, SamePages, Zenon
<1>4. ASSUME SameEntries /\ UNCHANGED <<page_stack, next_pid>> PROVE PagesPartitioned'
  <2>1. NoRepeats(page_stack') /\ RangeOf(page_stack') = RangeOf(page_stack)
    BY <1>0, <1>4, Zenon DEF PagesPartitioned
  <2>. QED BY <1>0, <1>4, <2>1, SamePages, Zenon
<1>5. PagesPartitioned'
  BY <1>1, <1>2, <1>3, <1>4, KindsOfSteps, Zenon
<1>. QED BY <1>5, PartitionIsOwnership, Zenon

-----------------------------------------------------------------------------
(* The queue of exit statuses.                                             *)

InOrder(q) == \A i, j \in 1 .. Len(q) : i < j => q[i].n < q[j].n

(* Taking an entry out leaves the others, in the same order.               *)
LEMMA RemovedInOrder ==
    ASSUME NEW q \in Seq(Status), InOrder(q), NEW i \in 1 .. Len(q)
    PROVE  /\ InOrder(Removed(q, i))
           /\ \A k \in 1 .. Len(Removed(q, i)) :
                \E m \in (1 .. Len(q)) \ {i} : Removed(q, i)[k] = q[m]
<1>. DEFINE r == Removed(q, i)
            len == Len(q)
<1>1. /\ Len(r) = len - 1
      /\ \A k \in 1 .. len - 1 : r[k] = IF k < i THEN q[k] ELSE q[k + 1]
  BY RemovedFacts, Zenon
<1>2. len \in Nat /\ i \in 1 .. len
  BY LenProperties, Zenon
<1>3. \A j, k \in 1 .. len : j < k => q[j].n < q[k].n
  BY Zenon DEF InOrder
<1>. HIDE DEF r, len
<1>4. ASSUME NEW k \in 1 .. len - 1
      PROVE  \E m \in 1 .. len : r[k] = q[m] /\ m # i /\ (m = k \/ m = k + 1)
                                /\ (m = k => k < i) /\ (m = k + 1 => k >= i)
  <2>1. CASE k < i
    <3>1. k \in 1 .. len /\ r[k] = q[k] /\ k # i /\ k # k + 1
      BY <1>1, <1>2, <2>1
    <3>. QED BY <2>1, <3>1, Zenon
  <2>2. CASE ~(k < i)
    <3>1. k + 1 \in 1 .. len /\ r[k] = q[k + 1] /\ k + 1 # i /\ k + 1 # k /\ k >= i
      BY <1>1, <1>2, <2>2
    <3>. QED BY <3>1, Zenon
  <2>. QED BY <2>1, <2>2, Zenon
<1>5. ASSUME NEW j \in 1 .. len - 1, NEW k \in 1 .. len - 1, j < k
      PROVE  r[j].n < r[k].n
  <2>1. PICK a \in 1 .. len : r[j] = q[a] /\ (a = j \/ a = j + 1)
                             /\ (a = j => j < i) /\ (a = j + 1 => j >= i)
    BY <1>4, Zenon
  <2>2. PICK b \in 1 .. len : r[k] = q[b] /\ (b = k \/ b = k + 1)
                             /\ (b = k => k < i) /\ (b = k + 1 => k >= i)
    BY <1>4, Zenon
  <2>3. a < b
    BY <1>2, <1>5, <2>1, <2>2
  <2>. QED BY <1>3, <2>1, <2>2, <2>3, Zenon
<1>6. InOrder(r)
  BY <1>1, <1>5, Zenon DEF InOrder
<1>7. \A k \in 1 .. Len(r) : \E m \in (1 .. len) \ {i} : r[k] = q[m]
  BY <1>1, <1>4, Zenon
<1>. QED BY <1>6, <1>7, Zenon DEF r, len

LEMMA AppendedInOrder ==
    ASSUME NEW q \in Seq(Status), InOrder(q), NEW e \in Status,
           \A k \in 1 .. Len(q) : q[k].n < e.n
    PROVE  /\ InOrder(Append(q, e))
           /\ Len(Append(q, e)) = Len(q) + 1
           /\ \A k \in 1 .. Len(q) + 1 :
                Append(q, e)[k] = e \/ \E m \in 1 .. Len(q) : Append(q, e)[k] = q[m]
<1>. DEFINE r == Append(q, e)
            len == Len(q)
<1>1. /\ Len(r) = len + 1 /\ r[len + 1] = e
      /\ \A k \in 1 .. len : r[k] = q[k]
  BY AppendProperties
<1>2. len \in Nat
  BY LenProperties, Zenon
<1>3. /\ \A j, k \in 1 .. len : j < k => q[j].n < q[k].n
      /\ \A k \in 1 .. len : q[k].n < e.n
  BY Zenon DEF InOrder
<1>. HIDE DEF r, len
<1>4. \A k \in 1 .. len + 1 : k = len + 1 \/ k \in 1 .. len
  BY <1>2
<1>5. ASSUME NEW j \in 1 .. len + 1, NEW k \in 1 .. len + 1, j < k
      PROVE  r[j].n < r[k].n
  <2>1. j \in 1 .. len
    BY <1>2, <1>5
  <2>2. CASE k = len + 1
    BY <1>1, <1>3, <2>1, <2>2, Zenon
  <2>3. CASE k \in 1 .. len
    BY <1>1, <1>3, <1>5, <2>1, <2>3, Zenon
  <2>. QED BY <1>4, <2>2, <2>3, Zenon
<1>6. InOrder(r)
  BY <1>1, <1>5, Zenon DEF InOrder
<1>7. \A k \in 1 .. len + 1 : r[k] = e \/ \E m \in 1 .. len : r[k] = q[m]
  BY <1>1, <1>4, Zenon
<1>. QED BY <1>1, <1>6, <1>7, Zenon DEF r, len

(* StatusQueueSound is not inductive: a new record is later than the one   *)
(* its parent collected last because no number handed out is beyond the    *)
(* count of records.                                                       *)
WaitsRecorded == \A p \in Pids : last_wait[p] <= records

QueueInv == StatusQueueSound /\ WaitsRecorded

LEMMA WaitQueue ==
    ASSUME TableTypeOK, QueueInv, NEW parent \in Clients, wait_child(parent)
    PROVE  QueueInv'
<1>. DEFINE q == child_status_queue
<1>0. /\ q \in Seq(Status) /\ last_wait \in [Pids -> Nat] /\ Len(q) \in Nat
      /\ records \in Nat /\ drops \in Nat /\ waits \in Nat /\ CHILD_STATUS_QUEUE \in Nat
      /\ records' = records /\ drops' = drops
  BY LenProperties, ProcessAssumption, Zenon DEF TableTypeOK, wait_child
<1>1. /\ Len(q) <= CHILD_STATUS_QUEUE /\ records = Len(q) + waits + drops
      /\ \A i \in 1 .. Len(q) : q[i].n > last_wait[q[i].parent] /\ q[i].n <= records
      /\ InOrder(q)
      /\ \A p \in Pids : last_wait[p] <= records
  BY Zenon DEF QueueInv, StatusQueueSound, WaitsRecorded, InOrder
<1>2. CASE UNCHANGED <<child_status_queue, waits, last_wait>>
  BY <1>0, <1>2, Zenon DEF QueueInv, StatusQueueSound, WaitsRecorded
<1>3. ASSUME NEW i \in 1 .. Len(q), IsFirstOf(parent, i), q' = Removed(q, i),
             waits' = waits + 1, last_wait' = [last_wait EXCEPT ![parent] = q[i].n]
      PROVE  QueueInv'
  <2>1. \A m \in 1 .. Len(q) : q[m] \in Status /\ q[m].parent \in Pids /\ q[m].n \in Nat
    <3>1. \A m \in 1 .. Len(q) : q[m] \in Status
      BY <1>0, ElementOfSeq, Zenon
    <3>. QED BY <3>1, Zenon DEF Status
  <2>2. /\ Len(q') = Len(q) - 1 /\ InOrder(q')
        /\ \A k \in 1 .. Len(q') : \E m \in (1 .. Len(q)) \ {i} : q'[k] = q[m]
    <3>1. Len(Removed(q, i)) = Len(q) - 1
      BY <1>0, RemovedFacts, Zenon
    <3>2. /\ InOrder(Removed(q, i))
          /\ \A k \in 1 .. Len(Removed(q, i)) :
               \E m \in (1 .. Len(q)) \ {i} : Removed(q, i)[k] = q[m]
      BY <1>0, <1>1, RemovedInOrder, Zenon
    <3>. QED BY <1>3, <3>1, <3>2, Zenon
  <2>3. parent \in Pids /\ q[i].parent = parent /\ q[i].n \in Nat /\ q[i].n <= records
    BY <1>1, <1>3, <2>1, Zenon DEF IsFirstOf
  <2>4. last_wait'[parent] = q[i].n /\ \A p \in Pids \ {parent} : last_wait'[p] = last_wait[p]
    BY <1>0, <1>3, <2>3, Zenon
  <2>5. ASSUME NEW m \in (1 .. Len(q)) \ {i} PROVE q[m].n > last_wait'[q[m].parent]
    <3>1. CASE q[m].parent = parent
      <4>1. i < m
        BY <1>0, <1>3, <3>1 DEF IsFirstOf
      <4>2. q[i].n < q[m].n
        BY <1>1, <4>1, Zenon DEF InOrder
      <4>. QED BY <2>1, <2>3, <2>4, <3>1, <4>2, Zenon
    <3>2. CASE q[m].parent # parent
      BY <1>1, <2>1, <2>4, <3>2, Zenon
    <3>. QED BY <3>1, <3>2, Zenon
  <2>. HIDE DEF q
  <2>6. \A k \in 1 .. Len(q') : q'[k].n > last_wait'[q'[k].parent] /\ q'[k].n <= records
    BY <1>1, <2>2, <2>5, SMTT(40)
  <2>7. Len(q') <= CHILD_STATUS_QUEUE /\ records = Len(q') + waits' + drops
    BY <1>0, <1>1, <1>3, <2>2
  <2>8. \A p \in Pids : last_wait'[p] <= records
    BY <1>1, <2>3, <2>4, Zenon
  <2>. QED BY <1>0, <2>2, <2>6, <2>7, <2>8, Zenon
           DEF q, QueueInv, StatusQueueSound, WaitsRecorded, InOrder
<1>. QED BY <1>2, <1>3, Zenon DEF wait_child

LEMMA RecordQueue ==
    ASSUME TableTypeOK, QueueInv, NEW parent \in Clients, NEW child \in Clients,
           NEW code \in ExitCodes, record_child_exit(parent, child, code)
    PROVE  QueueInv'
<1>. DEFINE q == child_status_queue
            e == [parent |-> parent, child |-> child, code |-> code, n |-> records + 1]
            r == IF full THEN Removed(q, 1) ELSE q
<1>0. /\ q \in Seq(Status) /\ last_wait \in [Pids -> Nat] /\ Len(q) \in Nat
      /\ records \in Nat /\ drops \in Nat /\ waits \in Nat
      /\ CHILD_STATUS_QUEUE \in Nat /\ CHILD_STATUS_QUEUE > 0
      /\ waits' = waits /\ last_wait' = last_wait
  BY LenProperties, ProcessAssumption DEF TableTypeOK, record_child_exit
<1>1. /\ Len(q) <= CHILD_STATUS_QUEUE /\ records = Len(q) + waits + drops
      /\ \A i \in 1 .. Len(q) : q[i].n > last_wait[q[i].parent] /\ q[i].n <= records
      /\ InOrder(q)
      /\ \A p \in Pids : last_wait[p] <= records
  BY Zenon DEF QueueInv, StatusQueueSound, WaitsRecorded, InOrder
<1>2. CASE parent = NoPid \/ child = NoPid \/ parent = child
  BY <1>0, <1>2, Zenon DEF record_child_exit, QueueInv, StatusQueueSound, WaitsRecorded
<1>3. CASE ~(parent = NoPid \/ child = NoPid \/ parent = child)
  <2>1. /\ records' = records + 1 /\ drops' = (IF full THEN drops + 1 ELSE drops)
        /\ q' = Append(r, e)
    BY <1>3, Zenon DEF record_child_exit
  <2>2. parent \in Pids /\ child \in Pids
    BY <1>3, ProcessAssumption DEF Pids, NoPid
  <2>3. e \in Status /\ e.parent = parent /\ e.n = records + 1
    BY <1>0, <2>2 DEF Status
  <2>4. /\ r \in Seq(Status) /\ InOrder(r)
        /\ Len(r) = (IF full THEN Len(q) - 1 ELSE Len(q))
        /\ \A k \in 1 .. Len(r) : \E m \in 1 .. Len(q) : r[k] = q[m]
    <3>1. CASE full
      <4>1. 1 \in 1 .. Len(q)
        BY <1>0, <3>1 DEF full
      <4>2. /\ Removed(q, 1) \in Seq(Status) /\ InOrder(Removed(q, 1))
            /\ Len(Removed(q, 1)) = Len(q) - 1
            /\ \A k \in 1 .. Len(Removed(q, 1)) :
                 \E m \in 1 .. Len(q) : Removed(q, 1)[k] = q[m]
        <5>1. /\ Removed(q, 1) \in Seq(Status) /\ Len(Removed(q, 1)) = Len(q) - 1
              /\ InOrder(Removed(q, 1))
              /\ \A k \in 1 .. Len(Removed(q, 1)) :
                   \E m \in (1 .. Len(q)) \ {1} : Removed(q, 1)[k] = q[m]
          <6>. HIDE DEF e, r
          <6>1. q \in Seq(Status) /\ InOrder(q)
            BY <1>0, <1>1, Zenon
          <6>. QED BY <4>1, <6>1, RemovedFacts, RemovedInOrder, Zenon
        <5>. QED BY <5>1, Zenon
      <4>. QED BY <3>1, <4>2, Zenon
    <3>2. CASE ~full
      BY <1>0, <1>1, <3>2, Zenon
    <3>. QED BY <3>1, <3>2, Zenon
  <2>. HIDE DEF e, r
  <2>5. \A m \in 1 .. Len(q) : q[m].n \in Nat /\ q[m].n < e.n
    <3>1. \A m \in 1 .. Len(q) : q[m] \in Status
      BY <1>0, ElementOfSeq, Zenon
    <3>2. \A m \in 1 .. Len(q) : q[m].n \in Nat
      BY <3>1, Zenon DEF Status
    <3>. QED BY <1>0, <1>1, <2>3, <3>2
  <2>6. /\ InOrder(q') /\ Len(q') = Len(r) + 1
        /\ \A k \in 1 .. Len(r) + 1 : q'[k] = e \/ \E m \in 1 .. Len(r) : q'[k] = r[m]
    <3>1. \A k \in 1 .. Len(r) : r[k].n < e.n
      BY <2>4, <2>5, Zenon
    <3>. QED BY <2>1, <2>3, <2>4, <3>1, AppendedInOrder, Zenon
  <2>7. e.n > last_wait[e.parent] /\ e.n <= records + 1
    BY <1>0, <1>1, <2>2, <2>3
  <2>8. \A m \in 1 .. Len(q) : q[m].n > last_wait[q[m].parent] /\ q[m].n <= records + 1
    BY <1>0, <1>1, <2>5
  <2>9. ASSUME NEW k \in 1 .. Len(q')
        PROVE  q'[k].n > last_wait[q'[k].parent] /\ q'[k].n <= records + 1
    <3>1. q'[k] = e \/ \E m \in 1 .. Len(q) : q'[k] = q[m]
      BY <2>4, <2>6, Zenon
    <3>. QED BY <2>7, <2>8, <3>1, Zenon
  <2>10. Len(q') <= CHILD_STATUS_QUEUE /\ records + 1 = Len(q') + waits + drops'
    <3>. DEFINE len == Len(q)
                len2 == Len(q')
    <3>1. /\ len \in Nat /\ len <= CHILD_STATUS_QUEUE /\ records = len + waits + drops
          /\ full <=> len >= CHILD_STATUS_QUEUE
      BY <1>0, <1>1, Zenon DEF full
    <3>2. CASE full
      <4>1. len2 = len - 1 + 1 /\ drops' = drops + 1
        BY <2>1, <2>4, <2>6, <3>2, Zenon
      <4>. HIDE DEF len, len2
      <4>2. len2 <= CHILD_STATUS_QUEUE /\ records + 1 = len2 + waits + drops'
        BY <1>0, <3>1, <4>1
      <4>. QED BY <4>2, Zenon DEF len2
    <3>3. CASE ~full
      <4>1. len2 = len + 1 /\ drops' = drops
        BY <2>1, <2>4, <2>6, <3>3, Zenon
      <4>. HIDE DEF len, len2
      <4>2. len2 <= CHILD_STATUS_QUEUE /\ records + 1 = len2 + waits + drops'
        BY <1>0, <3>1, <3>3, <4>1
      <4>. QED BY <4>2, Zenon DEF len2
    <3>. QED BY <3>2, <3>3, Zenon
  <2>11. \A p \in Pids : last_wait[p] <= records + 1
    BY <1>0, <1>1
  <2>. QED BY <1>0, <2>1, <2>6, <2>9, <2>10, <2>11, Zenon
           DEF QueueInv, StatusQueueSound, WaitsRecorded, InOrder
<1>. QED BY <1>2, <1>3, Zenon

LEMMA QueueStep ==
    ASSUME TableTypeOK, QueueInv, [TableNext]_table_vars
    PROVE  QueueInv'
<1>1. CASE UNCHANGED queue_vars
  BY <1>1, Zenon DEF queue_vars, QueueInv, StatusQueueSound, WaitsRecorded
<1>2. ASSUME NEW parent \in Clients, wait_child(parent) PROVE QueueInv'
  BY <1>2, WaitQueue, Zenon
<1>3. ASSUME NEW parent \in Clients, NEW child \in Clients, NEW code \in ExitCodes,
             record_child_exit(parent, child, code)
      PROVE  QueueInv'
  BY <1>3, RecordQueue, Zenon
<1>4. ASSUME NEW pid \in Pids, mark_user_exited(pid) \/ reap_user(pid)
      PROVE  UNCHANGED queue_vars
  BY <1>4, Zenon DEF mark_user_exited, reap_user
<1>5. ASSUME NEW image, NEW mode, create_process(mode, image) PROVE UNCHANGED queue_vars
  BY <1>5, Zenon DEF create_process
<1>6. ASSUME run_next_ready \/ prepare_next_user \/ UNCHANGED table_vars
      PROVE  UNCHANGED queue_vars
  BY <1>6, Zenon DEF run_next_ready, prepare_next_user, table_vars
<1>. QED BY <1>1, <1>2, <1>3, <1>4, <1>5, <1>6, Zenon
         DEF TableNext, create, create_user_image

-----------------------------------------------------------------------------
(* The invariants.                                                         *)

LEMMA TableInvInit == TableInit => PageOwnership /\ PidsDistinct /\ QueueInv
<1>. SUFFICES ASSUME TableInit PROVE PageOwnership /\ PidsDistinct /\ QueueInv
  BY Zenon
<1>1. \A i \in Slots : process_table[i].pages = <<>> /\ ~used(i)
  BY Zenon DEF TableInit, ClearedProcess, used
<1>2. PidsDistinct
  BY <1>1, Zenon DEF PidsDistinct
<1>3. QueueInv
  BY ProcessAssumption DEF TableInit, QueueInv, StatusQueueSound, WaitsRecorded, Pids
<1>4. PagesPartitioned
  <2>1. page_stack \in Seq(Pages) /\ page_stack = [k \in 1 .. FREE_PAGES |-> k]
    BY TableTypeInit, Zenon DEF TableTypeOK, TableInit
  <2>2. Len(page_stack) = FREE_PAGES
    BY <2>1, ProcessAssumption, LenProperties
  <2>3. NoRepeats(page_stack)
    BY <2>1, <2>2, Zenon DEF NoRepeats
  <2>4. \A q \in Pages : q \in RangeOf(page_stack)
    BY <2>1, <2>2, Zenon DEF RangeOf, Pages
  <2>5. \A i \in Slots : /\ Len(process_table[i].pages) = 0
                        /\ NoRepeats(process_table[i].pages) /\ Own(i) = {}
    BY <1>1, EmptyRange, Zenon DEF Own
  <2>6. \A i \in Slots : Len(process_table[i].pages) = IF used(i) THEN PROCESS_PAGES ELSE 0
    BY <1>1, <2>5, Zenon
  <2>. QED BY <2>3, <2>4, <2>5, <2>6, Zenon DEF PagesPartitioned
<1>. QED BY <1>2, <1>3, <1>4, PartitionIsOwnership, Zenon

(* Whatever the kernel does with the table, no page is lost, shared or     *)
(* freed twice by create_process, its error path and reaping, for tables,  *)
(* address spaces and memories of every size.                              *)
THEOREM PagesOwned == TableSpec => []PageOwnership
<1>1. TableInit => PageOwnership
  BY TableInvInit, Zenon
<1>2. TableTypeOK /\ PageOwnership /\ [TableNext]_table_vars => PageOwnership'
  BY PagesStep, Zenon
<1>. QED BY <1>1, <1>2, TableTypeCorrect, PTL DEF TableSpec

(* A pid never names two entries of the table, so that find_process_by_pid *)
(* has one answer (as long as the 32 bits of next_pid do not wrap).        *)
THEOREM PidsUnique == TableSpec => []PidsDistinct
<1>1. TableInit => PidsDistinct
  BY TableInvInit, Zenon
<1>2. TableTypeOK /\ PidsDistinct /\ [TableNext]_table_vars => PidsDistinct'
  BY PidsStep, Zenon
<1>. QED BY <1>1, <1>2, TableTypeCorrect, PTL DEF TableSpec

(* Exit statuses reach each parent in order and at most once, and none     *)
(* disappears uncounted, for queues of every capacity.                     *)
THEOREM StatusesSound == TableSpec => []StatusQueueSound
<1>1. TableInit => QueueInv
  BY TableInvInit, Zenon
<1>2. TableTypeOK /\ QueueInv /\ [TableNext]_table_vars => QueueInv'
  BY QueueStep, Zenon
<1>3. QueueInv => StatusQueueSound
  BY Zenon DEF QueueInv
<1>. QED BY <1>1, <1>2, <1>3, TableTypeCorrect, PTL DEF TableSpec

-----------------------------------------------------------------------------
(* The kernel loop and the system calls.                                   *)

Returned == {"exited", "marked", "recorded"}

(* What the arguments of the table's operations depend on.                 *)
CallInv ==
    /\ TableTypeOK
    /\ current_pid \in Pids
    /\ phase \in Returned => exit_code \in ExitCodes

(* Every step of the kernel is a step of the process table, or leaves it   *)
(* alone.                                                                  *)
LEMMA CallStep ==
    ASSUME CallInv, [Next]_vars
    PROVE  [TableNext]_table_vars /\ CallInv'
<1>0. /\ next_pid \in Pids /\ current_pid \in Pids /\ SHELL_PID \in Pids /\ SHELL_PID \in Clients
      /\ current_pid \in Clients /\ windowd_service \in Images
  BY ProcessAssumption, UserModeAssumption DEF CallInv, TableTypeOK, Pids, SHELL_PID
<1>. DEFINE TableStep == [TableNext]_table_vars
            Rest == /\ current_pid' \in Pids
                    /\ phase' \in Returned => exit_code' \in ExitCodes
<1>1. CASE reserve_shell_pid
  <2>1. TableStep
    BY <1>1, Zenon DEF reserve_shell_pid, TableNext
  <2>2. Rest
    BY <1>0, <1>1, Zenon DEF reserve_shell_pid, Returned
  <2>. QED BY <2>1, <2>2, TableTypeStep, Zenon DEF CallInv
<1>2. CASE shell_exited
  <2>1. TableStep
    BY <1>2, Zenon DEF shell_exited
  <2>2. Rest
    BY <1>0, <1>2, Zenon DEF shell_exited, Returned
  <2>. QED BY <2>1, <2>2, TableTypeStep, Zenon DEF CallInv
<1>3. CASE mark_exited
  <2>1. TableStep
    BY <1>0, <1>3, Zenon DEF mark_exited, TableNext
  <2>2. Rest
    BY <1>0, <1>3, Zenon DEF mark_exited, Returned, CallInv
  <2>. QED BY <2>1, <2>2, TableTypeStep, Zenon DEF CallInv
<1>4. CASE record_exit
  <2>0. exit_code \in ExitCodes
    BY <1>4, Zenon DEF record_exit, Returned, CallInv
  <2>1. TableStep
    BY <1>0, <1>4, <2>0, Zenon DEF record_exit, RecordExit, TableNext
  <2>2. Rest
    BY <1>0, <1>4, <2>0, Zenon DEF record_exit
  <2>. QED BY <2>1, <2>2, TableTypeStep, Zenon DEF CallInv
<1>5. CASE reap_and_restart
  <2>1. TableStep
    BY <1>0, <1>5, Zenon DEF reap_and_restart, ReapReturned, TableNext
  <2>2. Rest
    BY <1>0, <1>5, Zenon DEF reap_and_restart, Returned
  <2>. QED BY <2>1, <2>2, TableTypeStep, Zenon DEF CallInv
<1>6. CASE process_input
  <2>1. TableStep
    BY <1>0, <1>6, Zenon DEF process_input, SpawnImage, TableNext
  <2>2. Rest
    BY <1>0, <1>6, Zenon DEF process_input, CallInv
  <2>. QED BY <2>1, <2>2, TableTypeStep, Zenon DEF CallInv
<1>7. CASE shell_loop
  <2>1. TableStep
    BY <1>7, Zenon DEF shell_loop
  <2>2. Rest
    BY <1>0, <1>7, Zenon DEF shell_loop, CallInv
  <2>. QED BY <2>1, <2>2, TableTypeStep, Zenon DEF CallInv
<1>8. ASSUME NEW image \in Images, exec(image) PROVE TableStep /\ CallInv'
  <2>1. TableStep
    BY <1>8, Zenon DEF exec, TableNext
  <2>2. Rest
    BY <1>0, <1>8, Zenon DEF exec, CallInv
  <2>. QED BY <2>1, <2>2, TableTypeStep, Zenon DEF CallInv
<1>9. ASSUME NEW image \in Images, spawn(image) PROVE TableStep /\ CallInv'
  <2>1. TableStep
    BY <1>9, Zenon DEF spawn, SpawnImage, TableNext
  <2>2. Rest
    BY <1>0, <1>9, Zenon DEF spawn, CallInv
  <2>. QED BY <2>1, <2>2, TableTypeStep, Zenon DEF CallInv
<1>10. CASE wait
  <2>1. TableStep
    BY <1>0, <1>10, Zenon DEF wait, TableNext
  <2>2. Rest
    BY <1>0, <1>10, Zenon DEF wait, CallInv
  <2>. QED BY <2>1, <2>2, TableTypeStep, Zenon DEF CallInv
<1>11. ASSUME NEW code \in ExitCodes, exit(code) PROVE TableStep /\ CallInv'
  <2>1. TableStep
    BY <1>11, Zenon DEF exit
  <2>2. Rest
    BY <1>0, <1>11, Zenon DEF exit
  <2>. QED BY <2>1, <2>2, TableTypeStep, Zenon DEF CallInv
<1>12. CASE UNCHANGED vars
  <2>1. TableStep
    BY <1>12, Zenon DEF vars
  <2>2. Rest
    BY <1>12, Zenon DEF vars, CallInv
  <2>. QED BY <2>1, <2>2, TableTypeStep, Zenon DEF CallInv
<1>. QED BY <1>1, <1>2, <1>3, <1>4, <1>5, <1>6, <1>7, <1>8, <1>9, <1>10, <1>11, <1>12, Zenon
         DEF Next, KernelStep

(* The arguments are right after boot.                                     *)
LEMMA CallInit == Init => CallInv
BY TableTypeInit, ProcessAssumption, UserModeAssumption
   DEF Init, CallInv, Returned, SHELL_PID, Pids

(* The arguments of the table operations are right throughout.             *)
LEMMA CallsTyped == Spec => []CallInv
<1>1. Init => CallInv
  BY CallInit, Zenon
<1>2. CallInv /\ [Next]_vars => CallInv'
  BY CallStep, Zenon
<1>. QED BY <1>1, <1>2, PTL DEF Spec

(* The loop of user_mode.c, the system calls and the shell change the      *)
(* process table only as TableSpec allows: every one of their steps is one *)
(* operation of process.c with valid arguments, or leaves the table alone. *)
THEOREM UserModeImplementsTable == Spec => TableSpec
<1>1. Init => TableInit
  BY Zenon DEF Init
<1>2. CallInv /\ [Next]_vars => [TableNext]_table_vars
  BY CallStep, Zenon
<1>. QED BY <1>1, <1>2, CallsTyped, PTL DEF Spec, TableSpec

(* With programs running, exiting and being reaped, no page is lost,       *)
(* shared or freed twice.                                                  *)
THEOREM ProgramPagesOwned == Spec => []PageOwnership
BY UserModeImplementsTable, PagesOwned, PTL

-----------------------------------------------------------------------------
(* The pid of the shell.  Creating the entry that reserves it may fail for *)
(* want of pages; then no process can ever be created, as none is there to *)
(* give pages back.                                                        *)
NothingCreated ==
    /\ next_pid = 1
    /\ \A i \in Slots : ~used(i) /\ process_table[i].mode # "user"
    /\ phase # "boot" => Len(page_stack) < PROCESS_PAGES

PidInv ==
    \/ NothingCreated
    \/ next_pid > 1 /\ phase # "boot" /\ ShellPidReserved

(* Booting is never repeated.                                              *)
LEMMA BootsOnce == ASSUME [Next]_vars, phase # "boot" PROVE phase' # "boot"
<1>1. CASE KernelStep
  BY <1>1, Zenon DEF KernelStep, reserve_shell_pid, shell_exited, mark_exited, record_exit,
              reap_and_restart
<1>2. CASE process_input \/ shell_loop \/ wait
  BY <1>2, Zenon DEF process_input, shell_loop, wait
<1>3. ASSUME NEW image \in Images, exec(image) \/ spawn(image) PROVE phase' # "boot"
  BY <1>3, Zenon DEF exec, spawn
<1>4. ASSUME NEW code \in ExitCodes, exit(code) PROVE phase' # "boot"
  BY <1>4, Zenon DEF exit
<1>5. CASE UNCHANGED vars
  BY <1>5, Zenon DEF vars
<1>. QED BY <1>1, <1>2, <1>3, <1>4, <1>5, Zenon DEF Next

(* The first step reserves the pid of the shell.                           *)
LEMMA AtBoot ==
    ASSUME CallInv, [Next]_vars, phase = "boot"
    PROVE  reserve_shell_pid \/ UNCHANGED vars
BY Zenon DEF Next, KernelStep, shell_exited, mark_exited, record_exit, reap_and_restart,
       process_input, shell_loop, exec, spawn, wait, exit, Calls, ShellRuns, ProgramRuns

(* reserve_shell_pid gives the shell its pid, or finds no pages for it.    *)
LEMMA BootPid ==
    ASSUME CallInv, NothingCreated, reserve_shell_pid
    PROVE  PidInv'
<1>0. page_stack \in Seq(Pages) /\ Len(page_stack) \in Nat /\ 0 \in Slots
      /\ process_table \in [Slots -> Process]
  BY LenProperties, ProcessAssumption DEF CallInv, TableTypeOK, Slots
<1>1. phase' = "user" /\ create_process("kernel", NoImage)
  BY Zenon DEF reserve_shell_pid, create
<1>2. CASE /\ Len(page_stack) < PROCESS_PAGES
           /\ page_stack' = Released(<<>>, Popped(page_stack, Len(page_stack)))
           /\ UNCHANGED <<process_table, next_pid, last_user_cr3>>
  <2>1. Len(page_stack') = Len(page_stack)
    <3>1. Popped(page_stack, Len(page_stack)) \in Seq(Pages)
          /\ Len(Popped(page_stack, Len(page_stack))) = Len(page_stack)
      BY <1>0, PoppedFacts
    <3>2. <<>> \o Popped(page_stack, Len(page_stack)) = Popped(page_stack, Len(page_stack))
      BY <3>1, ConcatEmptySeq, Zenon
    <3>. QED BY <1>2, <3>1, <3>2, Zenon DEF Released
  <2>. QED BY <1>1, <1>2, <2>1, Zenon DEF PidInv, NothingCreated, used, PROCESS_PAGES
<1>3. ASSUME NEW i \in Slots, next_pid' = NextPid,
             process_table' = [process_table EXCEPT ![i] =
                 [state |-> "ready", mode |-> "kernel", pid |-> next_pid,
                  image |-> NoImage, pages |-> Popped(page_stack, PROCESS_PAGES)]]
      PROVE  PidInv'
  <2>1. \A j \in Slots : process_table'[j].mode # "user"
    BY <1>0, <1>3, Zenon DEF NothingCreated
  <2>2. next_pid' > 1
    BY <1>3 DEF NextPid, NothingCreated
  <2>. QED BY <1>1, <2>1, <2>2, Zenon DEF PidInv, ShellPidReserved
<1>4. ~ \A i \in Slots : used(i)
  BY <1>0, Zenon DEF NothingCreated
<1>. QED BY <1>1, <1>2, <1>3, <1>4, Zenon DEF create_process

(* Every step preserves the invariant about the pid of the shell.          *)
LEMMA PidStep ==
    ASSUME CallInv, PidInv, [Next]_vars
    PROVE  PidInv'
<1>0. /\ [TableNext]_table_vars /\ TableTypeOK /\ page_stack \in Seq(Pages)
      /\ next_pid \in Nat /\ Len(page_stack) \in Nat /\ PROCESS_PAGES \in Nat
  <2>1. [TableNext]_table_vars
    BY CallStep, Zenon
  <2>2. TableTypeOK /\ page_stack \in Seq(Pages) /\ next_pid \in Nat
    BY DEF CallInv, TableTypeOK, Pids
  <2>3. Len(page_stack) \in Nat
    BY <2>2, LenProperties, Zenon
  <2>4. PROCESS_PAGES \in Nat
    BY ProcessAssumption DEF PROCESS_PAGES
  <2>. QED BY <2>1, <2>2, <2>3, <2>4, Zenon
<1>1. CASE phase = "boot"
  <2>1. NothingCreated
    BY <1>1, Zenon DEF PidInv
  <2>2. CASE reserve_shell_pid
    BY <2>1, <2>2, BootPid, Zenon
  <2>3. CASE UNCHANGED vars
    BY <2>1, <2>3, Zenon DEF vars, table_vars, creation, PidInv, NothingCreated, used, PROCESS_PAGES
  <2>. QED BY <1>1, <2>2, <2>3, AtBoot, Zenon
<1>2. CASE phase # "boot" /\ NothingCreated
  <2>1. phase' # "boot"
    BY <1>2, BootsOnce, Zenon
  <2>2. Len(page_stack) < PROCESS_PAGES /\ \A i \in Slots : ~Created(i) /\ ~Reaped(i)
    BY <1>0, <1>2 DEF NothingCreated, Created, Reaped
  <2>3. CASE OutOfPages
    <3>1. Len(page_stack') = Len(page_stack)
      <4>1. Popped(page_stack, Len(page_stack)) \in Seq(Pages)
            /\ Len(Popped(page_stack, Len(page_stack))) = Len(page_stack)
        BY <1>0, PoppedFacts
      <4>2. <<>> \o Popped(page_stack, Len(page_stack)) = Popped(page_stack, Len(page_stack))
        BY <4>1, ConcatEmptySeq, Zenon
      <4>. QED BY <2>3, <4>1, <4>2, Zenon DEF Released, OutOfPages
    <3>. QED BY <1>2, <2>1, <2>2, <2>3, <3>1, Zenon
             DEF OutOfPages, PidInv, NothingCreated, used, PROCESS_PAGES
  <2>4. CASE SameEntries /\ UNCHANGED <<page_stack, next_pid>>
    BY <1>2, <2>1, <2>2, <2>4, Zenon DEF SameEntries, PidInv, NothingCreated, PROCESS_PAGES
  <2>. QED BY <1>0, <2>2, <2>3, <2>4, KindsOfSteps, Zenon
<1>3. CASE next_pid > 1 /\ phase # "boot" /\ ShellPidReserved
  <2>1. phase' # "boot"
    BY <1>3, BootsOnce, Zenon
  <2>2. next_pid' > 1 /\ ShellPidReserved'
    <3>1. ASSUME NEW i \in Slots, Created(i) PROVE next_pid' > 1 /\ ShellPidReserved'
      <4>1. next_pid' > 1
        BY <1>0, <1>3, <3>1 DEF Created, NextPid
      <4>2. /\ process_table'[i].pid = next_pid
            /\ \A j \in Slots \ {i} : process_table'[j] = process_table[j]
        BY <1>0, <3>1, CreatedEntries, Zenon
      <4>3. next_pid # SHELL_PID
        BY <1>0, <1>3 DEF SHELL_PID
      <4>. QED BY <1>3, <4>1, <4>2, <4>3, Zenon DEF ShellPidReserved, SHELL_PID
    <3>2. ASSUME NEW i \in Slots, Reaped(i) PROVE next_pid' > 1 /\ ShellPidReserved'
      <4>1. process_table'[i].mode = "none"
        BY <1>0, <3>2, Zenon DEF Reaped, TableTypeOK, ClearedProcess
      <4>2. \A j \in Slots \ {i} : process_table'[j] = process_table[j]
        BY <1>0, <3>2, ReapedEntries, Zenon
      <4>. QED BY <1>3, <3>2, <4>1, <4>2, Zenon DEF Reaped, ShellPidReserved, SHELL_PID
    <3>3. CASE OutOfPages
      BY <1>3, <3>3, Zenon DEF OutOfPages, ShellPidReserved, SHELL_PID
    <3>4. CASE SameEntries /\ UNCHANGED <<page_stack, next_pid>>
      BY <1>3, <3>4, Zenon DEF SameEntries, ShellPidReserved, SHELL_PID
    <3>. QED BY <1>0, <3>1, <3>2, <3>3, <3>4, KindsOfSteps, Zenon
  <2>. QED BY <2>1, <2>2, Zenon DEF PidInv
<1>. QED BY <1>1, <1>2, <1>3, Zenon DEF PidInv

(* The invariant about the pid of the shell, from boot on.                 *)
LEMMA PidsKept == Spec => []PidInv
<1>1. Init => PidInv
  BY DEF Init, TableInit, ClearedProcess, PidInv, NothingCreated, used
<1>2. CallInv /\ PidInv /\ [Next]_vars => PidInv'
  BY PidStep, Zenon
<1>. QED BY <1>1, <1>2, CallsTyped, PTL DEF Spec

(* The pid by which x86_64_user_mode_start_init recognises the shell is    *)
(* never given to a program, even when the entry that reserves it could    *)
(* not be created.                                                         *)
THEOREM ShellPidSafe == Spec => []ShellPidReserved
<1>1. PidInv => ShellPidReserved
  BY Zenon DEF PidInv, NothingCreated, ShellPidReserved
<1>. QED BY <1>1, PidsKept, PTL

-----------------------------------------------------------------------------
(* The page tables in use.  Pids of processes with the roots of their page *)
(* tables:                                                                 *)
PidRoots ==
    {<<process_table[i].pid, cr3(process_table[i])>> : i \in {j \in Slots : used(j)}}

Root(r) == r = KernelRoot \/ \E p \in Pids : <<p, r>> \in PidRoots

(* ActivePageTables is not inductive.  The process that EXIT ends must not *)
(* own the page tables the CPU goes back to, since it is reaped there.     *)
RootInv ==
    /\ Root(cpu_cr3)
    /\ kernel_cr3 = NoPage \/ Root(kernel_cr3)
    /\ current_pid = SHELL_PID \/ current_pid < next_pid
    /\ phase = "boot" => current_pid = SHELL_PID
    /\ phase = "user" /\ current_pid # SHELL_PID =>
          kernel_cr3 # NoPage /\ <<current_pid, kernel_cr3>> \notin PidRoots
    /\ phase \in Returned /\ current_pid # SHELL_PID => <<current_pid, cpu_cr3>> \notin PidRoots
    /\ phase \in Returned => kernel_cr3 = NoPage
    /\ phase \in {"marked", "recorded"} => current_pid # SHELL_PID

TableInv == TableTypeOK /\ PageOwnership /\ PidsDistinct

(* The page-table root of a used entry is one of its own pages.            *)
LEMMA RootFacts ==
    ASSUME TableInv
    PROVE  \A i \in Slots : used(i) =>
              /\ process_table[i].pid \in Pids /\ process_table[i].pid < next_pid
              /\ cr3(process_table[i]) \in Pages
              /\ cr3(process_table[i]) \in RangeOf(process_table[i].pages)
<1>. SUFFICES ASSUME NEW i \in Slots, used(i)
              PROVE  /\ process_table[i].pid \in Pids /\ process_table[i].pid < next_pid
                     /\ cr3(process_table[i]) \in Pages
                     /\ cr3(process_table[i]) \in RangeOf(process_table[i].pages)
  BY Zenon
<1>1. process_table[i].pages \in Seq(Pages)
  BY Zenon DEF TableInv, TableTypeOK, Process
<1>2. Len(process_table[i].pages) = PROCESS_PAGES /\ process_table[i].pid \in 1 .. next_pid - 1
  BY Zenon DEF TableInv, PageOwnership, PidsDistinct
<1>3. 1 \in 1 .. Len(process_table[i].pages)
  BY <1>2, ProcessAssumption DEF PROCESS_PAGES
<1>4. process_table[i].pages[1] \in Pages
  BY <1>1, <1>3, ElementOfSeq, Zenon
<1>5. process_table[i].pid \in Pids /\ process_table[i].pid < next_pid
  BY <1>2, ProcessAssumption DEF TableInv, TableTypeOK, Pids
<1>. QED BY <1>3, <1>4, <1>5, Zenon DEF cr3, RangeOf

(* A root in use is an allocated page.                                     *)
LEMMA RootsTyped ==
    ASSUME TableInv, NEW p, NEW r, <<p, r>> \in PidRoots
    PROVE  p \in Pids /\ p < next_pid /\ r \in Pages /\ r # NoPage /\ r # KernelRoot
           /\ r \notin RangeOf(page_stack)
<1>1. PICK i \in Slots : used(i) /\ p = process_table[i].pid /\ r = cr3(process_table[i])
  BY Zenon DEF PidRoots
<1>2. p \in Pids /\ p < next_pid /\ r \in Pages /\ r \in RangeOf(process_table[i].pages)
  BY <1>1, RootFacts, Zenon
<1>3. RangeOf(process_table[i].pages) \cap RangeOf(page_stack) = {}
  BY Zenon DEF TableInv, PageOwnership
<1>4. r # NoPage /\ r # KernelRoot
  BY <1>2, ProcessAssumption DEF Pages, NoPage, KernelRoot
<1>. QED BY <1>2, <1>3, <1>4, Zenon

(* How the steps change PidRoots.                                          *)
LEMMA SameRoots == ASSUME SameEntries PROVE PidRoots' = PidRoots
<1>1. \A j \in Slots : used(j)' = used(j)
  BY Zenon DEF SameEntries
<1>2. {j \in Slots : used(j)'} = {j \in Slots : used(j)}
  BY <1>1, Zenon
<1>3. \A j \in Slots : <<process_table'[j].pid, cr3(process_table'[j])>>
                         = <<process_table[j].pid, cr3(process_table[j])>>
  BY Zenon DEF SameEntries, cr3
<1>. QED BY <1>2, <1>3, Zenon DEF PidRoots

(* Creating a process adds at most one root, a page that was free.         *)
LEMMA CreatedRoots ==
    ASSUME TableInv, NEW mode \in Modes, NEW image \in Images \cup {NoImage},
           create_process(mode, image)
    PROVE  \/ PidRoots' = PidRoots /\ next_pid' = next_pid
           \/ LET r == page_stack[Len(page_stack)]
              IN  /\ PidRoots' = PidRoots \cup {<<next_pid, r>>}
                  /\ next_pid' = next_pid + 1
                  /\ r \in Pages /\ r \in RangeOf(page_stack)
                  /\ mode = "user" => last_user_cr3' = r
<1>0. /\ process_table \in [Slots -> Process] /\ page_stack \in Seq(Pages)
      /\ Len(page_stack) \in Nat /\ PROCESS_PAGES \in Nat /\ PROCESS_PAGES >= 1
  BY LenProperties, ProcessAssumption DEF TableInv, TableTypeOK, PROCESS_PAGES
<1>1. CASE UNCHANGED creation
  BY <1>1, SameRoots, Zenon DEF creation, SameEntries, used
<1>2. CASE UNCHANGED <<process_table, next_pid, last_user_cr3>>
  BY <1>2, SameRoots, Zenon DEF SameEntries, used
<1>3. ASSUME Len(page_stack) >= PROCESS_PAGES, NEW i \in Slots, find_unused_process(i),
             process_table' = [process_table EXCEPT ![i] =
                 [state |-> "ready", mode |-> mode, pid |-> next_pid,
                  image |-> image, pages |-> Popped(page_stack, PROCESS_PAGES)]],
             next_pid' = NextPid,
             last_user_cr3' = IF mode = "user" THEN page_stack[Len(page_stack)]
                              ELSE last_user_cr3
      PROVE  LET r == page_stack[Len(page_stack)]
             IN  /\ PidRoots' = PidRoots \cup {<<next_pid, r>>}
                 /\ next_pid' = next_pid + 1
                 /\ r \in Pages /\ r \in RangeOf(page_stack)
                 /\ mode = "user" => last_user_cr3' = r
  <2>. DEFINE r == page_stack[Len(page_stack)]
              own == Popped(page_stack, PROCESS_PAGES)
  <2>1. Len(page_stack) \in 1 .. Len(page_stack)
    BY <1>0, <1>3
  <2>2. r \in Pages /\ r \in RangeOf(page_stack)
    BY <1>0, <2>1, ElementOfSeq, Zenon DEF RangeOf
  <2>3. own[1] = r
    <3>1. 1 \in 1 .. PROCESS_PAGES /\ Len(page_stack) + 1 - 1 = Len(page_stack)
      BY <1>0
    <3>2. own[1] = page_stack[Len(page_stack) + 1 - 1]
      BY <3>1, Zenon DEF Popped
    <3>. QED BY <3>1, <3>2, Zenon
  <2>4. process_table' = [process_table EXCEPT ![i] =
                 [state |-> "ready", mode |-> mode, pid |-> next_pid,
                  image |-> image, pages |-> own]]
    BY <1>3, Zenon
  <2>. HIDE DEF r, own
  <2>5. /\ process_table'[i].pid = next_pid /\ cr3(process_table'[i]) = r
        /\ process_table'[i].state # "unused"
        /\ \A j \in Slots \ {i} : process_table'[j] = process_table[j]
    BY <1>0, <2>3, <2>4, Zenon DEF cr3
  <2>6. ~used(i)
    BY <1>3, Zenon DEF find_unused_process
  <2>7. PidRoots' = PidRoots \cup {<<next_pid, r>>}
    <3>1. {j \in Slots : used(j)'} = {j \in Slots : used(j)} \cup {i}
      BY <2>5, Zenon DEF used
    <3>2. \A j \in {k \in Slots : used(k)} :
             <<process_table'[j].pid, cr3(process_table'[j])>>
               = <<process_table[j].pid, cr3(process_table[j])>>
      BY <2>5, <2>6, Zenon
    <3>3. <<process_table'[i].pid, cr3(process_table'[i])>> = <<next_pid, r>>
      BY <2>5, Zenon
    <3>. QED BY <3>1, <3>2, <3>3 DEF PidRoots
  <2>. QED BY <1>3, <2>2, <2>7, Zenon DEF r, NextPid
<1>. QED BY <1>1, <1>2, <1>3, Zenon DEF create_process

(* Reaping a process removes no root but its own.                          *)
LEMMA ReapedRoots ==
    ASSUME TableInv, NEW pid \in Pids, reap_user(pid)
    PROVE  \A x \in PidRoots : x[1] # pid => x \in PidRoots'
<1>0. process_table \in [Slots -> Process]
  BY Zenon DEF TableInv, TableTypeOK
<1>1. CASE UNCHANGED process_table
  BY <1>1, SameRoots, Zenon DEF SameEntries, used
<1>2. ASSUME NEW i \in Slots, find_process_by_pid(pid, i),
             process_table' = [process_table EXCEPT ![i] = ClearedProcess],
             NEW x \in PidRoots, x[1] # pid
      PROVE  x \in PidRoots'
  <2>1. PICK j \in Slots : used(j) /\ x = <<process_table[j].pid, cr3(process_table[j])>>
    BY Zenon DEF PidRoots
  <2>2. process_table[i].pid = pid /\ process_table[j].pid # pid
    BY <1>2, <2>1, Zenon DEF find_process_by_pid
  <2>3. process_table'[j] = process_table[j]
    BY <1>0, <1>2, <2>2, Zenon
  <2>4. used(j)' /\ x = <<process_table'[j].pid, cr3(process_table'[j])>>
    BY <2>1, <2>3 DEF used
  <2>. QED BY <2>4, Zenon DEF PidRoots
<1>. QED BY <1>1, <1>2, Zenon DEF reap_user

(* NoPage is nobody's root.                                                *)
LEMMA RootNotNoPage == ASSUME TableInv, NEW r, Root(r) PROVE r # NoPage
<1>1. KernelRoot # NoPage
  BY DEF KernelRoot, NoPage
<1>2. ASSUME NEW p, <<p, r>> \in PidRoots PROVE r # NoPage
  BY <1>2, RootsTyped, Zenon
<1>. QED BY <1>1, <1>2, Zenon DEF Root

(* Steps that leave the processor alone and take no process away.          *)
LEMMA QuietRoots ==
    ASSUME TableInv, RootInv, current_pid \in Pids,
           UNCHANGED <<current_pid, cpu_cr3, kernel_cr3>>,
           \/ phase' = phase
           \/ phase = "boot" /\ phase' = "user"
           \/ phase \in Returned /\ phase' = "halted"
           \/ phase \in Returned /\ phase' \in Returned /\ current_pid # SHELL_PID,
           \/ PidRoots' = PidRoots /\ next_pid' = next_pid
           \/ \E r : /\ PidRoots' = PidRoots \cup {<<next_pid, r>>}
                     /\ next_pid' = next_pid + 1
    PROVE  RootInv'
<1>0. next_pid \in Nat /\ current_pid \in Nat
  BY DEF TableInv, TableTypeOK, Pids
<1>1. PidRoots \subseteq PidRoots' /\ next_pid <= next_pid' /\ next_pid' \in Nat
  BY <1>0
<1>2. ASSUME NEW r, current_pid # SHELL_PID, <<current_pid, r>> \notin PidRoots
      PROVE  <<current_pid, r>> \notin PidRoots'
  <2>1. current_pid # next_pid
    BY <1>0, <1>2 DEF RootInv
  <2>. QED BY <1>2, <2>1
<1>3. Root(cpu_cr3)' /\ (kernel_cr3' = NoPage \/ Root(kernel_cr3)')
  BY <1>1, Zenon DEF RootInv, Root, Pids
<1>4. current_pid' = SHELL_PID \/ current_pid' < next_pid'
  BY <1>0, <1>1 DEF RootInv
<1>5. /\ phase' = "boot" => current_pid' = SHELL_PID
      /\ phase' \in Returned => kernel_cr3' = NoPage
      /\ phase' \in {"marked", "recorded"} => current_pid' # SHELL_PID
  BY Zenon DEF RootInv, Returned
<1>6. phase' = "user" /\ current_pid' # SHELL_PID =>
          kernel_cr3' # NoPage /\ <<current_pid', kernel_cr3'>> \notin PidRoots'
  BY <1>2, Zenon DEF RootInv, Returned
<1>7. phase' \in Returned /\ current_pid' # SHELL_PID =>
          <<current_pid', cpu_cr3'>> \notin PidRoots'
  BY <1>2, Zenon DEF RootInv, Returned
<1>. QED BY <1>3, <1>4, <1>5, <1>6, <1>7, Zenon DEF RootInv, SHELL_PID, NoPage, Returned

(* exec preserves the invariant about roots.                               *)
LEMMA ExecRoots ==
    ASSUME TableInv, RootInv, current_pid \in Pids, NEW image \in Images, exec(image)
    PROVE  RootInv'
<1>0. /\ phase = "user" /\ phase' = phase /\ next_pid \in Nat /\ Root(cpu_cr3)
  BY DEF exec, Calls, ShellRuns, ProgramRuns, RootInv, TableInv, TableTypeOK, Pids
<1>1. \/ PidRoots' = PidRoots /\ next_pid' = next_pid
      \/ LET r == page_stack[Len(page_stack)]
         IN  /\ PidRoots' = PidRoots \cup {<<next_pid, r>>}
             /\ next_pid' = next_pid + 1
             /\ r \in Pages /\ r \in RangeOf(page_stack)
             /\ last_user_cr3' = r
  BY CreatedRoots, Zenon DEF exec, create_user_image, Modes
<1>2. CASE PidRoots' = PidRoots /\ next_pid' = next_pid
  <2>1. UNCHANGED <<current_pid, cpu_cr3, kernel_cr3>>
    BY <1>2, Zenon DEF exec, created, cpu
  <2>. QED BY <1>0, <1>2, <2>1, QuietRoots, Zenon
<1>3. ASSUME NEW r, PidRoots' = PidRoots \cup {<<next_pid, r>>}, next_pid' = next_pid + 1,
             r \in Pages, r \in RangeOf(page_stack), last_user_cr3' = r
      PROVE  RootInv'
  <2>1. current_pid' = next_pid /\ kernel_cr3' = cpu_cr3 /\ cpu_cr3' = r
    BY <1>0, <1>3 DEF exec, created
  <2>2. next_pid \in Pids
    BY Zenon DEF TableInv, TableTypeOK
  <2>3. Root(cpu_cr3)'
    BY <1>3, <2>1, <2>2, Zenon DEF Root, Pids
  <2>4. Root(kernel_cr3)'
    BY <1>0, <1>3, <2>1, Zenon DEF Root, Pids, KernelRoot
  <2>5. kernel_cr3' # NoPage
    BY <1>0, <2>1, RootNotNoPage, Zenon
  <2>6. <<current_pid', kernel_cr3'>> \notin PidRoots'
    <3>1. <<next_pid, cpu_cr3>> \notin PidRoots
      BY <1>0, RootsTyped
    <3>2. cpu_cr3 # r
      <4>1. CASE cpu_cr3 = KernelRoot
        BY <1>3, <4>1, ProcessAssumption DEF Pages, KernelRoot
      <4>2. ASSUME NEW p \in Pids, <<p, cpu_cr3>> \in PidRoots PROVE cpu_cr3 # r
        BY <1>3, <4>2, RootsTyped, Zenon
      <4>. QED BY <1>0, <4>1, <4>2, Zenon DEF Root
    <3>. QED BY <1>3, <2>1, <3>1, <3>2, Zenon
  <2>7. current_pid' < next_pid'
    BY <1>0, <1>3, <2>1
  <2>8. phase' = "user"
    BY <1>0, Zenon
  <2>. QED BY <2>3, <2>4, <2>5, <2>6, <2>7, <2>8, Zenon DEF RootInv, Returned
<1>. QED BY <1>1, <1>2, <1>3, Zenon

(* exit preserves the invariant about roots.                               *)
LEMMA ExitRoots ==
    ASSUME TableInv, RootInv, NEW code, exit(code)
    PROVE  RootInv'
<1>1. /\ phase = "user" /\ phase' = "exited" /\ kernel_cr3' = NoPage /\ cpu_cr3' = Cr3AfterExit
      /\ current_pid' = current_pid /\ next_pid' = next_pid
  BY Zenon DEF exit, Calls, ShellRuns, ProgramRuns, table_vars, creation
<1>2. PidRoots' = PidRoots
  BY SameRoots, Zenon DEF exit, table_vars, creation, SameEntries, used
<1>3. Root(Cr3AfterExit)
  BY Zenon DEF RootInv, Cr3AfterExit
<1>4. Root(cpu_cr3)'
  BY <1>1, <1>2, <1>3, Zenon DEF Root, Pids
<1>5. current_pid # SHELL_PID => <<current_pid, Cr3AfterExit>> \notin PidRoots
  BY <1>1, Zenon DEF RootInv, Cr3AfterExit
<1>6. current_pid' # SHELL_PID => <<current_pid', cpu_cr3'>> \notin PidRoots'
  BY <1>1, <1>2, <1>5, Zenon
<1>. QED BY <1>1, <1>4, <1>6, Zenon DEF RootInv

(* Reaping the returned process preserves the invariant about roots: it is *)
(* no longer the one whose tables the CPU uses.                            *)
LEMMA ReapRoots ==
    ASSUME TableInv, RootInv, current_pid \in Pids, reap_and_restart
    PROVE  RootInv'
<1>1. /\ phase = "recorded" /\ phase' = "user" /\ current_pid' = SHELL_PID
      /\ cpu_cr3' = cpu_cr3 /\ kernel_cr3' = kernel_cr3 /\ reap_user(current_pid)
  BY Zenon DEF reap_and_restart, ReapReturned, cpu
<1>2. kernel_cr3 = NoPage /\ <<current_pid, cpu_cr3>> \notin PidRoots /\ Root(cpu_cr3)
  BY <1>1, Zenon DEF RootInv, Returned
<1>3. Root(cpu_cr3)'
  <2>1. CASE cpu_cr3 = KernelRoot
    BY <1>1, <2>1, Zenon DEF Root, KernelRoot
  <2>2. ASSUME NEW p \in Pids, <<p, cpu_cr3>> \in PidRoots PROVE Root(cpu_cr3)'
    <3>1. p # current_pid
      BY <1>2, <2>2, Zenon
    <3>2. <<p, cpu_cr3>> \in PidRoots'
      BY <1>1, <2>2, <3>1, ReapedRoots, Zenon
    <3>. QED BY <1>1, <3>2, Zenon DEF Root, Pids
  <2>. QED BY <1>2, <2>1, <2>2, Zenon DEF Root
<1>. QED BY <1>1, <1>2, <1>3, Zenon DEF RootInv, Returned

(* Every step preserves the invariant about roots.                         *)
LEMMA RootStep ==
    ASSUME CallInv, TableInv, RootInv, [Next]_vars
    PROVE  RootInv'
<1>0. TableInv /\ TableTypeOK /\ current_pid \in Pids
  BY Zenon DEF CallInv
<1>. DEFINE Quiet == UNCHANGED <<current_pid, cpu_cr3, kernel_cr3>>
            Same == PidRoots' = PidRoots /\ next_pid' = next_pid
            Grown == \E r : /\ PidRoots' = PidRoots \cup {<<next_pid, r>>}
                           /\ next_pid' = next_pid + 1
<1>a. ASSUME UNCHANGED creation PROVE Same
  BY <1>a, SameRoots, Zenon DEF creation, SameEntries, used
<1>b. ASSUME NEW mode \in Modes, NEW image \in Images \cup {NoImage},
             create_process(mode, image)
      PROVE  Same \/ Grown
  BY <1>0, <1>b, CreatedRoots, Zenon
<1>c. ASSUME NEW image \in Images, create_user_image(image) PROVE Same \/ Grown
  BY <1>b, <1>c, Zenon DEF create_user_image, Modes
<1>1. CASE reserve_shell_pid
  <2>1. Same \/ Grown
    BY <1>1, <1>b, Zenon DEF reserve_shell_pid, create, Modes
  <2>2. Quiet /\ phase = "boot" /\ phase' = "user"
    BY <1>1, Zenon DEF reserve_shell_pid, cpu
  <2>. QED BY <1>0, <2>1, <2>2, QuietRoots, Zenon
<1>2. CASE shell_exited
  <2>1. Same
    BY <1>2, <1>a, Zenon DEF shell_exited, table_vars
  <2>2. Quiet /\ phase \in Returned /\ phase' = "halted"
    BY <1>2, Zenon DEF shell_exited, cpu, Returned
  <2>. QED BY <1>0, <2>1, <2>2, QuietRoots, Zenon
<1>3. CASE mark_exited
  <2>1. Same
    <3>1. CASE UNCHANGED process_table
      BY <1>3, <1>a, <3>1, Zenon DEF mark_exited, mark_user_exited, creation
    <3>2. ASSUME NEW i \in Slots, find_process_by_pid(current_pid, i),
                 process_table' = [process_table EXCEPT ![i].state = "exited"]
          PROVE  SameEntries
      <4>1. "exited" \in States /\ "exited" # "unused" /\ used(i)
        BY <3>2, Zenon DEF States, find_process_by_pid
      <4>. QED BY <1>0, <3>2, <4>1, StateOnly, Zenon
    <3>3. next_pid' = next_pid
      BY <1>3, Zenon DEF mark_exited, mark_user_exited
    <3>. QED BY <1>3, <3>1, <3>2, <3>3, SameRoots, Zenon DEF mark_exited, mark_user_exited
  <2>2. Quiet /\ phase \in Returned /\ phase' \in Returned /\ current_pid # SHELL_PID
    BY <1>3, Zenon DEF mark_exited, cpu, Returned
  <2>. QED BY <1>0, <2>1, <2>2, QuietRoots, Zenon
<1>4. CASE record_exit
  <2>1. Same
    BY <1>4, <1>a, Zenon DEF record_exit, RecordExit, record_child_exit
  <2>2. Quiet /\ phase \in Returned /\ phase' \in Returned /\ current_pid # SHELL_PID
    BY <1>4, Zenon DEF record_exit, cpu, Returned, RootInv
  <2>. QED BY <1>0, <2>1, <2>2, QuietRoots, Zenon
<1>5. CASE reap_and_restart
  BY <1>0, <1>5, ReapRoots, Zenon
<1>6. CASE process_input
  <2>1. Same \/ Grown
    <3>1. CASE UNCHANGED table_vars
      BY <1>a, <3>1, Zenon DEF table_vars
    <3>2. CASE create_user_image(windowd_service)
      BY <1>c, <3>2, UserModeAssumption, Zenon
    <3>. QED BY <1>6, <3>1, <3>2, Zenon DEF process_input, SpawnImage
  <2>2. Quiet /\ phase' = phase
    BY <1>6, Zenon DEF process_input, cpu
  <2>. QED BY <1>0, <2>1, <2>2, QuietRoots, Zenon
<1>7. CASE shell_loop
  <2>1. Same
    BY <1>7, <1>a, Zenon DEF shell_loop, table_vars
  <2>2. Quiet /\ phase' = phase
    BY <1>7, Zenon DEF shell_loop, cpu
  <2>. QED BY <1>0, <2>1, <2>2, QuietRoots, Zenon
<1>8. ASSUME NEW image \in Images, exec(image) PROVE RootInv'
  BY <1>0, <1>8, ExecRoots, Zenon
<1>9. ASSUME NEW image \in Images, spawn(image) PROVE RootInv'
  <2>1. Same \/ Grown
    BY <1>9, <1>c, Zenon DEF spawn, SpawnImage
  <2>2. Quiet /\ phase' = phase
    BY <1>9, Zenon DEF spawn, cpu
  <2>. QED BY <1>0, <2>1, <2>2, QuietRoots, Zenon
<1>10. CASE wait
  <2>1. Same
    BY <1>10, <1>a, Zenon DEF wait, wait_child
  <2>2. Quiet /\ phase' = phase
    BY <1>10, Zenon DEF wait, cpu
  <2>. QED BY <1>0, <2>1, <2>2, QuietRoots, Zenon
<1>11. ASSUME NEW code \in ExitCodes, exit(code) PROVE RootInv'
  BY <1>0, <1>11, ExitRoots, Zenon
<1>12. CASE UNCHANGED vars
  <2>1. Same
    BY <1>12, <1>a, Zenon DEF vars, table_vars
  <2>2. Quiet /\ phase' = phase
    BY <1>12, Zenon DEF vars, cpu
  <2>. QED BY <1>0, <2>1, <2>2, QuietRoots, Zenon
<1>. QED BY <1>1, <1>2, <1>3, <1>4, <1>5, <1>6, <1>7, <1>8, <1>9, <1>10, <1>11, <1>12, Zenon
         DEF Next, KernelStep

(* The invariant says that the CPU uses live page tables.                  *)
LEMMA RootInvSafe == TableInv /\ RootInv => ActivePageTables
<1>1. ASSUME NEW r, Root(r) PROVE RootInUse(r)
  BY <1>1, Zenon DEF Root, RootInUse, PidRoots
<1>. QED BY <1>1, Zenon DEF RootInv, ActivePageTables

(* The invariant about roots, from boot on.                                *)
LEMMA RootsKept == Spec => [](TableInv /\ RootInv)
<1>1. Init => RootInv
  BY Zenon DEF Init, RootInv, Root, Returned
<1>2. CallInv /\ TableInv /\ RootInv /\ [Next]_vars => RootInv'
  BY RootStep, Zenon
<1>3. Spec => []TableInv
  <2>1. TableTypeOK /\ PageOwnership /\ PidsDistinct => TableInv
    BY Zenon DEF TableInv
  <2>. QED BY <2>1, UserModeImplementsTable, TableTypeCorrect, PagesOwned, PidsUnique, PTL
<1>. QED BY <1>1, <1>2, <1>3, CallsTyped, PTL DEF Spec

(* Programs may execute, spawn and wait in any order: the page tables the  *)
(* CPU runs on, and those the exit path restores, belong to the kernel or  *)
(* to a process that has not been reaped.                                  *)
THEOREM PageTablesSafe == Spec => []ActivePageTables
BY RootsKept, RootInvSafe, PTL

-----------------------------------------------------------------------------
(* What creating a process comes to: an entry is filled, or the table is   *)
(* as it was.                                                              *)
Filled(i, mode, image) ==
    /\ find_unused_process(i)
    /\ Len(page_stack) >= PROCESS_PAGES
    /\ next_pid' = next_pid + 1
    /\ process_table'[i].state = "ready" /\ process_table'[i].mode = mode
    /\ process_table'[i].pid = next_pid /\ process_table'[i].image = image
    /\ \A j \in Slots \ {i} : process_table'[j] = process_table[j]

NotFilled ==
    /\ UNCHANGED <<process_table, next_pid>>
    /\ \/ (\A i \in Slots : used(i)) /\ Len(page_stack') = Len(page_stack)
       \/ Len(page_stack) < PROCESS_PAGES /\ Len(page_stack') < PROCESS_PAGES

(* create_process fills one unused entry or none.                          *)
LEMMA CreateCases ==
    ASSUME TableTypeOK, NEW mode, NEW image, create_process(mode, image)
    PROVE  NotFilled \/ \E i \in Slots : Filled(i, mode, image)
<1>0. process_table \in [Slots -> Process] /\ page_stack \in Seq(Pages) /\ Len(page_stack) \in Nat
  BY LenProperties, Zenon DEF TableTypeOK
<1>1. CASE (\A i \in Slots : used(i)) /\ UNCHANGED creation
  BY <1>1, Zenon DEF creation, NotFilled
<1>2. CASE /\ Len(page_stack) < PROCESS_PAGES
           /\ page_stack' = Released(<<>>, Popped(page_stack, Len(page_stack)))
           /\ UNCHANGED <<process_table, next_pid, last_user_cr3>>
  <2>1. Popped(page_stack, Len(page_stack)) \in Seq(Pages)
        /\ Len(Popped(page_stack, Len(page_stack))) = Len(page_stack)
    BY <1>0, PoppedFacts
  <2>2. <<>> \o Popped(page_stack, Len(page_stack)) = Popped(page_stack, Len(page_stack))
    BY <2>1, ConcatEmptySeq, Zenon
  <2>. QED BY <1>2, <2>1, <2>2, Zenon DEF Released, NotFilled
<1>3. ASSUME Len(page_stack) >= PROCESS_PAGES, NEW i \in Slots, find_unused_process(i),
             process_table' = [process_table EXCEPT ![i] =
                 [state |-> "ready", mode |-> mode, pid |-> next_pid,
                  image |-> image, pages |-> Popped(page_stack, PROCESS_PAGES)]],
             next_pid' = NextPid
      PROVE  Filled(i, mode, image)
  BY <1>0, <1>3, Zenon DEF Filled, NextPid
<1>. QED BY <1>1, <1>2, <1>3, Zenon DEF create_process

-----------------------------------------------------------------------------
(* What programs leave behind, if only the shell executes them.            *)
(* NothingLeftBehind is about ring 3 only; on the way back to the shell    *)
(* the entry of the program is still there, and must be one that reaping   *)
(* takes away.                                                             *)
UserPids == {process_table[i].pid : i \in {j \in Slots : process_table[j].mode = "user"}}

EntriesTidy ==
    /\ \A i \in Slots : ~used(i) => process_table[i].mode = "none"
    /\ phase # "halted" => UserPids = spawned \cup ({current_pid} \ {SHELL_PID})
    /\ current_pid \notin spawned
    /\ phase \in {"marked", "recorded"} =>
          \A i \in Slots : used(i) /\ process_table[i].pid = current_pid =>
                             process_table[i].state = "exited"

CpuTidy ==
    /\ phase = "boot" => cpu_cr3 = KernelRoot
    /\ phase = "user" => (current_pid = SHELL_PID <=> cpu_cr3 = KernelRoot)
    /\ phase = "user" /\ current_pid # SHELL_PID => kernel_cr3 = KernelRoot
    /\ phase \in {"boot", "user"} /\ current_pid = SHELL_PID => kernel_cr3 = NoPage
    /\ phase \in Returned => cpu_cr3 = KernelRoot

TidyInv == EntriesTidy /\ CpuTidy

(* Filling an entry adds its pid to the user pids, if it is a user         *)
(* process.                                                                *)
LEMMA FilledPids ==
    ASSUME TableInv, EntriesTidy, NEW i \in Slots, NEW mode, NEW image, Filled(i, mode, image)
    PROVE  /\ UserPids' = IF mode = "user" THEN UserPids \cup {next_pid} ELSE UserPids
           /\ \A j \in Slots : ~used(j)' => process_table'[j].mode = "none"
<1>1. process_table[i].mode = "none" /\ ~used(i)
  BY Zenon DEF Filled, find_unused_process, EntriesTidy
<1>2. \A j \in Slots : ~used(j)' => process_table'[j].mode = "none"
  BY <1>1, Zenon DEF Filled, EntriesTidy, used
<1>3. UserPids' = IF mode = "user" THEN UserPids \cup {next_pid} ELSE UserPids
  <2>1. CASE mode = "user"
    <3>1. {j \in Slots : process_table'[j].mode = "user"}
            = {j \in Slots : process_table[j].mode = "user"} \cup {i}
      BY <2>1, Zenon DEF Filled
    <3>2. \A j \in {k \in Slots : process_table[k].mode = "user"} :
             process_table'[j].pid = process_table[j].pid
      BY <1>1, Zenon DEF Filled
    <3>3. process_table'[i].pid = next_pid
      BY Zenon DEF Filled
    <3>. QED BY <2>1, <3>1, <3>2, <3>3 DEF UserPids
  <2>2. CASE mode # "user"
    <3>1. {j \in Slots : process_table'[j].mode = "user"}
            = {j \in Slots : process_table[j].mode = "user"}
      BY <1>1, <2>2, Zenon DEF Filled
    <3>2. \A j \in {k \in Slots : process_table[k].mode = "user"} :
             process_table'[j].pid = process_table[j].pid
      BY <1>1, Zenon DEF Filled
    <3>. QED BY <2>2, <3>1, <3>2, Zenon DEF UserPids
  <2>. QED BY <2>1, <2>2, Zenon
<1>. QED BY <1>2, <1>3, Zenon

(* Entries that keep their modes and pids keep the user pids.              *)
LEMMA SamePids == ASSUME SameEntries PROVE UserPids' = UserPids
<1>1. {j \in Slots : process_table'[j].mode = "user"} = {j \in Slots : process_table[j].mode = "user"}
  BY Zenon DEF SameEntries
<1>2. \A j \in Slots : process_table'[j].pid = process_table[j].pid
  BY Zenon DEF SameEntries
<1>. QED BY <1>1, <1>2, Zenon DEF UserPids

(* A pid handed out is new.                                                *)
LEMMA FreshPid ==
    ASSUME TableInv, EntriesTidy
    PROVE  UserPids \subseteq 1 .. next_pid - 1
BY Zenon DEF TableInv, PidsDistinct, EntriesTidy, UserPids, used

(* After boot no process gets the pid of the shell.                        *)
LEMMA FilledNotFirst ==
    ASSUME PidInv, TableTypeOK, phase # "boot", NEW i \in Slots, NEW mode, NEW image,
           Filled(i, mode, image)
    PROVE  next_pid # SHELL_PID
<1>1. Len(page_stack) \in Nat /\ PROCESS_PAGES \in Nat
  BY LenProperties, ProcessAssumption DEF TableTypeOK, PROCESS_PAGES
<1>2. ~NothingCreated
  BY <1>1 DEF NothingCreated, Filled
<1>. QED BY <1>2 DEF PidInv, SHELL_PID, TableTypeOK, Pids

(* Steps that leave the table, the processor and the history alone.        *)
LEMMA QuietTidy ==
    ASSUME TidyInv, RootInv,
           SameEntries, UNCHANGED <<current_pid, cpu_cr3, kernel_cr3, spawned>>,
           \/ phase' = phase
           \/ phase = "boot" /\ phase' = "user"
           \/ phase = "exited" /\ phase' = "halted"
           \/ phase = "marked" /\ phase' = "recorded",
           phase' = "recorded" => UNCHANGED process_table,
           phase' = "marked" => UNCHANGED process_table
    PROVE  TidyInv'
<1>1. UserPids' = UserPids
  BY SamePids, Zenon
<1>2. \A i \in Slots : ~used(i)' => process_table'[i].mode = "none"
  BY Zenon DEF TidyInv, EntriesTidy, SameEntries
<1>3. phase' \in {"marked", "recorded"} =>
          \A i \in Slots : used(i)' /\ process_table'[i].pid = current_pid =>
                             process_table'[i].state = "exited"
  BY Zenon DEF TidyInv, EntriesTidy, used
<1>4. EntriesTidy'
  BY <1>1, <1>2, <1>3, Zenon DEF TidyInv, EntriesTidy, SHELL_PID
<1>5. CpuTidy'
  BY Zenon DEF TidyInv, CpuTidy, RootInv, Returned, SHELL_PID, KernelRoot, NoPage
<1>. QED BY <1>4, <1>5, Zenon DEF TidyInv

(* Spawning a program adds it to the processes and to the history alike.   *)
LEMMA SpawnTidy ==
    ASSUME TableInv, PidInv, RootInv, TidyInv, current_pid \in Pids, NEW image \in Images,
           phase = "user", SpawnImage(image), UNCHANGED <<phase, current_pid, cpu_cr3, kernel_cr3>>
    PROVE  TidyInv'
<1>0. TableTypeOK /\ next_pid \in Nat
  BY DEF TableInv, TableTypeOK, Pids
<1>1. CASE NotFilled
  <2>1. SameEntries /\ UNCHANGED spawned
    BY <1>1, Zenon DEF NotFilled, SpawnImage, created, SameEntries, used
  <2>. QED BY <2>1, QuietTidy, Zenon
<1>2. ASSUME NEW i \in Slots, Filled(i, "user", image) PROVE TidyInv'
  <2>1. spawned' = spawned \cup {next_pid}
    BY <1>0, <1>2 DEF SpawnImage, created, Filled
  <2>2. UserPids' = UserPids \cup {next_pid}
        /\ \A j \in Slots : ~used(j)' => process_table'[j].mode = "none"
    BY <1>2, FilledPids, ZenonT(40) DEF TidyInv
  <2>3. current_pid # next_pid
    BY <1>0, <1>2, FilledNotFirst DEF RootInv, Pids
  <2>4. EntriesTidy'
    BY <2>1, <2>2, <2>3, Zenon DEF TidyInv, EntriesTidy, SHELL_PID
  <2>5. CpuTidy'
    BY Zenon DEF TidyInv, CpuTidy, Returned, SHELL_PID, KernelRoot, NoPage
  <2>. QED BY <2>4, <2>5, Zenon DEF TidyInv
<1>. QED BY <1>0, <1>1, <1>2, CreateCases, Zenon DEF SpawnImage, create_user_image

(* exec, called by the shell, starts its program as the current process.   *)
LEMMA ExecTidy ==
    ASSUME "exec" \notin ChildCalls, TableInv, PidInv, RootInv, TidyInv,
           NEW image \in Images, exec(image)
    PROVE  TidyInv'
<1>0. /\ TableTypeOK /\ next_pid \in Nat
      /\ phase = "user" /\ phase' = phase /\ cpu_cr3 = KernelRoot /\ current_pid = SHELL_PID
      /\ UserPids = spawned /\ spawned' = spawned
  <2>1. TableTypeOK /\ next_pid \in Nat
    BY DEF TableInv, TableTypeOK, Pids
  <2>2. phase = "user" /\ phase' = phase /\ cpu_cr3 = KernelRoot /\ spawned' = spawned
    BY Zenon DEF exec, Calls, ShellRuns, ProgramRuns, history
  <2>3. current_pid = SHELL_PID
    BY <2>2, Zenon DEF TidyInv, CpuTidy
  <2>4. UserPids = spawned
    BY <2>2, <2>3, Zenon DEF TidyInv, EntriesTidy
  <2>. QED BY <2>1, <2>2, <2>3, <2>4, Zenon
<1>1. CASE NotFilled
  <2>1. SameEntries /\ UNCHANGED <<current_pid, cpu_cr3, kernel_cr3>>
    BY <1>1, Zenon DEF NotFilled, exec, created, cpu, SameEntries, used
  <2>. QED BY <1>0, <2>1, QuietTidy, Zenon
<1>2. ASSUME NEW i \in Slots, Filled(i, "user", image) PROVE TidyInv'
  <2>1. current_pid' = next_pid /\ kernel_cr3' = KernelRoot /\ cpu_cr3' = last_user_cr3'
    BY <1>0, <1>2 DEF exec, created, Filled
  <2>2. cpu_cr3' # KernelRoot
    <3>1. create_process("user", image) /\ "user" \in Modes
      BY Zenon DEF exec, create_user_image, Modes
    <3>2. next_pid' # next_pid
      BY <1>0, <1>2 DEF Filled
    <3>3. last_user_cr3' \in Pages
      BY <3>1, <3>2, CreatedRoots, ZenonT(40)
    <3>. QED BY <2>1, <3>3, ProcessAssumption DEF Pages, KernelRoot
  <2>3. UserPids' = UserPids \cup {next_pid}
        /\ \A j \in Slots : ~used(j)' => process_table'[j].mode = "none"
    BY <1>2, FilledPids, Zenon DEF TidyInv
  <2>4. next_pid # SHELL_PID /\ next_pid \notin spawned
    <3>1. next_pid # SHELL_PID
      BY <1>0, <1>2, FilledNotFirst, Zenon
    <3>2. next_pid \notin UserPids
      BY <1>0, FreshPid DEF TidyInv
    <3>. QED BY <1>0, <3>1, <3>2, Zenon
  <2>5. EntriesTidy'
    BY <1>0, <2>1, <2>3, <2>4, Zenon DEF EntriesTidy, SHELL_PID
  <2>6. CpuTidy'
    BY <1>0, <2>1, <2>2, <2>4, Zenon DEF CpuTidy, Returned, SHELL_PID, KernelRoot
  <2>. QED BY <2>5, <2>6, Zenon DEF TidyInv
<1>. QED BY <1>0, <1>1, <1>2, CreateCases, Zenon DEF exec, create_user_image

(* exit goes back to the kernel root.                                      *)
LEMMA ExitTidy ==
    ASSUME RootInv, TidyInv, NEW code, exit(code)
    PROVE  TidyInv'
<1>1. /\ phase = "user" /\ phase' = "exited" /\ cpu_cr3' = Cr3AfterExit /\ kernel_cr3' = NoPage
      /\ current_pid' = current_pid /\ process_table' = process_table /\ spawned' = spawned
  BY Zenon DEF exit, Calls, ShellRuns, ProgramRuns, table_vars, creation
<1>2. Cr3AfterExit = KernelRoot
  BY <1>1 DEF TidyInv, CpuTidy, Cr3AfterExit, KernelRoot, NoPage
<1>3. UserPids' = UserPids /\ \A i \in Slots : used(i)' = used(i)
  BY <1>1, Zenon DEF UserPids, used
<1>4. EntriesTidy'
  BY <1>1, <1>3, Zenon DEF TidyInv, EntriesTidy, SHELL_PID
<1>5. CpuTidy'
  BY <1>1, <1>2, Zenon DEF CpuTidy, Returned, KernelRoot
<1>. QED BY <1>4, <1>5, Zenon DEF TidyInv

(* The one entry of the program that came back.                            *)
LEMMA ReturnedEntry ==
    ASSUME TableInv, TidyInv, phase \in Returned, current_pid # SHELL_PID
    PROVE  \E i \in Slots :
              /\ used(i) /\ process_table[i].mode = "user" /\ process_table[i].pid = current_pid
              /\ find_process_by_pid(current_pid, i)
              /\ \A j \in Slots : used(j) /\ process_table[j].pid = current_pid => j = i
<1>1. current_pid \in UserPids
  BY Zenon DEF TidyInv, EntriesTidy, Returned
<1>2. PICK i \in Slots : process_table[i].mode = "user" /\ process_table[i].pid = current_pid
  BY <1>1, Zenon DEF UserPids
<1>3. used(i)
  BY <1>2, Zenon DEF TidyInv, EntriesTidy
<1>4. \A j \in Slots : used(j) /\ process_table[j].pid = current_pid => j = i
  BY <1>2, <1>3, Zenon DEF TableInv, PidsDistinct
<1>5. find_process_by_pid(current_pid, i)
  BY <1>2, <1>3, <1>4 DEF find_process_by_pid, Slots
<1>. QED BY <1>2, <1>3, <1>4, <1>5, Zenon

(* Marking the returned process EXITED keeps its entry.                    *)
LEMMA MarkTidy ==
    ASSUME TableInv, RootInv, TidyInv, mark_exited
    PROVE  TidyInv'
<1>0. /\ phase = "exited" /\ phase' = "marked" /\ current_pid # SHELL_PID
      /\ UNCHANGED <<current_pid, cpu_cr3, kernel_cr3, spawned>> /\ mark_user_exited(current_pid)
      /\ process_table \in [Slots -> Process] /\ TableTypeOK
  BY Zenon DEF mark_exited, cpu, history, TableInv, TableTypeOK
<1>1. PICK i \in Slots :
              /\ used(i) /\ process_table[i].mode = "user" /\ process_table[i].pid = current_pid
              /\ find_process_by_pid(current_pid, i)
              /\ \A j \in Slots : used(j) /\ process_table[j].pid = current_pid => j = i
  BY <1>0, ReturnedEntry, Zenon DEF Returned
<1>2. process_table' = [process_table EXCEPT ![i].state = "exited"]
  BY <1>0, <1>1, Zenon DEF mark_user_exited, find_process_by_pid
<1>3. SameEntries
  <2>1. "exited" \in States /\ "exited" # "unused"
    BY Zenon DEF States
  <2>. QED BY <1>0, <1>1, <1>2, <2>1, StateOnly, Zenon
<1>4. process_table'[i].state = "exited"
  <2>1. process_table'[i] = [process_table[i] EXCEPT !.state = "exited"]
    BY <1>0, <1>2, Zenon
  <2>2. process_table[i] \in Process
    BY <1>0, Zenon
  <2>. QED BY <2>1, <2>2, Zenon DEF Process
<1>5. \A j \in Slots : used(j)' /\ process_table'[j].pid = current_pid =>
                          process_table'[j].state = "exited"
  BY <1>1, <1>3, <1>4, Zenon DEF SameEntries
<1>6. UserPids' = UserPids
  BY <1>3, SamePids, Zenon
<1>7. \A j \in Slots : ~used(j)' => process_table'[j].mode = "none"
  BY <1>3, Zenon DEF TidyInv, EntriesTidy, SameEntries
<1>8. EntriesTidy'
  BY <1>0, <1>5, <1>6, <1>7, Zenon DEF TidyInv, EntriesTidy, SHELL_PID
<1>9. CpuTidy'
  BY <1>0, Zenon DEF TidyInv, CpuTidy, Returned, KernelRoot
<1>. QED BY <1>8, <1>9, Zenon DEF TidyInv

(* Reaping the returned process leaves the spawned ones alone.             *)
LEMMA ReapTidy ==
    ASSUME TableInv, PidInv, RootInv, TidyInv, reap_and_restart
    PROVE  TidyInv'
<1>0. /\ phase = "recorded" /\ phase' = "user" /\ current_pid # SHELL_PID
      /\ current_pid' = SHELL_PID /\ UNCHANGED <<cpu_cr3, kernel_cr3, spawned>>
      /\ reap_user(current_pid) /\ process_table \in [Slots -> Process]
  BY Zenon DEF reap_and_restart, ReapReturned, cpu, history, TableInv, TableTypeOK, RootInv
<1>1. PICK i \in Slots :
              /\ used(i) /\ process_table[i].mode = "user" /\ process_table[i].pid = current_pid
              /\ find_process_by_pid(current_pid, i)
              /\ \A j \in Slots : used(j) /\ process_table[j].pid = current_pid => j = i
  BY <1>0, ReturnedEntry, Zenon DEF Returned
<1>2. process_table[i].state = "exited"
  BY <1>0, <1>1, Zenon DEF TidyInv, EntriesTidy
<1>3. process_table' = [process_table EXCEPT ![i] = ClearedProcess]
  BY <1>0, <1>1, <1>2, Zenon DEF reap_user, Reapable, find_process_by_pid
<1>4. /\ process_table'[i].mode = "none"
      /\ \A j \in Slots \ {i} : process_table'[j] = process_table[j]
  BY <1>0, <1>3, Zenon DEF ClearedProcess
<1>5. UserPids' = UserPids \ {current_pid}
  <2>1. {j \in Slots : process_table'[j].mode = "user"}
          = {j \in Slots : process_table[j].mode = "user"} \ {i}
    BY <1>4, Zenon
  <2>2. \A j \in Slots : process_table[j].mode = "user" /\ j # i =>
              process_table[j].pid # current_pid /\ process_table'[j].pid = process_table[j].pid
    BY <1>1, <1>4, Zenon DEF TidyInv, EntriesTidy
  <2> DEFINE U == {j \in Slots : process_table[j].mode = "user"}
  <2>3. UserPids' = {process_table'[j].pid : j \in U \ {i}}
    BY <2>1, Zenon DEF UserPids
  <2>4. UserPids = {process_table[j].pid : j \in U}
    BY Zenon DEF UserPids
  <2>5. \A j \in U \ {i} :
           process_table[j].pid # current_pid /\ process_table'[j].pid = process_table[j].pid
    BY <2>2, Zenon
  <2>6. \A j \in U : j = i \/ j \in U \ {i}
    BY Zenon
  <2>7. process_table[i].pid = current_pid
    BY <1>1, Zenon
  <2> HIDE DEF U
  <2>. QED BY <2>3, <2>4, <2>5, <2>6, <2>7, Zenon
<1>6. \A j \in Slots : ~used(j)' => process_table'[j].mode = "none"
  BY <1>4, Zenon DEF TidyInv, EntriesTidy, used
<1>7. SHELL_PID \notin UserPids
  BY Zenon DEF PidInv, NothingCreated, ShellPidReserved, UserPids
<1>8. UserPids' = spawned' /\ SHELL_PID \notin spawned'
  BY <1>0, <1>5, <1>7, Zenon DEF TidyInv, EntriesTidy
<1>9. EntriesTidy'
  BY <1>0, <1>6, <1>8, Zenon DEF EntriesTidy, SHELL_PID
<1>10. CpuTidy'
  BY <1>0, Zenon DEF TidyInv, CpuTidy, RootInv, Returned, KernelRoot, SHELL_PID, NoPage
<1>. QED BY <1>9, <1>10, Zenon DEF TidyInv

(* Every step preserves the invariant about what is left behind.           *)
LEMMA TidyStep ==
    ASSUME "exec" \notin ChildCalls, CallInv, TableInv, PidInv, RootInv, TidyInv, [Next]_vars
    PROVE  TidyInv'
<1>0. TableTypeOK /\ current_pid \in Pids /\ windowd_service \in Images
  BY UserModeAssumption, Zenon DEF CallInv
<1>. DEFINE Quiet == UNCHANGED <<current_pid, cpu_cr3, kernel_cr3, spawned>>
<1>a. UNCHANGED process_table => SameEntries
  BY Zenon DEF SameEntries, used
<1>1. CASE reserve_shell_pid
  <2>0. Quiet /\ phase = "boot" /\ phase' = "user" /\ create_process("kernel", NoImage)
    BY <1>1, Zenon DEF reserve_shell_pid, create, cpu, history
  <2>1. CASE NotFilled
    BY <1>a, <2>0, <2>1, QuietTidy, Zenon DEF NotFilled
  <2>2. ASSUME NEW i \in Slots, Filled(i, "kernel", NoImage) PROVE TidyInv'
    <3>1. UserPids' = UserPids /\ \A j \in Slots : ~used(j)' => process_table'[j].mode = "none"
      BY <2>2, FilledPids DEF TidyInv
    <3>2. EntriesTidy'
      BY <2>0, <3>1, Zenon DEF TidyInv, EntriesTidy, SHELL_PID
    <3>3. CpuTidy'
      BY <2>0, Zenon DEF TidyInv, CpuTidy, RootInv, Returned, SHELL_PID, KernelRoot, NoPage
    <3>. QED BY <3>2, <3>3, Zenon DEF TidyInv
  <2>. QED BY <1>0, <2>0, <2>1, <2>2, CreateCases, Zenon
<1>2. CASE shell_exited
  <2>1. Quiet /\ phase = "exited" /\ phase' = "halted" /\ SameEntries
    BY <1>2, <1>a, Zenon DEF shell_exited, cpu, history, table_vars, creation
  <2>. QED BY <2>1, QuietTidy, Zenon
<1>3. CASE mark_exited
  BY <1>3, MarkTidy, Zenon
<1>4. CASE record_exit
  <2>1. Quiet /\ phase = "marked" /\ phase' = "recorded" /\ UNCHANGED process_table
    BY <1>4, Zenon DEF record_exit, RecordExit, record_child_exit, cpu, history, creation
  <2>. QED BY <1>a, <2>1, QuietTidy, Zenon
<1>5. CASE reap_and_restart
  BY <1>5, ReapTidy, Zenon
<1>6. CASE process_input
  <2>0. phase = "user" /\ UNCHANGED <<phase, current_pid, cpu_cr3, kernel_cr3>>
    BY <1>6, Zenon DEF process_input, ShellRuns, cpu
  <2>1. CASE SpawnImage(windowd_service)
    BY <1>0, <2>0, <2>1, SpawnTidy, Zenon
  <2>2. CASE UNCHANGED <<table_vars, spawned>>
    BY <1>a, <2>0, <2>2, QuietTidy, Zenon DEF table_vars, creation
  <2>. QED BY <1>6, <2>1, <2>2, Zenon DEF process_input
<1>7. CASE shell_loop
  <2>1. Quiet /\ phase' = phase /\ UNCHANGED process_table
    BY <1>7, Zenon DEF shell_loop, cpu, history, table_vars, creation
  <2>. QED BY <1>a, <2>1, QuietTidy, Zenon
<1>8. ASSUME NEW image \in Images, exec(image) PROVE TidyInv'
  BY <1>8, ExecTidy, Zenon
<1>9. ASSUME NEW image \in Images, spawn(image) PROVE TidyInv'
  <2>1. /\ phase = "user" /\ UNCHANGED <<phase, current_pid, cpu_cr3, kernel_cr3>>
        /\ SpawnImage(image)
    BY <1>9, Zenon DEF spawn, Calls, ShellRuns, ProgramRuns, cpu
  <2>. QED BY <1>0, <2>1, SpawnTidy, Zenon
<1>10. CASE wait
  <2>1. Quiet /\ phase' = phase /\ UNCHANGED process_table
    BY <1>10, Zenon DEF wait, wait_child, cpu, history, creation
  <2>. QED BY <1>a, <2>1, QuietTidy, Zenon
<1>11. ASSUME NEW code \in ExitCodes, exit(code) PROVE TidyInv'
  BY <1>11, ExitTidy, Zenon
<1>12. CASE UNCHANGED vars
  <2>1. Quiet /\ phase' = phase /\ UNCHANGED process_table
    BY <1>12, Zenon DEF vars, cpu, history, table_vars, creation
  <2>. QED BY <1>a, <2>1, QuietTidy, Zenon
<1>. QED BY <1>1, <1>2, <1>3, <1>4, <1>5, <1>6, <1>7, <1>8, <1>9, <1>10, <1>11, <1>12, Zenon
         DEF Next, KernelStep

(* Nothing is left behind at boot.                                         *)
LEMMA TidyInit == Init => TidyInv
<1>1. Init => UserPids = {} /\ spawned = {} /\ current_pid = SHELL_PID
  BY DEF Init, TableInit, ClearedProcess, UserPids
<1>2. Init => EntriesTidy
  BY <1>1 DEF Init, TableInit, ClearedProcess, EntriesTidy
<1>3. Init => CpuTidy
  BY Zenon DEF Init, CpuTidy, Returned
<1>. QED BY <1>2, <1>3, Zenon DEF TidyInv

(* Programs may spawn and wait, but only the shell executes.  Then every   *)
(* program that exits is reaped, and the shell is back on its own page     *)
(* tables: the user processes in the table are those made by SPAWN and the *)
(* one that runs.  Without the hypothesis this is false: a program that    *)
(* executes another one stays in the table for ever.                       *)
THEOREM ShellLeavesNothing ==
    ASSUME "exec" \notin ChildCalls
    PROVE  Spec => []NothingLeftBehind
<1>1. Init => TidyInv
  BY TidyInit, Zenon
<1>2. CallInv /\ TableInv /\ PidInv /\ RootInv /\ TidyInv /\ [Next]_vars => TidyInv'
  BY TidyStep, Zenon
<1>3. TidyInv => NothingLeftBehind
  BY ZenonT(40) DEF TidyInv, EntriesTidy, CpuTidy, NothingLeftBehind, UserPids
<1>. QED BY <1>1, <1>2, <1>3, CallsTyped, RootsKept, PidsKept, PTL DEF Spec

-----------------------------------------------------------------------------
(* The window service.  Slot 0 holds the entry that reserves the shell's   *)
(* pid and is never given up.  The first input finds all other slots free, *)
(* so that the service gets slot 1, whose row PS always prints; it is not  *)
(* the program that EXIT ends, and nothing else reaps it.                  *)
Started ==
    /\ probes = 1
    /\ phase # "boot"
    /\ 1 \in Slots
    /\ used(0) /\ process_table[0].mode = "kernel"
    /\ used(1) /\ process_table[1].mode = "user"
    /\ process_table[1].image = windowd_service
    /\ process_table[1].pid # current_pid

(* Before the first input.                                                 *)
Booted ==
    /\ probes = 0
    /\ phase = "user" /\ shell = "prompt" /\ cpu_cr3 = KernelRoot
    /\ used(0) /\ process_table[0].mode = "kernel" /\ process_table[0].image = NoImage
    /\ \A i \in Slots \ {0} : ~used(i) /\ process_table[i].mode # "user"

(* No process can be created, and none is there to give pages back.        *)
Barren ==
    /\ probes = 0
    /\ phase # "boot"
    /\ \A i \in Slots : process_table[i].mode # "user"
    /\ (\A i \in Slots : used(i)) \/ Len(page_stack) < PROCESS_PAGES

Empty ==
    /\ probes = 0
    /\ phase = "boot" /\ shell = "prompt" /\ cpu_cr3 = KernelRoot
    /\ \A i \in Slots : ~used(i) /\ process_table[i].mode # "user"

ServiceInv == Empty \/ Booted \/ Barren \/ Started

(* The first two entries of the table.                                     *)
LEMMA FirstSlots ==
    /\ 0 \in Slots
    /\ \A i \in Slots \ {0} : 1 \in Slots /\ i >= 1
BY ProcessAssumption DEF Slots

(* The kinds of steps, as the table sees them.                             *)
LEMMA TableSteps ==
    ASSUME [Next]_vars
    PROVE  \/ UNCHANGED <<process_table, page_stack>>
           \/ \E mode, image : create_process(mode, image)
           \/ mark_user_exited(current_pid) \/ reap_user(current_pid)
<1>1. CASE KernelStep
  BY <1>1, Zenon DEF KernelStep, reserve_shell_pid, shell_exited, mark_exited, record_exit,
         reap_and_restart, create, ReapReturned, RecordExit, record_child_exit, table_vars, creation
<1>2. CASE process_input \/ shell_loop \/ wait
  BY <1>2, Zenon DEF process_input, shell_loop, wait, create_user_image, SpawnImage,
         wait_child, table_vars, creation
<1>3. ASSUME NEW image \in Images, exec(image) \/ spawn(image)
      PROVE  \E mode, im : create_process(mode, im)
  BY <1>3, Zenon DEF exec, spawn, create_user_image, SpawnImage
<1>4. ASSUME NEW code \in ExitCodes, exit(code) PROVE UNCHANGED <<process_table, page_stack>>
  BY <1>4, Zenon DEF exit, table_vars, creation
<1>5. CASE UNCHANGED vars
  BY <1>5, Zenon DEF vars, table_vars, creation
<1>. QED BY <1>1, <1>2, <1>3, <1>4, <1>5, Zenon DEF Next

(* Only the shell's check counts as a probe, and only if it creates.       *)
LEMMA ProbeSteps ==
    ASSUME [Next]_vars
    PROVE  probes' = probes \/ (process_input /\ ~Listed /\ created /\ probes' = probes + 1)
<1>1. CASE KernelStep
  BY <1>1, Zenon DEF KernelStep, reserve_shell_pid, shell_exited, mark_exited, record_exit,
              reap_and_restart, history
<1>2. CASE process_input \/ shell_loop \/ wait
  BY <1>2, Zenon DEF process_input, shell_loop, wait, history
<1>3. ASSUME NEW image \in Images, exec(image) \/ spawn(image) PROVE probes' = probes
  BY <1>3, Zenon DEF exec, spawn, history
<1>4. ASSUME NEW code \in ExitCodes, exit(code) PROVE probes' = probes
  BY <1>4, Zenon DEF exit
<1>5. CASE UNCHANGED vars
  BY <1>5, Zenon DEF vars, history
<1>. QED BY <1>1, <1>2, <1>3, <1>4, <1>5, Zenon DEF Next

(* The program that runs is one of old, a new process or the shell.        *)
LEMMA RunningSteps ==
    ASSUME [Next]_vars
    PROVE  current_pid' \in {current_pid, next_pid, SHELL_PID}
<1>1. CASE KernelStep
  BY <1>1, Zenon DEF KernelStep, reserve_shell_pid, shell_exited, mark_exited, record_exit,
              reap_and_restart
<1>2. CASE process_input \/ shell_loop \/ wait
  BY <1>2, Zenon DEF process_input, shell_loop, wait
<1>3. ASSUME NEW image \in Images, exec(image) \/ spawn(image)
      PROVE  current_pid' \in {current_pid, next_pid, SHELL_PID}
  BY <1>3, Zenon DEF exec, spawn
<1>4. ASSUME NEW code \in ExitCodes, exit(code) PROVE current_pid' = current_pid
  BY <1>4, Zenon DEF exit
<1>5. CASE UNCHANGED vars
  BY <1>5, Zenon DEF vars
<1>. QED BY <1>1, <1>2, <1>3, <1>4, <1>5, Zenon DEF Next

(* With nothing to create from, nothing is created.                        *)
LEMMA BarrenStep ==
    ASSUME CallInv, Barren, [Next]_vars
    PROVE  Barren'
<1>0. /\ TableTypeOK /\ phase' # "boot" /\ Len(page_stack) \in Nat /\ PROCESS_PAGES \in Nat
      /\ PROCESS_PAGES' = PROCESS_PAGES
  BY BootsOnce, LenProperties, ProcessAssumption
     DEF CallInv, TableTypeOK, Pids, Barren, PROCESS_PAGES
<1>1. \A i \in Slots : find_process_by_pid(current_pid, i) => process_table[i].mode # "user"
  BY ZenonT(40) DEF Barren
<1>2. NotFilled \/ UNCHANGED <<process_table, page_stack>>
  <2>1. ASSUME NEW mode, NEW image, create_process(mode, image) PROVE NotFilled
    <3>1. ASSUME NEW i \in Slots, Filled(i, mode, image) PROVE FALSE
      BY <1>0, <3>1 DEF Filled, find_unused_process, Barren
    <3>. QED BY <1>0, <2>1, <3>1, CreateCases, Zenon
  <2>2. mark_user_exited(current_pid) => UNCHANGED <<process_table, page_stack>>
    BY <1>1, Zenon DEF mark_user_exited
  <2>3. reap_user(current_pid) => UNCHANGED <<process_table, page_stack>>
    BY <1>1, Zenon DEF reap_user, Reapable
  <2>. QED BY <2>1, <2>2, <2>3, TableSteps, Zenon
<1>3. process_table' = process_table
      /\ ((\A i \in Slots : used(i)) \/ Len(page_stack') < PROCESS_PAGES)
  BY <1>0, <1>2, Zenon DEF NotFilled, Barren
<1>4. probes' = 0
  <2>1. process_input /\ ~Listed => ~created
    <3>1. ASSUME NEW i \in Slots, Filled(i, "user", windowd_service) PROVE FALSE
      BY <1>0, <3>1 DEF Filled, find_unused_process, Barren
    <3>2. ASSUME create_process("user", windowd_service) PROVE ~created
      BY <1>0, <3>1, <3>2, CreateCases, Zenon DEF NotFilled, created
    <3>. QED BY <3>2, Zenon DEF process_input, SpawnImage, create_user_image
  <2>. QED BY <2>1, ProbeSteps, Zenon DEF Barren
<1>. QED BY <1>0, <1>3, <1>4, Zenon DEF Barren, used

(* The first input tries to start the window service.                      *)
LEMMA FirstInput ==
    ASSUME CallInv, PidInv, RootInv, Booted, process_input
    PROVE  Barren' \/ Started'
<1>0. TableTypeOK /\ current_pid \in Pids /\ next_pid \in Nat /\ phase = "user" /\ phase' = "user"
      /\ current_pid' = current_pid /\ 0 \in Slots
  BY FirstSlots DEF CallInv, TableTypeOK, Pids, Booted, process_input
<1>1. ~Listed
  BY Zenon DEF Booted, Listed, NoImage, windowd_service
<1>2. create_process("user", windowd_service) /\ probes' = IF created THEN 1 ELSE 0
  BY <1>1 DEF process_input, SpawnImage, create_user_image, Booted
<1>3. CASE NotFilled
  <2>1. PROCESS_PAGES' = PROCESS_PAGES
    BY Zenon DEF PROCESS_PAGES
  <2>2. /\ process_table' = process_table /\ probes' = 0
        /\ (\A i \in Slots : used(i)) \/ Len(page_stack') < PROCESS_PAGES
    BY <1>2, <1>3, Zenon DEF NotFilled, created
  <2>3. \A i \in Slots : process_table[i].mode # "user"
    BY Zenon DEF Booted
  <2>4. Barren'
    BY <1>0, <2>1, <2>2, <2>3, Zenon DEF Barren, used
  <2>. QED BY <2>4, Zenon
<1>4. ASSUME NEW i \in Slots, Filled(i, "user", windowd_service) PROVE Started'
  <2>1. i = 1
    <3>1. i # 0
      BY <1>4, Zenon DEF Filled, find_unused_process, Booted
    <3>2. 1 \in Slots /\ i >= 1 /\ i \in Int
      BY <3>1, FirstSlots DEF Slots
    <3>3. ~used(1)
      BY <3>2 DEF Booted
    <3>4. i <= 1
      BY <1>4, <3>2, <3>3, Zenon DEF Filled, find_unused_process
    <3>. QED BY <3>2, <3>4
  <2>2. probes' = 1
    BY <1>0, <1>2, <1>4 DEF Filled, created
  <2>3. next_pid # current_pid
    BY <1>0, <1>4, FilledNotFirst DEF RootInv, Pids
  <2>4. process_table'[0] = process_table[0]
    BY <1>0, <1>4, <2>1 DEF Filled
  <2>5. /\ process_table'[1].state = "ready" /\ process_table'[1].mode = "user"
        /\ process_table'[1].pid = next_pid /\ process_table'[1].image = windowd_service
    BY <1>4, <2>1, Zenon DEF Filled
  <2>. QED BY <1>0, <2>1, <2>2, <2>3, <2>4, <2>5, Zenon DEF Started, Booted, used, windowd_service
<1>. QED BY <1>0, <1>2, <1>3, <1>4, CreateCases, Zenon

(* The first step after boot handles the first input.                      *)
LEMMA BootedStep ==
    ASSUME Booted, [Next]_vars
    PROVE  process_input \/ UNCHANGED vars
BY Zenon DEF Booted, Next, KernelStep, reserve_shell_pid, shell_exited, mark_exited, record_exit,
       reap_and_restart, shell_loop, exec, spawn, wait, exit, Calls, ShellRuns, ProgramRuns

(* Booting either reserves the pid of the shell or finds no pages at all.  *)
LEMMA EmptyStep ==
    ASSUME CallInv, Empty, reserve_shell_pid
    PROVE  Booted' \/ Barren'
<1>0. /\ TableTypeOK /\ create_process("kernel", NoImage) /\ phase' = "user"
      /\ UNCHANGED <<shell, cpu_cr3, probes>> /\ 0 \in Slots /\ PROCESS_PAGES' = PROCESS_PAGES
  BY FirstSlots, Zenon DEF CallInv, reserve_shell_pid, create, cpu, history, PROCESS_PAGES
<1>1. CASE NotFilled
  BY <1>0, <1>1, Zenon DEF NotFilled, Empty, Barren, used
<1>2. ASSUME NEW i \in Slots, Filled(i, "kernel", NoImage) PROVE Booted'
  <2>1. i = 0
    BY <1>0, <1>2 DEF Filled, find_unused_process, Empty, Slots
  <2>. QED BY <1>0, <1>2, <2>1, Zenon DEF Filled, Empty, Booted, used, KernelRoot, NoImage
<1>. QED BY <1>0, <1>1, <1>2, CreateCases, Zenon

(* A started service is listed.                                            *)
LEMMA StartedListed == Started => Listed
<1>. SUFFICES ASSUME Started PROVE Listed
  BY Zenon
<1>1. {j \in 0 .. 1 : used(j)} = {0, 1}
  BY DEF Started
<1>2. Cardinality({0, 1}) = 2
  <2>1. IsFiniteSet({0}) /\ Cardinality({0}) = 1
    BY FS_Singleton, SMTT(40)
  <2>2. Cardinality({0} \cup {1}) = Cardinality({0}) + 1
    BY <2>1, FS_AddElement
  <2>3. {0} \cup {1} = {0, 1}
    BY Zenon
  <2>. QED BY <2>1, <2>2, <2>3
<1>3. Cardinality({j \in 0 .. 1 : used(j)}) <= PsRows
  BY <1>1, <1>2, UserModeAssumption, SMTT(40)
<1>. QED BY <1>3, Zenon DEF Started, Listed

(* Once started, the window service stays as it is.                        *)
LEMMA StartedStep ==
    ASSUME CallInv, TableInv, PidInv, Started, [Next]_vars
    PROVE  Started'
<1>0. /\ TableTypeOK /\ [TableNext]_table_vars /\ 0 \in Slots /\ 1 \in Slots /\ phase' # "boot"
      /\ next_pid \in Nat /\ process_table \in [Slots -> Process]
  <2>1. [TableNext]_table_vars
    BY CallStep, Zenon
  <2>2. 0 \in Slots /\ 1 \in Slots /\ phase # "boot"
    BY FirstSlots, Zenon DEF Started
  <2>3. phase' # "boot"
    BY <2>2, BootsOnce, Zenon
  <2>4. TableTypeOK
    BY Zenon DEF CallInv
  <2>5. next_pid \in Nat /\ process_table \in [Slots -> Process]
    BY <2>4 DEF TableTypeOK, Pids
  <2>. QED BY <2>1, <2>2, <2>3, <2>4, <2>5, Zenon
<1>1. /\ process_table[1].pid < next_pid /\ process_table[1].pid \in Nat
      /\ process_table[1].pid # SHELL_PID
  <2>1. ShellPidReserved
    BY Zenon DEF PidInv, NothingCreated, ShellPidReserved
  <2>. QED BY <1>0, <2>1 DEF Started, TableInv, PidsDistinct, ShellPidReserved
<1>2. process_table[1].pid # current_pid'
  BY <1>0, <1>1, RunningSteps DEF Started
<1>3. probes' = 1
  BY StartedListed, ProbeSteps, Zenon DEF Started
<1>. DEFINE Kept(i) == /\ process_table'[i].mode = process_table[i].mode
                       /\ process_table'[i].pid = process_table[i].pid
                       /\ process_table'[i].image = process_table[i].image
                       /\ used(i)'
<1>4. ASSUME UNCHANGED process_table PROVE Kept(0) /\ Kept(1)
  BY <1>4, Zenon DEF Started, used
<1>5. ASSUME NEW mode, NEW image, create_process(mode, image) PROVE Kept(0) /\ Kept(1)
  <2>1. ASSUME NEW i \in Slots, Filled(i, mode, image) PROVE Kept(0) /\ Kept(1)
    <3>1. i # 0 /\ i # 1
      BY <2>1, Zenon DEF Filled, find_unused_process, Started
    <3>. QED BY <1>0, <2>1, <3>1, ZenonT(40) DEF Filled, Started, used
  <2>. QED BY <1>0, <1>4, <1>5, <2>1, CreateCases, Zenon DEF NotFilled
<1>6. ASSUME mark_user_exited(current_pid) PROVE Kept(0) /\ Kept(1)
  <2>1. ASSUME NEW i \in Slots, find_process_by_pid(current_pid, i), process_table[i].mode = "user",
               process_table' = [process_table EXCEPT ![i].state = "exited"]
        PROVE  Kept(0) /\ Kept(1)
    <3>1. i # 0 /\ i # 1
      BY <2>1, Zenon DEF find_process_by_pid, Started
    <3>2. process_table'[0] = process_table[0] /\ process_table'[1] = process_table[1]
      BY <1>0, <2>1, <3>1, Zenon
    <3>. QED BY <3>2, Zenon DEF Started, used
  <2>. QED BY <1>4, <1>6, <2>1, Zenon DEF mark_user_exited
<1>7. ASSUME reap_user(current_pid) PROVE Kept(0) /\ Kept(1)
  <2>1. ASSUME NEW i \in Slots, find_process_by_pid(current_pid, i), Reapable(process_table[i]),
               process_table' = [process_table EXCEPT ![i] = ClearedProcess]
        PROVE  Kept(0) /\ Kept(1)
    <3>1. i # 0 /\ i # 1
      BY <2>1, Zenon DEF find_process_by_pid, Started, Reapable
    <3>2. process_table'[0] = process_table[0] /\ process_table'[1] = process_table[1]
      BY <1>0, <2>1, <3>1, Zenon
    <3>. QED BY <3>2, Zenon DEF Started, used
  <2>. QED BY <1>4, <1>7, <2>1, ZenonT(40) DEF reap_user
<1>8. \/ UNCHANGED process_table
      \/ \E mode, image : create_process(mode, image)
      \/ mark_user_exited(current_pid) \/ reap_user(current_pid)
  BY TableSteps, Zenon
<1>9. Kept(0) /\ Kept(1)
  BY <1>4, <1>5, <1>6, <1>7, <1>8, ZenonT(40)
<1>. QED BY <1>0, <1>2, <1>3, <1>9, Zenon DEF Started, windowd_service

(* Every step preserves the invariant about the window service.            *)
LEMMA ServiceStep ==
    ASSUME CallInv, TableInv, PidInv, RootInv, ServiceInv, [Next]_vars
    PROVE  ServiceInv'
<1>0. UNCHANGED vars => ServiceInv'
  BY Zenon DEF vars, table_vars, creation, cpu, history, ServiceInv, Empty, Booted, Barren, Started,
         used, KernelRoot, NoImage, windowd_service, PROCESS_PAGES
<1>1. CASE Empty
  BY <1>0, <1>1, AtBoot, EmptyStep, ZenonT(40) DEF Empty, ServiceInv
<1>2. CASE Booted
  BY <1>0, <1>2, BootedStep, FirstInput, Zenon DEF ServiceInv
<1>3. CASE Barren
  BY <1>3, BarrenStep, Zenon DEF ServiceInv
<1>4. CASE Started
  BY <1>4, StartedStep, Zenon DEF ServiceInv
<1>. QED BY <1>1, <1>2, <1>3, <1>4, Zenon DEF ServiceInv

(* However often the shell is started again, whatever it or its programs   *)
(* execute, spawn and wait for, and however long the list of processes     *)
(* grows: the shell's check of the PS output starts the window service at  *)
(* most once.  It needs two rows of that list.                             *)
THEOREM ServiceStartsOnce == Spec => []ServiceStartedOnce
<1>1. Init => ServiceInv
  BY DEF Init, TableInit, ClearedProcess, ServiceInv, Empty, used
<1>2. CallInv /\ TableInv /\ PidInv /\ RootInv /\ ServiceInv /\ [Next]_vars => ServiceInv'
  BY ServiceStep, Zenon
<1>3. ServiceInv => ServiceStartedOnce
  BY DEF ServiceInv, Empty, Booted, Barren, Started, ServiceStartedOnce
<1>. QED BY <1>1, <1>2, <1>3, CallsTyped, RootsKept, PidsKept, PTL DEF Spec

-----------------------------------------------------------------------------
(* The statuses.  StatusFaithful is not inductive: the program whose EXIT  *)
(* is being handled must be one that exits holds, no program exits twice,  *)
(* and the pid of a program that exited is never handed out again.         *)
ExitInv ==
    /\ IsFiniteSet(exits)
    /\ \A x \in exits :
         \/ x[1] # SHELL_PID /\ x[1] \in 1 .. next_pid - 1
         \/ x[1] = SHELL_PID /\ current_pid = SHELL_PID /\ phase \in {"exited", "halted"}
    /\ phase = "user" => \A x \in exits : x[1] # current_pid
    /\ phase \in Returned => <<current_pid, exit_code>> \in exits

StatusInv == ExitInv /\ StatusFaithful

(* The two conjuncts of StatusFaithful.                                    *)
QueuedExits ==
    \A k \in 1 .. Len(child_status_queue) :
        /\ child_status_queue[k].parent = SHELL_PID
        /\ <<child_status_queue[k].child, child_status_queue[k].code>> \in exits

AllRecorded ==
    records + (IF phase \in {"exited", "marked", "halted"} THEN 1 ELSE 0) = Cardinality(exits)

(* The two halves of StatusFaithful.                                       *)
LEMMA FaithfulParts == StatusFaithful <=> QueuedExits /\ AllRecorded
BY Zenon DEF StatusFaithful, QueuedExits, AllRecorded

(* Pids are handed out in increasing order.                                *)
LEMMA NextPidGrows ==
    ASSUME CallInv, [Next]_vars
    PROVE  next_pid \in Nat /\ next_pid' \in Nat /\ next_pid <= next_pid'
<1>1. [TableNext]_table_vars /\ TableTypeOK /\ next_pid \in Nat
  BY CallStep, SMTT(40) DEF CallInv, TableTypeOK, Pids
<1>2. next_pid' = next_pid \/ next_pid' = next_pid + 1
  BY <1>1, KindsOfSteps, Zenon DEF Created, Reaped, OutOfPages, NextPid
<1>. QED BY <1>1, <1>2

(* A step that neither ends a program nor touches the queue.               *)
LEMMA QuietStatus ==
    ASSUME CallInv, StatusInv, [Next]_vars,
           UNCHANGED <<exits, child_status_queue, records, exit_code>>,
           \/ phase' = phase /\ current_pid' = current_pid
           \/ phase = "boot" /\ phase' = "user" /\ current_pid' = current_pid
           \/ phase = "user" /\ phase' = "user" /\ current_pid' = next_pid
           \/ phase = "exited" /\ phase' = "halted" /\ current_pid' = current_pid
           \/ /\ phase = "exited" /\ phase' = "marked"
              /\ current_pid' = current_pid /\ current_pid # SHELL_PID
           \/ /\ phase = "recorded" /\ phase' = "user" /\ current_pid' = SHELL_PID,
           phase = "boot" => current_pid = SHELL_PID
    PROVE  StatusInv'
<1>0. next_pid \in Nat /\ next_pid' \in Nat /\ next_pid <= next_pid'
  BY NextPidGrows, Zenon
<1>1. ASSUME NEW x \in exits
      PROVE  \/ x[1] # SHELL_PID /\ x[1] \in 1 .. next_pid' - 1
             \/ x[1] = SHELL_PID /\ current_pid' = SHELL_PID /\ phase' \in {"exited", "halted"}
  BY <1>0 DEF StatusInv, ExitInv
<1>2. ASSUME phase' = "user", NEW x \in exits PROVE x[1] # current_pid'
  BY <1>0, <1>2 DEF StatusInv, ExitInv
<1>3. phase' \in Returned => <<current_pid', exit_code'>> \in exits
  BY Zenon DEF StatusInv, ExitInv, Returned
<1>4. QueuedExits'
  BY FaithfulParts, Zenon DEF StatusInv, QueuedExits, SHELL_PID
<1>5. AllRecorded'
  BY FaithfulParts, Zenon DEF StatusInv, AllRecorded
<1>6. ExitInv'
  BY <1>1, <1>2, <1>3, Zenon DEF StatusInv, ExitInv, SHELL_PID, Returned
<1>7. StatusFaithful'
  BY <1>4, <1>5, Zenon DEF StatusFaithful, QueuedExits, AllRecorded
<1>. QED BY <1>6, <1>7, Zenon DEF StatusInv

(* exit adds one exit, to be recorded before the next program runs.        *)
LEMMA ExitStatus ==
    ASSUME CallInv, TableInv, RootInv, StatusInv, NEW code \in ExitCodes, exit(code)
    PROVE  StatusInv'
<1>0. /\ phase = "user" /\ phase' = "exited" /\ exits' = exits \cup {<<current_pid, code>>}
      /\ exit_code' = code /\ current_pid' = current_pid /\ next_pid' = next_pid
      /\ child_status_queue' = child_status_queue /\ records' = records
  BY Zenon DEF exit, Calls, ShellRuns, ProgramRuns, table_vars, creation, queue_vars
<1>1. <<current_pid, code>> \notin exits
  BY <1>0, Zenon DEF StatusInv, ExitInv
<1>2. IsFiniteSet(exits) /\ IsFiniteSet(exits') /\ Cardinality(exits') = Cardinality(exits) + 1
  BY <1>0, <1>1, FS_AddElement, Zenon DEF StatusInv, ExitInv
<1>3. \/ current_pid # SHELL_PID /\ current_pid \in 1 .. next_pid - 1
      \/ current_pid = SHELL_PID
  BY DEF RootInv, CallInv, TableTypeOK, Pids
<1>4. ExitInv'
  BY <1>0, <1>2, <1>3 DEF StatusInv, ExitInv, SHELL_PID, Returned
<1>5. QueuedExits'
  BY <1>0, FaithfulParts, Zenon DEF StatusInv, QueuedExits, SHELL_PID
<1>6. AllRecorded'
  <2>1. records = Cardinality(exits) /\ records \in Nat
    BY <1>0, FaithfulParts DEF StatusInv, AllRecorded, CallInv, TableTypeOK
  <2>. QED BY <1>0, <1>2, <2>1, Zenon DEF AllRecorded
<1>7. StatusFaithful'
  BY <1>5, <1>6, Zenon DEF StatusFaithful, QueuedExits, AllRecorded
<1>. QED BY <1>4, <1>7, Zenon DEF StatusInv

(* Taking an entry out of the queue leaves entries of it.                  *)
LEMMA RemovedEntries ==
    ASSUME NEW q \in Seq(Status), NEW i \in 1 .. Len(q), NEW k \in 1 .. Len(Removed(q, i))
    PROVE  \E j \in 1 .. Len(q) : Removed(q, i)[k] = q[j]
<1>1. Len(q) \in Nat /\ Len(Removed(q, i)) = Len(q) - 1
      /\ Removed(q, i)[k] = IF k < i THEN q[k] ELSE q[k + 1]
  BY RemovedFacts, LenProperties, Zenon
<1>2. k \in 1 .. Len(q) /\ k + 1 \in 1 .. Len(q)
  BY <1>1
<1>. QED BY <1>1, <1>2, Zenon

(* record_child_exit queues exactly the exit that is to be recorded.       *)
LEMMA RecordStatus ==
    ASSUME CallInv, RootInv, StatusInv, record_exit
    PROVE  StatusInv'
<1>0. /\ phase = "marked" /\ phase' = "recorded" /\ exits' = exits /\ exit_code' = exit_code
      /\ current_pid' = current_pid /\ next_pid' = next_pid
  BY Zenon DEF record_exit, RecordExit, record_child_exit, creation, history
<1>1. current_pid # SHELL_PID /\ current_pid # NoPid /\ SHELL_PID # NoPid
  BY <1>0 DEF RootInv, CallInv, Pids, SHELL_PID, NoPid
<1>. DEFINE kept == IF full THEN Removed(child_status_queue, 1) ELSE child_status_queue
            new == [parent |-> SHELL_PID, child |-> current_pid, code |-> exit_code,
                    n |-> records + 1]
<1>2. records' = records + 1 /\ child_status_queue' = Append(kept, new)
  BY <1>1, Zenon DEF record_exit, RecordExit, record_child_exit
<1>3. ExitInv'
  BY <1>0, <1>1, Zenon DEF StatusInv, ExitInv, SHELL_PID, Returned
<1>4. AllRecorded'
  <2>1. records + 1 = Cardinality(exits) /\ records \in Nat
    BY <1>0, FaithfulParts, Zenon DEF StatusInv, AllRecorded, CallInv, TableTypeOK
  <2>. QED BY <1>0, <1>2, <2>1 DEF AllRecorded
<1>5. QueuedExits'
  <2>0. child_status_queue \in Seq(Status) /\ Len(child_status_queue) \in Nat
    BY LenProperties, Zenon DEF CallInv, TableTypeOK
  <2>1. kept \in Seq(Status)
        /\ \A k \in 1 .. Len(kept) : \E j \in 1 .. Len(child_status_queue) :
              kept[k] = child_status_queue[j]
    <3>1. CASE full
      <4>1. 1 \in 1 .. Len(child_status_queue)
        BY <2>0, <3>1, ProcessAssumption DEF full
      <4>. QED BY <2>0, <3>1, <4>1, RemovedFacts, RemovedEntries, Zenon
    <3>2. CASE ~full
      BY <2>0, <3>2, Zenon
    <3>. QED BY <3>1, <3>2, Zenon
  <2>. HIDE DEF kept
  <2>2. <<new.child, new.code>> \in exits /\ new.parent = SHELL_PID
    BY <1>0, Zenon DEF StatusInv, ExitInv, Returned
  <2>3. new \in Status
    BY <1>0, ProcessAssumption DEF Status, CallInv, TableTypeOK, Pids, SHELL_PID, Returned
  <2>. HIDE DEF new
  <2>4. /\ Len(kept) \in Nat /\ Len(child_status_queue') = Len(kept) + 1
        /\ \A k \in 1 .. Len(kept) : child_status_queue'[k] = kept[k]
        /\ child_status_queue'[Len(kept) + 1] = new
    BY <1>2, <2>1, <2>3, AppendProperties, LenProperties
  <2>5. ASSUME NEW k \in 1 .. Len(child_status_queue')
        PROVE  /\ child_status_queue'[k].parent = SHELL_PID
               /\ <<child_status_queue'[k].child, child_status_queue'[k].code>> \in exits
    <3>1. CASE k = Len(kept) + 1
      <4>1. child_status_queue'[k] = new
        BY <2>4, <3>1, Zenon
      <4>. QED BY <2>2, <4>1, Zenon
    <3>2. CASE k # Len(kept) + 1
      <4>1. k \in 1 .. Len(kept)
        BY <2>4, <3>2
      <4>2. PICK j \in 1 .. Len(child_status_queue) : kept[k] = child_status_queue[j]
        BY <2>1, <4>1, Zenon
      <4>3. child_status_queue'[k] = child_status_queue[j]
        BY <2>4, <4>1, <4>2, Zenon
      <4>. QED BY <4>3, FaithfulParts, Zenon DEF StatusInv, QueuedExits
    <3>. QED BY <3>1, <3>2, Zenon
  <2>. QED BY <1>0, <2>5, Zenon DEF QueuedExits, SHELL_PID
<1>6. StatusFaithful'
  BY <1>4, <1>5, Zenon DEF StatusFaithful, QueuedExits, AllRecorded
<1>. QED BY <1>3, <1>6, Zenon DEF StatusInv

(* wait takes a status off the queue and puts none on it.                  *)
LEMMA WaitStatus ==
    ASSUME CallInv, StatusInv, wait
    PROVE  StatusInv'
<1>0. /\ phase' = phase /\ exits' = exits /\ exit_code' = exit_code
      /\ current_pid' = current_pid /\ next_pid' = next_pid /\ records' = records
      /\ child_status_queue \in Seq(Status)
  BY Zenon DEF wait, wait_child, creation, history, CallInv, TableTypeOK
<1>1. ExitInv'
  BY <1>0, Zenon DEF StatusInv, ExitInv, SHELL_PID, Returned
<1>2. AllRecorded'
  BY <1>0, FaithfulParts, Zenon DEF StatusInv, AllRecorded
<1>3. QueuedExits'
  <2>1. CASE UNCHANGED child_status_queue
    BY <1>0, <2>1, FaithfulParts, Zenon DEF StatusInv, QueuedExits, SHELL_PID
  <2>2. ASSUME NEW i \in 1 .. Len(child_status_queue),
               child_status_queue' = Removed(child_status_queue, i)
        PROVE  QueuedExits'
    <3>1. \A k \in 1 .. Len(child_status_queue') : \E j \in 1 .. Len(child_status_queue) :
             child_status_queue'[k] = child_status_queue[j]
      BY <1>0, <2>2, RemovedEntries, Zenon
    <3>2. QueuedExits
      BY FaithfulParts, Zenon DEF StatusInv
    <3>3. ASSUME NEW k \in 1 .. Len(child_status_queue')
          PROVE  /\ child_status_queue'[k].parent = SHELL_PID
                 /\ <<child_status_queue'[k].child, child_status_queue'[k].code>> \in exits
      <4>1. PICK j \in 1 .. Len(child_status_queue) :
               child_status_queue'[k] = child_status_queue[j]
        BY <3>1, Zenon
      <4>. QED BY <3>2, <4>1, Zenon DEF QueuedExits
    <3>. QED BY <1>0, <3>3, Zenon DEF QueuedExits, SHELL_PID
  <2>. QED BY <2>1, <2>2, Zenon DEF wait, wait_child
<1>4. StatusFaithful'
  BY <1>2, <1>3, Zenon DEF StatusFaithful, QueuedExits, AllRecorded
<1>. QED BY <1>1, <1>4, Zenon DEF StatusInv

(* Every step preserves the invariant about statuses.                      *)
LEMMA StatusStep ==
    ASSUME CallInv, TableInv, RootInv, StatusInv, [Next]_vars
    PROVE  StatusInv'
<1>0. phase = "boot" => current_pid = SHELL_PID
  BY Zenon DEF RootInv
<1>. DEFINE Same == UNCHANGED <<exits, child_status_queue, records, exit_code>>
<1>a. ASSUME NEW mode, NEW image, create_process(mode, image)
      PROVE  UNCHANGED <<child_status_queue, records>>
  BY <1>a, ZenonT(40) DEF create_process, queue_vars
<1>1. CASE reserve_shell_pid
  <2>1. Same /\ phase = "boot" /\ phase' = "user" /\ current_pid' = current_pid
    BY <1>1, <1>a, Zenon DEF reserve_shell_pid, create, history
  <2>. QED BY <1>0, <2>1, QuietStatus, Zenon
<1>2. CASE shell_exited
  <2>1. Same /\ phase = "exited" /\ phase' = "halted" /\ current_pid' = current_pid
    BY <1>2, Zenon DEF shell_exited, history, table_vars, queue_vars
  <2>. QED BY <1>0, <2>1, QuietStatus, Zenon
<1>3. CASE mark_exited
  <2>1. /\ Same /\ phase = "exited" /\ phase' = "marked"
        /\ current_pid' = current_pid /\ current_pid # SHELL_PID
    BY <1>3, Zenon DEF mark_exited, mark_user_exited, history, queue_vars
  <2>. QED BY <1>0, <2>1, QuietStatus, Zenon
<1>4. CASE record_exit
  BY <1>4, RecordStatus, Zenon
<1>5. CASE reap_and_restart
  <2>1. Same /\ phase = "recorded" /\ phase' = "user" /\ current_pid' = SHELL_PID
    BY <1>5, Zenon DEF reap_and_restart, ReapReturned, reap_user, history, queue_vars
  <2>. QED BY <1>0, <2>1, QuietStatus, Zenon
<1>6. CASE process_input
  <2>1. Same /\ phase' = phase /\ current_pid' = current_pid
    BY <1>6, <1>a, Zenon DEF process_input, SpawnImage, create_user_image, table_vars, queue_vars
  <2>. QED BY <1>0, <2>1, QuietStatus, Zenon
<1>7. CASE shell_loop
  <2>1. Same /\ phase' = phase /\ current_pid' = current_pid
    BY <1>7, Zenon DEF shell_loop, history, table_vars, queue_vars
  <2>. QED BY <1>0, <2>1, QuietStatus, Zenon
<1>8. ASSUME NEW image \in Images, exec(image) PROVE StatusInv'
  <2>1. /\ Same /\ phase' = phase /\ phase = "user"
        /\ current_pid' = current_pid \/ current_pid' = next_pid
    BY <1>8, <1>a, Zenon DEF exec, create_user_image, history, Calls, ShellRuns, ProgramRuns
  <2>. QED BY <1>0, <2>1, QuietStatus, Zenon
<1>9. ASSUME NEW image \in Images, spawn(image) PROVE StatusInv'
  <2>1. Same /\ phase' = phase /\ current_pid' = current_pid
    BY <1>9, <1>a, Zenon DEF spawn, SpawnImage, create_user_image
  <2>. QED BY <1>0, <2>1, QuietStatus, Zenon
<1>10. CASE wait
  BY <1>10, WaitStatus, Zenon
<1>11. ASSUME NEW code \in ExitCodes, exit(code) PROVE StatusInv'
  BY <1>11, ExitStatus, Zenon
<1>12. CASE UNCHANGED vars
  <2>1. Same /\ phase' = phase /\ current_pid' = current_pid
    BY <1>12, Zenon DEF vars, history, table_vars, queue_vars
  <2>. QED BY <1>0, <2>1, QuietStatus, Zenon
<1>. QED BY <1>1, <1>2, <1>3, <1>4, <1>5, <1>6, <1>7, <1>8, <1>9, <1>10, <1>11, <1>12, Zenon
         DEF Next, KernelStep

(* Whatever programs execute, spawn and wait for: a status in the queue is *)
(* that of a program which exited with it, under the pid of the shell, and *)
(* every program that came back has been recorded exactly once.            *)
THEOREM StatusesFaithful == Spec => []StatusFaithful
<1>1. Init => StatusInv
  <2>1. Init => QueuedExits /\ AllRecorded
    BY FS_EmptySet DEF Init, TableInit, QueuedExits, AllRecorded
  <2>2. Init => ExitInv
    BY FS_EmptySet, Zenon DEF Init, TableInit, ExitInv, Returned
  <2>. QED BY <2>1, <2>2, FaithfulParts, Zenon DEF StatusInv
<1>2. CallInv /\ TableInv /\ RootInv /\ StatusInv /\ [Next]_vars => StatusInv'
  BY StatusStep, Zenon
<1>3. StatusInv => StatusFaithful
  BY Zenon DEF StatusInv
<1>. QED BY <1>1, <1>2, <1>3, CallsTyped, RootsKept, PTL DEF Spec
=============================================================================
