------------------------------ MODULE X64Input ------------------------------
(***************************************************************************)
(* The x86_64 timer and keyboard (arch/x86_64/idt.c): the tick count, the  *)
(* ring of typed characters and the ring of key events, as functions of    *)
(* their state.  An event is its scancode, the character it types and its  *)
(* sequence number; its flags follow from the scancode.  Counters that are *)
(* only reported are left out.                                             *)
(***************************************************************************)
EXTENDS Naturals, Sequences, FiniteSetsExt

CONSTANTS X86_64_KEYBOARD_BUFFER_CAPACITY,
          X86_64_INPUT_EVENT_QUEUE_CAPACITY,
          Nul,                       \* the map entry of a key that types nothing
          ShiftPress, ShiftRelease,  \* the scancodes of the shift keys
          BreakCodes,                \* the scancodes with bit 7, shift apart
          scancode_ascii_map,
          scancode_shift_ascii_map

\* Both rings have room for something.
ASSUME InputAssumption ==
  /\ X86_64_KEYBOARD_BUFFER_CAPACITY \in Nat \ {0}
  /\ X86_64_INPUT_EVENT_QUEUE_CAPACITY \in Nat \ {0}

Scancodes == {ShiftPress, ShiftRelease} \cup BreakCodes \cup DOMAIN scancode_ascii_map

(* The keyboard *)

keyboard_buffer_reset ==
  [shift_pressed |-> FALSE,
   buffer |-> [i \in 0..X86_64_KEYBOARD_BUFFER_CAPACITY - 1 |-> Nul],
   head |-> 0, tail |-> 0, count |-> 0, overflows |-> 0,
   queue |-> [i \in 0..X86_64_INPUT_EVENT_QUEUE_CAPACITY - 1 |->
                [code |-> Nul, value |-> Nul, sequence |-> 0]],
   event_head |-> 0, event_tail |-> 0, event_count |-> 0,
   next_sequence |-> 1, drops |-> 0]

latest_sequence(k) == IF k.next_sequence = 0 THEN 0 ELSE k.next_sequence - 1

\* The count is corrected but the head stays on the event overwritten.
DropOldest_keeps_head(k) ==
  IF k.event_count < X86_64_INPUT_EVENT_QUEUE_CAPACITY THEN k
  ELSE [k EXCEPT !.event_count = @ - 1, !.drops = @ + 1]

DropOldest(k) ==
  IF k.event_count < X86_64_INPUT_EVENT_QUEUE_CAPACITY THEN k
  ELSE [k EXCEPT !.event_head = (@ + 1) % X86_64_INPUT_EVENT_QUEUE_CAPACITY,
                 !.event_count = @ - 1,
                 !.drops = @ + 1]

input_event_push(k, code, value) ==
  LET room == DropOldest(k)
  IN  [room EXCEPT
        !.queue[room.event_tail] =
            [code |-> code, value |-> value, sequence |-> room.next_sequence],
        !.next_sequence = @ + 1,
        !.event_tail = (@ + 1) % X86_64_INPUT_EVENT_QUEUE_CAPACITY,
        !.event_count = @ + 1]

keyboard_buffer_push(k, ascii) ==
  IF k.count >= X86_64_KEYBOARD_BUFFER_CAPACITY
  THEN [k EXCEPT !.overflows = @ + 1]
  ELSE [k EXCEPT !.buffer[k.tail] = ascii,
                 !.tail = (@ + 1) % X86_64_KEYBOARD_BUFFER_CAPACITY,
                 !.count = @ + 1]

keyboard_translate_scancode(k, scancode) ==
  IF k.shift_pressed THEN scancode_shift_ascii_map[scancode]
                     ELSE scancode_ascii_map[scancode]

ShiftKey(k, scancode) ==
  input_event_push([k EXCEPT !.shift_pressed = (scancode = ShiftPress)], scancode, Nul)

MakeCode(k, scancode) ==
  LET ascii == keyboard_translate_scancode(k, scancode)
      noted == input_event_push(k, scancode, ascii)
  IN  IF ascii = Nul THEN noted
      ELSE keyboard_buffer_push(noted, ascii)

keyboard_handle_irq(k, scancode) ==
  IF scancode \in {ShiftPress, ShiftRelease} THEN ShiftKey(k, scancode)
  ELSE IF scancode \in BreakCodes THEN input_event_push(k, scancode, Nul)
  ELSE MakeCode(k, scancode)

\* What the rings hold, oldest first.
Buffered(k) ==
  [i \in 1..k.count |-> k.buffer[(k.head + i - 1) % X86_64_KEYBOARD_BUFFER_CAPACITY]]

Queued(k) ==
  [i \in 1..k.event_count |->
     k.queue[(k.event_head + i - 1) % X86_64_INPUT_EVENT_QUEUE_CAPACITY]]

\* The loop of keyboard_read takes characters from the head until the
\* caller's buffer is full or the ring is empty.
keyboard_read(k, size) ==
  LET bytes == Min({size, k.count})
  IN  [bytes |-> SubSeq(Buffered(k), 1, bytes),
       keyboard |-> [k EXCEPT
          !.head = (@ + bytes) % X86_64_KEYBOARD_BUFFER_CAPACITY,
          !.count = @ - bytes]]

\* The loop of input_events_read_from, event by event from the oldest: what
\* the caller has and its cursor after the first i events.
EventsAfter(k, cursor, from, max_events) ==
  LET after[i \in 0..k.event_count] ==
        IF i = 0 THEN [events |-> <<>>, cursor |-> cursor]
        ELSE IF Len(after[i - 1].events) < max_events /\ Queued(k)[i].sequence > from
        THEN [events |-> Append(after[i - 1].events, Queued(k)[i]),
              cursor |-> Queued(k)[i].sequence]
        ELSE after[i - 1]
  IN  after[k.event_count]

\* A reader whose cursor fell behind the oldest event starts at the oldest.
ReadFrom(k, cursor) ==
  IF cursor + 1 < Queued(k)[1].sequence THEN Queued(k)[1].sequence - 1 ELSE cursor

input_events_read_from(k, cursor, max_events) ==
  CASE max_events = 0 -> [events |-> <<>>, cursor |-> cursor]
    [] max_events > 0 /\ k.event_count = 0 -> [events |-> <<>>, cursor |-> latest_sequence(k)]
    [] OTHER -> EventsAfter(k, cursor, ReadFrom(k, cursor), max_events)

(* The timer *)

timer_handle_irq(t) == [t EXCEPT !.ticks = @ + 1]

\* timer_initialize has enabled interrupts and unmasked IRQ 0, the other
\* conditions of timer_ok.  elapsed: the ticks counted before the wait ended, by reaching its target
\* or by using up its spin budget.
timer_wait_for_ticks(t, ticks, elapsed) ==
  [t EXCEPT !.ticks = @ + elapsed,
            !.waited_ticks = elapsed,
            !.timer_ok = (elapsed >= ticks)]

timer_initialize == [ticks |-> 0, waited_ticks |-> 0, timer_ok |-> FALSE]
=============================================================================
