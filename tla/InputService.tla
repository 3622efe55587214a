---------------------------- MODULE InputService ----------------------------
(***************************************************************************)
(* What keyboard input promises a program: typed characters come out in    *)
(* the order they were typed, each once, and are refused only while        *)
(* Characters of them wait; key events are numbered from one, the latest   *)
(* Events of them can be read, and a reader is handed the ones after its   *)
(* cursor in order.                                                        *)
(***************************************************************************)
EXTENDS Naturals, Sequences, FiniteSetsExt

CONSTANTS Characters,   \* how many characters can wait
          Events,       \* how many events are kept
          SilentKeys,   \* [code, value] of the keys that type nothing
          TypingKeys    \* [code, value] of the keys that type a character

VARIABLES fifo,         \* the characters that wait, oldest first
          lost,         \* how many characters were refused
          window,       \* the events kept, oldest first
          latest,       \* how many events there have been
          cursor,       \* the number of the last event the reader has seen
          handed        \* what the last call handed out

avars == <<fifo, lost, window, latest, cursor, handed>>

Nothing == [characters |-> <<>>, events |-> <<>>]

AInit ==
  /\ fifo = <<>> /\ lost = 0
  /\ window = <<>> /\ latest = 0
  /\ cursor = 0 /\ handed = Nothing

\* Event number latest + 1 is about this key.
Remember(key) ==
  /\ window' = LET longer == Append(window, [code |-> key.code, value |-> key.value,
                                             sequence |-> latest + 1])
               IN  IF Len(longer) > Events THEN Tail(longer) ELSE longer
  /\ latest' = latest + 1

\* A key that types nothing leaves only an event.
Press(key) ==
  /\ Remember(key)
  /\ UNCHANGED <<fifo, lost, cursor, handed>>

Type(key) ==
  /\ Remember(key)
  /\ \/ Len(fifo) < Characters /\ fifo' = Append(fifo, key.value) /\ UNCHANGED lost
     \/ Len(fifo) = Characters /\ lost' = lost + 1 /\ UNCHANGED fifo
  /\ UNCHANGED <<cursor, handed>>

\* A reader gets the oldest characters, as many as it has room for.
TakeCharacters(room) ==
  LET n == Min({room, Len(fifo)})
  IN  /\ fifo' = SubSeq(fifo, n + 1, Len(fifo))
      /\ handed' = [Nothing EXCEPT !.characters = SubSeq(fifo, 1, n)]
      /\ UNCHANGED <<lost, window, latest, cursor>>

\* Event number latest - Len(window) + i is window[i].  A reader gets the
\* oldest events after its cursor that are still kept.
TakeEvents(room) ==
  LET dropped == latest - Len(window)
      seen == IF cursor > dropped THEN cursor - dropped ELSE 0
      n == Min({room, Len(window) - seen})
  IN  /\ handed' = [Nothing EXCEPT !.events = SubSeq(window, seen + 1, seen + n)]
      /\ cursor' = IF n = 0 THEN cursor ELSE dropped + seen + n
      /\ UNCHANGED <<fifo, lost, window, latest>>

\* A reader that starts afresh sees only events still to come.
StartReading ==
  /\ cursor' = latest /\ handed' = Nothing
  /\ UNCHANGED <<fifo, lost, window, latest>>

OtherAnswer ==
  /\ handed' = Nothing
  /\ UNCHANGED <<fifo, lost, window, latest, cursor>>

ANext ==
  \/ OtherAnswer
  \/ \E key \in SilentKeys : Press(key)
  \/ \E key \in TypingKeys : Type(key)
  \/ \E room \in 0..Characters : TakeCharacters(room)
  \/ \E room \in 0..Events : TakeEvents(room)
  \/ StartReading

ASpec == AInit /\ [][ANext]_avars
=============================================================================
