------------------------------ MODULE LineBuffer ------------------------------
(***************************************************************************)
(* The lines of the bus on stdin (charlotte-client.c): libuv reads pieces, *)
(* addbuf puts them behind what is in buffer, and process_buffer hands the *)
(* complete lines to parse_nmea.                                           *)
(*                                                                         *)
(* The buffer is the array it is in the code, with a Nul behind the string *)
(* in it.  What the code writes beyond its end is not modelled.            *)
(***************************************************************************)
EXTENDS Integers, Sequences, FiniteSets, SequencesExt

CONSTANTS
  Letters,     \* what lines are made of
  CR, LF, Nul, \* what ends a line, and a string
  BUFFER_SIZE, \* the characters the buffer has room for
  MaxRead,     \* bound: the characters of one read
  MaxInput     \* bound: the characters of all reads

ASSUME BufferAssumption ==
  /\ BUFFER_SIZE \in Nat \ {0} /\ MaxRead \in Nat /\ MaxInput \in Nat
  /\ CR # LF /\ {CR, LF, Nul} \cap Letters = {} /\ Nul \notin {CR, LF}

VARIABLES
  buffer, \* buffer
  closed, \* the end of the input was read, and the pipe closed
  lines,  \* history: the lines handed to parse_nmea
  input,  \* history: all that was read
  lost,   \* history: a read did not fit into the buffer
  blank   \* history: the last loop of process_buffer ended at an empty line

vars == <<buffer, closed, lines, input, lost, blank>>

Breaks == {CR, LF}
Chars == Letters \cup Breaks
Bytes == 1 .. BUFFER_SIZE + 1
Buffers == [Bytes -> Chars \cup {Nul}]
First(S) == CHOOSE x \in S : \A y \in S : x <= y

\* The end of the string in b, its Nul or the end of the array.
Strlen(b) == First({i \in Bytes : b[i] = Nul} \cup {BUFFER_SIZE + 2}) - 1
String(b) == [i \in 1 .. Strlen(b) |-> b[i]]

\* memcpy of s to b, from offset at.
Put(b, at, s) == [i \in Bytes |-> IF i - at \in 1 .. Len(s) THEN s[i - at] ELSE b[i]]

Init ==
  /\ buffer = [i \in Bytes |-> Nul] /\ closed = FALSE
  /\ lines = <<>> /\ input = <<>> /\ lost = FALSE /\ blank = FALSE
-----------------------------------------------------------------------------
\* Mutant: the Nul is forgotten.
FitsExactly(n) == n + Strlen(buffer) <= BUFFER_SIZE + 1

\* addbuf has room for n more characters and the Nul.
Fits(n) == n + Strlen(buffer) + 1 <= BUFFER_SIZE

\* addbuf appends: the Nul is stored len behind the end of the new string, so
\* it is the Nul that was there which ends it.
Appended(s) ==
  LET b == Put(buffer, Strlen(buffer), s)
  IN Put(b, Strlen(b) + Len(s), <<Nul>>)

\* addbuf with a piece as large as the buffer: its end replaces all.
Replaced(s) ==
  Put(buffer, 0, SubSeq(s, Len(s) - BUFFER_SIZE + 1, Len(s)) \o <<Nul>>)

\* addbuf in between: the string moves by the length of the piece and not by
\* what is missing, and the piece goes to that offset and not to its end.
Shifted(s) ==
  LET k == Len(s) + 1
  IN Put(Put(buffer, 0, SubSeq(String(buffer), k + 1, Strlen(buffer))), k, s \o <<Nul>>)

\* buf_getline takes the first pos characters off the buffer.
Shift(b, pos) ==
  [i \in Bytes |-> IF i + pos <= BUFFER_SIZE THEN b[i + pos]
                   ELSE IF i <= BUFFER_SIZE THEN Nul ELSE b[i]]

\* Mutant: the character behind a line goes too, whatever it is.
TakenTogether(b, e) == IF e < BUFFER_SIZE - 1 /\ b[e + 1] # Nul THEN e + 1 ELSE e

\* What goes with a line that ends at e: a second break behind it goes too.
Taken(b, e) == IF e < BUFFER_SIZE - 1 /\ b[e + 1] \in Breaks THEN e + 1 ELSE e

Ends(b) == {i \in 1 .. Strlen(b) : i <= BUFFER_SIZE /\ b[i] \in Breaks}

\* The loop of process_buffer with buf_getline: a line ends at the first break,
\* an empty line ends the loop.
getlines[b \in Buffers] ==
  LET e    == First(Ends(b))
      left == Shift(b, Taken(b, e))
  IN IF Ends(b) = {} THEN [lines |-> <<>>, rest |-> b, blank |-> FALSE]
     ELSE IF e = 1 THEN [lines |-> <<>>, rest |-> left, blank |-> TRUE]
     ELSE [getlines[left] EXCEPT !.lines = <<SubSeq(String(b), 1, e - 1)>> \o @]

\* Mutant: one line for each read.
process_buffer_once(b) ==
  LET e == First(Ends(b))
  IN IF Ends(b) = {}
       THEN buffer' = b /\ blank' = FALSE /\ UNCHANGED lines
       ELSE /\ buffer' = Shift(b, Taken(b, e))
            /\ lines' = IF e = 1 THEN lines ELSE Append(lines, SubSeq(String(b), 1, e - 1))
            /\ blank' = (e = 1)

\* process_buffer on the buffer b.
process_buffer(b) ==
  LET r == getlines[b]
  IN buffer' = r.rest /\ lines' = lines \o r.lines /\ blank' = r.blank

Pieces == UNION {[1 .. n -> Chars] : n \in 1 .. MaxRead}

\* A new process.
Restart ==
  /\ buffer' = [i \in Bytes |-> Nul] /\ closed' = FALSE
  /\ lines' = <<>> /\ input' = <<>> /\ lost' = FALSE /\ blank' = FALSE

\* read_stdin with a piece that fits, and with one that does not.
ReadFitting(s) ==
  /\ Len(s) < BUFFER_SIZE /\ Fits(Len(s))
  /\ process_buffer(Appended(s))
  /\ UNCHANGED lost

ReadReplacing(s) ==
  /\ Len(s) >= BUFFER_SIZE
  /\ process_buffer(Replaced(s))
  /\ lost' = (lost \/ Strlen(buffer) > 0 \/ Len(s) > BUFFER_SIZE)

ReadShifting(s) ==
  /\ Len(s) < BUFFER_SIZE /\ ~Fits(Len(s)) /\ Strlen(buffer) > Len(s)
  /\ process_buffer(Shifted(s))
  /\ lost' = TRUE

read_stdin ==
  \E s \in Pieces :
    /\ ~closed /\ Len(input) + Len(s) <= MaxInput
    /\ input' = input \o s
    /\ ReadFitting(s) \/ ReadReplacing(s) \/ ReadShifting(s)
    /\ UNCHANGED closed

\* In between, with a string shorter than the piece, the length of the move
\* is negative, as a size_t enormous: the process dies in memcpy.
ReadDying ==
  /\ ~closed
  /\ \E s \in Pieces : Len(s) < BUFFER_SIZE /\ ~Fits(Len(s)) /\ Strlen(buffer) <= Len(s)
  /\ Restart

\* read_stdin at the end of the input: what is left is never handed on.
ReadEOF ==
  /\ ~closed /\ closed' = TRUE
  /\ UNCHANGED <<buffer, lines, input, lost, blank>>

Next == read_stdin \/ ReadDying \/ ReadEOF \/ Restart

Spec == Init /\ [][Next]_vars
-----------------------------------------------------------------------------
\* Types; the string stays inside the buffer while every read has fitted.
BufferTypeOK ==
  /\ buffer \in Buffers
  /\ closed \in BOOLEAN /\ lost \in BOOLEAN /\ blank \in BOOLEAN
  /\ lines \in Seq(Seq(Chars)) /\ input \in Seq(Chars)
  /\ lost \/ buffer[BUFFER_SIZE + 1] = Nul

\* What one more character makes of the lines and what follows the last.
Read(r, c) ==
  IF c \notin Breaks THEN [r EXCEPT !.rest = Append(@, c)]
  ELSE IF r.rest = <<>> THEN r
  ELSE [done |-> Append(r.done, r.rest), rest |-> <<>>]

\* The lines of a text and what follows the last: breaks in a row are one.
Split[text \in Seq(Chars)] ==
  IF text = <<>> THEN [done |-> <<>>, rest |-> <<>>]
  ELSE Read(Split[Front(text)], Last(text))

\* However the input is cut into pieces, the parser gets its lines in order,
\* none lost, joined or torn: they and what is in the buffer are the input.
\* The appends depend on the Nuls that the shifts leave behind the string.
LinesIntact ==
  ~lost => LET all == Split[input] kept == Split[String(buffer)]
           IN all.done = lines \o kept.done /\ all.rest = kept.rest

\* No complete line waits in the buffer for the next read, unless an empty
\* line ended the loop: a blank one, or the LF of a CR LF that was cut.
NoneHeldBack ==
  ~blank /\ ~lost => \A i \in 1 .. Strlen(buffer) : buffer[i] \notin Breaks
=============================================================================
