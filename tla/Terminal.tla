------------------------------ MODULE Terminal ------------------------------
(***************************************************************************)
(* What console.c promises of its input: a line under edition that erase   *)
(* and kill change, and the input that has been handed over to read(),     *)
(* which nothing but a reader changes again.                               *)
(***************************************************************************)
EXTENDS Naturals, Sequences

CONSTANTS Keys,            \* characters that are stored
          Ends(_),         \* a character that hands the line over
          Size             \* characters the terminal keeps

VARIABLES line,    \* being edited
          input    \* handed over, not read yet

Init == line = <<>> /\ input = <<>>

\* A character is added; an end of line, an end of file and a full buffer hand
\* the line over.
add(c) ==
  /\ Len(input) + Len(line) < Size
  /\ IF Ends(c) \/ Len(input) + Len(line) + 1 = Size
     THEN input' = input \o Append(line, c) /\ line' = <<>>
     ELSE line' = Append(line, c) /\ UNCHANGED input

erase == line # <<>> /\ line' = SubSeq(line, 1, Len(line) - 1) /\ UNCHANGED input

kill == line' = <<>> /\ UNCHANGED input

\* A reader takes characters, oldest first.
take == \E k \in 1 .. Len(input) : input' = SubSeq(input, k + 1, Len(input)) /\ UNCHANGED line

Next == (\E c \in Keys : add(c)) \/ erase \/ kill \/ take

Spec == Init /\ [][Next]_<<line, input>>
=============================================================================
