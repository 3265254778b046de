------------------------------- MODULE Screen -------------------------------
(***************************************************************************)
(* What the text screen promises (core/inc/vga.h): lines of cells and a    *)
(* position; a character goes to the position, a full or ended line makes  *)
(* room for the next, and the oldest line leaves at the top.               *)
(***************************************************************************)
EXTENDS Naturals, Sequences

CONSTANTS Width, Height, Glyphs, Blank

VARIABLES lines, column, line

BlankLine == [k \in 1 .. Width |-> Blank]

Init ==
  /\ lines = [n \in 1 .. Height |-> BlankLine]
  /\ column = 1 /\ line = 1

\* To the next line, at column k, with the text t.
NextLine(t, k) ==
  /\ column' = k
  /\ \/ line < Height /\ line' = line + 1 /\ lines' = t
     \/ line = Height /\ line' = line /\ lines' = Append(Tail(t), BlankLine)

Put(g) ==
  LET t == [lines EXCEPT ![line][column] = g]
  IN \/ column < Width /\ column' = column + 1 /\ lines' = t /\ UNCHANGED line
     \/ column = Width /\ NextLine(t, 1)

LineFeed == \E k \in {1, column} : NextLine(lines, k)

Backspace ==
  /\ column > 1
  /\ column' = column - 1
  /\ lines' = [lines EXCEPT ![line][column - 1] = Blank]
  /\ UNCHANGED line

Next == LineFeed \/ Backspace \/ \E g \in Glyphs : Put(g)

Spec == Init /\ [][Next]_<<lines, column, line>>
=============================================================================
