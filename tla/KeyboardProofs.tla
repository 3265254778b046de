--------------------------- MODULE KeyboardProofs ---------------------------
(***************************************************************************)
(* Proofs about Vga and Keyboard, for a screen of any size, any keys and   *)
(* any number of them typed.                                               *)
(***************************************************************************)
EXTENDS Keyboard, SequenceTheorems, TLAPS

Columns == 0 .. VGA_WIDTH - 1
Rows == 0 .. VGA_HEIGHT - 1
CellValues == Glyphs \cup {Blank}

VgaTyped == vga_buff \in [Cells -> CellValues] /\ x_pos \in Columns /\ y_pos \in Rows
VgaInv == VgaTyped /\ CursorAtPosition

-----------------------------------------------------------------------------
(* Offsets: the cells are the places of the screen, row after row.         *)

LEMMA ProductGrows ==
  ASSUME NEW a \in Nat, NEW b \in Nat, NEW w \in Nat, a < b
  PROVE  a * w + w <= b * w
<1> DEFINE d == b - a - 1
<1>1. d \in Nat /\ b = a + 1 + d
  OBVIOUS
<1> HIDE DEF d
<1>2. b * w = a * w + w + d * w
  BY <1>1
<1>3. d * w >= 0 /\ d * w \in Int /\ a * w \in Int
  BY <1>1
<1> QED
  BY <1>2, <1>3

LEMMA OffsetFacts ==
  ASSUME NEW x \in Columns, NEW y \in Nat
  PROVE  /\ get_offset_from_coord(x, y) \in Nat
         /\ get_offset_from_coord(x, y) \in Cells <=> y \in Rows
         /\ get_offset_from_coord(x, y) + VGA_WIDTH = get_offset_from_coord(x, y + 1)
<1>1. /\ VGA_WIDTH \in Nat /\ VGA_WIDTH > 0 /\ VGA_HEIGHT \in Nat /\ VGA_HEIGHT > 0
      /\ x \in Nat /\ x < VGA_WIDTH
  BY VgaAssumption DEF Columns
<1>2. /\ y * VGA_WIDTH \in Nat /\ VGA_WIDTH * VGA_HEIGHT = VGA_HEIGHT * VGA_WIDTH
      /\ VGA_HEIGHT * VGA_WIDTH \in Nat
      /\ (y + 1) * VGA_WIDTH = y * VGA_WIDTH + VGA_WIDTH
  BY <1>1
<1>3. y < VGA_HEIGHT => y * VGA_WIDTH + VGA_WIDTH <= VGA_HEIGHT * VGA_WIDTH
  BY <1>1, ProductGrows
<1>4. ~(y < VGA_HEIGHT) => VGA_HEIGHT * VGA_WIDTH <= y * VGA_WIDTH
  <2> SUFFICES ASSUME ~(y < VGA_HEIGHT) PROVE VGA_HEIGHT * VGA_WIDTH <= y * VGA_WIDTH
    OBVIOUS
  <2>1. CASE y = VGA_HEIGHT
    BY <2>1, <1>2
  <2>2. CASE VGA_HEIGHT < y
    BY <2>2, <1>1, <1>2, ProductGrows
  <2> QED
    BY <2>1, <2>2, <1>1
<1> QED
  BY <1>1, <1>2, <1>3, <1>4 DEF get_offset_from_coord, Cells, VGA_CELL_COUNT, Rows

LEMMA OffsetInjective ==
  ASSUME NEW x1 \in Columns, NEW y1 \in Nat, NEW x2 \in Columns, NEW y2 \in Nat,
         get_offset_from_coord(x1, y1) = get_offset_from_coord(x2, y2)
  PROVE  x1 = x2 /\ y1 = y2
<1>1. /\ VGA_WIDTH \in Nat /\ x1 \in Nat /\ x1 < VGA_WIDTH /\ x2 \in Nat /\ x2 < VGA_WIDTH
      /\ y1 * VGA_WIDTH \in Nat /\ y2 * VGA_WIDTH \in Nat
      /\ x1 + y1 * VGA_WIDTH = x2 + y2 * VGA_WIDTH
  BY VgaAssumption DEF Columns, get_offset_from_coord
<1>2. y1 < y2 => y1 * VGA_WIDTH + VGA_WIDTH <= y2 * VGA_WIDTH
  BY <1>1, ProductGrows
<1>3. y2 < y1 => y2 * VGA_WIDTH + VGA_WIDTH <= y1 * VGA_WIDTH
  BY <1>1, ProductGrows
<1>4. y1 = y2
  BY <1>1, <1>2, <1>3
<1> QED
  BY <1>1, <1>4

-----------------------------------------------------------------------------
(* The buffer as lines.                                                    *)

LEMMA FunctionIsSeq ==
  ASSUME NEW S, NEW n \in Nat, NEW f \in [1 .. n -> S]
  PROVE  f \in Seq(S) /\ Len(f) = n
OBVIOUS

LinesOf(b) ==
  [n \in 1 .. VGA_HEIGHT |-> [k \in 1 .. VGA_WIDTH |-> b[get_offset_from_coord(k - 1, n - 1)]]]

WithCell(b, o, g) == [b EXCEPT ![o] = g]
WithPlace(t, x, y, g) == [t EXCEPT ![y + 1][x + 1] = g]

\* Writing the cell of a position writes that place in the lines.
LEMMA WriteCell ==
  ASSUME NEW b \in [Cells -> CellValues], NEW x \in Columns, NEW y \in Rows, NEW g
  PROVE  LinesOf(WithCell(b, get_offset_from_coord(x, y), g)) = WithPlace(LinesOf(b), x, y, g)
<1> USE DEF WithCell, WithPlace
<1> DEFINE o == get_offset_from_coord(x, y)
           w == [b EXCEPT ![o] = g]
<1>1. /\ VGA_WIDTH \in Nat /\ VGA_HEIGHT \in Nat
      /\ x + 1 \in 1 .. VGA_WIDTH /\ y + 1 \in 1 .. VGA_HEIGHT /\ x \in Nat /\ y \in Nat
  BY VgaAssumption DEF Columns, Rows
<1>2. \A n \in 1 .. VGA_HEIGHT, k \in 1 .. VGA_WIDTH :
        /\ k - 1 \in Columns /\ n - 1 \in Rows /\ n - 1 \in Nat
        /\ get_offset_from_coord(k - 1, n - 1) \in Cells
        /\ get_offset_from_coord(k - 1, n - 1) = o => k = x + 1 /\ n = y + 1
  <2> TAKE n \in 1 .. VGA_HEIGHT, k \in 1 .. VGA_WIDTH
  <2>1. k - 1 \in Columns /\ n - 1 \in Rows /\ n - 1 \in Nat
    BY <1>1 DEF Columns, Rows
  <2>2. get_offset_from_coord(k - 1, n - 1) \in Cells
    BY <2>1, OffsetFacts
  <2>3. get_offset_from_coord(k - 1, n - 1) = o => k - 1 = x /\ n - 1 = y
    BY <2>1, <1>1, OffsetInjective
  <2> QED
    BY <2>1, <2>2, <2>3, <1>1
<1>3. \A n \in 1 .. VGA_HEIGHT, k \in 1 .. VGA_WIDTH :
        w[get_offset_from_coord(k - 1, n - 1)]
          = IF n = y + 1 /\ k = x + 1 THEN g ELSE b[get_offset_from_coord(k - 1, n - 1)]
  <2> TAKE n \in 1 .. VGA_HEIGHT, k \in 1 .. VGA_WIDTH
  <2> DEFINE p == get_offset_from_coord(k - 1, n - 1)
  <2>1. w[p] = IF p = o THEN g ELSE b[p]
    BY <1>2
  <2>2. p = o <=> n = y + 1 /\ k = x + 1
    BY <1>1, <1>2
  <2> QED
    BY <2>1, <2>2
<1> HIDE DEF w
<1>4. \A n \in 1 .. VGA_HEIGHT : LinesOf(w)[n] = [LinesOf(b) EXCEPT ![y + 1][x + 1] = g][n]
  <2> TAKE n \in 1 .. VGA_HEIGHT
  <2>1. LinesOf(w)[n] = [k \in 1 .. VGA_WIDTH |-> w[get_offset_from_coord(k - 1, n - 1)]]
    BY DEF LinesOf
  <2>2. LinesOf(b)[n] = [k \in 1 .. VGA_WIDTH |-> b[get_offset_from_coord(k - 1, n - 1)]]
    BY DEF LinesOf
  <2>3. CASE n = y + 1
    <3>1. [LinesOf(b) EXCEPT ![y + 1][x + 1] = g][n] = [LinesOf(b)[n] EXCEPT ![x + 1] = g]
      BY <2>3, <1>1 DEF LinesOf
    <3>2. [LinesOf(b)[n] EXCEPT ![x + 1] = g]
            = [k \in 1 .. VGA_WIDTH |-> IF k = x + 1 THEN g
                                        ELSE b[get_offset_from_coord(k - 1, n - 1)]]
      BY <2>2, <1>1
    <3>3. LinesOf(w)[n]
            = [k \in 1 .. VGA_WIDTH |-> IF k = x + 1 THEN g
                                        ELSE b[get_offset_from_coord(k - 1, n - 1)]]
      BY <2>1, <2>3, <1>3
    <3> QED
      BY <3>1, <3>2, <3>3
  <2>4. CASE n # y + 1
    <3>1. [LinesOf(b) EXCEPT ![y + 1][x + 1] = g][n] = LinesOf(b)[n]
      BY <2>4, <1>1 DEF LinesOf
    <3> QED
      BY <3>1, <2>1, <2>2, <2>4, <1>3
  <2> QED
    BY <2>3, <2>4
<1>5. LinesOf(w) = [LinesOf(b) EXCEPT ![y + 1][x + 1] = g]
  BY <1>4 DEF LinesOf
<1> QED
  BY <1>5 DEF w

\* Scrolling takes the first line away and adds a blank one.
LEMMA ScrollLines ==
  ASSUME NEW b \in [Cells -> CellValues]
  PROVE  /\ scroll(b) \in [Cells -> CellValues]
         /\ LinesOf(scroll(b)) = Append(Tail(LinesOf(b)), Promise!BlankLine)
<1> DEFINE t == LinesOf(b)
           s == LinesOf(scroll(b))
           S == [1 .. VGA_WIDTH -> CellValues]
<1>1. /\ VGA_WIDTH \in Nat /\ VGA_WIDTH > 0 /\ VGA_HEIGHT \in Nat /\ VGA_HEIGHT > 0
      /\ VGA_HEIGHT - 1 \in Nat
  BY VgaAssumption
<1>2. scroll(b) \in [Cells -> CellValues]
  BY DEF scroll, CellValues
<1>3. \A n \in 1 .. VGA_HEIGHT, k \in 1 .. VGA_WIDTH :
        /\ get_offset_from_coord(k - 1, n - 1) \in Cells
        /\ scroll(b)[get_offset_from_coord(k - 1, n - 1)]
             = IF n < VGA_HEIGHT THEN b[get_offset_from_coord(k - 1, n)] ELSE Blank
  <2> TAKE n \in 1 .. VGA_HEIGHT, k \in 1 .. VGA_WIDTH
  <2> DEFINE p == get_offset_from_coord(k - 1, n - 1)
  <2>1. k - 1 \in Columns /\ n - 1 \in Rows /\ n - 1 \in Nat /\ n \in Nat /\ n - 1 + 1 = n
    BY <1>1 DEF Columns, Rows
  <2>2. p \in Cells /\ p + VGA_WIDTH = get_offset_from_coord(k - 1, n)
    BY <2>1, OffsetFacts
  <2>3. get_offset_from_coord(k - 1, n) \in Cells <=> n \in Rows
    BY <2>1, OffsetFacts
  <2>4. n \in Rows <=> n < VGA_HEIGHT
    BY <1>1, <2>1 DEF Rows
  <2> HIDE DEF p
  <2>5. scroll(b)[p] = IF p + VGA_WIDTH \in Cells THEN b[p + VGA_WIDTH] ELSE Blank
    BY <2>2 DEF scroll
  <2>6. p \in Cells /\ scroll(b)[p]
             = IF n < VGA_HEIGHT THEN b[get_offset_from_coord(k - 1, n)] ELSE Blank
    BY <2>2, <2>3, <2>4, <2>5
  <2> QED
    BY <2>6 DEF p
<1>4. t \in [1 .. VGA_HEIGHT -> S] /\ s \in [1 .. VGA_HEIGHT -> S]
  <2>1. \A n \in 1 .. VGA_HEIGHT, k \in 1 .. VGA_WIDTH :
          /\ b[get_offset_from_coord(k - 1, n - 1)] \in CellValues
          /\ scroll(b)[get_offset_from_coord(k - 1, n - 1)] \in CellValues
    BY <1>2, <1>3
  <2> QED
    BY <2>1 DEF LinesOf
<1>5. t \in Seq(S) /\ s \in Seq(S) /\ Len(t) = VGA_HEIGHT /\ Len(s) = VGA_HEIGHT
  BY <1>1, <1>4, FunctionIsSeq
<1>6. Promise!BlankLine = [k \in 1 .. VGA_WIDTH |-> Blank] /\ Promise!BlankLine \in S
  BY DEF Promise!BlankLine, CellValues
<1>7. \A n \in 1 .. VGA_HEIGHT : s[n] = IF n < VGA_HEIGHT THEN t[n + 1] ELSE Promise!BlankLine
  <2> TAKE n \in 1 .. VGA_HEIGHT
  <2>1. s[n] = [k \in 1 .. VGA_WIDTH |-> scroll(b)[get_offset_from_coord(k - 1, n - 1)]]
    BY DEF LinesOf
  <2>2. CASE n < VGA_HEIGHT
    <3>1. n + 1 \in 1 .. VGA_HEIGHT /\ n + 1 - 1 = n
      BY <2>2, <1>1
    <3>2. t[n + 1] = [k \in 1 .. VGA_WIDTH |-> b[get_offset_from_coord(k - 1, n)]]
      BY <3>1 DEF LinesOf
    <3> QED
      BY <2>1, <2>2, <3>2, <1>3
  <2>3. CASE ~(n < VGA_HEIGHT)
    BY <2>1, <2>3, <1>3, <1>6
  <2> QED
    BY <2>2, <2>3
<1> HIDE DEF s, t, S
<1>8. /\ t # <<>> /\ Tail(t) \in Seq(S) /\ Len(Tail(t)) = VGA_HEIGHT - 1
      /\ \A n \in 1 .. VGA_HEIGHT - 1 : Tail(t)[n] = t[n + 1]
  BY <1>1, <1>5, HeadTailProperties
<1> DEFINE a == Append(Tail(t), Promise!BlankLine)
<1>9. /\ a \in Seq(S) /\ Len(a) = VGA_HEIGHT /\ a[VGA_HEIGHT] = Promise!BlankLine
      /\ \A n \in 1 .. VGA_HEIGHT - 1 : a[n] = t[n + 1]
  BY <1>1, <1>6, <1>8, AppendProperties
<1> HIDE DEF a
<1>10. \A n \in 1 .. Len(s) : s[n] = a[n]
  <2> TAKE n \in 1 .. Len(s)
  <2>1. CASE n < VGA_HEIGHT
    <3>1. n \in 1 .. VGA_HEIGHT - 1 /\ n \in 1 .. VGA_HEIGHT
      BY <2>1, <1>1, <1>5
    <3> QED
      BY <3>1, <2>1, <1>7, <1>9
  <2>2. CASE n = VGA_HEIGHT
    BY <2>2, <1>1, <1>5, <1>7, <1>9
  <2> QED
    BY <2>1, <2>2, <1>1, <1>5
<1>11. s = a
  BY <1>5, <1>9, <1>10, SeqEqual
<1> QED
  BY <1>2, <1>11 DEF s, t, a
-----------------------------------------------------------------------------
(* The screen keeps its promise.                                           *)

\* The boot's VGA_clear makes an empty abstract screen.
LEMMA ScreenInit == ASSUME VgaInit PROVE VgaInv /\ Promise!Init
<1>1. /\ VGA_WIDTH \in Nat /\ VGA_WIDTH > 0 /\ VGA_HEIGHT \in Nat /\ VGA_HEIGHT > 0
      /\ 0 \in Columns /\ 0 \in Rows
  BY VgaAssumption DEF Columns, Rows
<1>2. get_offset_from_coord(0, 0) \in Cells /\ get_offset_from_coord(0, 0) = 0
  BY <1>1, OffsetFacts DEF get_offset_from_coord
<1>3. 0 < VGA_CELL_COUNT
  BY <1>1, <1>2 DEF Cells, VGA_CELL_COUNT
<1>4. VgaInv
  BY <1>1, <1>2, <1>3
  DEF VgaInit, VgaInv, VgaTyped, CursorAtPosition, PositionValid, CellValues
<1>5. \A n \in 1 .. VGA_HEIGHT, k \in 1 .. VGA_WIDTH :
        get_offset_from_coord(k - 1, n - 1) \in Cells
  <2> TAKE n \in 1 .. VGA_HEIGHT, k \in 1 .. VGA_WIDTH
  <2>1. k - 1 \in Columns /\ n - 1 \in Rows /\ n - 1 \in Nat
    BY <1>1 DEF Columns, Rows
  <2> QED
    BY <2>1, OffsetFacts
<1>6. Lines = [n \in 1 .. VGA_HEIGHT |-> Promise!BlankLine]
  BY <1>5 DEF VgaInit, Lines, Promise!BlankLine
<1> QED
  BY <1>4, <1>6 DEF VgaInit, Promise!Init

\* The state VGA_display_char leaves: no assertion of it fails.
LEMMA DisplayEffect ==
  ASSUME VgaInv, NEW c \in Glyphs \cup {"\n", "\r"}, VGA_display_char(c)
  PROVE  LET written == IF LineEnds(c) THEN vga_buff ELSE [vga_buff EXCEPT ![cursor] = c]
             q == Wrapped(AfterChar(c))
         IN /\ q[1] \in Columns /\ q[2] \in 0 .. VGA_HEIGHT
            /\ written \in [Cells -> CellValues]
            /\ vga_buff' = IF q[2] = VGA_HEIGHT THEN scroll(written) ELSE written
            /\ x_pos' = q[1]
            /\ y_pos' = IF q[2] = VGA_HEIGHT THEN q[2] - 1 ELSE q[2]
            /\ VgaInv'
<1> DEFINE p == AfterChar(c)
           q == Wrapped(p)
           written == IF LineEnds(c) THEN vga_buff ELSE [vga_buff EXCEPT ![cursor] = c]
           y == IF q[2] = VGA_HEIGHT THEN q[2] - 1 ELSE q[2]
           offset == get_offset_from_coord(q[1], y)
<1>1. /\ VGA_WIDTH \in Nat /\ VGA_WIDTH > 0 /\ VGA_HEIGHT \in Nat /\ VGA_HEIGHT > 0
      /\ x_pos \in Nat /\ x_pos < VGA_WIDTH /\ y_pos \in Nat /\ y_pos < VGA_HEIGHT
      /\ x_pos \in Columns /\ y_pos \in Rows
      /\ vga_buff \in [Cells -> CellValues]
      /\ cursor = get_offset_from_coord(x_pos, y_pos)
      /\ PositionValid(x_pos, y_pos, cursor) /\ ~vga_failed
  BY VgaAssumption DEF VgaInv, VgaTyped, CursorAtPosition, Columns, Rows
<1>2. /\ p[1] \in Nat /\ p[1] <= VGA_WIDTH /\ p[2] \in Nat /\ p[2] <= VGA_HEIGHT
      /\ p[1] = VGA_WIDTH => p[2] = y_pos
  <2>1. CASE c = "\n"
    BY <2>1, <1>1 DEF AfterChar
  <2>2. CASE c = "\r"
    BY <2>2, <1>1 DEF AfterChar
  <2>3. CASE c # "\n" /\ c # "\r"
    BY <2>3, <1>1 DEF AfterChar
  <2> QED
    BY <2>1, <2>2, <2>3
<1> HIDE DEF p
<1>3. q[1] \in Columns /\ q[1] \in Nat /\ q[2] \in Nat /\ q[2] <= VGA_HEIGHT
  BY <1>1, <1>2 DEF Wrapped, Columns
<1>4. written \in [Cells -> CellValues]
  BY <1>1 DEF LineEnds, CellValues
<1> HIDE DEF q, written
<1>5. y \in Nat /\ y < VGA_HEIGHT /\ y \in Rows
  BY <1>1, <1>3 DEF Rows
<1> HIDE DEF y
<1>6. offset \in Cells
  BY <1>3, <1>5, OffsetFacts
<1>7. offset < VGA_CELL_COUNT
  <2>1. VGA_CELL_COUNT \in Int
    BY <1>1 DEF VGA_CELL_COUNT
  <2> HIDE DEF offset
  <2> QED
    BY <1>6, <2>1 DEF Cells
<1>8. q[1] < VGA_WIDTH
  BY <1>1, <1>3 DEF Columns
<1>9. PositionValid(q[1], y, offset)
  BY <1>5, <1>7, <1>8 DEF PositionValid
<1>10. /\ vga_buff' = (IF q[2] = VGA_HEIGHT THEN scroll(written) ELSE written)
       /\ x_pos' = q[1] /\ y_pos' = y /\ cursor' = offset /\ UNCHANGED vga_failed
  BY <1>1, <1>2, <1>9 DEF VGA_display_char, p, q, written, y, offset
<1>11. vga_buff' \in [Cells -> CellValues]
  BY <1>4, <1>10, ScrollLines
<1>12. VgaTyped'
  BY <1>3, <1>5, <1>10, <1>11 DEF VgaTyped, Columns, Rows, Cells, CellValues, VGA_CELL_COUNT
<1>13. CursorAtPosition'
  BY <1>1, <1>9, <1>10 DEF CursorAtPosition, PositionValid, VGA_CELL_COUNT, get_offset_from_coord, offset
<1>14. VgaInv'
  BY <1>12, <1>13 DEF VgaInv
<1>15. q[2] \in 0 .. VGA_HEIGHT
  BY <1>1, <1>3
<1> QED
  BY <1>3, <1>4, <1>10, <1>14, <1>15 DEF p, q, written, y

\* VGA_display_char is a Put or a LineFeed of the abstract screen.
LEMMA DisplayStep ==
  ASSUME VgaInv, NEW c \in Glyphs \cup {"\n", "\r"}, VGA_display_char(c)
  PROVE  VgaInv' /\ Promise!Next
<1> DEFINE written == IF LineEnds(c) THEN vga_buff ELSE [vga_buff EXCEPT ![cursor] = c]
           q == Wrapped(AfterChar(c))
           t == IF LineEnds(c) THEN Lines ELSE [Lines EXCEPT ![y_pos + 1][x_pos + 1] = c]
<1>1. /\ VGA_WIDTH \in Nat /\ VGA_WIDTH > 0 /\ VGA_HEIGHT \in Nat /\ VGA_HEIGHT > 0
      /\ x_pos \in Nat /\ x_pos < VGA_WIDTH /\ y_pos \in Nat /\ y_pos < VGA_HEIGHT
      /\ x_pos \in Columns /\ y_pos \in Rows
      /\ vga_buff \in [Cells -> CellValues]
      /\ cursor = get_offset_from_coord(x_pos, y_pos)
  BY VgaAssumption DEF VgaInv, VgaTyped, CursorAtPosition, Columns, Rows
<1>2. /\ q[1] \in Columns /\ q[2] \in 0 .. VGA_HEIGHT
      /\ written \in [Cells -> CellValues]
      /\ vga_buff' = IF q[2] = VGA_HEIGHT THEN scroll(written) ELSE written
      /\ x_pos' = q[1]
      /\ y_pos' = IF q[2] = VGA_HEIGHT THEN q[2] - 1 ELSE q[2]
      /\ VgaInv'
  BY DisplayEffect
<1>3. Lines = LinesOf(vga_buff) /\ Lines' = LinesOf(vga_buff')
  BY DEF Lines, LinesOf, get_offset_from_coord
<1>4. LinesOf(written) = t
  <2>1. CASE LineEnds(c)
    BY <2>1, <1>3
  <2>2. CASE ~LineEnds(c)
    <3>1. LinesOf(WithCell(vga_buff, get_offset_from_coord(x_pos, y_pos), c))
            = WithPlace(LinesOf(vga_buff), x_pos, y_pos, c)
      BY <1>1, WriteCell
    <3> QED
      BY <2>2, <3>1, <1>1, <1>3 DEF WithCell, WithPlace
  <2> QED
    BY <2>1, <2>2
<1> HIDE DEF written, t
<1>5. Lines' = IF q[2] = VGA_HEIGHT THEN Append(Tail(t), Promise!BlankLine) ELSE t
  BY <1>2, <1>3, <1>4, ScrollLines
<1>6. ASSUME NEW k \in Nat, q[1] = k, q[2] = y_pos + 1
      PROVE  Promise!NextLine(t, k + 1)
  <2>1. CASE y_pos + 1 = VGA_HEIGHT
    BY <2>1, <1>1, <1>2, <1>5, <1>6 DEF Promise!NextLine
  <2>2. CASE y_pos + 1 # VGA_HEIGHT
    BY <2>2, <1>1, <1>2, <1>5, <1>6 DEF Promise!NextLine
  <2> QED
    BY <2>1, <2>2
<1>7. CASE c = "\n"
  <2>1. q[1] = 0 /\ q[2] = y_pos + 1 /\ t = Lines
    BY <1>7, <1>1 DEF Wrapped, AfterChar, LineEnds, t
  <2>2. Promise!NextLine(Lines, 1)
    BY <2>1, <1>6
  <2>3. Promise!LineFeed
    BY <2>2 DEF Promise!LineFeed
  <2> QED
    BY <2>3, <1>2 DEF Promise!Next
<1>8. CASE c = "\r"
  <2>1. q[1] = x_pos /\ q[2] = y_pos + 1 /\ t = Lines
    BY <1>8, <1>1 DEF Wrapped, AfterChar, LineEnds, t
  <2>2. Promise!NextLine(Lines, x_pos + 1)
    BY <2>1, <1>1, <1>6
  <2>3. Promise!LineFeed
    BY <2>2 DEF Promise!LineFeed
  <2> QED
    BY <2>3, <1>2 DEF Promise!Next
<1>9. CASE c # "\n" /\ c # "\r"
  <2>1. c \in Glyphs /\ t = [Lines EXCEPT ![y_pos + 1][x_pos + 1] = c]
    BY <1>9 DEF LineEnds, t
  <2>2. CASE x_pos + 1 = VGA_WIDTH
    <3>1. q[1] = 0 /\ q[2] = y_pos + 1
      BY <1>9, <2>2, <1>1 DEF Wrapped, AfterChar
    <3>2. Promise!NextLine(t, 1)
      BY <3>1, <1>6
    <3> QED
      BY <2>1, <2>2, <3>2, <1>2 DEF Promise!Put, Promise!Next
  <2>3. CASE x_pos + 1 # VGA_WIDTH
    <3>1. q[1] = x_pos + 1 /\ q[2] = y_pos
      BY <1>9, <2>3, <1>1 DEF Wrapped, AfterChar
    <3>2. x_pos' = x_pos + 1 /\ y_pos' = y_pos /\ Lines' = t
      BY <3>1, <1>1, <1>2, <1>5
    <3>3. Promise!Put(c)
      BY <2>1, <2>3, <3>2, <1>1 DEF Promise!Put
    <3> QED
      BY <2>1, <3>3, <1>2 DEF Promise!Next
  <2> QED
    BY <2>2, <2>3
<1> QED
  BY <1>7, <1>8, <1>9

\* VGA_backspace_char blanks the place before the position, or does nothing in
\* the first column.
LEMMA BackspaceStep ==
  ASSUME VgaInv, VGA_backspace_char
  PROVE  VgaInv' /\ (Promise!Next \/ UNCHANGED vga)
<1>1. /\ VGA_WIDTH \in Nat /\ VGA_WIDTH > 0 /\ VGA_HEIGHT \in Nat /\ VGA_HEIGHT > 0
      /\ x_pos \in Nat /\ x_pos < VGA_WIDTH /\ y_pos \in Nat /\ y_pos < VGA_HEIGHT
      /\ x_pos \in Columns /\ y_pos \in Rows
      /\ vga_buff \in [Cells -> CellValues]
      /\ ~vga_failed
  BY VgaAssumption DEF VgaInv, VgaTyped, CursorAtPosition, Columns, Rows
<1>2. CASE x_pos = 0
  <2>1. UNCHANGED vga
    BY <1>2 DEF VGA_backspace_char
  <2> QED
    BY <2>1
    DEF vga, VgaInv, VgaTyped, CursorAtPosition, PositionValid, get_offset_from_coord,
        VGA_CELL_COUNT, Columns, Rows, Cells, CellValues
<1>3. CASE x_pos # 0
  <2> DEFINE x == x_pos - 1
             o == get_offset_from_coord(x, y_pos)
  <2>1. x \in Columns /\ x \in Nat /\ x < VGA_WIDTH
    BY <1>1, <1>3 DEF Columns
  <2>2. /\ x_pos' = x /\ y_pos' = y_pos /\ cursor' = o /\ vga_failed' = vga_failed
        /\ vga_buff' = [vga_buff EXCEPT ![o] = Blank]
    BY <1>3 DEF VGA_backspace_char, get_offset_from_coord
  <2>3. o \in Cells
    BY <2>1, <1>1, OffsetFacts
  <2> HIDE DEF x
  <2>4. o < VGA_CELL_COUNT
    <3>1. VGA_CELL_COUNT \in Int
      BY <1>1 DEF VGA_CELL_COUNT
    <3> HIDE DEF o
    <3> QED
      BY <2>3, <3>1 DEF Cells
  <2>5. VgaTyped'
    BY <2>1, <2>2, <1>1 DEF VgaTyped, Columns, Rows, Cells, CellValues, VGA_CELL_COUNT
  <2>6. CursorAtPosition'
    BY <2>1, <2>2, <2>4, <1>1
    DEF CursorAtPosition, PositionValid, VGA_CELL_COUNT, get_offset_from_coord, o
  <2>7. LinesOf(vga_buff') = [LinesOf(vga_buff) EXCEPT ![y_pos + 1][x + 1] = Blank]
    <3>1. LinesOf(WithCell(vga_buff, get_offset_from_coord(x, y_pos), Blank))
            = WithPlace(LinesOf(vga_buff), x, y_pos, Blank)
      BY <2>1, <1>1, WriteCell
    <3> QED
      BY <2>2, <3>1 DEF WithCell, WithPlace
  <2>8. Lines' = [Lines EXCEPT ![y_pos + 1][(x_pos + 1) - 1] = Blank]
    <3>1. Lines = LinesOf(vga_buff) /\ Lines' = LinesOf(vga_buff')
      BY DEF Lines, LinesOf, get_offset_from_coord
    <3>2. x + 1 = (x_pos + 1) - 1
      BY <1>1 DEF x
    <3> QED
      BY <2>7, <3>1, <3>2
  <2>9. Promise!Backspace
    <3>1. x_pos + 1 > 1 /\ x_pos' + 1 = (x_pos + 1) - 1 /\ y_pos' + 1 = y_pos + 1
      BY <2>2, <1>1, <1>3 DEF x
    <3> QED
      <4>1. Lines' = [Lines EXCEPT ![y_pos + 1][(x_pos + 1) - 1] = Blank]
        BY <2>8
      <4>2. (x_pos + 1)' = (x_pos + 1) - 1 /\ UNCHANGED (y_pos + 1)
        BY <3>1
      <4> QED
        BY <3>1, <4>1, <4>2 DEF Promise!Backspace
  <2> QED
    BY <2>5, <2>6, <2>9 DEF VgaInv, Promise!Next
<1> QED
  BY <1>2, <1>3
-----------------------------------------------------------------------------
(* Every step of the driver leaves the screen alone or is a step of it.    *)

\* What the handler displays is a character of the screen, whatever was read.
LEMMA CallsAreCharacters ==
  ASSUME NEW s, NEW call \in Calls(s)
  PROVE  \/ call = <<>> \/ call = <<"backspace">>
         \/ \E c \in Glyphs \cup {"\n", "\r"} : call = <<c>>
<1>1. char_from_scode(s) \subseteq Glyphs \cup {"\n", "\r"}
  <2>1. CASE s \in Keys
    <3>1. s[1] \in Glyphs \cup {"\n"} /\ s[2] \in Glyphs \cup {"\n"}
      BY <2>1, KeyboardAssumption
    <3>2. sc_map[s][1] = s[1] /\ sc_map[s][2] = s[2]
      BY <2>1 DEF sc_map
    <3> QED
      BY <2>1, <3>1, <3>2 DEF char_from_scode
  <2>2. CASE s \notin Keys
    BY <2>2 DEF char_from_scode
  <2> QED
    BY <2>1, <2>2
<1> QED
  BY <1>1 DEF Calls

screen == <<Lines, x_pos + 1, y_pos + 1>>

LEMMA ScreenUnchanged ==
  ASSUME VgaInv, UNCHANGED vga
  PROVE  VgaInv' /\ UNCHANGED screen
BY DEF vga, VgaInv, VgaTyped, CursorAtPosition, PositionValid, get_offset_from_coord,
       VGA_CELL_COUNT, Columns, Rows, Cells, CellValues, screen, Lines

LEMMA ScreenStep ==
  ASSUME VgaInv, [Next]_vars
  PROVE  VgaInv' /\ [Promise!Next]_screen
<1>1. ASSUME NEW c \in Glyphs \cup {"\n", "\r"}, Printk(c) PROVE VgaInv' /\ Promise!Next
  BY <1>1, DisplayStep DEF Printk
<1>2. ASSUME kbd_isr_handler PROVE VgaInv' /\ [Promise!Next]_screen
  <2>1. PICK call \in Calls(data) :
          CASE call = <<>> -> UNCHANGED vga
            [] call = <<"backspace">> -> VGA_backspace_char
            [] OTHER -> VGA_display_char(call[1])
    BY <1>2 DEF kbd_isr_handler
  <2>2. CASE call = <<>>
    BY <2>1, <2>2, ScreenUnchanged
  <2>3. CASE call # <<>> /\ call = <<"backspace">>
    BY <2>1, <2>3, BackspaceStep, ScreenUnchanged
  <2>4. CASE call # <<>> /\ call # <<"backspace">>
    <3>1. PICK c \in Glyphs \cup {"\n", "\r"} : call = <<c>>
      BY <2>4, CallsAreCharacters
    <3>2. VGA_display_char(call[1]) /\ call[1] = c
      BY <2>1, <2>4, <3>1
    <3> QED
      BY <3>2, DisplayStep
  <2> QED
    BY <2>2, <2>3, <2>4
<1>3. CASE UNCHANGED vga
  BY <1>3, ScreenUnchanged
<1>4. CASE KBD_init
  BY <1>3, <1>4
  DEF KBD_init, DisablePorts, flush_buff, write_good_config_byte, EnablePort, Send,
      verify_kbd_ack, SelfTest, Register
<1>5. CASE IRQ_start \/ Load \/ Deliver
  BY <1>3, <1>5 DEF IRQ_start, Load, Deliver
<1>6. ASSUME NEW k, NEW down, Key(k, down) PROVE UNCHANGED vga
  BY <1>6 DEF Key
<1>7. CASE UNCHANGED vars
  BY <1>3, <1>7 DEF vars
<1> QED
  BY <1>1, <1>2, <1>3, <1>4, <1>5, <1>6, <1>7 DEF Next

\* The cursor stays at the offset of a position on the screen, and no assertion
\* of vga.c fails: the position in VGA_display_char and VGA_backspace_char.
THEOREM CursorCorrect == Spec => []CursorAtPosition
<1>1. Init => VgaInv
  BY ScreenInit DEF Init
<1>2. VgaInv /\ [Next]_vars => VgaInv'
  BY ScreenStep
<1>3. VgaInv => CursorAtPosition
  BY DEF VgaInv
<1> QED
  BY <1>1, <1>2, <1>3, PTL DEF Spec

\* VGA_clear, VGA_display_char and VGA_backspace_char keep what vga.h promises:
\* whatever is printed and typed, the buffer read line by line is the abstract
\* screen, wrapped at its right edge and scrolled at its last line.
THEOREM ScreenImplemented == Spec => ImplementsScreen
<1>1. Init => VgaInv /\ Promise!Init
  BY ScreenInit DEF Init
<1>2. VgaInv /\ [Next]_vars => VgaInv' /\ [Promise!Next]_<<Lines, x_pos + 1, y_pos + 1>>
  BY ScreenStep DEF screen
<1> QED
  BY <1>1, <1>2, PTL DEF Spec, ImplementsScreen, Promise!Spec
-----------------------------------------------------------------------------
(* The handshake.                                                          *)

\* What the keyboard has sent and KBD_init has not read: nothing, one byte, or
\* the two answers to a reset.
NothingSent == ~obf /\ replies = <<>>
Sent(b) == \/ ~obf /\ replies = <<b>>
           \/ obf /\ data = b /\ replies = <<>>
ResetAnswered == \/ ~obf /\ replies = <<Ack, Pass>>
                 \/ obf /\ data = Ack /\ replies = <<Pass>>

AllBytes == <<"reset", "set_scan_code", "two">>
AfterReset == <<"set_scan_code", "two">>
Last2 == <<"two">>

\* The phases of KBD_init: the commands still to send, what the keyboard is
\* waiting for, and its answers on the way.
Handshake ==
  /\ pc \in {"disable", "flush", "config", "enable"} => replies = <<>> /\ ~param
  /\ pc \in {"config", "enable"} => ~obf
  /\ pc \notin {"disable", "flush", "config", "enable"} => "p1_clock_off" \notin config
  /\ pc = "send" =>
       /\ NothingSent
       /\ \/ todo = AllBytes /\ ~param
          \/ todo = AfterReset /\ ~param /\ set = 2
          \/ todo = Last2 /\ param /\ set = 2
  /\ pc = "ack" =>
       /\ num_resend = 0 /\ set = 2
       /\ \/ todo = AllBytes /\ ~param /\ ResetAnswered
          \/ todo = AfterReset /\ param /\ Sent(Ack)
          \/ todo = Last2 /\ ~param /\ Sent(Ack)
  /\ pc = "self_test" => todo = AfterReset /\ Sent(Pass) /\ ~param /\ set = 2
  /\ pc \in {"register", "ready"} => NothingSent /\ data = Ack /\ ~param /\ set = 2
  /\ pc # "halted"

\* Once interrupts are on, each comes with a byte to read, but for the first.
EachHasAByte ==
  /\ replies = <<>>
  /\ ~settled => ~obf /\ data = Ack
  /\ in_isr => ~latch
  /\ settled /\ in_isr => obf
  /\ settled /\ latch => obf /\ ~in_isr

\* Interrupts are served one at a time and only after IRQ_start.
OnlyRunning ==
  /\ pc # "run" => IF_ = 0 /\ ~in_isr /\ ~settled
  /\ in_isr => IF_ = 0

NoKeyYet ==
  /\ scans = <<>> /\ held = {} /\ shifting = FALSE /\ typed = <<>> /\ shown = <<>>
  /\ shift_pressed = FALSE /\ prev_scode_release = FALSE

HandshakeInv ==
  /\ OnlyRunning
  /\ ~early =>
       /\ ~settled => NoKeyYet
       /\ pc # "run" => Handshake
       /\ pc = "run" => EachHasAByte

LEMMA NothingLoadable ==
  ASSUME scans = <<>>
  PROVE  /\ replies = <<>> => ~Loadable
         /\ \A a : replies = <<a>> => replies \o scans = replies /\ replies \o scans # <<>>
         /\ \A a, b : replies = <<a, b>> => replies \o scans = replies /\ replies \o scans # <<>>
<1>1. replies = <<>> => replies \o scans = <<>>
  <2>1. <<>> \in Seq({})
    BY EmptySeq
  <2> QED
    BY <2>1, ConcatEmptySeq
<1>2. \A a : replies = <<a>> => replies \o scans = replies /\ replies # <<>>
  <2> TAKE a
  <2>1. <<a>> \in Seq({a}) /\ <<a>> # <<>>
    OBVIOUS
  <2> QED
    BY <2>1, ConcatEmptySeq
<1>3. \A a, b : replies = <<a, b>> => replies \o scans = replies /\ replies # <<>>
  <2> TAKE a, b
  <2>1. <<a, b>> \in Seq({a, b}) /\ <<a, b>> # <<>>
    OBVIOUS
  <2> QED
    BY <2>1, ConcatEmptySeq
<1> QED
  BY <1>1, <1>2, <1>3 DEF Loadable

LEMMA CodesDiffer ==
  /\ Ack # Pass /\ Ack # Release /\ Ack # Backspace /\ Release # Backspace
  /\ Ack \notin Shifts /\ Release \notin Shifts /\ Backspace \notin Shifts
  /\ Ack \notin Keys /\ Release \notin Keys /\ Backspace \notin Keys
BY KeyboardAssumption DEF Ack, Pass, Release, Backspace

\* Reading the answer to a command, when it is the answer to that command.
LEMMA AckStep ==
  ASSUME pc = "ack", Handshake, scans = <<>>, verify_kbd_ack
  PROVE  Handshake' /\ scans' = <<>>
<1>1. "p1_clock_off" \notin config /\ num_resend = 0 /\ set = 2
  BY DEF Handshake
<1>2. obf /\ data = Ack /\ replies = IF todo = AllBytes THEN <<Pass>> ELSE <<>>
  <2>1. ~Loadable
    BY DEF verify_kbd_ack, At
  <2>2. obf \/ replies \o scans = <<>>
    BY <1>1, <2>1 DEF Loadable
  <2>3. replies \o scans = <<>> => \A a, b : replies # <<a>> /\ replies # <<a, b>>
    BY NothingLoadable
  <2> QED
    BY <2>2, <2>3 DEF Handshake, ResetAnswered, Sent, AllBytes, AfterReset, Last2
<1>3. MAX_KBD_RESEND # 0
  BY KeyboardAssumption
<1>4. /\ pc' = AfterAck(Head(todo)) /\ todo' = Tail(todo)
      /\ UNCHANGED <<keyboard, num_resend>> /\ obf' = FALSE /\ data' = data /\ config' = config
  BY <1>1, <1>2, <1>3 DEF verify_kbd_ack, Read
<1>5. CASE todo = AllBytes
  <2>1. Head(todo) = "reset" /\ Tail(todo) = AfterReset
    BY <1>5 DEF AllBytes, AfterReset
  <2> QED
    BY <2>1, <1>1, <1>2, <1>4, <1>5
    DEF Handshake, AfterAck, Sent, keyboard, AllBytes, AfterReset, Last2
<1>6. CASE todo = AfterReset
  <2>1. Head(todo) = "set_scan_code" /\ Tail(todo) = Last2
    BY <1>6 DEF AfterReset, Last2
  <2> QED
    BY <2>1, <1>1, <1>2, <1>4, <1>6
    DEF Handshake, AfterAck, Sent, NothingSent, keyboard, AllBytes, AfterReset, Last2
<1>7. CASE todo = Last2
  <2>1. Head(todo) = "two"
    BY <1>7 DEF Last2
  <2> QED
    BY <2>1, <1>1, <1>2, <1>4, <1>7
    DEF Handshake, AfterAck, Sent, NothingSent, keyboard, AllBytes, AfterReset, Last2
<1> QED
  BY <1>5, <1>6, <1>7 DEF Handshake

\* A command sent is answered, and the keyboard is what the next one expects.
LEMMA SendStep ==
  ASSUME pc = "send", Handshake, scans = <<>>, Send
  PROVE  Handshake' /\ scans' = <<>>
<1>1. /\ pc' = "ack" /\ num_resend' = 0 /\ Obey(Head(todo))
      /\ UNCHANGED <<obf, data, config, todo>> /\ "p1_clock_off" \notin config /\ ~obf /\ replies = <<>>
  BY DEF Send, Handshake, NothingSent, controller
<1>2. \A a : replies \o <<a>> = <<a>>
  <2> TAKE a
  <2>1. <<a>> \in Seq({a})
    OBVIOUS
  <2> QED
    BY <1>1, <2>1, ConcatEmptySeq
<1>3. CASE todo = AllBytes
  <2>1. Head(todo) = "reset"
    BY <1>3 DEF AllBytes
  <2> QED
    BY <1>1, <1>3, <2>1 DEF Obey, Handshake, ResetAnswered, AllBytes, AfterReset, Last2
<1>4. CASE todo = AfterReset /\ ~param /\ set = 2
  <2>1. Head(todo) = "set_scan_code"
    BY <1>4 DEF AfterReset
  <2> QED
    BY <1>1, <1>2, <1>4, <2>1 DEF Obey, Handshake, Sent, AllBytes, AfterReset, Last2
<1>5. CASE todo = Last2 /\ param /\ set = 2
  <2>1. Head(todo) = "two"
    BY <1>5 DEF Last2
  <2> QED
    BY <1>1, <1>2, <1>5, <2>1 DEF Obey, Handshake, Sent, AllBytes, AfterReset, Last2
<1> QED
  BY <1>3, <1>4, <1>5 DEF Handshake

LEMMA SelfTestStep ==
  ASSUME pc = "self_test", Handshake, scans = <<>>, SelfTest
  PROVE  Handshake' /\ scans' = <<>>
<1>1. obf \/ replies \o scans = <<>>
  BY DEF SelfTest, At, Loadable, Handshake
<1>2. replies \o scans = <<>> => \A a : replies # <<a>>
  BY NothingLoadable
<1>3. obf /\ data = Pass /\ replies = <<>>
  BY <1>1, <1>2 DEF Handshake, Sent
<1> QED
  BY <1>3 DEF SelfTest, Read, Handshake, NothingSent, keyboard, AllBytes, AfterReset, Last2

LEMMA LoadStep ==
  ASSUME pc # "run", Handshake, scans = <<>>, Load
  PROVE  Handshake' /\ scans' = <<>>
<1>1. /\ Loadable /\ ~obf /\ obf' = TRUE /\ data' = Head(replies \o scans)
      /\ replies' = (IF replies # <<>> THEN Tail(replies) ELSE <<>>)
      /\ scans' = (IF replies # <<>> THEN scans ELSE Tail(scans))
      /\ UNCHANGED <<config, param, set, pc, todo, num_resend>>
  BY DEF Load, Loadable, driver
<1>2. replies # <<>>
  BY <1>1, NothingLoadable
<1>3. replies \o scans = replies
  BY <1>1, <1>2, NothingLoadable
  DEF Handshake, Sent, ResetAnswered, NothingSent
<1>4. \A a : replies = <<a>> => Head(replies) = a /\ Tail(replies) = <<>>
  OBVIOUS
<1>5. replies = <<Ack, Pass>> => Head(replies) = Ack /\ Tail(replies) = <<Pass>>
  OBVIOUS
<1> QED
  BY <1>1, <1>2, <1>3, <1>4, <1>5 DEF Handshake, Sent, ResetAnswered, NothingSent

\* What each step of KBD_init may touch.
LEMMA KBD_initFrame ==
  ASSUME KBD_init
  PROVE  /\ pc # "run" /\ pc # "halted" /\ pc # "ready" /\ pc' # "run"
         /\ UNCHANGED <<IF_, in_isr, kbd_state, history>>
<1>1. CASE DisablePorts \/ flush_buff \/ write_good_config_byte \/ EnablePort \/ Register
  BY <1>1
  DEF DisablePorts, flush_buff, write_good_config_byte, EnablePort, Register, At, keyboard, irq
<1>2. CASE Send
  BY <1>2 DEF Send, At, irq
<1>3. CASE verify_kbd_ack
  BY <1>3 DEF verify_kbd_ack, At, irq, AfterAck, keyboard
<1>4. CASE SelfTest
  BY <1>4 DEF SelfTest, At, irq, keyboard
<1> QED
  BY <1>1, <1>2, <1>3, <1>4 DEF KBD_init

LEMMA KBD_initStep ==
  ASSUME Handshake, scans = <<>>, KBD_init
  PROVE  Handshake' /\ scans' = <<>>
<1>1. CASE DisablePorts
  BY <1>1 DEF DisablePorts, At, Handshake, keyboard
<1>2. CASE flush_buff
  BY <1>2 DEF flush_buff, At, Handshake, keyboard
<1>3. CASE write_good_config_byte
  BY <1>3 DEF write_good_config_byte, At, Handshake, keyboard
<1>4. CASE EnablePort
  BY <1>4 DEF EnablePort, At, Handshake, keyboard, NothingSent, AllBytes
<1>5. CASE Send
  BY <1>5, SendStep DEF Send, At
<1>6. CASE verify_kbd_ack
  BY <1>6, AckStep DEF verify_kbd_ack, At
<1>7. CASE SelfTest
  BY <1>7, SelfTestStep DEF SelfTest, At
<1>8. CASE Register
  BY <1>8 DEF Register, At, Handshake, NothingSent, controller, keyboard
<1> QED
  BY <1>1, <1>2, <1>3, <1>4, <1>5, <1>6, <1>7, <1>8 DEF KBD_init

LEMMA HandshakeInit == Init => HandshakeInv
BY DEF Init, HandshakeInv, OnlyRunning, NoKeyYet, Handshake, EachHasAByte

LEMMA HandshakeStep ==
  ASSUME HandshakeInv, [Next]_vars
  PROVE  HandshakeInv'
<1>1. CASE KBD_init
  <2>1. OnlyRunning'
    BY <1>1, KBD_initFrame DEF HandshakeInv, OnlyRunning, history
  <2>2. ~early' => ~early /\ ~settled
    BY <1>1, KBD_initFrame DEF HandshakeInv, OnlyRunning, history
  <2>3. ~early' => Handshake' /\ scans' = <<>>
    BY <1>1, <2>2, KBD_initFrame, KBD_initStep DEF HandshakeInv, NoKeyYet
  <2>4. ~early' => NoKeyYet'
    BY <1>1, <2>2, <2>3, KBD_initFrame DEF HandshakeInv, NoKeyYet, history, kbd_state
  <2> QED
    BY <1>1, <2>1, <2>3, <2>4, KBD_initFrame DEF HandshakeInv
<1>2. CASE IRQ_start
  <2>1. /\ pc = "ready" /\ pc' = "run" /\ IF_' = 1
        /\ UNCHANGED <<obf, data, replies, scans, latch, in_isr, kbd_state, history>>
    BY <1>2 DEF IRQ_start, controller, keyboard
  <2> QED
    BY <2>1
    DEF HandshakeInv, OnlyRunning, NoKeyYet, Handshake, NothingSent, EachHasAByte,
        history, kbd_state
<1>3. ASSUME NEW c, Printk(c) PROVE HandshakeInv'
  <2>1. UNCHANGED <<controller, keyboard, irq, driver, kbd_state, held, shifting, typed, shown, settled, early>>
    BY <1>3 DEF Printk
  <2> QED
    BY <2>1
    DEF HandshakeInv, OnlyRunning, NoKeyYet, Handshake, NothingSent, EachHasAByte, Sent,
        ResetAnswered, controller, keyboard, irq, driver, kbd_state
<1>4. CASE Load
  <2>1. /\ UNCHANGED <<pc, IF_, in_isr, kbd_state, history>> /\ Loadable /\ obf' = TRUE
        /\ replies = <<>> => replies' = <<>>
    BY <1>4 DEF Load, irq, driver
  <2>2. ~early /\ ~settled => scans = <<>>
    BY DEF HandshakeInv, NoKeyYet
  <2>3. ~early /\ pc # "run" => Handshake' /\ scans' = <<>>
    BY <1>4, <2>2, LoadStep DEF HandshakeInv, OnlyRunning
  <2>4. ~early /\ pc = "run" => settled /\ ~in_isr
    BY <2>1, <2>2, NothingLoadable DEF HandshakeInv, EachHasAByte, Loadable
  <2> QED
    BY <2>1, <2>3, <2>4
    DEF HandshakeInv, OnlyRunning, NoKeyYet, EachHasAByte, history, kbd_state
<1>5. CASE Deliver
  <2>1. /\ IF_ = 1 /\ latch /\ latch' = FALSE /\ IF_' = 0 /\ in_isr' = TRUE
        /\ UNCHANGED <<obf, data, replies, scans, pc, kbd_state, history>>
    BY <1>5 DEF Deliver, controller, keyboard, driver
  <2> QED
    BY <2>1
    DEF HandshakeInv, OnlyRunning, NoKeyYet, EachHasAByte, history, kbd_state
<1>6. CASE kbd_isr_handler
  <2>1. /\ in_isr /\ obf' = FALSE /\ IF_' = 1 /\ in_isr' = FALSE /\ settled' = TRUE
        /\ UNCHANGED <<data, replies, latch, pc, early>>
    BY <1>6 DEF kbd_isr_handler, Read, keyboard, driver
  <2> QED
    BY <2>1 DEF HandshakeInv, OnlyRunning, EachHasAByte
<1>7. ASSUME NEW k, NEW down, Key(k, down) PROVE HandshakeInv'
  <2>1. /\ early' = (early \/ ~settled)
        /\ UNCHANGED <<obf, data, replies, latch, pc, in_isr, IF_, settled>>
    BY <1>7 DEF Key, controller, irq, driver
  <2> QED
    BY <2>1 DEF HandshakeInv, OnlyRunning, EachHasAByte
<1>8. CASE UNCHANGED vars
  BY <1>8
  DEF HandshakeInv, OnlyRunning, NoKeyYet, Handshake, NothingSent, EachHasAByte, Sent,
      ResetAnswered, vars, controller, keyboard, irq, driver, kbd_state, history
<1> QED
  BY <1>1, <1>2, <1>3, <1>4, <1>5, <1>6, <1>7, <1>8 DEF Next

LEMMA HandshakeInvariance == Spec => []HandshakeInv
BY HandshakeInit, HandshakeStep, PTL DEF Spec

\* KBD_init takes each answer of the keyboard for the command it answers, fails
\* no assertion and leaves no answer behind, unless a key is touched meanwhile:
\* send_kbd_byte, verify_kbd_ack and reset_kbd.
THEOREM HandshakeCorrect == Spec => []HandshakeClean
<1>1. HandshakeInv => HandshakeClean
  BY DEF HandshakeInv, OnlyRunning, Handshake, NothingSent, HandshakeClean
<1> QED
  BY <1>1, HandshakeInvariance, PTL

\* The interrupt without a byte is the first one, and what kbd_isr_handler
\* reads again then is the acknowledgement it ignores.
THEOREM ErroneousIrqExplained == Spec => []ErroneousIrqOnce
<1>1. HandshakeInv => ErroneousIrqOnce
  BY DEF HandshakeInv, OnlyRunning, EachHasAByte, ErroneousIrqOnce
<1> QED
  BY <1>1, HandshakeInvariance, PTL
-----------------------------------------------------------------------------
(* What is shown is what was typed.  The bytes on the way, read one after  *)
(* the other as the handler reads them, lead from what it has shown so far *)
(* to what was typed; instead of a recursive definition of that reading,   *)
(* the invariant says that the states it goes through exist.               *)

Shows == Glyphs \cup {"\n", "\r", "backspace"}
KeyBytes == Keys \cup Shifts \cup {Backspace, Release}
Reader == [shift : BOOLEAN, prev : BOOLEAN, out : Seq(Shows)]

\* The handler's effect on kbd_state and on what it has shown.
ReadByte(d, s) ==
  [shift |-> IF d.prev THEN d.shift /\ s \notin Shifts ELSE d.shift \/ s \in Shifts,
   prev |-> ~d.prev /\ s = Release,
   out |-> IF d.prev \/ s \in Shifts \cup {Release} THEN d.out
           ELSE Append(d.out, IF s = Backspace THEN "backspace"
                              ELSE sc_map[s][IF d.shift THEN 2 ELSE 1])]

Begins(s, t) == Len(s) <= Len(t) /\ \A i \in 1 .. Len(s) : s[i] = t[i]

Reads(d, bytes, e) ==
  \E m \in [0 .. Len(bytes) -> Reader] :
    /\ m[0] = d /\ m[Len(bytes)] = e
    /\ \A i \in 1 .. Len(bytes) : m[i] = ReadByte(m[i - 1], bytes[i])
    /\ \A i \in 0 .. Len(bytes) : Begins(m[i].out, e.out)

LEMMA BeginsFacts ==
  ASSUME NEW s \in Seq(Shows), NEW t \in Seq(Shows), NEW c \in Shows, Begins(s, t)
  PROVE  /\ Append(t, c) \in Seq(Shows)
         /\ Begins(s, Append(t, c)) /\ Begins(t, t) /\ Begins(t, Append(t, c))
         /\ IsPrefix(s, t)
<1>1. Append(t, c) \in Seq(Shows) /\ Len(Append(t, c)) = Len(t) + 1
  BY AppendProperties
<1>2. \A i \in 1 .. Len(t) : Append(t, c)[i] = t[i]
  BY AppendProperties
<1>3. Len(s) \in Nat /\ Len(t) \in Nat
  BY LenProperties
<1>4. Begins(s, Append(t, c)) /\ Begins(t, t) /\ Begins(t, Append(t, c))
  BY <1>1, <1>2, <1>3 DEF Begins
<1>5. IsPrefix(s, t)
  <2>1. SubSeq(s, 1, Len(s)) = s
    BY SubSeqFull
  <2>2. \A i \in 1 .. Len(s) : t[i] \in Shows /\ s[i] = t[i]
    BY <1>3, ElementOfSeq DEF Begins
  <2>3. /\ SubSeq(t, 1, Len(s)) \in Seq(Shows) /\ Len(SubSeq(t, 1, Len(s))) = Len(s)
        /\ \A i \in 1 .. Len(s) : SubSeq(t, 1, Len(s))[i] = t[i]
    BY <2>2, <1>3, SubSeqProperties
  <2> DEFINE u == SubSeq(t, 1, Len(s))
  <2>4. u \in Seq(Shows) /\ Len(s) = Len(u) /\ \A i \in 1 .. Len(s) : s[i] = u[i]
    BY <2>2, <2>3
  <2> HIDE DEF u
  <2>5. s = u
    BY <2>4, SeqEqual
  <2> QED
    BY <2>1, <2>5, <1>3 DEF IsPrefix, Begins, u
<1> QED
  BY <1>1, <1>4, <1>5

LEMMA KeyShows ==
  ASSUME NEW s \in KeyBytes, s \notin Shifts \cup {Release}, NEW shift
  PROVE  (IF s = Backspace THEN "backspace" ELSE sc_map[s][IF shift THEN 2 ELSE 1]) \in Shows
<1>1. CASE s = Backspace
  BY <1>1 DEF Shows
<1>2. CASE s # Backspace
  <2>1. s \in Keys
    BY <1>2 DEF KeyBytes
  <2>2. s[1] \in Glyphs \cup {"\n"} /\ s[2] \in Glyphs \cup {"\n"}
    BY <2>1, KeyboardAssumption
  <2>3. sc_map[s][1] = s[1] /\ sc_map[s][2] = s[2]
    BY <2>1 DEF sc_map
  <2> QED
    BY <1>2, <2>2, <2>3 DEF Shows
<1> QED
  BY <1>1, <1>2

LEMMA ReadByteTyped ==
  ASSUME NEW d \in Reader, NEW s \in KeyBytes
  PROVE  ReadByte(d, s) \in Reader /\ Begins(d.out, ReadByte(d, s).out)
<1>1. d.shift \in BOOLEAN /\ d.prev \in BOOLEAN /\ d.out \in Seq(Shows)
  BY DEF Reader
<1> DEFINE c == IF s = Backspace THEN "backspace" ELSE sc_map[s][IF d.shift THEN 2 ELSE 1]
           o == IF d.prev \/ s \in Shifts \cup {Release} THEN d.out ELSE Append(d.out, c)
<1>2. Begins(d.out, d.out)
  BY <1>1, LenProperties DEF Begins
<1>3. o \in Seq(Shows) /\ Begins(d.out, o)
  <2>1. CASE d.prev \/ s \in Shifts \cup {Release}
    BY <2>1, <1>1, <1>2
  <2>2. CASE ~(d.prev \/ s \in Shifts \cup {Release})
    <3>1. c \in Shows
      BY <2>2, KeyShows
    <3> HIDE DEF c
    <3>2. Append(d.out, c) \in Seq(Shows) /\ Begins(d.out, Append(d.out, c))
      BY <3>1, <1>1, <1>2, BeginsFacts
    <3> QED
      BY <2>2, <3>2
  <2> QED
    BY <2>1, <2>2
<1> DEFINE h == IF d.prev THEN d.shift /\ s \notin Shifts ELSE d.shift \/ s \in Shifts
           v == ~d.prev /\ s = Release
<1>4. h \in BOOLEAN /\ v \in BOOLEAN
  BY <1>1
<1>5. ReadByte(d, s) = [shift |-> h, prev |-> v, out |-> o]
  BY DEF ReadByte
<1> HIDE DEF h, v, o
<1> QED
  BY <1>3, <1>4, <1>5 DEF Reader

\* One more byte on the way.
LEMMA ReadsOneMore ==
  ASSUME NEW d, NEW e \in Reader, NEW bytes \in Seq(KeyBytes), NEW b \in KeyBytes,
         Reads(d, bytes, e)
  PROVE  Reads(d, Append(bytes, b), ReadByte(e, b))
<1> DEFINE n == Len(bytes)
           p == Append(bytes, b)
           f == ReadByte(e, b)
<1>1. PICK m \in [0 .. n -> Reader] :
        /\ m[0] = d /\ m[n] = e
        /\ \A i \in 1 .. n : m[i] = ReadByte(m[i - 1], bytes[i])
        /\ \A i \in 0 .. n : Begins(m[i].out, e.out)
  BY DEF Reads
<1>2. /\ n \in Nat /\ Len(p) = n + 1 /\ p[n + 1] = b
      /\ \A i \in 1 .. n : p[i] = bytes[i]
  BY AppendProperties, LenProperties
<1>3. f \in Reader /\ Begins(e.out, f.out)
  BY ReadByteTyped
<1> HIDE DEF n, p, f
<1> DEFINE w == [i \in 0 .. n + 1 |-> IF i = n + 1 THEN f ELSE m[i]]
<1>4. /\ \A i \in 0 .. n : i \in 0 .. n + 1 /\ i # n + 1
      /\ \A i \in 0 .. n + 1 : i = n + 1 \/ i \in 0 .. n
      /\ n + 1 \in 0 .. n + 1 /\ 0 \in 0 .. n /\ n \in 0 .. n
      /\ \A i \in 1 .. n : i - 1 \in 0 .. n /\ i \in 0 .. n
  BY <1>2
<1>5. /\ w \in [0 .. n + 1 -> Reader] /\ w[n + 1] = f
      /\ \A i \in 0 .. n : w[i] = m[i]
  BY <1>3, <1>4
<1> HIDE DEF w
<1>6. w[0] = d
  BY <1>1, <1>4, <1>5
<1>7. \A i \in 1 .. n + 1 : w[i] = ReadByte(w[i - 1], p[i])
  <2> TAKE i \in 1 .. n + 1
  <2>1. CASE i = n + 1
    <3>1. i - 1 = n
      BY <2>1, <1>2
    <3> QED
      BY <2>1, <3>1, <1>1, <1>2, <1>4, <1>5 DEF f
  <2>2. CASE i \in 1 .. n
    BY <2>2, <1>1, <1>2, <1>4, <1>5
  <2> QED
    BY <2>1, <2>2, <1>2
<1>8. \A i \in 0 .. n + 1 : Begins(w[i].out, f.out)
  <2> TAKE i \in 0 .. n + 1
  <2>1. f.out \in Seq(Shows) /\ e.out \in Seq(Shows)
    BY <1>3 DEF Reader
  <2>2. CASE i = n + 1
    BY <2>1, <2>2, <1>5, LenProperties DEF Begins
  <2>3. CASE i \in 0 .. n
    <3>1. Begins(m[i].out, e.out) /\ m[i].out \in Seq(Shows) /\ w[i] = m[i]
      BY <2>3, <1>1, <1>5 DEF Reader
    <3>2. Len(m[i].out) \in Nat /\ Len(e.out) \in Nat /\ Len(f.out) \in Nat
      BY <2>1, <3>1, LenProperties
    <3> QED
      BY <3>1, <3>2, <1>3 DEF Begins
  <2> QED
    BY <2>2, <2>3, <1>4
<1>9. Reads(d, p, f)
  BY <1>2, <1>5, <1>6, <1>7, <1>8 DEF Reads
<1> QED
  BY <1>9 DEF p, f

\* One byte read.
LEMMA ReadsOneLess ==
  ASSUME NEW d, NEW e, NEW bytes \in Seq(KeyBytes), NEW b \in KeyBytes,
         Reads(d, <<b>> \o bytes, e)
  PROVE  Reads(ReadByte(d, b), bytes, e)
<1> DEFINE n == Len(bytes)
           p == <<b>> \o bytes
<1>1. /\ n \in Nat /\ Len(p) = n + 1 /\ p[1] = b
      /\ \A i \in 1 .. n : p[i + 1] = bytes[i]
  <2>1. <<b>> \in Seq(KeyBytes) /\ Len(<<b>>) = 1 /\ <<b>>[1] = b
    OBVIOUS
  <2> QED
    BY <2>1, ConcatProperties, LenProperties
<1>2. PICK m \in [0 .. n + 1 -> Reader] :
        /\ m[0] = d /\ m[n + 1] = e
        /\ \A i \in 1 .. n + 1 : m[i] = ReadByte(m[i - 1], p[i])
        /\ \A i \in 0 .. n + 1 : Begins(m[i].out, e.out)
  BY <1>1 DEF Reads
<1> HIDE DEF n, p
<1> DEFINE w == [i \in 0 .. n |-> m[i + 1]]
<1>3. /\ \A i \in 0 .. n : i + 1 \in 0 .. n + 1 /\ i + 1 \in 1 .. n + 1
      /\ 0 \in 0 .. n /\ n \in 0 .. n
      /\ \A i \in 1 .. n : i - 1 \in 0 .. n /\ i \in 0 .. n /\ (i - 1) + 1 = i /\ (i + 1) - 1 = i
      /\ 1 \in 1 .. n + 1 /\ 0 + 1 = 1 /\ 1 - 1 = 0
  BY <1>1
<1>4. w \in [0 .. n -> Reader] /\ \A i \in 0 .. n : w[i] = m[i + 1]
  BY <1>3
<1> HIDE DEF w
<1>5. w[0] = ReadByte(d, b) /\ w[n] = e
  BY <1>1, <1>2, <1>3, <1>4
<1>6. \A i \in 1 .. n : w[i] = ReadByte(w[i - 1], bytes[i])
  <2> TAKE i \in 1 .. n
  <2>1. w[i] = m[i + 1] /\ w[i - 1] = m[i]
    BY <1>3, <1>4
  <2>2. m[i + 1] = ReadByte(m[i], p[i + 1])
    BY <1>2, <1>3
  <2> QED
    BY <2>1, <2>2, <1>1
<1>7. \A i \in 0 .. n : Begins(w[i].out, e.out)
  BY <1>2, <1>3, <1>4
<1> QED
  BY <1>4, <1>5, <1>6, <1>7 DEF Reads, n

\* The bytes on the way, what the handler's state is and what it should be
\* once they are read.
OnTheWay == IF obf THEN <<data>> \o scans ELSE scans
Handler == [shift |-> shift_pressed, prev |-> prev_scode_release, out |-> shown]
Typist == [shift |-> shifting, prev |-> FALSE, out |-> typed]

TypedInv ==
  /\ HandshakeInv
  /\ Handler \in Reader /\ Typist \in Reader
  /\ ~early =>
       /\ scans \in Seq(KeyBytes)
       /\ settled => (obf => data \in KeyBytes) /\ Reads(Handler, OnTheWay, Typist)

LEMMA NothingToRead == ASSUME NEW d \in Reader PROVE Reads(d, <<>>, d)
<1> DEFINE m == [i \in 0 .. 0 |-> d]
<1>1. Len(<<>>) = 0 /\ 0 .. 0 = {0} /\ 1 .. 0 = {}
  OBVIOUS
<1>2. m \in [0 .. 0 -> Reader] /\ m[0] = d
  BY <1>1
<1>3. Begins(d.out, d.out)
  BY LenProperties DEF Reader, Begins
<1> HIDE DEF m
<1> QED
  BY <1>1, <1>2, <1>3 DEF Reads

LEMMA TypedInit == Init => TypedInv
<1> SUFFICES ASSUME Init PROVE TypedInv
  OBVIOUS
<1>1. HandshakeInv
  BY HandshakeInit
<1>2. <<>> \in Seq(Shows) /\ <<>> \in Seq(KeyBytes)
  BY EmptySeq
<1> QED
  BY <1>1, <1>2 DEF Init, TypedInv, Handler, Typist, Reader

LEMMA OnTheWayTyped ==
  ASSUME scans \in Seq(KeyBytes), obf => data \in KeyBytes
  PROVE  OnTheWay \in Seq(KeyBytes)
<1>1. obf => <<data>> \in Seq(KeyBytes)
  OBVIOUS
<1> QED
  BY <1>1, ConcatProperties DEF OnTheWay

\* A byte from the keyboard moves to the controller: nothing new is on the way.
LEMMA LoadKeeps ==
  ASSUME TypedInv, Load, ~early, settled
  PROVE  /\ scans' \in Seq(KeyBytes) /\ data' \in KeyBytes
         /\ obf' = TRUE /\ OnTheWay' = OnTheWay
<1>1. replies = <<>> /\ scans \in Seq(KeyBytes)
  BY DEF TypedInv, HandshakeInv, OnlyRunning, EachHasAByte
<1>2. replies \o scans = scans
  BY <1>1, ConcatEmptySeq
<1>3. /\ scans # <<>> /\ ~obf /\ obf' = TRUE /\ data' = Head(scans) /\ scans' = Tail(scans)
  BY <1>1, <1>2 DEF Load, Loadable
<1>4. Head(scans) \in KeyBytes /\ Tail(scans) \in Seq(KeyBytes)
  BY <1>1, <1>3, HeadTailProperties
<1>5. scans = <<Head(scans)>> \o Tail(scans)
  <2> DEFINE h == <<Head(scans)>>
             t == Tail(scans)
             u == h \o t
  <2>1. h \in Seq(KeyBytes) /\ Len(h) = 1 /\ h[1] = Head(scans)
    BY <1>4
  <2>2. Len(t) = Len(scans) - 1 /\ \A i \in 1 .. Len(t) : t[i] = scans[i + 1]
    BY <1>1, <1>3, HeadTailProperties
  <2>3. Len(scans) \in Nat /\ Len(t) \in Nat /\ scans[1] = Head(scans)
    BY <1>1, <1>3, <1>4, LenProperties, HeadTailProperties
  <2>4. u \in Seq(KeyBytes) /\ Len(u) = 1 + Len(t)
        /\ \A i \in 1 .. Len(u) : u[i] = IF i <= 1 THEN h[i] ELSE t[i - 1]
    BY <2>1, <2>3, <1>4, ConcatProperties
  <2>5. \A i \in 1 .. Len(scans) : scans[i] = u[i]
    <3> TAKE i \in 1 .. Len(scans)
    <3>1. CASE i = 1
      BY <3>1, <2>1, <2>2, <2>3, <2>4
    <3>2. CASE i # 1
      <4>1. i - 1 \in 1 .. Len(t) /\ (i - 1) + 1 = i /\ ~(i <= 1) /\ i \in 1 .. Len(u)
        BY <3>2, <2>2, <2>3, <2>4
      <4> HIDE DEF u, t, h
      <4> QED
        BY <4>1, <2>2, <2>4
    <3> QED
      BY <3>1, <3>2
  <2> HIDE DEF u
  <2>6. scans = u
    BY <1>1, <2>2, <2>3, <2>4, <2>5, SeqEqual
  <2> QED
    BY <2>6 DEF u
<1> QED
  BY <1>3, <1>4, <1>5 DEF OnTheWay

\* What kbd_isr_handler does with a key's byte is ReadByte.
LEMMA HandlerReads ==
  ASSUME Handler \in Reader, data \in KeyBytes, kbd_isr_handler
  PROVE  Handler' = ReadByte(Handler, data)
<1>1. PICK call \in Calls(data) : shown' = shown \o call
  BY DEF kbd_isr_handler
<1>2. /\ shift_pressed' = (IF prev_scode_release THEN shift_pressed /\ data \notin Shifts
                          ELSE shift_pressed \/ data \in Shifts)
      /\ prev_scode_release' = (~prev_scode_release /\ data = Release)
  BY CodesDiffer DEF kbd_isr_handler, ShiftState
<1>3. shown \in Seq(Shows) /\ shift_pressed \in BOOLEAN /\ prev_scode_release \in BOOLEAN
  BY DEF Handler, Reader
<1>4. data # Ack
  BY CodesDiffer DEF KeyBytes, Ack, Backspace, Release
<1> DEFINE out == ReadByte(Handler, data).out
<1>5. CASE prev_scode_release \/ data \in Shifts \cup {Release}
  <2>1. call = <<>>
    BY <1>1, <1>5 DEF Calls
  <2>2. shown' = shown
    BY <1>1, <1>3, <2>1, ConcatEmptySeq
  <2> QED
    BY <1>2, <1>5, <2>2 DEF Handler, ReadByte
<1>6. CASE ~(prev_scode_release \/ data \in Shifts \cup {Release})
  <2> DEFINE c == IF data = Backspace THEN "backspace"
                  ELSE sc_map[data][IF shift_pressed THEN 2 ELSE 1]
  <2>1. call = <<c>>
    <3>1. CASE data = Backspace
      BY <1>1, <1>4, <1>6, <3>1 DEF Calls
    <3>2. CASE data # Backspace
      <4>1. data \in Keys
        BY <1>6, <3>2 DEF KeyBytes
      <4>2. char_from_scode(data) = {sc_map[data][IF shift_pressed THEN 2 ELSE 1]}
        BY <4>1 DEF char_from_scode
      <4> QED
        BY <1>1, <1>4, <1>6, <3>2, <4>2 DEF Calls
    <3> QED
      BY <3>1, <3>2
  <2>2. c \in Shows
    BY <1>6, KeyShows
  <2> HIDE DEF c
  <2>3. shown' = Append(shown, c)
    BY <1>1, <1>3, <2>1, <2>2, AppendIsConcat
  <2> QED
    BY <1>2, <1>6, <2>3 DEF Handler, ReadByte, c
<1> QED
  BY <1>5, <1>6

LEMMA ScansGrow ==
  ASSUME scans \in Seq(KeyBytes), obf => data \in KeyBytes, NEW b \in KeyBytes
  PROVE  /\ scans \o <<b>> = Append(scans, b) /\ Append(scans, b) \in Seq(KeyBytes)
         /\ obf => <<data>> \o Append(scans, b) = Append(<<data>> \o scans, b)
<1>1. <<b>> \in Seq(KeyBytes) /\ obf => <<data>> \in Seq(KeyBytes)
  OBVIOUS
<1>2. scans \o <<b>> = Append(scans, b) /\ Append(scans, b) \in Seq(KeyBytes)
  BY AppendIsConcat, AppendProperties
<1>3. ASSUME obf PROVE <<data>> \o Append(scans, b) = Append(<<data>> \o scans, b)
  <2>1. <<data>> \in Seq(KeyBytes) /\ <<data>> \o scans \in Seq(KeyBytes)
    BY <1>3, ConcatProperties
  <2>2. (<<data>> \o scans) \o <<b>> = <<data>> \o (scans \o <<b>>)
    BY <2>1, <1>1, ConcatAssociative
  <2>3. Append(<<data>> \o scans, b) = (<<data>> \o scans) \o <<b>>
    BY <2>1, AppendIsConcat
  <2> QED
    BY <2>2, <2>3, <1>2
<1> QED
  BY <1>2, <1>3

\* A key pressed sends its code, one released the code after RELEASED_SCODE;
\* read, they lead to what it means.
LEMMA KeyReads ==
  ASSUME TypedInv, ~early, settled, NEW down \in BOOLEAN,
         NEW k \in Keys \cup Shifts \cup {Backspace}, Key(k, down)
  PROVE  /\ scans' \in Seq(KeyBytes) /\ Typist' \in Reader
         /\ Reads(Handler, OnTheWay', Typist')
<1>1. /\ scans \in Seq(KeyBytes) /\ (obf => data \in KeyBytes)
      /\ Reads(Handler, OnTheWay, Typist) /\ Typist \in Reader
      /\ k \in KeyBytes /\ Release \in KeyBytes
  BY DEF TypedInv, KeyBytes
<1>2. /\ scans' = scans \o (IF down THEN <<k>> ELSE <<Release, k>>)
      /\ typed' = (IF ~down \/ k \in Shifts THEN typed
              ELSE Append(typed, IF k = Backspace THEN "backspace"
                                 ELSE sc_map[k][IF shifting THEN 2 ELSE 1]))
      /\ shifting' = (IF k \in Shifts THEN down ELSE shifting)
      /\ UNCHANGED <<obf, data>>
  BY DEF Key, controller
<1>3. OnTheWay \in Seq(KeyBytes)
  BY <1>1, OnTheWayTyped
<1>4. k # Release
  BY CodesDiffer
<1>5. Typist = [shift |-> shifting, prev |-> FALSE, out |-> typed] /\ shifting \in BOOLEAN
  BY <1>1 DEF Typist, Reader
<1>6. CASE down
  <2>1. scans' = Append(scans, k) /\ OnTheWay' = Append(OnTheWay, k)
    BY <1>1, <1>2, <1>6, ScansGrow DEF OnTheWay
  <2>2. Typist' = ReadByte(Typist, k)
    <3>1. shifting' = (shifting \/ k \in Shifts)
      BY <1>2, <1>5, <1>6
    <3>2. typed' = (IF k \in Shifts THEN typed
                   ELSE Append(typed, IF k = Backspace THEN "backspace"
                                      ELSE sc_map[k][IF shifting THEN 2 ELSE 1]))
      BY <1>2, <1>6
    <3>3. Typist' = [shift |-> shifting \/ k \in Shifts, prev |-> FALSE, out |-> typed']
      BY <3>1 DEF Typist
    <3>4. /\ Typist.shift = shifting /\ Typist.prev = FALSE /\ Typist.out = typed
      BY <1>5
    <3>5. ReadByte(Typist, k) = [shift |-> shifting \/ k \in Shifts, prev |-> FALSE, out |-> typed']
      BY <3>2, <3>4, <1>4 DEF ReadByte
    <3> QED
      BY <3>3, <3>5
  <2>3. Append(scans, k) \in Seq(KeyBytes)
    BY <1>1, ScansGrow
  <2> QED
    BY <2>1, <2>2, <2>3, <1>1, <1>3, ReadsOneMore, ReadByteTyped
<1>7. CASE ~down
  <2> DEFINE s1 == Append(scans, Release)
             w1 == Append(OnTheWay, Release)
             t1 == ReadByte(Typist, Release)
  <2>1. /\ s1 \in Seq(KeyBytes) /\ scans \o <<Release>> = s1
        /\ obf => <<data>> \o s1 = Append(<<data>> \o scans, Release)
    BY <1>1, ScansGrow
  <2>2. scans' = Append(s1, k)
    <3>1. scans' = scans \o <<Release, k>>
      BY <1>2, <1>7
    <3>2. <<Release, k>> = <<Release>> \o <<k>>
      OBVIOUS
    <3>3. <<Release>> \in Seq(KeyBytes) /\ <<k>> \in Seq(KeyBytes)
      BY <1>1
    <3>4. scans' = s1 \o <<k>>
      BY <3>1, <3>2, <3>3, <2>1, <1>1, ConcatAssociative
    <3> QED
      BY <3>4, <2>1, <1>1, AppendIsConcat
  <2>3. w1 \in Seq(KeyBytes) /\ t1 \in Reader /\ Reads(Handler, w1, t1)
    BY <1>1, <1>3, ReadsOneMore, ReadByteTyped, AppendProperties
  <2>4. OnTheWay' = Append(w1, k)
    <3>1. CASE obf
      <4>1. /\ <<data>> \in Seq(KeyBytes) /\ <<k>> \in Seq(KeyBytes)
            /\ <<data>> \o scans \in Seq(KeyBytes)
        BY <3>1, <1>1, ConcatProperties
      <4>2. w1 = <<data>> \o s1
        BY <3>1, <2>1 DEF OnTheWay
      <4>3. Append(w1, k) = w1 \o <<k>> /\ Append(s1, k) = s1 \o <<k>>
        BY <2>1, <2>3, <1>1, AppendIsConcat
      <4>4. (<<data>> \o s1) \o <<k>> = <<data>> \o (s1 \o <<k>>)
        BY <4>1, <2>1, ConcatAssociative
      <4>5. OnTheWay' = <<data>> \o scans'
        BY <3>1, <1>2 DEF OnTheWay
      <4> QED
        BY <4>2, <4>3, <4>4, <4>5, <2>2
    <3>2. CASE ~obf
      BY <3>2, <2>2, <1>2 DEF OnTheWay
    <3> QED
      BY <3>1, <3>2
  <2>5. Typist' = ReadByte(t1, k)
    <3>1. t1 = [shift |-> Typist.shift, prev |-> TRUE, out |-> Typist.out]
      <4>1. Typist.prev = FALSE /\ Typist.shift \in BOOLEAN
        BY <1>1, <1>5 DEF Reader
      <4>2. Release \notin Shifts
        BY CodesDiffer
      <4> QED
        BY <4>1, <4>2 DEF ReadByte
    <3>2. t1.shift = shifting /\ t1.prev = TRUE /\ t1.out = typed
      BY <3>1, <1>5
    <3>3. ReadByte(t1, k) = [shift |-> shifting /\ k \notin Shifts, prev |-> FALSE, out |-> typed]
      BY <3>2 DEF ReadByte
    <3>4. shifting' = (shifting /\ k \notin Shifts)
      BY <1>2, <1>5, <1>7
    <3>5. typed' = typed
      BY <1>2, <1>7
    <3> QED
      BY <3>3, <3>4, <3>5 DEF Typist
  <2> HIDE DEF s1, w1, t1
  <2>6. Append(s1, k) \in Seq(KeyBytes)
    BY <2>1, <1>1, AppendProperties
  <2>7. Reads(Handler, Append(w1, k), ReadByte(t1, k)) /\ ReadByte(t1, k) \in Reader
    BY <2>3, <1>1, ReadsOneMore, ReadByteTyped
  <2> QED
    BY <2>2, <2>4, <2>5, <2>6, <2>7
<1> QED
  BY <1>6, <1>7

\* Whatever was read, a character or a backspace is shown, or nothing.
LEMMA HandlerTyped ==
  ASSUME Handler \in Reader, kbd_isr_handler
  PROVE  Handler' \in Reader
<1>1. PICK call \in Calls(data) : shown' = shown \o call
  BY DEF kbd_isr_handler
<1>2. shown \in Seq(Shows) /\ shift_pressed \in BOOLEAN /\ prev_scode_release \in BOOLEAN
  BY DEF Handler, Reader
<1>3. call \in Seq(Shows)
  <2>1. CASE call = <<>>
    BY <2>1, EmptySeq
  <2>2. CASE call = <<"backspace">>
    BY <2>2 DEF Shows
  <2>3. ASSUME NEW c \in Glyphs \cup {"\n", "\r"}, call = <<c>> PROVE call \in Seq(Shows)
    BY <2>3 DEF Shows
  <2> QED
    BY <2>1, <2>2, <2>3, CallsAreCharacters
<1>4. shown' \in Seq(Shows)
  BY <1>1, <1>2, <1>3, ConcatProperties
<1>5. shift_pressed' \in BOOLEAN /\ prev_scode_release' \in BOOLEAN
  BY <1>2 DEF kbd_isr_handler, ShiftState
<1> QED
  BY <1>4, <1>5 DEF Handler, Reader

LEMMA TypistTyped ==
  ASSUME Typist \in Reader, NEW k \in Keys \cup Shifts \cup {Backspace}, NEW down \in BOOLEAN,
         Key(k, down)
  PROVE  Typist' \in Reader
<1>1. typed \in Seq(Shows) /\ shifting \in BOOLEAN
  BY DEF Typist, Reader
<1> DEFINE c == IF k = Backspace THEN "backspace"
                ELSE sc_map[k][IF shifting THEN 2 ELSE 1]
<1>2. typed' = IF ~down \/ k \in Shifts THEN typed ELSE Append(typed, c)
  BY DEF Key
<1>3. k \notin Shifts => c \in Shows
  BY KeyShows, CodesDiffer DEF KeyBytes
<1> HIDE DEF c
<1>4. typed' \in Seq(Shows)
  BY <1>1, <1>2, <1>3, AppendProperties
<1>5. shifting' \in BOOLEAN
  BY <1>1 DEF Key
<1> QED
  BY <1>4, <1>5 DEF Typist, Reader

LEMMA TypedStep ==
  ASSUME TypedInv, [Next]_vars
  PROVE  TypedInv'
<1>1. HandshakeInv'
  BY HandshakeStep DEF TypedInv
<1>2. ASSUME UNCHANGED <<kbd_state, held, shifting, typed, shown, settled, early>>,
             ~early /\ ~settled => scans' \in Seq(KeyBytes),
             ~early /\ settled => UNCHANGED <<obf, data, scans>>
      PROVE  TypedInv'
  <2>1. Handler' = Handler /\ Typist' = Typist
    BY <1>2 DEF Handler, Typist, kbd_state
  <2>2. ~early /\ settled => OnTheWay' = OnTheWay
    BY <1>2 DEF OnTheWay
  <2> QED
    BY <1>1, <1>2, <2>1, <2>2 DEF TypedInv
<1>3. CASE KBD_init
  <2>1. ~settled /\ UNCHANGED <<kbd_state, history>>
    BY <1>3, KBD_initFrame DEF TypedInv, HandshakeInv, OnlyRunning
  <2>2. ~early => scans' = <<>>
    BY <1>3, <2>1, KBD_initFrame, KBD_initStep DEF TypedInv, HandshakeInv, NoKeyYet
  <2> QED
    BY <1>2, <2>1, <2>2, EmptySeq DEF history
<1>4. CASE IRQ_start
  BY <1>2, <1>4 DEF IRQ_start, controller, keyboard, history, TypedInv
<1>5. ASSUME NEW c, Printk(c) PROVE TypedInv'
  BY <1>2, <1>5 DEF Printk, controller, keyboard, TypedInv
<1>6. CASE Load
  <2>1. UNCHANGED <<kbd_state, history>>
    BY <1>6 DEF Load
  <2>2. Handler' = Handler /\ Typist' = Typist /\ early' = early /\ settled' = settled
    BY <2>1 DEF Handler, Typist, kbd_state, history
  <2>3. ~early /\ ~settled => scans' \in Seq(KeyBytes)
    <3> SUFFICES ASSUME ~early, ~settled PROVE scans' \in Seq(KeyBytes)
      OBVIOUS
    <3>1. scans = <<>> /\ Loadable
      BY <1>6 DEF TypedInv, HandshakeInv, NoKeyYet, Load
    <3>2. replies # <<>>
      BY <3>1, NothingLoadable
    <3>3. scans' = <<>>
      BY <3>1, <3>2, <1>6 DEF Load
    <3> QED
      BY <3>3, EmptySeq
  <2> QED
    BY <1>1, <1>6, <2>2, <2>3, LoadKeeps DEF TypedInv
<1>7. CASE Deliver
  BY <1>2, <1>7 DEF Deliver, controller, keyboard, history, TypedInv
<1>8. CASE kbd_isr_handler
  <2>1. /\ in_isr /\ obf' = FALSE /\ data' = data /\ settled' = TRUE
        /\ UNCHANGED <<scans, held, shifting, typed, early>>
    BY <1>8 DEF kbd_isr_handler, Read, keyboard
  <2>2. Typist' = Typist /\ OnTheWay' = scans
    BY <2>1 DEF Typist, OnTheWay
  <2>3. CASE early
    <3>1. Handler' \in Reader
      BY <1>8, HandlerTyped DEF TypedInv
    <3> QED
      BY <1>1, <2>1, <2>2, <2>3, <3>1 DEF TypedInv
  <2>4. CASE ~early /\ settled
    <3>1. obf /\ data \in KeyBytes /\ scans \in Seq(KeyBytes) /\ Handler \in Reader
      BY <2>1, <2>4 DEF TypedInv, HandshakeInv, OnlyRunning, EachHasAByte
    <3>2. Handler' = ReadByte(Handler, data)
      BY <3>1, <1>8, HandlerReads
    <3>3. Reads(Handler, <<data>> \o scans, Typist)
      BY <3>1, <2>4 DEF TypedInv, OnTheWay
    <3>4. Reads(ReadByte(Handler, data), scans, Typist)
      BY <3>1, <3>3, ReadsOneLess
    <3>5. Handler' \in Reader
      BY <3>1, <3>2, ReadByteTyped
    <3> QED
      BY <1>1, <2>1, <2>2, <3>1, <3>2, <3>4, <3>5 DEF TypedInv
  <2>5. CASE ~early /\ ~settled
    <3>1. /\ NoKeyYet /\ data = Ack /\ scans = <<>>
      BY <2>1, <2>5 DEF TypedInv, HandshakeInv, OnlyRunning, EachHasAByte, NoKeyYet
    <3>2. shift_pressed' = FALSE /\ prev_scode_release' = FALSE
      BY <3>1, <1>8, CodesDiffer DEF kbd_isr_handler, ShiftState, NoKeyYet
    <3>3. shown' = <<>>
      <4>1. Calls(data) = {<<>>}
        BY <3>1 DEF Calls
      <4>2. shown' = <<>> \o <<>>
        BY <3>1, <4>1, <1>8 DEF kbd_isr_handler, NoKeyYet
      <4> QED
        BY <4>2, EmptySeq, ConcatEmptySeq
    <3>4. Handler' = Typist'
      BY <3>1, <3>2, <3>3, <2>1 DEF Handler, Typist, NoKeyYet
    <3>5. Typist' \in Reader
      BY <2>2 DEF TypedInv
    <3>6. Reads(Handler', OnTheWay', Typist')
      BY <3>1, <3>4, <3>5, <2>2, NothingToRead
    <3> QED
      BY <1>1, <2>1, <3>1, <3>4, <3>5, <3>6, EmptySeq DEF TypedInv
  <2> QED
    BY <2>3, <2>4, <2>5
<1>9. ASSUME NEW k \in Keys \cup Shifts \cup {Backspace}, NEW down \in BOOLEAN, Key(k, down)
      PROVE  TypedInv'
  <2>1. /\ early' = (early \/ ~settled) /\ Handler' = Handler
        /\ UNCHANGED <<obf, data, settled>>
    BY <1>9 DEF Key, controller, kbd_state, Handler
  <2>2. Typist' \in Reader
    BY <1>9, TypistTyped DEF TypedInv
  <2>3. ~early /\ settled =>
          /\ scans' \in Seq(KeyBytes)
          /\ Reads(Handler, OnTheWay', Typist')
    BY <1>9, KeyReads
  <2> QED
    BY <1>1, <2>1, <2>2, <2>3 DEF TypedInv
<1>10. CASE UNCHANGED vars
  BY <1>2, <1>10 DEF vars, controller, keyboard, history, TypedInv
<1> QED
  BY <1>3, <1>4, <1>5, <1>6, <1>7, <1>8, <1>9, <1>10 DEF Next

\* With any number of shift keys, what kbd_isr_handler has shown is a prefix of
\* what was typed, each key once, in order and in its case, whatever the speed of
\* the typing and the repeats: nothing is lost, doubled or turned into another.
THEOREM ShownCorrect == Spec => []ShownAsTyped
<1>1. TypedInv => ShownAsTyped
  <2> SUFFICES ASSUME TypedInv, ~early PROVE IsPrefix(shown, typed)
    BY DEF ShownAsTyped
  <2>1. shown \in Seq(Shows) /\ typed \in Seq(Shows)
    BY DEF TypedInv, Handler, Typist, Reader
  <2>2. Begins(shown, typed)
    <3>1. CASE settled
      <4>1. PICK m \in [0 .. Len(OnTheWay) -> Reader] :
              m[0] = Handler /\ \A i \in 0 .. Len(OnTheWay) : Begins(m[i].out, Typist.out)
        BY <3>1 DEF TypedInv, Reads
      <4>2. Len(OnTheWay) \in Nat
        BY <3>1, OnTheWayTyped, LenProperties DEF TypedInv
      <4>3. Begins(m[0].out, Typist.out)
        BY <4>1, <4>2
      <4> QED
        BY <4>1, <4>3 DEF Handler, Typist
    <3>2. CASE ~settled
      BY <3>2, EmptySeq DEF TypedInv, HandshakeInv, NoKeyYet, Begins
    <3> QED
      BY <3>1, <3>2
  <2>3. "backspace" \in Shows
    BY DEF Shows
  <2> QED
    BY <2>1, <2>2, <2>3, BeginsFacts
<1>2. Init => TypedInv
  BY TypedInit
<1>3. TypedInv /\ [Next]_vars => TypedInv'
  BY TypedStep
<1> QED
  BY <1>1, <1>2, <1>3, PTL DEF Spec
=============================================================================
