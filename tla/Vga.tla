-------------------------------- MODULE Vga --------------------------------
(***************************************************************************)
(* The text screen, core/src/vga.c: the cells of the frame buffer, the     *)
(* position and the offset it stands for.                                  *)
(*                                                                         *)
(* Each function is one action: in the kernel as it is built, everything   *)
(* that calls it after IRQ_start is an interrupt handler.  Characters are  *)
(* glyphs, "\n" and "\r"; a cell is its glyph, or Blank.                   *)
(***************************************************************************)
EXTENDS Integers

CONSTANTS VGA_WIDTH, VGA_HEIGHT, Glyphs, Blank

ASSUME VgaAssumption ==
  /\ VGA_WIDTH \in Nat \ {0} /\ VGA_HEIGHT \in Nat \ {0}
  /\ Blank \notin Glyphs /\ "\n" \notin Glyphs /\ "\r" \notin Glyphs

VARIABLES
  vga_buff, x_pos, y_pos, cursor,
  vga_failed     \* an assertion of vga.c has failed

vga == <<vga_buff, x_pos, y_pos, cursor, vga_failed>>

VGA_CELL_COUNT == VGA_WIDTH * VGA_HEIGHT
Cells == 0 .. VGA_CELL_COUNT - 1

\* VGA_clear, the first thing kernel_main does.
VgaInit ==
  /\ vga_buff = [o \in Cells |-> Blank]
  /\ x_pos = 0 /\ y_pos = 0 /\ cursor = 0
  /\ vga_failed = FALSE

get_offset_from_coord(x, y) == x + y * VGA_WIDTH

\* Mutant: the bottom row keeps what was there.
scroll_uncleared(buff) ==
  [o \in Cells |-> IF o + VGA_WIDTH \in Cells THEN buff[o + VGA_WIDTH] ELSE buff[o]]
scroll(buff) ==
  [o \in Cells |-> IF o + VGA_WIDTH \in Cells THEN buff[o + VGA_WIDTH] ELSE Blank]

\* The assertion before and after; the one in between allows the position just
\* outside.
PositionValid(x, y, c) == x < VGA_WIDTH /\ y < VGA_HEIGHT /\ c < VGA_CELL_COUNT

LineEnds(c) == c \in {"\n", "\r"}
AfterChar(c) ==
  CASE c = "\n" -> <<0, y_pos + 1>>
    [] c = "\r" -> <<x_pos, y_pos + 1>>
    [] OTHER -> <<x_pos + 1, y_pos>>
\* Mutant: the wrap at the right edge is missing.
Wrapped_not(p) == p
Wrapped(p) == IF p[1] = VGA_WIDTH THEN <<0, p[2] + 1>> ELSE p

VGA_display_char(c) ==
  LET p == AfterChar(c)
      q == Wrapped(p)
      written == IF LineEnds(c) THEN vga_buff ELSE [vga_buff EXCEPT ![cursor] = c]
      y == IF q[2] = VGA_HEIGHT THEN q[2] - 1 ELSE q[2]
      offset == get_offset_from_coord(q[1], y)
  IN IF /\ PositionValid(x_pos, y_pos, cursor)
        /\ p[1] <= VGA_WIDTH /\ p[2] <= VGA_HEIGHT
        /\ PositionValid(q[1], y, offset)
       THEN /\ vga_buff' = IF q[2] = VGA_HEIGHT THEN scroll(written) ELSE written
            /\ x_pos' = q[1] /\ y_pos' = y /\ cursor' = offset
            /\ UNCHANGED vga_failed
       ELSE vga_failed' = TRUE /\ UNCHANGED <<vga_buff, x_pos, y_pos, cursor>>

VGA_backspace_char ==
  IF x_pos = 0 THEN UNCHANGED vga
    ELSE /\ x_pos' = x_pos - 1
         /\ cursor' = get_offset_from_coord(x_pos', y_pos)
         /\ vga_buff' = [vga_buff EXCEPT ![cursor'] = Blank]
         /\ UNCHANGED <<y_pos, vga_failed>>

-----------------------------------------------------------------------------
(* Properties.                                                             *)

\* Between calls the cursor is the offset of the position, which is on the
\* screen, and no assertion of vga.c has failed.
CursorAtPosition ==
  /\ cursor = get_offset_from_coord(x_pos, y_pos)
  /\ PositionValid(x_pos, y_pos, cursor)
  /\ ~vga_failed

\* The buffer, read line by line, is the abstract screen.
Lines == [n \in 1 .. VGA_HEIGHT |-> [k \in 1 .. VGA_WIDTH |->
            vga_buff[get_offset_from_coord(k - 1, n - 1)]]]
Promise == INSTANCE Screen WITH
  Width <- VGA_WIDTH, Height <- VGA_HEIGHT,
  lines <- Lines, column <- x_pos + 1, line <- y_pos + 1
ImplementsScreen == Promise!Spec
=============================================================================
