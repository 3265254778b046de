SPECIFICATION FairSpec
CONSTANTS
  VGA_WIDTH = 2
  VGA_HEIGHT = 2
  Glyphs = {"a", "A"}
  Blank = "blank"
  Keys <- KeyA
  Shifts <- TwoShifts
  MAX_KBD_RESEND = 3
  MaxEvents = 4
  MaxPrints = 1
INVARIANTS CursorAtPosition ShownAsTyped HandshakeClean ErroneousIrqOnce
PROPERTIES ImplementsScreen TypedIsShown KBD_initEnds
CHECK_DEADLOCK FALSE
