\* The moves of an edge, which may read a slot: a temporary in a slot at the
\* end of one block and in a register at the start of the next.
CONSTANTS
  r1 = r1  r2 = r2  r3 = r3  s1 = s1
  Regs <- MCRegs
  Slots <- MCSlots
  Sources <- AnySource
  MaxMoves = 4
SPECIFICATION Spec
\* pmgen returns
CHECK_DEADLOCK FALSE
INVARIANTS TypeOK SwapsKept
PROPERTIES Implements Termination
