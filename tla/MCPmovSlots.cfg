\* The moves of an edge: a temporary in a slot at the end of one block and in
\* a register at the start of the next is read from its slot.
CONSTANTS
  r1 = r1  r2 = r2  r3 = r3  s1 = s1
  Regs <- MCRegs
  Slots <- MCSlots
  Sources <- AnySource
  MaxMoves = 4
SPECIFICATION Spec
CHECK_DEADLOCK FALSE
INVARIANT SwapsBetweenRegisters
