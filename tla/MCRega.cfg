CONSTANTS
  t1 = t1  t2 = t2  t3 = t3
  r1 = r1  r2 = r2  r3 = r3  r4 = r4
  NoRef = NoRef  Nothing = Nothing  Bad = Bad
  Temps <- MCTemps
  Regs <- MCRegs
  RSave <- MCSave
SPECIFICATION Spec
SYMMETRY Symmetric
\* the block is done
CHECK_DEADLOCK FALSE
INVARIANTS TypeOK ValuesKept NeverOut CallSafe
