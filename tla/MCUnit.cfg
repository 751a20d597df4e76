\* Any input of five definitions and data items, with and without the
\* permutation of functions.
CONSTANTS
  Symbols = {"a"}
  Files   = {f, g}
  Bits    <- MCBits
  Budget  = 5
  MaxConsts = 1
SPECIFICATION Spec
INVARIANTS TypeOK TextKept NumbersMeant
CHECK_DEADLOCK FALSE
SYMMETRY MCSymmetry
