\* The names in data definitions, and source lines with the permutation of
\* functions: -continue shows both.
CONSTANTS
  Symbols = {"a", "b"}
  Files   = {f, g}
  Bits    <- MCBits
  Budget  = 3
  MaxConsts = 1
SPECIFICATION Spec
INVARIANTS FilesKnown DataMeant
CHECK_DEADLOCK FALSE
