CONSTANTS
  a1 = a1  a2 = a2
  t1 = t1  t2 = t2  t3 = t3  t4 = t4
  Allocs <- MCAllocs
  Temps <- MCTemps
  Sizes <- MCSizes
  MaxSaves = 3
  Canary = 1
SPECIFICATION Spec
SYMMETRY Symmetric
\* the compiler is done with the function once its frame is emitted
CHECK_DEADLOCK FALSE
INVARIANTS TypeOK NoOverlap Aligned
