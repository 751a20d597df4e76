\* Every function of MCPrograms, those with undefined values included.
CONSTANTS
  Programs <- MCPrograms
  Temps    <- MCTemps
  Modulus  = 4
  Word     = 2
SPECIFICATION Spec
INVARIANTS TypeOK NothingLost TrimRight NoAbortDefined
PROPERTIES Returns
CHECK_DEADLOCK FALSE
