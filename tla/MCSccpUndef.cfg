\* Loops where an undefined value may reach the jump.
CONSTANTS
  Programs <- UndefPrograms
  Temps    <- MCTemps
  Modulus  = 4
  Word     = 2
SPECIFICATION Spec
INVARIANTS NoAbort
CHECK_DEADLOCK FALSE
