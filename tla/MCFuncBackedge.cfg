CONSTANTS
  NBit     = 16
  Programs <- BackedgeBug
  Globals  <- MCGlobals
SPECIFICATION Spec
CHECK_DEADLOCK FALSE
INVARIANT NoAbort
