CONSTANTS
  NBit     = 16
  Programs <- SelfLoopBug
  Globals  <- MCGlobals
SPECIFICATION Spec
CHECK_DEADLOCK FALSE
INVARIANT NoAbort
