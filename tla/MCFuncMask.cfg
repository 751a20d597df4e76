CONSTANTS
  NBit     = 16
  Programs <- MaskBug
  Globals  <- MCGlobals
SPECIFICATION Spec
CHECK_DEADLOCK FALSE
INVARIANT SameValues
