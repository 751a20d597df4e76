CONSTANTS
  NBit     = 16
  Programs <- PromoteBug
  Globals  <- MCGlobals
SPECIFICATION Spec
CHECK_DEADLOCK FALSE
INVARIANT SameValues
