CONSTANTS
  NBit     = 16
  Programs <- MCPrograms
  Globals  <- MCGlobals
SPECIFICATION Spec
INVARIANTS TypeOK SameValues SameBytes AliasRight NoAbort SsaKept
CHECK_DEADLOCK FALSE
