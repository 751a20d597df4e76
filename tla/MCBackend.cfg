CONSTANTS
  Gpr   <- MCGpr
  Fpr   <- MCFpr
  RGlob <- MCGlob
  RSave <- MCSave
  Tmp0  = 10
  Programs <- MCPrograms
SPECIFICATION Spec
INVARIANTS TypeOK FitsRega NoAbort SameReads EdgesRight
CHECK_DEADLOCK FALSE
