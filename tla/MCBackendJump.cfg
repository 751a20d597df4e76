CONSTANTS
  Gpr   <- MCGpr
  Fpr   <- MCFpr
  RGlob <- MCGlob
  RSave <- MCSave
  Tmp0  = 10
  Programs <- Jumps
SPECIFICATION Spec
INVARIANT NoAbort
CHECK_DEADLOCK FALSE
