CONSTANTS
  Units <- SubwordBug
  NField = 32
SPECIFICATION Spec
INVARIANTS CallAgrees
CHECK_DEADLOCK FALSE
