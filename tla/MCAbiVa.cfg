CONSTANTS
  Units <- VaBug
  NField = 32
SPECIFICATION Spec
INVARIANTS VaInOrder
CHECK_DEADLOCK FALSE
