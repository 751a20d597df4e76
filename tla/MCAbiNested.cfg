CONSTANTS
  Units <- NestedBug
  NField = 32
SPECIFICATION Spec
INVARIANTS ClassesRight
CHECK_DEADLOCK FALSE
