CONSTANTS
  Units <- MCUnits
  NField = 32
SPECIFICATION Spec
INVARIANTS TypeOK ClassesRight CallAgrees PlacesApart VaInOrder
CHECK_DEADLOCK FALSE
