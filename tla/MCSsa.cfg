\* All graphs of four blocks; one variable in five graphs.
CONSTANTS
  Inputs <- MCInputs
  NTmp   = 3
SPECIFICATION Spec
INVARIANTS TypeOK PassesRight SsaForm StrictAccepted SameRun
CHECK_DEADLOCK FALSE
