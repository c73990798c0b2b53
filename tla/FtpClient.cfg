SPECIFICATION Spec
CONSTANTS
  MaxCalls = 2
  Pool = 3
  MoreSegs = 2
  FileSegs = 3
  Window = 2
INVARIANTS InStep OkMeansStored
PROPERTY CallReturns
CHECK_DEADLOCK FALSE
