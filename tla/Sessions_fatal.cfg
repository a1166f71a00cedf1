CONSTANTS
  Rd = {rd1}
  Ft = {ft1}
  None = None
  MaxStarts = 1
  MaxBuf = 1
SPECIFICATION Spec
INVARIANTS
  FatalErrorsReported
