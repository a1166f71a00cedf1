CONSTANTS
  Rd = {rd1}
  Ft = {}
  None = None
  MaxStarts = 2
  MaxBuf = 1
SPECIFICATION FairSpec
INVARIANTS
  PumpsOwned
PROPERTIES
  LostRdNoticed
