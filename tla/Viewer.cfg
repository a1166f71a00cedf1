SPECIFICATION FairSpec
CONSTANTS
  Rd = r
  Ft = {f1, f2}
  None = None
INVARIANTS SessionHasPage OneClosingSparesRd
PROPERTIES EndedPageLeaves EventsKeyedBySession
CHECK_DEADLOCK FALSE
