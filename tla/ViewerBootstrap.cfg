SPECIFICATION BootFairSpec
CONSTANTS
  MaxReady = 3
  MaxLoads = 2
INVARIANTS OneSessionPerLoad
PROPERTIES TakenOnIsAnswered AckedSessionOpens
CHECK_DEADLOCK FALSE
