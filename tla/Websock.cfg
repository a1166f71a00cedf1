SPECIFICATION FairSpec
CONSTANTS
  MaxWeb = 4
  MaxHost = 4
INVARIANTS CountersAgree
PROPERTIES FifoBothWays PingsAnswered
CHECK_DEADLOCK FALSE
