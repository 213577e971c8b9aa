SPECIFICATION FairSpec
CONSTANTS
  h1 = h1
  h2 = h2
  Host <- MCHost
  MaxApplies = 4
  Faults = TRUE
INVARIANT TypeOK
INVARIANT CapturesOwn
PROPERTY CapturedForGood
PROPERTY ApplyEnds
CHECK_DEADLOCK FALSE
