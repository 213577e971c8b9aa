SPECIFICATION Spec
CONSTANTS
  h1 = h1
  h2 = h2
  Host <- MCHost
  MaxApplies = 1
  Faults = TRUE
INVARIANT EndpointKnown
CHECK_DEADLOCK FALSE
