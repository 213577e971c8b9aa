SPECIFICATION Spec
CONSTANTS
  ca = ca
  cb = cb
  r1 = r1
  r2 = r2
  r3 = r3
  r4 = r4
  r5 = r5
  x1 = x1
  x2 = x2
  x3 = x3
  Free = Free
  Empty = Empty
  Partial = Partial
  None = None
  Path <- MCPath
  WhiteListed <- MCWhiteListed
  Shared <- MCShared
  Triggering <- MCTriggering
  Modules <- MCModules
  Template <- MCTemplate
  Commit <- MCCommit
  Tree <- MCTree
  MasterLog <- MCMasterLog
  PrHead <- MCPrHead
  PrNumber <- MCPrNumber
  Prefix <- MCPrefix
  Config <- MCConfigs1
  PrIsolation <- MCNoIsolation
  Teardown <- MCNoTeardown
  MasterLength = 4
  Run = {r1, r2}
  PullRequest = {}
  Environments = 2
  LastConfig = ca
  ForceRun = TRUE
  Faults = TRUE
  MaxReruns = 1
  QuietMerges = FALSE
  Bootstrapped = TRUE
INVARIANT GreenMeansDeployed
INVARIANT TestedBeforePromotion
PROPERTY NoRollback
CHECK_DEADLOCK FALSE
