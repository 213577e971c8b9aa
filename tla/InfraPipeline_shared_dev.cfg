SPECIFICATION Spec
CONSTANTS
  ca = ca
  cb = cb
  r1 = r1
  r2 = r2
  r3 = r3
  r4 = r4
  r5 = r5
  x1 = x1
  x2 = x2
  x3 = x3
  Free = Free
  Empty = Empty
  Partial = Partial
  None = None
  Path <- MCPath
  WhiteListed <- MCWhiteListed
  Shared <- MCShared
  Triggering <- MCTriggering
  Modules <- MCModules
  Template <- MCTemplate
  Commit <- MCCommit
  Tree <- MCTree
  MasterLog <- MCMasterLog
  PrHead <- MCPrHead
  PrNumber <- MCPrNumber
  Prefix <- MCPrefix
  Config <- MCConfigs1
  PrIsolation <- MCNoIsolation
  Teardown <- MCNoTeardown
  MasterLength = 3
  Run = {r1, r2}
  PullRequest = {r1, r2}
  Environments = 1
  LastConfig = ca
  ForceRun = TRUE
  Faults = FALSE
  MaxReruns = 0
  QuietMerges = FALSE
  Bootstrapped = TRUE
INVARIANT TestsSeeOwnDeployment
CHECK_DEADLOCK FALSE
