SPECIFICATION FairSpec
CHECK_DEADLOCK FALSE
CONSTANTS
  Test <- MCTest
  Integration <- MCIntegration
  Named <- MCNamed
  Dir <- MCDir
  DirOf <- MCDirOf
  Backend <- MCDir
  BackendOf <- MCBackendOf
  Local <- MCLocal
  ModuleDir <- MCLocal
  Below <- MCBelow
  Matching <- MCMatching
  Name <- MCName
  Default <- MCDefault
  UnitTesting <- MCUnitTesting
  RandomName <- MCRandomName
  Human <- MCHuman
  MaxRuns = 2
  Value <- MCValue
  FreshPlans <- MCFreshPlans
  ChangePlans <- MCChangePlans
  Fixtures <- MCFixtures
  Outputs <- MCOutputs
  OutputFixtures <- MCOutputFixtures
  NoPlan = NoPlan
  Faults = TRUE
INVARIANT TypeOK
INVARIANT PassedLeavesNoTrace
INVARIANT CleanUpSucceeds
INVARIANT FreshPlan
INVARIANT VerdictIsSubset
INVARIANT IntegrationAfterUnit
INVARIANT IntegrationReadsFound
INVARIANT TestsOnFormattedSources
PROPERTY EveryRunEnds
