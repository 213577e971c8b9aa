SPECIFICATION FairSpec
CHECK_DEADLOCK FALSE
CONSTANTS
  Listing <- MCListing
  Exact = {"subscriptions", "topic rules", "containers"}
  RoleCheck = {"roles"}
  FirstPage = {"containers"}
  ByOffset = {"subscriptions"}
  LastItem = 5
  PageSize = 2
  Expected <- MCExpected
  ScopeOf <- MCScopeOf
  RoleOf <- MCRoleOf
  Secrets = "secrets"
  Secret = {"endpoint", "username", "password"}
  Version = {1, 2}
  Cache = "cache"
  Key = "key"
  OtherKey = {"key1", "key2"}
  NoCheck = "none"
  MaxChanges = 3
  Faults = TRUE
INVARIANT TypeOK
INVARIANT ListingComplete
INVARIANT PassIsJustified
INVARIANT VerdictExact
INVARIANT OthersDoNotInterfere
PROPERTY AssertionEnds
