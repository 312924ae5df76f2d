SPECIFICATION Spec
CONSTANTS
  alice = alice
  bob = bob
  carol = carol
  r1 = r1
  r2 = r2
  r3 = r3
  noSpend = noSpend
  NoSpend = noSpend
  Identities <- MCIdentities
  Requests = {r1, r2, r3}
  Shapes <- MCShapes
  Usages <- MCUsages
  InputPrice = 1
  OutputPrice = 3
  Million = 2
  IdentityDailyRequests = 2
  IdentityDailyTokens = 5
  IdentityDailySpend = 6
  ProviderDailyBudget = 9
  Capacities = {1, 2}
  MaxDay = 2
  MaxCrashes = 1
  MaxWriteFailures = 1
  FaultyRequests = 2
SYMMETRY Interchangeable
INVARIANTS
  TypeOK
  BudgetHolds
  GrantsAreCounted
  EntriesCoverReservations
PROPERTIES
  KeepsDailyBudget
CHECK_DEADLOCK FALSE
