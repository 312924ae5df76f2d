SPECIFICATION PartsSpec
CONSTANTS
  w1 = w1
  Wallets = {w1}
  NoWallet = NoWallet
  Calls <- CallsOther
  MaxTurns = 1
  MaxWork = 3
  MaxContexts = 2
  MaxAttached = 0
  t1 = t1
  t2 = t2
  l1 = l1
  n1 = n1
  d1 = d1
  Tabs = {t1, t2}
  Shown = {t1}
  Leases = {l1}
  Names = {n1}
  Domains = {d1}
  Limit <- MCLimit
  None = None
  small = small
  gpuSmall = gpuSmall
  p1 = p1
  p2 = p2
  Tiers <- MCTiers
  Providers <- MCProviders
  Prices = {0, 1}
  Matches <- MCMatches
  Candidates <- MCCandidates
  Requests <- MCRequests
  Catalogs <- MCCatalogs
  NoOffer = NoOffer
  NoSize = NoSize
  NoName = NoName
  Concurrency = 2
  MaxCredits = 2
  MaxShifts = 1
  s1 = s1
  s2 = s2
  SetupWallets <- MCSetupWallets
  Nobody = Nobody
  PwrThreshold = 2
  CreditThreshold = 2
  CreditAmount = 2
  GasReserve = 1
  DripAmount = 3
  Openings <- MCOpenings
  MaxRuns = 2
  MaxUnread = 1
  r1 = r1
  r2 = r2
  RecoveryLeases <- MCRecoveryLeases
  FirstNeeds <- MCNeeds
  ShortBudget = 1
  LongBudget = 2
  Pause = 1
  LongPause = 1
  MaxStirs = 1
  MaxSigners = 2
\* The instances stop when their bounds are used up.
CHECK_DEADLOCK FALSE
INVARIANTS
  PartsTypeOK
  OneLiveCard
  RegistryIsShown
  DeploysAreTold
  SetupIsCareful
  RecoveryIsPaced
PROPERTIES
  NothingIsTakenBack
  EveryWaitEnds
