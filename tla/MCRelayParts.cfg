SPECIFICATION Spec
CONSTANTS
  w1 = w1
  w2 = w2
  w3 = w3
  Wallets <- MCWallets
  ChallengeTtl = 1
  SessionTtl = 2
  MaxChallenges = 2
  MaxSessions = 2
  LastChallenge = 4
  LastLoginTime = 3
  c1 = c1
  c2 = c2
  Callers <- MCCallers
  CacheTime = 2
  ProbeTime = 1
  Probes = 3
  Generations = 2
  LastReadinessTime = 3
  a1 = a1
  a2 = a2
  NoAccount = NoAccount
  Accounts <- MCAccounts
  Handshakes = 2
  Switches = 2
  Lapses = 1
\* The instances stop when their bounds are used up.
CHECK_DEADLOCK FALSE
INVARIANTS
  PartsTypeOK
  OneLoginPerChallenge
  CacheIsOfThisGeneration
  WaitsForProbeOfItsTime
  CachedIsCurrent
  OneHandshake
  RetrySuffices
PROPERTIES
  LiveSessionsEndForAReason
  EveryWaitEnds
