SPECIFICATION Spec
CONSTANTS
  w1 = w1
  w2 = w2
  r1 = r1
  r2 = r2
  None = None
  Wallets <- MCWallets
  Requests <- MCRequests
  SessionTtl = 2
  MaxSessions = 1
  ConnectTimeout = 1
  StreamTimeout = 2
  MaxIdentity = 2
  MaxProvider = 2
  Logins = 2
  LastStart = 2
CHECK_DEADLOCK FALSE
SYMMETRY Symmetry
INVARIANTS
  GateCountsRunning
PROPERTIES
  StreamsEndWithSession
