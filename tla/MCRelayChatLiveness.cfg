SPECIFICATION ReadingSpec
CONSTANTS
  w1 = w1
  w2 = w2
  r1 = r1
  r2 = r2
  None = None
  Wallets <- MCWallets
  Requests <- MCRequests
  SessionTtl = 2
  MaxSessions = 1
  ConnectTimeout = 1
  StreamTimeout = 1
  MaxIdentity = 1
  MaxProvider = 1
  Logins = 1
  LastStart = 2
CHECK_DEADLOCK FALSE
INVARIANT
PROPERTY
  RequestsEnd
