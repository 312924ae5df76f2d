SPECIFICATION Spec
CONSTANTS
  w1 = w1
  Wallets = {w1}
  NoWallet = NoWallet
  Calls <- CallsOther
  MaxTurns = 1
  MaxWork = 2
  MaxContexts = 3
  MaxAttached = 0
\* The instance stops when its bounds are used up.
CHECK_DEADLOCK FALSE
PROPERTIES ClearKeepsTransactions
