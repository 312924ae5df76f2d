SPECIFICATION Spec
CONSTANTS
  w1 = w1
  Wallets = {w1}
  NoWallet = NoWallet
  Calls <- CallsShort
  MaxTurns = 1
  MaxWork = 2
  MaxContexts = 2
  MaxAttached = 0
\* The instance stops when its bounds are used up.
CHECK_DEADLOCK FALSE
PROPERTIES EveryCallAnswered
