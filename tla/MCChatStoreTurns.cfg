SPECIFICATION Spec
CONSTANTS
  w1 = w1
  w2 = w2
  Wallets = {w1, w2}
  NoWallet = NoWallet
  Calls <- CallsMixed
  MaxTurns = 2
  MaxWork = 2
  MaxContexts = 2
  MaxAttached = 1
SYMMETRY Symmetric
\* The instance stops when its bounds are used up.
CHECK_DEADLOCK FALSE
INVARIANTS SlotsAreReal CacheFollowsDispatch ApprovalsHonoured OutcomeStays FilesOfTheirWallet
PROPERTIES OwnCallsAnswered
