SPECIFICATION RecordsSpec
CONSTANTS
  tab1 = tab1
  tab2 = tab2
  first = first
  second = second
  None = None
  Tabs <- MCTabs
  Keys <- MCKeys
  MaxResults = 1
  MaxMishaps = 1
  Unknown = Unknown
  Flights = 2
  MaxCommands = 2
  MaxDeaths = 1
  MaxAdvised = 3
  MaxTroubles = 2
  alice = alice
  bob = bob
  HistoryTabs <- MCTabs
  Owners <- MCOwners
  NoOwner = NoOwner
  Window = 2
  MaxRows = 3
  MaxMoves = 3
  MaxFaults = 1
SYMMETRY NameSymmetry
\* The instances stop when their bounds are used up.
CHECK_DEADLOCK FALSE
INVARIANTS
  RecordsTypeOK
  UnsettledHasItsHandle
  RecordsAreTrue
  ResultsHaveRoom
  
  AdviceIsHeeded
  RowsAreOwn
  RowsAreOnDisk
PROPERTIES
  NewerBuildsStand
