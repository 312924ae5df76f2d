SPECIFICATION LegacySpec
CONSTANTS
  Unknown = Unknown
  Flights = 1
  MaxCommands = 2
  MaxDeaths = 0
\* The instance stops when its bounds are used up.
CHECK_DEADLOCK FALSE
PROPERTY
  AttemptsSupplyNoDefaults
