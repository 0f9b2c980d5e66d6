SPECIFICATION LinkedSpec
CONSTANTS
  MaxUnplugs = 1
  MaxData = 3
  MaxCommands = 3
  MaxTries = 2
  MaxExchanges = 2
  InitialWaiters <- MCInitialWaiters
PROPERTIES ImplementsExchange
CHECK_DEADLOCK FALSE
