SPECIFICATION Spec
CONSTANTS
  MaxTries = 3
  MaxExchanges = 2
  InitialWaiters <- MCInitialWaiters
INVARIANTS WokenHasResponse NoRaceBeforeTimeout BacklogBounded
PROPERTIES FreshBeforeTimeout ScanFindsSlotFree ExchangeEnds
CHECK_DEADLOCK FALSE
