SPECIFICATION Spec
CONSTANTS
  MaxUnplugs = 2
  MaxData = 2
  MaxCommands = 2
INVARIANTS ExchangeFindsPort SessionsBracketed CommandsInOrder DataInOrder
PROPERTIES DeviceFollowed
CHECK_DEADLOCK FALSE
