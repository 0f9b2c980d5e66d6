SPECIFICATION DaemonSpec
CONSTANTS
  CommandLines <- Lines
  ConfFiles <- Files
  Illegal = Illegal
  Missing = Missing
  MaxSignals = 3
INVARIANT LogFileGiven
CHECK_DEADLOCK FALSE
