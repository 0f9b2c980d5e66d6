SPECIFICATION DaemonSpec
CONSTANTS
  CommandLines <- Lines
  ConfFiles <- Files
  Illegal = Illegal
  Missing = Missing
  MaxSignals = 3
INVARIANT MotorOffAtExit
PROPERTY TermEndsProgram
CHECK_DEADLOCK FALSE
