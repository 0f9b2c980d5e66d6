SPECIFICATION Spec
CONSTANTS
  BufferSize = 16
  LengthLimit = 8
  MaxRead = 18
  MaxResets = 1
  Streams <- AllStreams
  Places <- StreamPlaces
INVARIANTS TypeOK NoWedge NothingInvented
PROPERTIES Implements LoopVariant NoFrameHidden
CHECK_DEADLOCK FALSE
