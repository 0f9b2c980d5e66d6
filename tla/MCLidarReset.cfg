SPECIFICATION Spec
CONSTANTS
  BufferSize = 5
  Scans <- ScanStreams
  Answer <- AnswerCells
  AnswerData <- AnswerBytes
  ReadSizes = {2, 5}
  MaxWire = 5
INVARIANTS OnlyRemovalFaults OnlyAnswerHeard QuietResetAnswered
PROPERTIES ParserFreed
CHECK_DEADLOCK FALSE
