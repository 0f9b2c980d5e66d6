SPECIFICATION FairSpec
CONSTANTS
  BufferBytes = 4
  BufferMsecs = 2
  Interval = 2
  Total = 7
  Commands = 1
INVARIANTS KeptBriefly DataInOrder
PROPERTIES AllDelivered
