CONSTANTS
  HeaderLen = 2
  MaxLen = 4
  FirstRing = 1
  MaxFeed = 5
  AllocFails = TRUE
  Streams <- MCStreams
SPECIFICATION Spec
INVARIANTS
  TypeOK
  WindowExact
  PacketsExact
  NoFrameWaits
CHECK_DEADLOCK FALSE
