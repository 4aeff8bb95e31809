CONSTANTS
  t1 = t1
  t2 = t2
  app = app
  NoCallback = NoCallback
  Threads <- MCThreads
  Callbacks <- MCCallbacks
  QueueCap = 2
  MaxDepth = 2
  MaxChanges = 3
  MaxCalls = 5
SPECIFICATION Spec
INVARIANTS
  RefsExact
  OldCallbackDone
  OrderKept
  LatestReported
PROPERTY
  DestroyFrees
CHECK_DEADLOCK FALSE
