CONSTANTS
  t1 = t1
  t2 = t2
  f1 = f1
  f2 = f2
  App = App
  Threads <- MCThreads
  Fsms <- MCFsms
  Types <- MCTypes
  StackSnapshot = 1
  AllocFails = TRUE
  MaxDepth = 2
  MaxCalls = 4
  MaxId = 6
SPECIFICATION Spec
SYMMETRY Symmetric
INVARIANTS
  RefsExact
  NoneLeftBehind
  AllOrNone
  NoEcho
CHECK_DEADLOCK FALSE
