CONSTANTS
  Width = 2
  PrefixSet <- AliasPrefixes
  Sources = {0, 1}
  Attrs <- TwoPrefs
  InitialBuckets = 2
  AllocFails = TRUE
  MaxUid = 3
  MaxSaved = 2
SPECIFICATION Spec
VIEW WithoutReport
INVARIANTS
  IndexesAgree
  LookupIsBest
PROPERTIES
  ReportsExact
  ImplementsTable
