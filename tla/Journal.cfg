CONSTANTS
  PeerIds = {1, 2}
  PrefixSet = {"x", "y"}
  Updates <- RepeatingUpdates
  AllocFails = TRUE
  MaxUid = 4
SPECIFICATION Spec
INVARIANTS
  JournalOwnsSaved
  EventsTellBest
PROPERTY
  ImplementsAtomic
