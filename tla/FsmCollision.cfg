CONSTANTS
    Fsms = {f1, f2}
    Calls = {1}
    Peers = {1, 3}
    LocalId = 2
    CollisionDetection = TRUE
    Threads = FALSE
    AllocFails = TRUE
    MaxGen = 4
    MaxUid = 1
SPECIFICATION Spec
CHECK_DEADLOCK FALSE
INVARIANTS
    OneNegotiationPerPeer
