CONSTANTS
    Fsms = {f1}
    Calls = {1, 2}
    Peers = {1}
    LocalId = 2
    CollisionDetection = TRUE
    Threads = FALSE
    AllocFails = FALSE
    MaxGen = 6
    MaxUid = 1
SPECIFICATION Spec
CHECK_DEADLOCK FALSE
PROPERTIES
    NoStalePromotion
