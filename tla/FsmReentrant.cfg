CONSTANTS
    Fsms = {f1}
    Calls = {1, 2, 3}
    Peers = {1}
    LocalId = 2
    CollisionDetection = FALSE
    Threads = FALSE
    AllocFails = TRUE
    MaxGen = 6
    MaxUid = 2
SPECIFICATION FairSpec
CHECK_DEADLOCK FALSE
INVARIANTS
    UpBeforeDown
    EstablishedNeedsOwnKeepalive
PROPERTIES
    DeferredKeepaliveResolved
    StaleRoutesLeave
