CONSTANTS
    Fsms = {f1}
    Calls = {c1, c2, c3}
    Peers = {1}
    LocalId = 2
    CollisionDetection = FALSE
    Threads = TRUE
    AllocFails = FALSE
    MaxGen = 6
    MaxUid = 2
SPECIFICATION Spec
CHECK_DEADLOCK FALSE
SYMMETRY ThreadSymmetry
INVARIANTS
    PendingHasOwner
    RollbackSparesEstablished
    EstablishedNeedsPeerKeepalive
    NoOrphanRoutes
PROPERTIES
    NoSilentDown
