\* One second is two units of the clock; the host ticks every unit.  The clock
\* wraps at 20, three units after the start.
SPECIFICATION Spec
CONSTANTS
    Tickers = {t1, t2}
    PeerHolds = {0, 3}
    LocalHold = 4
    ConfKeepalive = 2
    Unit = 2
    Modulus = 20
    MaxGap = 1
    Start = 17
    MaxClock = 26
    MaxGen = 3
SYMMETRY Symmetric
INVARIANTS
    DeadPeerNoticed
    SpeaksInTime
PROPERTIES
    NoEarlyExpiry
