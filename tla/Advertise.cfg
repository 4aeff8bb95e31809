\* Three calls, two of them at a time, and two messages that cannot be sent.  The
\* host may stop calling: no deadlock check.
SPECIFICATION Spec
CHECK_DEADLOCK FALSE
CONSTANTS
    p1 = p1
    p2 = p2
    p3 = p3
    na = na
    nb = nb
    nc = nc
    Peers = {p1, p2, p3}
    Order <- MCOrder
    Prefixes = {na, nb, nc}
    Walk <- MCWalk
    Local = Local
    Locals = {nb}
    Versions = {1, 2}
    Updates <- MCUpdates
    Pref <- MCPref
    Denied <- MCDenied
    Ibgp = {p1, p2}
    NoRoute = NoRoute
    NoOne = NoOne
    MaxBusy = 2
    MaxOps = 3
    MaxFails = 2
INVARIANTS
    PeersTold
    PolicyKept
