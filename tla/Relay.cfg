\* Up to five sessions: a route can come back to its AS over two-octet and
\* four-octet speakers in any order.  A journey ends: no deadlock check.
SPECIFICATION Spec
CHECK_DEADLOCK FALSE
CONSTANTS
    AsTrans = 4
    TwoByteMax = 5
    MaxSegment = 2
    NoAttr = NoAttr
    Invalid = Invalid
    Nowhere = Nowhere
    DefaultPref = 100
    Martians <- MCMartians
    LinkLocals <- MCLinkLocals
    Speakers <- MCSpeakers
    Foreign <- MCForeign
    Fsm <- MCFsm
    Announced <- MCAnnounced
    Filters <- MCFilters
    LocalHops <- MCLocalHops
    MaxHops = 5
INVARIANTS
    PathKept
    LoopsCut
    PeersUnderstand
    FiltersSeeTruth
    ScopeKept
