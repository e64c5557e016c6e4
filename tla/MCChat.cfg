CONSTANTS
    alice = alice
    bob = bob
    m1 = m1
    m2 = m2
    p1 = p1
    p2 = p2
    Peers <- MCPeers
    Chats = {m1, m2}
    Vaults = {v}
    v = v
    From <- MCFrom
    To <- MCTo
    Pollers = {p1, p2}
    Host <- MCHost
    Scenarios <- MCScenarios
SPECIFICATION Spec
SYMMETRY Symmetry
INVARIANTS
    TypeOK
    AckedUnlessByPanel
    NoThreadHasGaps
    SentMeansAccepted
PROPERTY HistoriesOnlyGrow
CHECK_DEADLOCK FALSE
