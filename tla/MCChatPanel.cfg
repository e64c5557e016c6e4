CONSTANTS
    alice = alice
    bob = bob
    m1 = m1
    m2 = m2
    p1 = p1
    p2 = p2
    Peers <- MCPeers
    Chats = {m1, m2}
    Vaults = {}
    From <- MCFrom
    To <- MCTo
    Pollers = {p1, p2}
    Host <- MCHost
    Scenarios <- MCPanel
SPECIFICATION Spec
SYMMETRY Symmetry
INVARIANT
    AckedIsSaved
CHECK_DEADLOCK FALSE
