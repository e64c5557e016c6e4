CONSTANTS
    alice = alice
    bob = bob
    m1 = m1
    m2 = m2
    p1 = p1
    Peers <- MCPeers
    Chats = {m1, m2}
    Vaults = {v}
    v = v
    From <- MCFrom
    To <- MCTo
    Pollers = {p1}
    Host <- MCHost
    Scenarios <- MCLossy
SPECIFICATION FairSpec
PROPERTIES
    SendSettles
    ChatArrives
CHECK_DEADLOCK FALSE
