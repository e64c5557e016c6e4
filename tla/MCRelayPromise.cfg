CONSTANTS
    u1 = u1
    u2 = u2
    i1 = i1
    i2 = i2
    c1 = c1
    c2 = c2
    Users = {u1, u2}
    Ids = {i1, i2}
    MaxStamp = 1
    Stamps <- MCStamps
    Cap = 1
    Retention = 0
    Size <- MCSize
    MaxMessage = 4
    BatchLimit = 2
    Limits = {0}
    DeliverMax = 1
    FetchMax = 1
    Minute = 1
    Conns = {c1, c2}
    Ops = {"deliver", "ack", "invalid"}
    AnswersMayBeLost = TRUE
    MaxRestarts = 1
SPECIFICATION Spec
SYMMETRY Symmetry
PROPERTY KeepsMailbox
