CONSTANTS
    u1 = u1
    i1 = i1
    i2 = i2
    i3 = i3
    c1 = c1
    c2 = c2
    Users = {u1}
    Ids = {i1, i2, i3}
    MaxStamp = 0
    Stamps <- MCStamps
    Cap = 2
    Retention = 0
    Size <- MCSize
    MaxMessage = 3
    BatchLimit = 2
    Limits = {0, 1, 3}
    DeliverMax = 1
    FetchMax = 1
    Minute = 1
    Conns = {c1, c2}
    Ops = {"deliver", "fetch"}
    AnswersMayBeLost = TRUE
    MaxRestarts = 1
SPECIFICATION Spec
SYMMETRY Symmetry
INVARIANTS
    TypeOK
    NothingSkipped
