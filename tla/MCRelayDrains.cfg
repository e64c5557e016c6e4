CONSTANTS
    u1 = u1
    i1 = i1
    i2 = i2
    c1 = c1
    c2 = c2
    Users = {u1}
    Ids = {i1, i2}
    MaxStamp = 0
    Stamps <- MCStamps
    Cap = 2
    Retention = 0
    Size <- MCSize
    MaxMessage = 4
    BatchLimit = 2
    Limits = {0}
    DeliverMax = 1
    FetchMax = 1
    Minute = 2
    Conns = {c1, c2}
    Ops = {"deliver", "fetch"}
    AnswersMayBeLost = FALSE
    MaxRestarts = 0
SPECIFICATION FairSpec
PROPERTY MailDrains
