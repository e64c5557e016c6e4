CONSTANTS
    u1 = u1
    u2 = u2
    i1 = i1
    i2 = i2
    i3 = i3
    Users = {u1, u2}
    Ids = {i1, i2, i3}
    MaxStamp = 2
    Stamps <- MCStamps
    Cap = 1
    Retention = 1
    MaxFaults = 2
SPECIFICATION Spec
SYMMETRY Symmetry
INVARIANTS
    TypeOK
    CapUnlessTorn
PROPERTY KeepsMailbox
