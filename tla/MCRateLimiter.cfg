CONSTANTS
    Max = 2
    Minute = 3
    Horizon = 6
SPECIFICATION FairSpec
INVARIANTS
    TypeOK
    WindowBound
PROPERTY RefusedIsServed
