SPECIFICATION FairSpec
CONSTANTS
    Backends = {b1, b2}
    Tasks = {t1, t2}
    Locking = {TRUE, FALSE}
    MaxRotations = 2
    MaxStarts = 1
INVARIANTS
    TokensAreSpentOnce
    RotationsAreKept
PROPERTIES
    DrainEnds
CHECK_DEADLOCK FALSE
