SPECIFICATION Spec
CHECK_DEADLOCK FALSE
CONSTANTS
    Clients = {c1, c2}
    Backends = {b1, b2, b3}
    Inodes = {i1, i2}
    Times = {t1, t2}
    ManualStarts = TRUE
    None = None
SYMMETRY Symmetry
INVARIANT ListenersAreLostInRaces
INVARIANT StartsAreApart
