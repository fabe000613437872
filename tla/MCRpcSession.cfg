SPECIFICATION LiveSpec
CONSTANTS
    c1 = c1
    c2 = c2
    Clients = {c1, c2}
    Stuck = {c2}
    MaxSequence = 2
    MaxAttachment = 2
    Capacity = 1
    ClientCapacity = 1
    Refused = {2}
    MaxChanges = 3
    MaxLives = 2
INVARIANTS NothingIsLost
PROPERTIES ViewSpec ClientsCatchUp DeletionIsReported
CHECK_DEADLOCK FALSE
