SPECIFICATION FileToolsSpec
CONSTANTS
    Lines <- MCLines
    BaseSlot <- MCBaseSlot
    HashSpace = 3
    Stride = 1
    MaxLines = 2
    Sessions = {s1, s2}
    Files = {f, g}
    Names = {f, g, l}
    Calls = {c1, c2}
    Tools = {"read", "edit", "write"}
    Written <- MCWritten
    Others <- MCOthers
    Inserted <- MCInserted
    MaxUses = 3
    MaxChanges = 2
    MaxFaults = 1
SYMMETRY Symmetry
INVARIANT FileToolsTypeOK
PROPERTIES
    OnlyObservedIsReplaced
    AnchorsFollowLines
CHECK_DEADLOCK FALSE
