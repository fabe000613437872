SPECIFICATION Spec
CONSTANTS
    Sessions = {s1, s2}
    Connections = {c1}
    Kinds = {"materialize", "open", "rename", "delete", "flush", "shutdown", "detach", "startup"}
    MaxMailbox = 2
    MaxCommands = 4
    MaxChanges = 2
    MaxFaults = 1
INVARIANTS
    TypeOK
    ClosedConnectionsAreForgotten
    CleanEndsAreSaved
PROPERTY
    StoreNeverGoesBack
CHECK_DEADLOCK FALSE
