SPECIFICATION FairSpec
CONSTANTS
    MaxRunning = 2
    MaxTerminal = 2
    MaxId = 3
    Outcomes = {"failed"}
    Callers = {a}
    Reporting = {1}
    Requests = {{0, 1}}
INVARIANTS
    ShutdownFindsItsJobs
    NoLostWakeup
    ShutdownStopsAll
PROPERTIES
    WaitersLearn
    ShutdownReturns
