SPECIFICATION FairSpec
CONSTANTS
    Shell = shell
    Descendants = {d1, d2}
    Pipes = {stdout, stderr}
    MayLeave = TRUE
    MaxFailures = 1
    MaxOutput = 1
INVARIANTS
    TypeOK
    CaptureIsTotal
    NothingIsLeftBehind
PROPERTIES
    AbandonedCallsStop
CHECK_DEADLOCK FALSE
