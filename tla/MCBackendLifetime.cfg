SPECIFICATION FairSpec
CONSTANTS
    Sessions = {s1}
    MaxConnection = 2
    MaxBacklog = 1
    MaxTitles = 1
    Fragile = {s1}
INVARIANT TypeOK
INVARIANT CleanExitLeavesNothing
PROPERTY IdleExitIsQuiet
PROPERTY QuietBackendExits
