SPECIFICATION FairSpec
CONSTANTS
    None = None
    Removed = Removed
    Prompts = {p1}
    Responses = {}
    Titles = {t1}
    m1 = m1
    m2 = m2
    low = low
    high = high
    c1 = c1
    Models = {m1}
    Reasonings = {low}
    Plans = {plan0}
    EmptyPlan = plan0
    FallbackTitle = t1
    DefaultSettings <- MCSettings
    Catalog = None
    TokenCounts = {}
    Attachments <- OneClient
    ObserverCapacity = 2
    MaxSequence = 3
    MaxRunId = 0
    MaxTurns = 1
    MaxItems = 2
    MaxDeltas = 0
    MaxRevision = 0
INVARIANTS
    ViewsFollowProjection
PROPERTIES
    DeletionSettles
CHECK_DEADLOCK FALSE
