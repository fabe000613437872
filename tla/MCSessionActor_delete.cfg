SPECIFICATION Spec
CONSTANTS
    None = None
    Removed = Removed
    Prompts = {p1}
    Responses = {r1}
    Titles = {t1}
    m1 = m1
    m2 = m2
    low = low
    high = high
    c1 = c1
    Models = {m1}
    Reasonings = {low}
    Plans = {plan0}
    EmptyPlan = plan0
    FallbackTitle = t1
    DefaultSettings <- MCSettings
    Catalog = None
    TokenCounts = {1}
    Attachments <- NoClients
    ObserverCapacity = 1
    MaxSequence = 3
    MaxRunId = 1
    MaxTurns = 1
    MaxItems = 2
    MaxDeltas = 0
    MaxRevision = 1
PROPERTIES
    FailedDeleteKeepsAnswers
CHECK_DEADLOCK FALSE
