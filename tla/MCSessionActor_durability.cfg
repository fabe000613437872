SPECIFICATION Spec
CONSTANTS
    None = None
    Removed = Removed
    Prompts = {p1}
    Responses = {r1}
    Titles = {t1, t2}
    m1 = m1
    m2 = m2
    low = low
    high = high
    c1 = c1
    Models = {m1, m2}
    Reasonings = {low, high}
    Plans = {plan0, plan1}
    EmptyPlan = plan0
    FallbackTitle = t1
    DefaultSettings <- MCSettings
    Catalog <- MCCatalog
    TokenCounts = {1}
    Attachments <- NoClients
    ObserverCapacity = 1
    MaxSequence = 2
    MaxRunId = 0
    MaxTurns = 2
    MaxItems = 4
    MaxDeltas = 0
    MaxRevision = 1
INVARIANTS
    RunAgreement
    StoredOrDirty
    TranscriptsAreWellFormed
    HistoriesAreCompletedTurns
PROPERTIES
    StoredOutcomesAreFinal
    DurableSpec
CHECK_DEADLOCK FALSE
