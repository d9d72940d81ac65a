SPECIFICATION CallSpec
CONSTANTS
    Calls = {"getBlueprint", "runBlueprint", "listTables"}
    Columns = {"city", "salary"}
    Footprints <- MCFootprints
    Scopes <- MCScopes
    Emulates = TRUE
    Weight <- MCWeight
    TokenBudget = 4
    PinnedPairs = 1
    MaxBatch = 2
    MaxWindows = 2
    MaxTurns = 2
    MaxItems = 7
    MaxBodies = 2
    MaxTrimmedReadRefetches = 1
    Catalog <- MCCatalog
    ScratchWired = TRUE
    Raws <- MCRaws
    Domains <- MCDomains
    Rankings <- MCRankings
    Gap = 1
    Floor = 3
    MaxRuns = 1
    MaxAnswers = 3
    MaxEdits = 1
    Schemas <- MCSchemas
    CardLists <- MCCardLists
    Scores <- MCScores
    Budgets = {2, 4, 5, 6, 7, 8, 9, 11}
    Workers = {w1, w2}
    MAX_INTENTS = 2
    MaxToolCallsOfTurn = 2
SYMMETRY WorkerSymmetry
INVARIANT RoundsFaithful
INVARIANT ResumeKeepsWork
INVARIANT ConsentCounts
INVARIANT BindsFaithfully
INVARIANT PreviewHonest
INVARIANT ClosingsSupported
PROPERTY UpdatesAreSafe
CHECK_DEADLOCK FALSE
