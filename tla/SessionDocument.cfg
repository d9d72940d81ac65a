SPECIFICATION DocumentSpec
CONSTANTS
    Blueprints = {"b"}
    Slots = {1, 2}
    Queries = {1, 2}
    HiddenQueries = {2}
    Designations <- MCDesignations
    MAX_ANSWER_TABLES = 2
    MaxQuestions = 2
    MaxTrail = 3
    p1 = p1
    p2 = p2
    Procs = {p1, p2}
    Keys = {"k1"}
    MaxCalls = 3
    Calls = {1, 2, 3}
    MaxBlocks = 1
    MaxCasRetries = 2
    MaxExpiries = 1
    MaxTimeouts = 1
SYMMETRY Symmetry
INVARIANT ResumedOnce
PROPERTY OnlyCreationDiscards
PROPERTY ImplementsAtomic
INVARIANT AnswersHonest
CHECK_DEADLOCK FALSE
