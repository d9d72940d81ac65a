SPECIFICATION LearnedSpec
CONSTANTS
    Sessions = {"s1", "s2"}
    Ideas = {"k1", "k2"}
    Worded = {"s2"}
    Nothing = Nothing
    Likeness = 1
    MaxDeliveries = 3
    MaxChanges = 1
    Cards <- MCCards
    Answers <- MCAnswers
    Derives <- MCDerives
    Configs <- MCConfigs
    Cands = {"c1"}
    Keys = {"k1"}
    Reviewers = {r1}
    r1 = r1
    Threshold = 1
    MaxRuns = 2
    MaxRequests = 2
    MaxFaults = 1
    Unset = Unset
    Queries = {"q1"}
    Designations <- MCDesignations
    CodesOf <- MCCodesOf
    MaxTurns = 2
    MaxWrites = 5
INVARIANT DropJustified
INVARIANT RowMatchesArtifact
PROPERTY ArtifactIsNeverReset
INVARIANT EntityFree
INVARIANT OnlyHumanLands
INVARIANT ValidatedIsLanded
PROPERTY TerminalStays
INVARIANT SummarySound
PROPERTY AcceptanceStands
CHECK_DEADLOCK FALSE
