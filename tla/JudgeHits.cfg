SPECIFICATION MCSpec
CONSTANTS
    Sessions = {"s1", "s2"}
    Ideas = {"k1", "k2"}
    Worded = {"s2"}
    Nothing = Nothing
    Likeness = 1
    MaxDeliveries = 3
    MaxChanges = 1
    Cards <- MCCards
    Answers <- MCAnswers
    Derives <- MCDerives
    Configs <- MCConfigs






INVARIANT HitsAreSessions
CHECK_DEADLOCK FALSE
