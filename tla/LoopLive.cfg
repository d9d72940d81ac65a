SPECIFICATION FairSpec
CONSTANTS
    s1 = s1
    w1 = w1
    c1 = c1
    Sessions = {s1}
    Sweepers = {w1}
    Consumers = {c1}
    Workers = {w1, c1}
    MaxEdits = 2
    MaxExpiries = 0
    MaxMsgs = 3
    MaxDeliveries = 1
    MaxLen = 3
    BatchSize = 2
    ExtractorWired = TRUE
    MaxCands = 2
    ScanLimit = 1
    MaxFaults = 1
    MaxToggles = 1
    MaxKeyExpiries = 0
INVARIANT OneRunPerJob
INVARIANT InFlightCanFinish
PROPERTY EventuallySettled
