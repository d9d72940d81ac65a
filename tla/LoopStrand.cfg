SPECIFICATION Spec
CONSTANTS
    s1 = s1
    w1 = w1
    c1 = c1
    c2 = c2
    Sessions = {s1}
    Sweepers = {w1}
    Consumers = {c1, c2}
    Workers = {w1, c1, c2}
    MaxEdits = 2
    MaxExpiries = 0
    MaxMsgs = 2
    MaxDeliveries = 2
    MaxLen = 2
    BatchSize = 2
    ExtractorWired = FALSE
    MaxCands = 0
    ScanLimit = 1
    MaxFaults = 1
    MaxToggles = 0
    MaxKeyExpiries = 0
SYMMETRY Symmetry
INVARIANT InFlightCanFinish
