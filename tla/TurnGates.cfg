SPECIFICATION Spec
CONSTANTS
    p1 = p1
    p2 = p2
    i1 = i1
    Procs = {p1}
    Intents = {i1}
    Texts = {"blank", "plain", "ungrounded", "misshaped"}
    JudgeOn = TRUE
    MaxIterations = 2
    MaxWindows = 2
    MaxStateCalls = 1
    MaxToolCalls = 1
    MaxTurns = 2
    MaxRequests = 2
    MaxErrors = 0
    MaxAborts = 1
INVARIANT BudgetsHold
INVARIANT RefusedNeverShown
PROPERTY NoPendingAtTerminal
PROPERTY BlockedOnlyAfterNudge
CHECK_DEADLOCK FALSE
