\* A clarification is asked and answered in the first turn.
SPECIFICATION SummarySpec
CONSTANTS
    Unset = Unset
    Queries = {"q1"}
    Designations <- MCDesignations
    CodesOf <- MCCodesOf
    MaxTurns = 1
    MaxWrites = 3
INVARIANT AnswersTeach
CHECK_DEADLOCK FALSE
