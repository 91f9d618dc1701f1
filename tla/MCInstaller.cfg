SPECIFICATION FairSpec
CONSTANTS
    Selections <- MCSelections
    Contents = {"absent", "foreign", "conflict", "malformed", "current", "directory"}
    CopiesFail = FALSE
    ClaudeCli = {TRUE, FALSE}
    MaxRuns = 2
INVARIANTS TypeOK FailureRestoresConfigs SuccessConfiguresAll OriginalIsKept
PROPERTIES ImplementsAllOrNothing EveryRunEnds
CHECK_DEADLOCK FALSE
