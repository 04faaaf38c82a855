CONSTANTS
    CodexRuns = {1, 2}
    Requests <- CodexRequests
    MaxRetries = 1
    AcpRuns = {1, 2}
    ClaudeRuns = {1, 2}
    Logins = {"l1", "l2", "l3"}
SPECIFICATION FairSpec
INVARIANTS
    NothingIsLeft
    CancelFindsRun
PROPERTIES
    RunsAreRuns
    NothingWaitsForever
CHECK_DEADLOCK FALSE
