CONSTANTS
    t1 = t1
    NoTurn = NoTurn
    Tasks = {t1}
    Continuations = {c1, c2}
    Cancels = {x1}
    c1 = c1
    c2 = c2
    x1 = x1
    TaskOf <- MCTaskOf
    MaxCrashes = 0
    MaxTurns = 2
    MaxVersions = 4
    MaxFaults = 2
    CanPin = TRUE
    Limit = 2
    MaxUnits = 6
SPECIFICATION TurnsSpec
SYMMETRY Symmetric
CONSTRAINT FewCallbacks
INVARIANTS
    ResultMatchesStatus
    RunningHasSession
    NonterminalHasOwner
    NoForeignEvents
    CardIsFaithful
    UndisturbedStreamIsComplete
CHECK_DEADLOCK FALSE
