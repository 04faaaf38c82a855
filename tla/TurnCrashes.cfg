CONSTANTS
    t1 = t1
    NoTurn = NoTurn
    Tasks = {t1}
    Continuations = {c1}
    Cancels = {x1, x2}
    c1 = c1
    x1 = x1
    x2 = x2
    TaskOf <- MCTaskOf
    MaxCrashes = 2
SPECIFICATION FairSpec
INVARIANTS
    CrashedHoldsReleased
PROPERTIES
    ImplementsLifecycle
    TasksTerminate
CHECK_DEADLOCK FALSE
