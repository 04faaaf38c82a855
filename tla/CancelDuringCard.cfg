CONSTANTS
    t1 = t1
    NoTurn = NoTurn
    Tasks = {t1}
    Continuations = {}
    Cancels = {x1}
    x1 = x1
    TaskOf <- MCTaskOf
    MaxCrashes = 0
SPECIFICATION Spec
INVARIANT AbandonedRunIsCancelled
CHECK_DEADLOCK FALSE
