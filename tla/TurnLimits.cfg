CONSTANTS
    codex = codex
    unpolled = unpolled
    Providers = {codex, unpolled}
    Polled = {codex}
    Windows = {"five_hour"}
    Prompts <- Refactoring
    Slots = {"s1", "s2"}
    Reserve = 10
    Remembered = 5
    Results <- CheapOrDear
    Levels = {0, 60}
    Requests = {"q1", "a1"}
    KindOf <- Kinds
    Members = {"m1", "m2"}
SPECIFICATION Spec
INVARIANTS
    ReserveStaysFree
    DecisionIsAuthorized
PROPERTIES
    IdleProviderAdmits
    RequestEnds
CHECK_DEADLOCK FALSE
