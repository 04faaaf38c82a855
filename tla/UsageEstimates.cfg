CONSTANTS
    codex = codex
    unpolled = unpolled
    Providers = {codex, unpolled}
    Polled = {codex}
    Windows = {"five_hour"}
    Prompts <- Refactoring
    Slots = {"s1", "s2"}
    Reserve = 10
    Remembered = 5
    Results <- AnyResult
    Levels = {0, 60}
SPECIFICATION UsageSpec
INVARIANT EstimateOrdered
