-------------------------- MODULE MCUsageAdmission --------------------------
(* Codex, which is polled, and a provider that is not; prompts of one class.*)
EXTENDS UsageAdmission, TLC

CONSTANTS codex, unpolled

Refactoring == {{"refactor", "small_fix"}}

Result(u, t, o) == [utilization |-> u, tokens |-> t, outcome |-> o]

\* Turns of Codex cost little, or more than a window without its reserve; those of the other are given up.
CheapOrDear == codex :> {Result(NoValue, 3, "completed"), Result(NoValue, 95, "completed")}
               @@ unpolled :> {}

\* A failed turn, one that states nothing, and one that states its utilization.
AnyResult == codex :> {}
             @@ unpolled :> {Result(NoValue, 0, "failed"), Result(NoValue, 0, "completed"),
                             Result(70, 0, "completed")}
=============================================================================
