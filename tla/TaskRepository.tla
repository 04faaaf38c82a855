--------------------------- MODULE TaskRepository ---------------------------
(***************************************************************************)
(* The task state machine of src/repositories/taskRepository.ts: the       *)
(* statuses of a durable task row, the table of legal compare-and-set      *)
(* transitions, and the guards of the repository's writes.  It declares no *)
(* variable: each operator takes the stored values it reads, so that the   *)
(* coordinator's actions and the abstract lifecycle share one definition.  *)
(***************************************************************************)

TerminalStatuses == {"completed", "failed", "cancelled", "interrupted"}

ActiveStatuses == {"created", "starting", "running", "waiting_for_user"}

\* "absent": no row in the tasks table yet.
TaskStatus == {"absent"} \cup ActiveStatuses \cup TerminalStatuses

\* The outcomes of a stored task_results row; "none": there is no row.
Results == {"none"} \cup TerminalStatuses

LegalTransitions ==
    [created          |-> {"starting", "cancelled"},
     starting         |-> {"running", "failed", "cancelled", "interrupted"},
     running          |-> {"waiting_for_user", "completed", "failed", "cancelled", "interrupted"},
     waiting_for_user |-> {"running", "completed", "failed", "cancelled", "interrupted"},
     completed        |-> {},
     failed           |-> {},
     cancelled        |-> {},
     interrupted      |-> {"starting", "cancelled"}]

\* transition() commits exactly when this holds and throws otherwise.
CanTransition(from, expected, to) ==
    /\ from \in expected
    /\ from # "absent"
    /\ to \in LegalTransitions[from]

\* saveResult() commits exactly when this holds and throws otherwise.
CanSaveResult(stat, stored, outcome) ==
    /\ stat \in TerminalStatuses
    /\ stat = outcome
    /\ stored = "none"

\* reopenForContinuation() commits exactly when this holds and throws
\* otherwise (no model of this project removes a worktree row).
CanReopen(stat, hasSession) ==
    /\ stat \in TerminalStatuses
    /\ hasSession

\* A slip: tasks waiting for the user are not selected.
RecoverableNotWaiting(stat) == stat \in {"starting", "running"}

\* The rows listRecoverable() selects.
Recoverable(stat) == stat \in {"starting", "running", "waiting_for_user"}

=============================================================================
