-------------------------- MODULE OpenCodeProvider --------------------------
(***************************************************************************)
(* Turns of one OpenCode session: src/agents/opencode/opencodeProvider.ts, *)
(* each over a process and connection of its own (acpTransport.ts).        *)
(*                                                                         *)
(* Runs are numbered in the order in which the coordinator begins them; it *)
(* begins the next one when the one before is settled, refused, or         *)
(* cancelled - the provider's answer to a cancellation is not awaited.     *)
(***************************************************************************)
EXTENDS Naturals

CONSTANT AcpRuns    \* 1..n

ASSUME AcpAssumption == AcpRuns \subseteq Nat \ {0}

VARIABLES
    opening,    \* where openTask stands, by run
    link,       \* the connection, by run
    running,    \* the run in OpenCodeProvider.active for the session
    cancelled,  \* ActiveRun.cancelled
    cancelling, \* runs whose cancelTask is under way
    report,     \* the terminal event that is being emitted, by run
    result,     \* what the completion was settled with
    given,      \* history: runs the coordinator cancelled
    mixed       \* history: a run became active while another one was at work

acpVars == <<opening, link, running, cancelled, cancelling, report, result, given, mixed>>

NoAcpRun == 0

AcpInit ==
    /\ opening = [r \in AcpRuns |-> "none"]
    /\ link = [r \in AcpRuns |-> "none"]
    /\ running = NoAcpRun
    /\ cancelled = {}
    /\ cancelling = {}
    /\ report = [r \in AcpRuns |-> "none"]
    /\ result = [r \in AcpRuns |-> "pending"]
    /\ given = {}
    /\ mixed = FALSE

AcpGoes(r, to) == opening' = [opening EXCEPT ![r] = to]
LinkGoes(r, to) == link' = [link EXCEPT ![r] = to]

AcpOver(r) == opening[r] = "refused" \/ result[r] # "pending"

AtWorkAcp(r) ==
    (opening[r] \in {"announce", "returned"} /\ result[r] = "pending") \/ r \in cancelling

\* What openTask awaits, in order; the model is not always set.
AfterStep(step) ==
    CASE step = "initialize" -> {"session"}
      [] step = "session" -> {"model", "announce"}
      [] step = "model" -> {"announce"}

OpenTask(r) ==
    /\ opening[r] = "none"
    /\ \A q \in AcpRuns : q < r => AcpOver(q) \/ q \in given
    /\ AcpGoes(r, "initialize")
    /\ LinkGoes(r, "open")
    /\ UNCHANGED <<running, cancelled, cancelling, report, result, given, mixed>>

\* The answer came in time and is a good one.  With the last of them the run
\* is active, and session_started is emitted.
StepAnswered(r) ==
    /\ opening[r] \in {"initialize", "session", "model"} /\ link[r] = "open"
    /\ \E to \in AfterStep(opening[r]) :
          /\ AcpGoes(r, to)
          /\ IF to = "announce"
             THEN running' = r /\ mixed' = (mixed \/ \E q \in AcpRuns \ {r} : AtWorkAcp(q))
             ELSE UNCHANGED <<running, mixed>>
    /\ UNCHANGED <<link, cancelled, cancelling, report, result, given>>

\* The event was delivered: the prompt is sent and the run returned.
AcpAnnounced(r) ==
    /\ opening[r] = "announce"
    /\ AcpGoes(r, "returned")
    /\ UNCHANGED <<link, running, cancelled, cancelling, report, result, given, mixed>>

\* An error, a bad answer, a timeout, the end of the process, or an event that
\* could not be delivered.
OpenFails(r) ==
    /\ opening[r] \in {"initialize", "session", "model", "announce"}
    /\ AcpGoes(r, "refused")
    /\ LinkGoes(r, "closed")
    /\ UNCHANGED <<running, cancelled, cancelling, report, result, given, mixed>>

\* handleProcessFailure
ProcessEnds(r) ==
    /\ link[r] = "open"
    /\ LinkGoes(r, "closed")
    /\ UNCHANGED <<opening, running, cancelled, cancelling, report, result, given, mixed>>

-----------------------------------------------------------------------------
(* complete.                                                                *)

Reports(r, outcome) == report' = [report EXCEPT ![r] = outcome]

Prompting(r) == opening[r] = "returned" /\ report[r] = "none" /\ result[r] = "pending"

\* taskResultFromPrompt: the agent says "cancelled" when it was told so.
PromptAnswered(r) ==
    /\ Prompting(r) /\ link[r] = "open"
    /\ \/ \E outcome \in {"completed", "failed"} : Reports(r, outcome)
       \/ r \in cancelled /\ Reports(r, "cancelled")
    /\ UNCHANGED <<opening, link, running, cancelled, cancelling, result, given, mixed>>

Failure(r) == IF r \in cancelled THEN "cancelled" ELSE "failed"

\* An error, a timeout, or the connection is closed.
PromptFails(r) ==
    /\ Prompting(r)
    /\ Reports(r, Failure(r))
    /\ UNCHANGED <<opening, link, running, cancelled, cancelling, result, given, mixed>>

\* The event was emitted, or could not be - then a failure is reported once -
\* and the run is over.
Reported(r) ==
    /\ report[r] # "none" /\ result[r] = "pending"
    /\ \E outcome \in {report[r], Failure(r), "rejected"} :
          result' = [result EXCEPT ![r] = outcome]
    /\ running' = NoAcpRun
    /\ LinkGoes(r, "closed")
    /\ UNCHANGED <<opening, cancelled, cancelling, report, given, mixed>>

\* cancelTask.
CancelSession(r) ==
    /\ opening[r] # "none" /\ ~AcpOver(r) /\ r \notin given
    /\ \A q \in AcpRuns : q > r => opening[q] = "none"
    /\ given' = given \cup {r}
    /\ IF running = NoAcpRun THEN UNCHANGED <<cancelled, cancelling>>
       ELSE /\ cancelled' = cancelled \cup {running}
            /\ cancelling' = cancelling \cup {running}
    /\ UNCHANGED <<opening, link, running, report, result, mixed>>

\* The agent was told; the connection is closed and the entry deleted.
CancelCloses(r) ==
    /\ r \in cancelling
    /\ cancelling' = cancelling \ {r}
    /\ LinkGoes(r, "closed")
    /\ running' = NoAcpRun
    /\ UNCHANGED <<opening, cancelled, report, result, given, mixed>>

AcpNext ==
    \E r \in AcpRuns :
       \/ OpenTask(r) \/ StepAnswered(r) \/ AcpAnnounced(r) \/ OpenFails(r) \/ ProcessEnds(r)
       \/ PromptAnswered(r) \/ PromptFails(r) \/ Reported(r)
       \/ CancelSession(r) \/ CancelCloses(r)

-----------------------------------------------------------------------------
\* No process of a run that is over is left behind, however it ended.
NoProcessIsLeft == \A r \in AcpRuns : AcpOver(r) => link[r] = "closed"

\* A cancellation of the session finds the run that is at work, unless it was
\* begun before an earlier one had ended: that one takes the entry with it.
AcpRunIsFound ==
    \A r \in AcpRuns \ cancelled : Prompting(r) /\ ~mixed => running = r
=============================================================================
