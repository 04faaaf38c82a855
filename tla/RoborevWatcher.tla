--------------------------- MODULE RoborevWatcher ---------------------------
(***************************************************************************)
(* The process that streams RoboRev's reviews:                             *)
(* src/integrations/roborev/roborevReviewSource.ts and                     *)
(* roborevLifecycle.ts, beside the commands that change the projects.      *)
(*                                                                         *)
(* A change of the projects, a timer and the source's start all reconcile; *)
(* each asks the CLI first and spawns when it has answered.                *)
(***************************************************************************)
EXTENDS Projects

CONSTANTS
    Processes,      \* the processes that may run at once
    MaxFailures     \* MAX_FAILURES

ASSUME WatcherAssumption == MaxFailures \in Nat \ {0} /\ Processes \subseteq Nat \ {0}

VARIABLES
    source,     \* "idle", "starting", "started" or "disposed"
    child,      \* childProcess
    running,    \* the processes that were neither stopped nor ended: one that
                \* was sent SIGTERM, or whose reader has died, counts as ended
    retrying,   \* restartTimer is set
    settling,   \* stabilityTimer is set
    failures,   \* consecutiveFailures, up to MaxFailures
    asking,     \* reconciles that await isCliAvailable
    refused     \* the CLI was not available when it was last asked

watcherVars == <<source, child, running, retrying, settling, failures, asking, refused>>

NoProcess == 0

WatcherInit ==
    /\ source = "idle" /\ child = NoProcess /\ running = {}
    /\ retrying = FALSE /\ settling = FALSE
    /\ failures = 0 /\ asking = 0 /\ refused = FALSE

Active == source \in {"starting", "started"}     \* activePublish is set

StopActiveProcess ==
    /\ retrying' = FALSE /\ settling' = FALSE
    /\ running' = running \ {child}
    /\ child' = NoProcess
    /\ failures' = 0

ScheduleRestart ==
    IF ~Active \/ retrying THEN UNCHANGED <<retrying, failures>>
    ELSE /\ failures' = IF failures < MaxFailures THEN failures + 1 ELSE failures
         /\ retrying' = (failures + 1 < MaxFailures)

\* Slip: what happened while the CLI was asked is not looked at.
StartsRegardless == FALSE

\* The guard of doStart.
NotNeeded == ~Active \/ child # NoProcess \/ retrying

DoStart ==
    IF NotNeeded THEN UNCHANGED <<child, running, retrying, settling, failures>>
    ELSE \/ \E p \in Processes \ running :
              /\ child' = p
              /\ running' = running \cup {p}
              /\ settling' = TRUE
              /\ UNCHANGED <<retrying, failures>>
         \/ ScheduleRestart /\ UNCHANGED <<child, running, settling>>

\* reconcile up to its await.
Reconcile(anyReviews, timerSet) ==
    IF ~anyReviews
    THEN /\ IF child # NoProcess \/ timerSet THEN StopActiveProcess
            ELSE /\ retrying' = timerSet
                 /\ UNCHANGED <<child, running, settling, failures>>
         /\ UNCHANGED <<asking, refused>>
    ELSE /\ IF child # NoProcess \/ timerSet THEN UNCHANGED <<asking, refused>>
            ELSE asking' = asking + 1 /\ refused' = FALSE
         /\ retrying' = timerSet
         /\ UNCHANGED <<child, running, settling, failures>>

StartSource ==
    /\ source = "idle"
    /\ Reconcile(AnyProjectHasRoborev, FALSE)
    /\ source' = IF AnyProjectHasRoborev THEN "starting" ELSE "started"
    /\ UNCHANGED projectVars

\* The answer to one of the reconciles, perhaps to the one that start awaits.
CliAnswers ==
    /\ asking > 0
    /\ asking' = asking - 1
    /\ \/ refused' = TRUE /\ UNCHANGED <<child, running, retrying, settling, failures>>
       \/ UNCHANGED refused /\ DoStart
    /\ source' \in IF source # "starting" THEN {source}
                   ELSE IF asking = 1 THEN {"started"} ELSE {"starting", "started"}
    /\ UNCHANGED projectVars

\* Slip: the timer that fired is still in restartTimer.
TimerStays == TRUE
TimerCleared == FALSE

\* dispose clears the timer, so it never fires in a source that is disposed.
RetryFires ==
    /\ retrying
    /\ Reconcile(AnyProjectHasRoborev, TimerCleared)
    /\ UNCHANGED <<projectVars, source>>

\* The listener hears what the command has stored.
ConfigurationChanged ==
    IF told' # told /\ Active
    THEN Reconcile(AnyProjectHasRoborev', retrying) /\ UNCHANGED source
    ELSE UNCHANGED watcherVars

ProcessEnds(p) ==
    /\ p \in running
    /\ running' = running \ {p}
    /\ child' = IF child = p THEN NoProcess ELSE child
    /\ settling' = FALSE
    /\ ScheduleRestart
    /\ UNCHANGED <<projectVars, source, asking, refused>>

Stable ==
    /\ settling
    /\ settling' = FALSE
    /\ failures' = 0
    /\ UNCHANGED <<projectVars, source, child, running, retrying, asking, refused>>

Dispose ==
    /\ source = "started"
    /\ source' = "disposed"
    /\ StopActiveProcess
    /\ UNCHANGED <<projectVars, asking, refused>>

CommandStep == ProjectsNext /\ ConfigurationChanged

\* The process dies, and is started again.
Restart ==
    /\ ProcessDies
    /\ source' = "idle" /\ child' = NoProcess /\ running' = {}
    /\ retrying' = FALSE /\ settling' = FALSE
    /\ failures' = 0 /\ asking' = 0 /\ refused' = FALSE

WatcherNext ==
    \/ CommandStep \/ Restart
    \/ StartSource \/ CliAnswers \/ RetryFires \/ Stable \/ Dispose
    \/ \E p \in Processes : ProcessEnds(p)

WatcherSpec == ProjectsInit /\ WatcherInit /\ [][WatcherNext]_<<projectVars, watcherVars>>

\* execFile has a timeout, and a timer fires.
WatcherFairness == WF_watcherVars(CliAnswers) /\ WF_watcherVars(RetryFires)

-----------------------------------------------------------------------------
(* Whatever is reconciled while the CLI is asked, at most one process       *)
(* streams the reviews, the source knows it, and none is left when the      *)
(* source has been disposed.                                                *)
OneWatcher ==
    /\ running \subseteq {child}
    /\ source = "disposed" => running = {}

(* While some project has reviews and the source is started, a process      *)
(* comes to stream them, or the CLI is missing, or the retries are used up, *)
(* or the source is disposed of, or its process dies.                       *)
ReviewsAreWatched ==
    (source = "started" /\ AnyProjectHasRoborev)
        ~> \/ child # NoProcess
           \/ refused
           \/ failures = MaxFailures
           \/ ~AnyProjectHasRoborev
           \/ source # "started"

(* A process streams only while some project has reviews: the program       *)
(* reconciles after each change of them.  REFUTED, and checked by no run: a *)
(* reconciliation does not look again after it awaited the CLI.             *)
WatchesForSomeProject == child # NoProcess => AnyProjectHasRoborev
=============================================================================
