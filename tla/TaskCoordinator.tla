--------------------------- MODULE TaskCoordinator ---------------------------
(***************************************************************************)
(* The turn lifecycle of src/coordinator/taskCoordinator.ts over the task  *)
(* and usage-reservation tables, with crash recovery.                      *)
(*                                                                         *)
(* The coordinator is one JavaScript process: a handler runs without       *)
(* interruption from one await to the next, so every action below is one   *)
(* such stretch of a handler, and the handlers of different requests       *)
(* interleave at their awaits.  Three kinds of handler exist:              *)
(*   - a turn, which executes one provider turn.  The turn that creates a  *)
(*     task is named by the task itself (startFromMessage,                 *)
(*     startInExistingThread); a continuation (continueInThreadInternal)   *)
(*     has a name of its own and a task it addresses;                      *)
(*   - a cancellation (cancelByThread) addressed to a task;                *)
(*   - the recovery that runs before any request is accepted.              *)
(* A turn owns at most one usage reservation and one renderer, so both are *)
(* named by the turn.                                                      *)
(***************************************************************************)
EXTENDS TaskRepository, Naturals

CONSTANTS
    Tasks,          \* tasks, each also the name of the turn that creates it
    Continuations,  \* continuation requests
    Cancels,        \* cancellation requests
    TaskOf,         \* the task a continuation or a cancellation addresses
    NoTurn,         \* no turn: an empty map entry
    MaxCrashes      \* bound on process crashes

ASSUME RequestAssumption ==
    /\ Tasks \cap Continuations = {}
    /\ TaskOf \in [Continuations \cup Cancels -> Tasks]
    /\ NoTurn \notin Tasks \cup Continuations

ASSUME CrashAssumption == MaxCrashes \in Nat

Turns == Tasks \cup Continuations

Task(h) == IF h \in Tasks THEN h ELSE TaskOf[h]

VARIABLES
    \* SQLite: survives a crash
    status,         \* tasks.status
    session,        \* tasks with a provider_sessions row
    result,         \* task_results.outcome
    hold,           \* usage_reservations.status, by reserving turn
    holdTask,       \* usage_reservations.task_id set, by reserving turn
    \* the coordinator's maps and closures: lost by a crash
    pc,             \* where each turn's handler stands
    cancelPc,       \* where each cancellation stands
    activeReservations, activeRenderers, interruptionRequested,
    startingTasks, startupCancelled,
    decision,       \* each turn's waitForDecision()
    interrupting,   \* turns whose capacity interruption awaits the gate
    \* the provider (external): its runs, and the run it holds per session
    run, cancelReq, registered,
    \* the process
    mode, crashes,
    \* history: the turn that last (re)opened a task, and the turns whose
    \* events were appended since
    current, log

durable  == <<status, session, result, hold, holdTask>>
maps     == <<activeReservations, activeRenderers, interruptionRequested,
              startingTasks, startupCancelled>>
callback == <<decision, interrupting>>
provider == <<run, cancelReq, registered>>
process  == <<mode, crashes>>
history  == <<current, log>>
vars == <<durable, pc, cancelPc, maps, callback, provider, process, history>>

-----------------------------------------------------------------------------
(* Program points of a turn.  "done" is a handler that returned or threw    *)
(* after its running gate was resolved (or without ever having a run),      *)
(* "thrown" one that threw with the gate unresolved, "dead" one the process *)
(* crashed under.                                                           *)

BeforeOpen == {"checked", "reserved", "worktree"}   \* nothing durable but the hold
Starting   == {"carding", "opened", "calling"}      \* the row says starting
Executing  == {"card", "awaiting"}                  \* the row says running or waiting
Live       == BeforeOpen \cup {"created"} \cup Starting \cup Executing \cup {"finishing"}
Points     == {"idle"} \cup Live \cup {"done", "thrown", "dead"}

TypeOK ==
    /\ status \in [Tasks -> TaskStatus]
    /\ session \in SUBSET Tasks
    /\ result \in [Tasks -> Results]
    /\ hold \in [Turns -> {"none", "active", "released", "consumed"}]
    /\ holdTask \in SUBSET Turns
    /\ pc \in [Turns -> Points]
    /\ cancelPc \in [Cancels -> {"idle", "tail", "done", "dead"}]
    /\ activeReservations \in [Tasks -> Turns \cup {NoTurn}]
    /\ activeRenderers \in [Tasks -> Turns \cup {NoTurn}]
    /\ interruptionRequested \in SUBSET Tasks
    /\ startingTasks \in SUBSET Tasks
    /\ startupCancelled \in SUBSET Tasks
    /\ decision \in [Turns -> {"none", "gated", "asked"}]
    /\ interrupting \in SUBSET Turns
    /\ run \in [Turns -> {"none", "pending", "live", "ended"}]
    /\ cancelReq \in SUBSET Turns
    /\ registered \in [Tasks -> Turns \cup {NoTurn}]
    /\ mode \in {"up", "recovering"}
    /\ crashes \in 0..MaxCrashes
    /\ current \in [Tasks -> Turns \cup {NoTurn}]
    /\ log \in [Tasks -> SUBSET Turns]

Init ==
    /\ status = [t \in Tasks |-> "absent"]
    /\ session = {}
    /\ result = [t \in Tasks |-> "none"]
    /\ hold = [h \in Turns |-> "none"]
    /\ holdTask = {}
    /\ pc = [h \in Turns |-> "idle"]
    /\ cancelPc = [c \in Cancels |-> "idle"]
    /\ activeReservations = [t \in Tasks |-> NoTurn]
    /\ activeRenderers = [t \in Tasks |-> NoTurn]
    /\ interruptionRequested = {}
    /\ startingTasks = {}
    /\ startupCancelled = {}
    /\ decision = [h \in Turns |-> "none"]
    /\ interrupting = {}
    /\ run = [h \in Turns |-> "none"]
    /\ cancelReq = {}
    /\ registered = [t \in Tasks |-> NoTurn]
    /\ mode = "up"
    /\ crashes = 0
    /\ current = [t \in Tasks |-> NoTurn]
    /\ log = [t \in Tasks |-> {}]

-----------------------------------------------------------------------------
(* Pieces of handlers.                                                      *)

At(h, point) == mode = "up" /\ pc[h] = point

Goto(h, point) == pc' = [pc EXCEPT ![h] = point]

\* UsageRepository.finish: only an active reservation is finished; a second
\* attempt throws, and every caller swallows that.
Finished(h, as) == IF hold[h] = "active" THEN [hold EXCEPT ![h] = as] ELSE hold

Release(h) == hold' = Finished(h, "released")

Complete(h) == hold' = Finished(h, "consumed")

Erase(map, t) == [map EXCEPT ![t] = NoTurn]

\* The running gate of a turn: its host callbacks wait for it.
GateResolved(h) == pc[h] \in {"awaiting", "finishing", "done"}

\* A rejection reaching the handler that called startNewTask / executeTurn:
\* the reservation is released, and a continuation also drops the task's
\* entry of activeReservations, whichever turn it belongs to.
Reject(h, point) ==
    /\ Release(h)
    /\ Goto(h, point)
    /\ activeReservations' = IF h \in Continuations
                             THEN Erase(activeReservations, Task(h))
                             ELSE activeReservations

-----------------------------------------------------------------------------
(* A new task: startFromMessage / startInExistingThread, startNewTask.      *)

\* Everything before the reservation is validation without effect.
StartReserve(t) ==
    /\ At(t, "idle")
    /\ hold' = [hold EXCEPT ![t] = "active"]
    /\ Goto(t, "reserved")
    /\ UNCHANGED <<status, session, result, holdTask, cancelPc, maps, callback,
                   provider, process, history>>

\* The Discord thread and then the worktree are created, or one of them fails.
StartWorkspace(t) ==
    /\ At(t, "reserved")
    /\ \/ Goto(t, "worktree") /\ UNCHANGED <<hold, activeReservations>>
       \/ Reject(t, "done")
    /\ UNCHANGED <<status, session, result, holdTask, cancelPc, activeRenderers,
                   interruptionRequested, startingTasks, startupCancelled,
                   callback, provider, process, history>>

\* createWithWorktree, usage.attach, the renderer; or the insert fails, the
\* unpersisted worktree is removed and the request rejected.
CreateWithWorktree(t) ==
    /\ At(t, "worktree")
    /\ \/ /\ status' = [status EXCEPT ![t] = "created"]
          /\ holdTask' = holdTask \cup {t}
          /\ activeReservations' = [activeReservations EXCEPT ![t] = t]
          /\ activeRenderers' = [activeRenderers EXCEPT ![t] = t]
          /\ current' = [current EXCEPT ![t] = t]
          /\ Goto(t, "created")
          /\ UNCHANGED hold
       \/ /\ Reject(t, "done")
          /\ UNCHANGED <<status, holdTask, activeRenderers, current>>
    /\ UNCHANGED <<session, result, cancelPc, interruptionRequested,
                   startingTasks, startupCancelled, callback, provider, process, log>>

\* The renderer has started: transition(created -> starting), which throws
\* when the task was cancelled meanwhile.
BeginStarting(t) ==
    /\ At(t, "created")
    /\ \/ /\ CanTransition(status[t], {"created"}, "starting")
          /\ status' = [status EXCEPT ![t] = "starting"]
          /\ Goto(t, "carding")
          /\ UNCHANGED <<hold, activeReservations>>
       \/ /\ ~CanTransition(status[t], {"created"}, "starting")
          /\ Reject(t, "done")
          /\ UNCHANGED status
    /\ UNCHANGED <<session, result, holdTask, cancelPc, activeRenderers,
                   interruptionRequested, startingTasks, startupCancelled,
                   callback, provider, process, history>>

-----------------------------------------------------------------------------
(* A continuation: continueInThreadInternal.                                *)

\* The checks before the first await read the stored task once.
ContinueCheck(h) ==
    /\ At(h, "idle")
    /\ CanReopen(status[Task(h)], Task(h) \in session)
    /\ Goto(h, "checked")
    /\ UNCHANGED <<durable, cancelPc, maps, callback, provider, process, history>>

\* The provider is available and the admission grants a reservation, or the
\* request is rejected without effect.
ContinueReserve(h) ==
    /\ At(h, "checked")
    /\ \/ /\ hold' = [hold EXCEPT ![h] = "active"]
          /\ Goto(h, "reserved")
       \/ /\ Goto(h, "done")
          /\ UNCHANGED hold
    /\ UNCHANGED <<status, session, result, holdTask, cancelPc, maps, callback,
                   provider, process, history>>

\* The writes of reopenForContinuation; and a slip: the old result stays.
ReopenRowKeepsResult(t) ==
    /\ status' = [status EXCEPT ![t] = "starting"]
    /\ UNCHANGED result

ReopenRow(t) ==
    /\ status' = [status EXCEPT ![t] = "starting"]
    /\ result' = [result EXCEPT ![t] = "none"]

\* reopenForContinuation re-checks the row in its transaction; the attach and
\* the renderer follow without an await.
ReopenForContinuation(h) ==
    /\ At(h, "reserved")
    /\ \/ /\ CanReopen(status[Task(h)], Task(h) \in session)
          /\ ReopenRow(Task(h))
          /\ holdTask' = holdTask \cup {h}
          /\ activeReservations' = [activeReservations EXCEPT ![Task(h)] = h]
          /\ activeRenderers' = [activeRenderers EXCEPT ![Task(h)] = h]
          /\ current' = [current EXCEPT ![Task(h)] = h]
          /\ log' = [log EXCEPT ![Task(h)] = {}]
          /\ Goto(h, "opened")
          /\ UNCHANGED hold
       \/ /\ ~CanReopen(status[Task(h)], Task(h) \in session)
          /\ Reject(h, "done")
          /\ UNCHANGED <<status, result, holdTask, activeRenderers, history>>
    /\ UNCHANGED <<session, cancelPc, interruptionRequested, startingTasks,
                   startupCancelled, callback, provider, process>>

-----------------------------------------------------------------------------
(* executeTurn, failStartingTask and finalizeTask.                          *)

\* The provider is called without a look at the task's status.  A resumed
\* session is known to the provider from the call on.
CallProvider(h) ==
    /\ IF h \in Tasks THEN At(h, "carding") ELSE At(h, "opened")
    /\ run' = [run EXCEPT ![h] = "pending"]
    /\ startingTasks' = IF h \in Tasks THEN startingTasks \cup {h} ELSE startingTasks
    /\ registered' = IF h \in Tasks THEN registered
                     ELSE [registered EXCEPT ![Task(h)] = h]
    /\ Goto(h, "calling")
    /\ UNCHANGED <<durable, cancelPc, activeReservations, activeRenderers,
                   interruptionRequested, startupCancelled, callback, cancelReq,
                   process, history>>

\* failStartingTask: the task fails unless it is terminal already, and the
\* result is stored unless there is one already, which makes it throw.
FailStartingTask(h) ==
    LET t == Task(h)
        ended == IF status[t] \in TerminalStatuses THEN status[t] ELSE "failed"
    IN  /\ status' = [status EXCEPT ![t] = ended]
        /\ \/ /\ CanSaveResult(ended, result[t], ended)
              /\ result' = [result EXCEPT ![t] = ended]
              /\ Complete(h)
              /\ activeReservations' = Erase(activeReservations, t)
              /\ interruptionRequested' = interruptionRequested \ {t}
              /\ Goto(h, "finishing")
           \/ /\ ~CanSaveResult(ended, result[t], ended)
              /\ Reject(h, "done")
              /\ UNCHANGED <<result, interruptionRequested>>

\* startingTasks.delete(taskId): the entry and, with it, the startup record's
\* flag are gone.
DropStartup(h) ==
    /\ startingTasks' = startingTasks \ {Task(h)}
    /\ startupCancelled' = startupCancelled \ {h}

\* startTask / continueTask rejects.
ProviderRejects(h) ==
    /\ At(h, "calling")
    /\ run' = [run EXCEPT ![h] = "ended"]
    /\ registered' = IF registered[Task(h)] = h THEN Erase(registered, Task(h))
                     ELSE registered
    /\ cancelReq' = cancelReq \ {h}
    /\ DropStartup(h)
    /\ FailStartingTask(h)
    /\ UNCHANGED <<session, holdTask, cancelPc, activeRenderers, callback, process,
                   history>>

\* A continuation resolves with another session identity: the task fails, and
\* the run is left to itself.
SessionMismatch(h) ==
    /\ h \in Continuations
    /\ At(h, "calling")
    /\ run' = [run EXCEPT ![h] = "live"]
    /\ registered' = IF registered[Task(h)] = h THEN Erase(registered, Task(h))
                     ELSE registered
    /\ DropStartup(h)
    /\ FailStartingTask(h)
    /\ UNCHANGED <<session, holdTask, cancelPc, activeRenderers, callback, cancelReq,
                   process, history>>

\* Slips: the session is never stored, or stored for the turn.
AttachNoSession(h) == UNCHANGED session

AttachTurnSession(h) == session' = session \cup {h}

\* attachProviderSession: only the turn that started the session attaches it.
AttachSession(h) == session' = IF h \in Tasks THEN session \cup {h} ELSE session

\* The provider returned a run.  In order: a cancellation seen by the startup
\* record cancels the late run; a task that is terminal ends the turn; else
\* the session is attached and transition(starting -> running) commits, or
\* throws because another turn moved the task.
ProviderReturns(h) ==
    LET t == Task(h) IN
    /\ At(h, "calling")
    /\ run' = [run EXCEPT ![h] = "live"]
    /\ registered' = IF h \in Tasks THEN [registered EXCEPT ![t] = h] ELSE registered
    /\ DropStartup(h)
    /\ \/ /\ h \in startupCancelled
          /\ cancelReq' = cancelReq \cup {h}
          /\ Goto(h, "done")
          /\ UNCHANGED <<status, session, hold, activeReservations>>
       \/ /\ h \notin startupCancelled
          /\ status[t] \in TerminalStatuses
          /\ Goto(h, "done")
          /\ UNCHANGED <<status, session, hold, activeReservations, cancelReq>>
       \/ /\ h \notin startupCancelled
          /\ CanTransition(status[t], {"starting"}, "running")
          /\ AttachSession(h)
          /\ status' = [status EXCEPT ![t] = "running"]
          /\ Goto(h, "card")
          /\ UNCHANGED <<hold, activeReservations, cancelReq>>
       \/ /\ h \notin startupCancelled
          /\ status[t] \notin TerminalStatuses
          /\ ~CanTransition(status[t], {"starting"}, "running")
          /\ AttachSession(h)
          /\ Reject(h, "thrown")
          /\ UNCHANGED <<status, cancelReq>>
    /\ UNCHANGED <<result, holdTask, cancelPc, activeRenderers,
                   interruptionRequested, callback, process, history>>

\* The card is synced: the gate resolves and the completion is awaited.
OpenGate(h) ==
    /\ At(h, "card")
    /\ Goto(h, "awaiting")
    /\ UNCHANGED <<durable, cancelPc, maps, callback, provider, process, history>>

\* finalizeTask with the outcome the completion delivered (a rejection counts
\* as failed).  With a stored result it only clears the maps; otherwise the
\* task is moved to the outcome, which throws for an illegal transition.
FinalizeTask(h, outcome) ==
    LET t == Task(h)
        ended == IF status[t] \in TerminalStatuses THEN status[t] ELSE outcome
        legal == \/ status[t] \in TerminalStatuses
                 \/ CanTransition(status[t], {status[t]}, outcome)
    IN
    /\ At(h, "awaiting")
    /\ run[h] = "ended"
    /\ \/ /\ result[t] # "none"
          /\ activeRenderers' = Erase(activeRenderers, t)
          /\ activeReservations' = Erase(activeReservations, t)
          /\ Goto(h, "done")
          /\ UNCHANGED <<status, result, hold, interruptionRequested>>
       \/ /\ result[t] = "none"
          /\ legal
          /\ status' = [status EXCEPT ![t] = ended]
          /\ result' = [result EXCEPT ![t] = ended]
          /\ Complete(h)
          /\ activeReservations' = Erase(activeReservations, t)
          /\ interruptionRequested' = interruptionRequested \ {t}
          /\ Goto(h, "finishing")
          /\ UNCHANGED activeRenderers
       \/ /\ result[t] = "none"
          /\ ~legal
          /\ Reject(h, "done")
          /\ UNCHANGED <<status, result, activeRenderers, interruptionRequested>>
    /\ UNCHANGED <<session, holdTask, cancelPc, startingTasks, startupCancelled,
                   callback, provider, process, history>>

\* The terminal card is rendered and the renderer disposed: the task's entry
\* of activeRenderers is deleted, whichever turn it belongs to.
FinishRenderer(h) ==
    /\ At(h, "finishing")
    /\ activeRenderers' = Erase(activeRenderers, Task(h))
    /\ Goto(h, "done")
    /\ UNCHANGED <<durable, cancelPc, activeReservations, interruptionRequested,
                   startingTasks, startupCancelled, callback, provider, process, history>>

-----------------------------------------------------------------------------
(* The host callbacks of a turn, called by its run: emit and waitForDecision.*)

\* A slip: only the status is looked at.
AcceptsWhileActive(h) == status[Task(h)] \notin TerminalStatuses

\* emit() drops the events of a turn that is no longer the task's renderer and
\* those of a terminal task.
Accepts(h) ==
    /\ activeRenderers[Task(h)] = h
    /\ status[Task(h)] \notin TerminalStatuses

RunEmits(h) == mode = "up" /\ run[h] \in {"pending", "live"}

Emit(h) ==
    /\ RunEmits(h)
    /\ Accepts(h)
    /\ log' = [log EXCEPT ![Task(h)] = @ \cup {h}]
    /\ UNCHANGED <<durable, pc, cancelPc, maps, callback, provider, process, current>>

\* A usage event that finds the provider's capacity critical requests one
\* interruption of the task's turn, carried out once the gate resolves.
EmitCriticalUsage(h) ==
    /\ RunEmits(h)
    /\ Accepts(h)
    /\ Task(h) \notin interruptionRequested
    /\ log' = [log EXCEPT ![Task(h)] = @ \cup {h}]
    /\ interruptionRequested' = interruptionRequested \cup {Task(h)}
    /\ interrupting' = interrupting \cup {h}
    /\ UNCHANGED <<durable, pc, cancelPc, activeReservations, activeRenderers,
                   startingTasks, startupCancelled, decision, provider, process, current>>

\* provider.cancelTask(session): reaches the run the provider holds for the
\* task's session, if any.
CancelRun(t) ==
    cancelReq' = IF registered[t] = NoTurn THEN cancelReq
                 ELSE cancelReq \cup {registered[t]}

InterruptRun(h) ==
    /\ mode = "up"
    /\ h \in interrupting
    /\ GateResolved(h)
    /\ interrupting' = interrupting \ {h}
    /\ IF status[Task(h)] \in TerminalStatuses THEN UNCHANGED cancelReq
       ELSE CancelRun(Task(h))
    /\ UNCHANGED <<durable, pc, cancelPc, maps, decision, run, registered,
                   process, history>>

\* waitForDecision() called before the gate is resolved.
RequestDecision(h) ==
    /\ RunEmits(h)
    /\ ~GateResolved(h)
    /\ decision[h] = "none"
    /\ decision' = [decision EXCEPT ![h] = "gated"]
    /\ UNCHANGED <<durable, pc, cancelPc, maps, interrupting, provider, process, history>>

\* waitForDecision() past the gate: the task waits for the user, or the request
\* throws.
AskUser(h) ==
    /\ mode = "up"
    /\ GateResolved(h)
    /\ decision[h] = "gated" \/ (decision[h] = "none" /\ RunEmits(h))
    /\ \/ /\ status[Task(h)] = "running"
          /\ status' = [status EXCEPT ![Task(h)] = "waiting_for_user"]
          /\ decision' = [decision EXCEPT ![h] = "asked"]
       \/ /\ status[Task(h)] # "running"
          /\ decision' = [decision EXCEPT ![h] = "none"]
          /\ UNCHANGED status
    /\ UNCHANGED <<session, result, hold, holdTask, pc, cancelPc, maps,
                   interrupting, provider, process, history>>

\* Slips: the row is moved back without a look at its status, or left waiting.
ResolveDecisionUnchecked(h) ==
    /\ mode = "up"
    /\ decision[h] = "asked"
    /\ decision' = [decision EXCEPT ![h] = "none"]
    /\ status' = [status EXCEPT ![Task(h)] = "running"]
    /\ UNCHANGED <<session, result, hold, holdTask, pc, cancelPc, maps,
                   interrupting, provider, process, history>>

\* The broker resolves (a decision or its timeout): back to running if the
\* row still says waiting_for_user.
ResolveDecision(h) ==
    /\ mode = "up"
    /\ decision[h] = "asked"
    /\ decision' = [decision EXCEPT ![h] = "none"]
    /\ status' = IF status[Task(h)] = "waiting_for_user"
                 THEN [status EXCEPT ![Task(h)] = "running"] ELSE status
    /\ UNCHANGED <<session, result, hold, holdTask, pc, cancelPc, maps,
                   interrupting, provider, process, history>>

\* The provider's run ends, cancelled or of itself (external).
RunEnds(h) ==
    /\ mode = "up"
    /\ run[h] = "live"
    /\ run' = [run EXCEPT ![h] = "ended"]
    /\ registered' = IF registered[Task(h)] = h THEN Erase(registered, Task(h))
                     ELSE registered
    /\ cancelReq' = cancelReq \ {h}
    /\ UNCHANGED <<durable, pc, cancelPc, maps, callback, process, history>>

-----------------------------------------------------------------------------
(* cancelByThread.                                                          *)

\* The release of the entry that activeReservations holds when it runs.
ReleaseActive(t) ==
    /\ IF activeReservations[t] = NoTurn THEN UNCHANGED hold
       ELSE Release(activeReservations[t])
    /\ activeReservations' = Erase(activeReservations, t)

\* Up to the first await: flag the startup, ask the provider, terminalize the
\* row, store the result.  Without a renderer the tail follows at once.
CancelByThread(c) ==
    LET t == TaskOf[c] IN
    /\ mode = "up"
    /\ cancelPc[c] = "idle"
    /\ status[t] \in ActiveStatuses
    /\ startupCancelled' = IF t \in startingTasks THEN startupCancelled \cup {t}
                           ELSE startupCancelled
    /\ IF t \in session THEN CancelRun(t) ELSE UNCHANGED cancelReq
    /\ status' = [status EXCEPT ![t] = "cancelled"]
    /\ result' = [result EXCEPT ![t] = "cancelled"]
    /\ \/ /\ activeRenderers[t] # NoTurn
          /\ cancelPc' = [cancelPc EXCEPT ![c] = "tail"]
          /\ UNCHANGED <<hold, activeReservations>>
       \/ /\ activeRenderers[t] = NoTurn
          /\ cancelPc' = [cancelPc EXCEPT ![c] = "done"]
          /\ ReleaseActive(t)
    /\ UNCHANGED <<session, holdTask, pc, activeRenderers, interruptionRequested,
                   startingTasks, callback, run, registered, process, history>>

\* After the card and the renderer are finished: both maps are cleared for
\* the task as they are now.
CancelTail(c) ==
    LET t == TaskOf[c] IN
    /\ mode = "up"
    /\ cancelPc[c] = "tail"
    /\ cancelPc' = [cancelPc EXCEPT ![c] = "done"]
    /\ activeRenderers' = Erase(activeRenderers, t)
    /\ ReleaseActive(t)
    /\ UNCHANGED <<status, session, result, holdTask, pc, interruptionRequested,
                   startingTasks, startupCancelled, callback, provider, process, history>>

-----------------------------------------------------------------------------
(* Crash and recovery.                                                      *)

\* Everything in memory is gone, and the provider's runs with it.
LoseMemory ==
    /\ crashes < MaxCrashes
    /\ crashes' = crashes + 1
    /\ mode' = "recovering"
    /\ pc' = [h \in Turns |-> IF pc[h] \in Live THEN "dead" ELSE pc[h]]
    /\ cancelPc' = [c \in Cancels |-> IF cancelPc[c] = "tail" THEN "dead" ELSE cancelPc[c]]
    /\ activeReservations' = [t \in Tasks |-> NoTurn]
    /\ activeRenderers' = [t \in Tasks |-> NoTurn]
    /\ interruptionRequested' = {}
    /\ startingTasks' = {}
    /\ startupCancelled' = {}
    /\ decision' = [h \in Turns |-> "none"]
    /\ interrupting' = {}
    /\ run' = [h \in Turns |-> IF run[h] = "none" THEN "none" ELSE "ended"]
    /\ registered' = [t \in Tasks |-> NoTurn]
    /\ cancelReq' = {}
    /\ UNCHANGED history

Crash == LoseMemory /\ UNCHANGED durable

\* The crash falls between the writes of one stretch: after createWithWorktree
\* and before the attach,
CrashInCreate(t) ==
    /\ At(t, "worktree")
    /\ status' = [status EXCEPT ![t] = "created"]
    /\ LoseMemory
    /\ UNCHANGED <<session, result, hold, holdTask>>

\* after reopenForContinuation and before the attach,
CrashInReopen(h) ==
    /\ h \in Continuations
    /\ At(h, "reserved")
    /\ CanReopen(status[Task(h)], Task(h) \in session)
    /\ ReopenRow(Task(h))
    /\ LoseMemory
    /\ UNCHANGED <<session, hold, holdTask>>

\* after attachProviderSession and before transition(starting -> running),
CrashInAttach(t) ==
    /\ At(t, "calling")
    /\ t \notin startupCancelled
    /\ status[t] \notin TerminalStatuses
    /\ AttachSession(t)
    /\ LoseMemory
    /\ UNCHANGED <<status, result, hold, holdTask>>

\* or after a terminal transition (of finalizeTask, failStartingTask or
\* cancelByThread), with or without the result, before the reservation.
CrashInTerminate(t, outcome, saved) ==
    /\ mode = "up"
    /\ status[t] \in ActiveStatuses
    /\ \/ /\ outcome = "cancelled"
          /\ \E c \in Cancels : TaskOf[c] = t /\ cancelPc[c] = "idle"
       \/ /\ outcome = "failed"
          /\ \E h \in Turns : Task(h) = t /\ pc[h] = "calling"
       \/ /\ CanTransition(status[t], {status[t]}, outcome)
          /\ \E h \in Turns : Task(h) = t /\ pc[h] = "awaiting" /\ run[h] = "ended"
    /\ status' = [status EXCEPT ![t] = outcome]
    /\ result' = [result EXCEPT ![t] = IF saved THEN outcome ELSE "none"]
    /\ LoseMemory
    /\ UNCHANGED <<session, hold, holdTask>>

\* recoverInterruptedTasks, one task at a time (each inspection is awaited).
RecoverTask(t) ==
    /\ mode = "recovering"
    /\ Recoverable(status[t])
    /\ status' = [status EXCEPT ![t] = "interrupted"]
    /\ UNCHANGED <<session, result, hold, holdTask, pc, cancelPc, maps, callback,
                   provider, process, history>>

\* A slip: only reservations without a task are thought stale.
StaleIfUnattached(h) == h \notin holdTask

\* recoverRuntime: every reservation without a task, or of a terminal or just
\* recovered task, is released, one after the other; then requests are
\* accepted.
Stale(h) == h \notin holdTask \/ status[Task(h)] \in TerminalStatuses

StaleHolds == {h \in Turns : hold[h] = "active" /\ Stale(h)}

ReleaseAll(stale) == hold' = [h \in Turns |-> IF h \in stale THEN "released" ELSE hold[h]]

Recovered == mode = "recovering" /\ \A t \in Tasks : ~Recoverable(status[t])

\* The crash falls between two of these releases.
CrashInRelease(stale) ==
    /\ Recovered
    /\ ReleaseAll(stale)
    /\ LoseMemory
    /\ UNCHANGED <<status, session, result, holdTask>>

RecoverRuntime ==
    /\ Recovered
    /\ ReleaseAll(StaleHolds)
    /\ mode' = "up"
    /\ UNCHANGED <<status, session, result, holdTask, pc, cancelPc, maps, callback,
                   provider, crashes, history>>

-----------------------------------------------------------------------------

TurnStep(h) ==
    \/ CallProvider(h)
    \/ ProviderRejects(h)
    \/ SessionMismatch(h)
    \/ ProviderReturns(h)
    \/ OpenGate(h)
    \/ \E outcome \in TerminalStatuses : FinalizeTask(h, outcome)
    \/ FinishRenderer(h)

StartStep(t) ==
    \/ StartWorkspace(t)
    \/ CreateWithWorktree(t)
    \/ BeginStarting(t)

ContinueStep(h) ==
    \/ ContinueReserve(h)
    \/ ReopenForContinuation(h)

RunCallback(h) ==
    \/ Emit(h)
    \/ EmitCriticalUsage(h)
    \/ RequestDecision(h)
    \/ InterruptRun(h)
    \/ AskUser(h)
    \/ ResolveDecision(h)
    \/ RunEnds(h)

CrashStep ==
    \/ Crash
    \/ \E t \in Tasks : CrashInCreate(t) \/ CrashInAttach(t)
    \/ \E h \in Continuations : CrashInReopen(h)
    \/ \E t \in Tasks, outcome \in TerminalStatuses, saved \in BOOLEAN :
           CrashInTerminate(t, outcome, saved)
    \/ \E stale \in SUBSET StaleHolds : CrashInRelease(stale)

RecoveryStep == RecoverRuntime \/ \E t \in Tasks : RecoverTask(t)

Next ==
    \/ \E t \in Tasks : StartReserve(t) \/ StartStep(t)
    \/ \E h \in Continuations : ContinueCheck(h) \/ ContinueStep(h)
    \/ \E h \in Turns : TurnStep(h) \/ RunCallback(h)
    \/ \E c \in Cancels : CancelByThread(c) \/ CancelTail(c)
    \/ CrashStep
    \/ RecoveryStep

Spec == Init /\ [][Next]_vars

\* Node runs every handler whose awaited promise settles, and the promises
\* settle: Discord and git calls finish or fail, a provider call resolves or
\* rejects, a run ends, the broker times out.  Requests, callbacks of a run and
\* crashes need never happen.
Fairness ==
    /\ \A t \in Tasks : WF_vars(StartStep(t))
    /\ \A h \in Continuations : WF_vars(ContinueStep(h))
    /\ \A h \in Turns : /\ WF_vars(TurnStep(h))
                        /\ WF_vars(RunEnds(h))
                        /\ WF_vars(InterruptRun(h))
                        /\ WF_vars(ResolveDecision(h))
    /\ \A c \in Cancels : WF_vars(CancelTail(c))
    /\ WF_vars(RecoveryStep)

FairSpec == Spec /\ Fairness

-----------------------------------------------------------------------------
(* Properties.                                                              *)

\* The turns and cancellations do to a task's row only what the lifecycle of a
\* durable task allows: legal moves, one result per life, and a new life only
\* by reopening a row that has a provider session.
Lifecycle == INSTANCE TaskLifecycle

ImplementsLifecycle == Lifecycle!Spec

\* A stored result always tells the status of its row: saveResult compares
\* them, and nothing moves a row that has a result except the reopening that
\* deletes it, however turns, cancellations, callbacks and crashes interleave.
ResultMatchesStatus ==
    \A t \in Tasks : result[t] # "none" => status[t] = result[t]

\* "Persist the provider session before awaiting completion": a task that is
\* running or waiting for the user can be continued after any crash.
RunningHasSession ==
    \A t \in Tasks : status[t] \in {"running", "waiting_for_user"} => t \in session

\* A task that is starting has a turn in its startup, and one that is running
\* or waiting has a turn awaiting its completion: no interleaving of turns and
\* cancellations leaves a nonterminal row that no handler will terminalize.
NonterminalHasOwner ==
    mode = "up" => \A t \in Tasks :
        /\ status[t] = "starting"
              => \E h \in Turns : Task(h) = t /\ pc[h] \in Starting
        /\ status[t] \in {"running", "waiting_for_user"}
              => \E h \in Turns : Task(h) = t /\ pc[h] \in Executing

\* A task waits for the user only while some decision request is open; else
\* nobody would ever move it back to running.
WaitingIsAsked ==
    \A t \in Tasks : mode = "up" /\ status[t] = "waiting_for_user"
        => \E h \in Turns : Task(h) = t /\ decision[h] = "asked"

\* Once a continuation reopened a task, the late events of an earlier turn's
\* run are never appended to it: emit() compares the renderer.
NoForeignEvents == \A t \in Tasks : log[t] \subseteq {current[t]}

\* After recovery, a crashed turn holds no capacity, unless it is the creating
\* turn of a task that never got a provider session (rows left in created are
\* not recovered, and their reservations not released).
CrashedHoldsReleased ==
    mode = "up" => \A h \in Turns :
        pc[h] = "dead" /\ hold[h] = "active" => h \in Tasks /\ h \notin session

\* A reservation is finished once: of the turn, a cancellation and the
\* recovery that race for it, the first decides whether its capacity was
\* consumed (and a cost observed) or released.
HoldsFinishOnce ==
    [][\A h \in Turns : hold[h] \in {"released", "consumed"} => hold'[h] = hold[h]]_vars

\* Every task that a provider was called for comes to a terminal status: no
\* cancellation, stale completion, decision or crash leaves it hanging.
TasksTerminate ==
    \A t \in Tasks : status[t] \in {"starting", "running", "waiting_for_user"}
                        ~> status[t] \in TerminalStatuses

-----------------------------------------------------------------------------
(* The facts that make the properties above inductive.                      *)

\* A task has no session, and the status its start gave it (unless it was
\* cancelled), until the provider returns to its first turn.
StartFacts ==
    \A t \in Tasks :
        /\ pc[t] \in {"idle", "reserved", "worktree"} => status[t] = "absent"
        /\ pc[t] = "created" => status[t] \in {"created"} \cup TerminalStatuses
        /\ pc[t] \in {"carding", "calling"} => status[t] \in {"starting"} \cup TerminalStatuses
        /\ pc[t] \in {"idle", "reserved", "worktree", "created", "carding", "calling"}
              => t \notin session
        /\ t \in startingTasks => pc[t] = "calling"
        /\ t \in startupCancelled => pc[t] = "calling" /\ status[t] \in TerminalStatuses

\* A continuation exists only for a task with a session, and such a task was
\* started.
ContinuationFacts ==
    /\ \A h \in Continuations : pc[h] # "idle" => Task(h) \in session
    /\ \A t \in session : status[t] \notin {"absent", "created"}

\* While some turn of a task is past its opening, a terminal row has a result.
Opened == {"created"} \cup Starting \cup Executing \cup {"finishing"}

ResultRecorded ==
    \A h \in Turns : pc[h] \in Opened /\ status[Task(h)] \in TerminalStatuses
        => result[Task(h)] # "none"

\* No handler survives a crash.
RecoveringIsQuiet == mode = "recovering" => \A h \in Turns : pc[h] \notin Live

\* The turn that opened a starting task is still in its startup; the turn that
\* moved it on awaits its completion.
OwnerFacts ==
    mode = "up" => \A t \in Tasks :
        /\ status[t] = "starting"
              => current[t] \in Turns /\ Task(current[t]) = t /\ pc[current[t]] \in Starting
        /\ status[t] \in {"running", "waiting_for_user"}
              => \E h \in Turns : Task(h) = t /\ pc[h] \in Executing

\* The renderer of a task is that of the turn that opened it last; before the
\* task is stored there is none, and the first is its own.
RendererFacts ==
    \A t \in Tasks :
        /\ activeRenderers[t] \in {NoTurn, current[t]}
        /\ pc[t] \in {"idle", "reserved", "worktree"} => current[t] = NoTurn
        /\ pc[t] = "created" => current[t] = t

\* A turn reserves once; an attached reservation belongs to a stored task.
HoldFacts ==
    /\ \A h \in Turns : pc[h] \in {"idle", "checked"} => hold[h] = "none"
    /\ \A h \in holdTask : IF h \in Tasks THEN status[h] # "absent" ELSE Task(h) \in session

-----------------------------------------------------------------------------
(* REFUTED, and checked by no run: what the documentation says and the code *)
(* does not do.                                                             *)

\* "For tasks left in nonterminal states (created, starting, running,
\* waiting_for_user), the runtime transitions the task to interrupted": after
\* recovery every stored task whose turns died is terminal.
RecoveredTasksAreTerminal ==
    mode = "up" => \A t \in Tasks :
        (\A h \in Turns : Task(h) = t => pc[h] \notin Live)
            => status[t] \in TerminalStatuses \cup {"absent"}

\* "The reservation is attached to the task record and consumed when the task
\* completes": once a task is terminal and none of its handlers is under way,
\* it holds no capacity.
TerminalHoldsNothing ==
    mode = "up" => \A t \in Tasks :
        /\ status[t] \in TerminalStatuses
        /\ \A h \in Turns : Task(h) = t => pc[h] \notin Live
        /\ \A c \in Cancels : TaskOf[c] = t => cancelPc[c] # "tail"
        => \A h \in holdTask : Task(h) = t => hold[h] # "active"

\* "asks the provider to cancel the active turn, persists the terminal state":
\* a run that no handler waits for any more has been asked to stop.
AbandonedRunIsCancelled ==
    \A h \in Turns : run[h] = "live" /\ pc[h] = "done" => h \in cancelReq

=============================================================================
