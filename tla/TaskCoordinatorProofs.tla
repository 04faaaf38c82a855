----------------------- MODULE TaskCoordinatorProofs -----------------------
(***************************************************************************)
(* Proofs about TaskCoordinator, for any tasks, continuations and          *)
(* cancellations and any number of crashes; and about what a task shows    *)
(* and asks in its thread, InteractionBroker, TaskCard and TaskStream, for *)
(* any requests, members, renderers and failures of Discord, any text and  *)
(* any length of a message.                                                *)
(***************************************************************************)
EXTENDS TaskCoordinator, TaskCard, TaskStream, InteractionBroker, WellFoundedInduction,
        FiniteSetTheorems, SequenceTheorems, TLAPS

HoldStatus == {"none", "active", "released", "consumed"}

\* The task a turn addresses is a task, and every turn is a start or a
\* continuation, never both.
LEMMA TurnFacts ==
    /\ \A h \in Turns : Task(h) \in Tasks
    /\ \A t \in Tasks : Task(t) = t
    /\ Tasks \subseteq Turns
    /\ Continuations \subseteq Turns
    /\ \A h \in Turns : h \in Tasks <=> h \notin Continuations
    /\ \A c \in Cancels : TaskOf[c] \in Tasks
    /\ NoTurn \notin Turns
BY RequestAssumption DEF Turns, Task

\* usage.finish keeps the reservation table a table of reservations.
LEMMA FinishedType ==
    ASSUME hold \in [Turns -> HoldStatus], NEW h, NEW as \in {"released", "consumed"}
    PROVE  Finished(h, as) \in [Turns -> HoldStatus]
BY DEF Finished, HoldStatus

\* A rejection reaching a request handler leaves the state well-typed.
LEMMA RejectType ==
    ASSUME TypeOK, NEW h \in Turns, NEW point \in Points, Reject(h, point)
    PROVE  /\ hold' \in [Turns -> HoldStatus]
           /\ pc' \in [Turns -> Points]
           /\ activeReservations' \in [Tasks -> Turns \cup {NoTurn}]
<1>1. hold' \in [Turns -> HoldStatus]
  BY FinishedType DEF Reject, Release, TypeOK, HoldStatus
<1>2. pc' \in [Turns -> Points]
  BY DEF Reject, Goto, TypeOK
<1>3. activeReservations' \in [Tasks -> Turns \cup {NoTurn}]
  BY DEF Reject, Erase, TypeOK
<1> QED
  BY <1>1, <1>2, <1>3

\* failStartingTask leaves the state well-typed, whether it stores a result or
\* throws because there is one.
LEMMA FailStartingType ==
    ASSUME TypeOK, NEW h \in Turns, FailStartingTask(h)
    PROVE  /\ status' \in [Tasks -> TaskStatus]
           /\ result' \in [Tasks -> Results]
           /\ hold' \in [Turns -> HoldStatus]
           /\ pc' \in [Turns -> Points]
           /\ activeReservations' \in [Tasks -> Turns \cup {NoTurn}]
           /\ interruptionRequested' \in SUBSET Tasks
<1> DEFINE t == Task(h)
           ended == IF status[t] \in TerminalStatuses THEN status[t] ELSE "failed"
<1>1. ended \in TerminalStatuses
  BY DEF TerminalStatuses
<1>2. status' \in [Tasks -> TaskStatus]
  BY <1>1 DEF FailStartingTask, TypeOK, TaskStatus
<1> HIDE DEF ended
<1>3. CASE CanSaveResult(ended, result[t], ended)
  <2>1. /\ result' = [result EXCEPT ![t] = ended]
        /\ hold' = Finished(h, "consumed")
        /\ activeReservations' = Erase(activeReservations, t)
        /\ interruptionRequested' = interruptionRequested \ {t}
        /\ pc' = [pc EXCEPT ![h] = "finishing"]
    BY <1>3 DEF FailStartingTask, Complete, Goto, ended
  <2>2. hold' \in [Turns -> HoldStatus]
    BY <2>1, FinishedType DEF TypeOK, HoldStatus
  <2> QED
    BY <1>1, <1>2, <2>1, <2>2 DEF TypeOK, Results, Points, Live, Erase
<1>4. CASE ~CanSaveResult(ended, result[t], ended)
  <2>1. Reject(h, "done") /\ UNCHANGED <<result, interruptionRequested>>
    BY <1>4 DEF FailStartingTask, ended
  <2> QED
    BY <1>2, <2>1, RejectType DEF TypeOK, Points
<1> QED
  BY <1>3, <1>4

-----------------------------------------------------------------------------
(* Type correctness.                                                        *)

\* Every step of every handler, callback, crash and recovery keeps every row,
\* map and program point in its type.
LEMMA TypeStep ==
    ASSUME TypeOK, [Next]_vars
    PROVE  TypeOK'
<1> USE TurnFacts DEF At, Goto, Erase, durable, maps, callback, provider, process, history
<1>1. ASSUME NEW t \in Tasks, StartReserve(t)
      PROVE  TypeOK'
  BY <1>1 DEF TypeOK, StartReserve, Points, Live, BeforeOpen
<1>2. ASSUME NEW t \in Tasks, StartWorkspace(t)
      PROVE  TypeOK'
  <2>1. CASE Reject(t, "done")
    BY <1>2, <2>1, RejectType DEF TypeOK, StartWorkspace, Points, HoldStatus
  <2>2. CASE pc' = [pc EXCEPT ![t] = "worktree"] /\ UNCHANGED <<hold, activeReservations>>
    BY <1>2, <2>2 DEF TypeOK, StartWorkspace, Points, Live, BeforeOpen
  <2> QED
    BY <1>2, <2>1, <2>2 DEF StartWorkspace
<1>3. ASSUME NEW t \in Tasks, CreateWithWorktree(t)
      PROVE  TypeOK'
  <2>1. CASE Reject(t, "done") /\ UNCHANGED <<status, holdTask, activeRenderers, current>>
    BY <1>3, <2>1, RejectType DEF TypeOK, CreateWithWorktree, Points, HoldStatus
  <2>2. CASE /\ status' = [status EXCEPT ![t] = "created"]
             /\ holdTask' = holdTask \cup {t}
             /\ activeReservations' = [activeReservations EXCEPT ![t] = t]
             /\ activeRenderers' = [activeRenderers EXCEPT ![t] = t]
             /\ current' = [current EXCEPT ![t] = t]
             /\ pc' = [pc EXCEPT ![t] = "created"]
             /\ UNCHANGED hold
    <3>1. UNCHANGED <<session, result, cancelPc, interruptionRequested,
                      startingTasks, startupCancelled, callback, provider, process, log>>
      BY <1>3 DEF CreateWithWorktree
    <3> QED
      BY <2>2, <3>1 DEF TypeOK, Points, Live, TaskStatus, ActiveStatuses
  <2> QED
    BY <1>3, <2>1, <2>2 DEF CreateWithWorktree
<1>4. ASSUME NEW t \in Tasks, BeginStarting(t)
      PROVE  TypeOK'
  <2>1. CASE CanTransition(status[t], {"created"}, "starting")
    <3>1. /\ status' = [status EXCEPT ![t] = "starting"]
          /\ pc' = [pc EXCEPT ![t] = "carding"]
          /\ UNCHANGED <<hold, activeReservations>>
      BY <1>4, <2>1 DEF BeginStarting
    <3>2. UNCHANGED <<session, result, holdTask, cancelPc, activeRenderers,
                      interruptionRequested, startingTasks, startupCancelled,
                      callback, provider, process, history>>
      BY <1>4 DEF BeginStarting
    <3> QED
      BY <3>1, <3>2 DEF TypeOK, Points, Live, Starting, TaskStatus, ActiveStatuses
  <2>2. CASE ~CanTransition(status[t], {"created"}, "starting")
    <3>1. Reject(t, "done")
      BY <1>4, <2>2 DEF BeginStarting
    <3> QED
      BY <1>4, <2>2, <3>1, RejectType DEF TypeOK, BeginStarting, Points, HoldStatus
  <2> QED
    BY <2>1, <2>2
<1>5. ASSUME NEW h \in Continuations, ContinueCheck(h)
      PROVE  TypeOK'
  BY <1>5 DEF TypeOK, ContinueCheck, Points, Live, BeforeOpen
<1>6. ASSUME NEW h \in Continuations, ContinueReserve(h)
      PROVE  TypeOK'
  <2>1. CASE hold' = [hold EXCEPT ![h] = "active"] /\ pc' = [pc EXCEPT ![h] = "reserved"]
    BY <1>6, <2>1 DEF TypeOK, ContinueReserve, Points, Live, BeforeOpen
  <2>2. CASE UNCHANGED hold /\ pc' = [pc EXCEPT ![h] = "done"]
    BY <1>6, <2>2 DEF TypeOK, ContinueReserve, Points
  <2> QED
    BY <1>6, <2>1, <2>2 DEF ContinueReserve
<1>7. ASSUME NEW h \in Continuations, ReopenForContinuation(h)
      PROVE  TypeOK'
  <2>1. CASE CanReopen(status[Task(h)], Task(h) \in session)
    <3>1. /\ status' = [status EXCEPT ![Task(h)] = "starting"]
          /\ result' = [result EXCEPT ![Task(h)] = "none"]
          /\ holdTask' = holdTask \cup {h}
          /\ activeReservations' = [activeReservations EXCEPT ![Task(h)] = h]
          /\ activeRenderers' = [activeRenderers EXCEPT ![Task(h)] = h]
          /\ current' = [current EXCEPT ![Task(h)] = h]
          /\ log' = [log EXCEPT ![Task(h)] = {}]
          /\ pc' = [pc EXCEPT ![h] = "opened"]
          /\ UNCHANGED hold
      BY <1>7, <2>1 DEF ReopenForContinuation, ReopenRow
    <3>2. UNCHANGED <<session, cancelPc, interruptionRequested, startingTasks,
                      startupCancelled, callback, provider, process>>
      BY <1>7 DEF ReopenForContinuation
    <3> QED
      BY <3>1, <3>2 DEF TypeOK, Points, Live, Starting, TaskStatus, ActiveStatuses, Results
  <2>2. CASE ~CanReopen(status[Task(h)], Task(h) \in session)
    <3>1. Reject(h, "done")
      BY <1>7, <2>2 DEF ReopenForContinuation
    <3> QED
      BY <1>7, <2>2, <3>1, RejectType DEF TypeOK, ReopenForContinuation, Points, HoldStatus
  <2> QED
    BY <2>1, <2>2
<1>8. ASSUME NEW h \in Turns, CallProvider(h)
      PROVE  TypeOK'
  BY <1>8 DEF TypeOK, CallProvider, Points, Live, Starting
<1>9. ASSUME NEW h \in Turns, ProviderRejects(h)
      PROVE  TypeOK'
  BY <1>9, FailStartingType DEF TypeOK, ProviderRejects, DropStartup, HoldStatus
<1>10. ASSUME NEW h \in Turns, SessionMismatch(h)
      PROVE  TypeOK'
  BY <1>10, FailStartingType DEF TypeOK, SessionMismatch, DropStartup, HoldStatus
<1>11. ASSUME NEW h \in Turns, ProviderReturns(h)
      PROVE  TypeOK'
  <2> USE DEF ProviderReturns, DropStartup
  <2>1. /\ run' \in [Turns -> {"none", "pending", "live", "ended"}]
        /\ registered' \in [Tasks -> Turns \cup {NoTurn}]
        /\ startingTasks' \in SUBSET Tasks
        /\ startupCancelled' \in SUBSET Tasks
        /\ UNCHANGED <<result, holdTask, cancelPc, activeRenderers,
                       interruptionRequested, callback, process, history>>
    BY <1>11 DEF TypeOK
  <2>2. session' \in SUBSET Tasks
    BY <1>11 DEF TypeOK, AttachSession
  <2>3. cancelReq' \in SUBSET Turns
    BY <1>11 DEF TypeOK
  <2>4. status' \in [Tasks -> TaskStatus]
    BY <1>11 DEF TypeOK, TaskStatus, ActiveStatuses
  <2>5. /\ hold' \in [Turns -> HoldStatus]
        /\ pc' \in [Turns -> Points]
        /\ activeReservations' \in [Tasks -> Turns \cup {NoTurn}]
    <3>1. CASE Reject(h, "thrown")
      BY <3>1, RejectType DEF Points
    <3>2. CASE UNCHANGED <<hold, activeReservations>> /\ \E point \in {"done", "card"} : Goto(h, point)
      BY <3>2 DEF TypeOK, HoldStatus, Points, Live, Executing
    <3> QED
      BY <1>11, <3>1, <3>2
  <2> QED
    BY <2>1, <2>2, <2>3, <2>4, <2>5 DEF TypeOK, HoldStatus
<1>12. ASSUME NEW h \in Turns, OpenGate(h)
      PROVE  TypeOK'
  BY <1>12 DEF TypeOK, OpenGate, Points, Live, Executing
<1>13. ASSUME NEW h \in Turns, NEW outcome \in TerminalStatuses, FinalizeTask(h, outcome)
      PROVE  TypeOK'
  <2> DEFINE t == Task(h)
             ended == IF status[t] \in TerminalStatuses THEN status[t] ELSE outcome
  <2>1. UNCHANGED <<session, holdTask, cancelPc, startingTasks, startupCancelled,
                    callback, provider, process, history>>
    BY <1>13 DEF FinalizeTask
  <2>2. ended \in TaskStatus /\ ended \in Results
    BY DEF TaskStatus, Results
  <2>3. status' \in [Tasks -> TaskStatus] /\ result' \in [Tasks -> Results]
    BY SMTT(40), <1>13, <2>2 DEF FinalizeTask, TypeOK
  <2>4. /\ activeRenderers' \in [Tasks -> Turns \cup {NoTurn}]
        /\ interruptionRequested' \in SUBSET Tasks
    BY <1>13 DEF FinalizeTask, TypeOK
  <2>5. /\ hold' \in [Turns -> HoldStatus]
        /\ pc' \in [Turns -> Points]
        /\ activeReservations' \in [Tasks -> Turns \cup {NoTurn}]
    <3>1. CASE Reject(h, "done")
      BY <3>1, RejectType DEF Points
    <3>2. CASE /\ activeReservations' = Erase(activeReservations, t)
               /\ hold' \in {hold, Finished(h, "consumed")}
               /\ \E point \in {"done", "finishing"} : Goto(h, point)
      BY <3>2, FinishedType DEF TypeOK, HoldStatus, Points, Live
    <3> QED
      BY <1>13, <3>1, <3>2 DEF FinalizeTask, Complete
  <2> QED
    BY <2>1, <2>3, <2>4, <2>5 DEF TypeOK, HoldStatus
<1>14. ASSUME NEW h \in Turns, FinishRenderer(h)
      PROVE  TypeOK'
  BY <1>14 DEF TypeOK, FinishRenderer, Points
<1>15. ASSUME NEW h \in Turns, Emit(h)
      PROVE  TypeOK'
  BY <1>15 DEF TypeOK, Emit
<1>16. ASSUME NEW h \in Turns, EmitCriticalUsage(h)
      PROVE  TypeOK'
  BY <1>16 DEF TypeOK, EmitCriticalUsage
<1>17. ASSUME NEW h \in Turns, RequestDecision(h)
      PROVE  TypeOK'
  BY <1>17 DEF TypeOK, RequestDecision
<1>18. ASSUME NEW h \in Turns, InterruptRun(h)
      PROVE  TypeOK'
  BY <1>18 DEF TypeOK, InterruptRun, CancelRun
<1>19. ASSUME NEW h \in Turns, AskUser(h)
      PROVE  TypeOK'
  BY <1>19 DEF TypeOK, AskUser, TaskStatus, ActiveStatuses
<1>20. ASSUME NEW h \in Turns, ResolveDecision(h)
      PROVE  TypeOK'
  BY <1>20 DEF TypeOK, ResolveDecision, TaskStatus, ActiveStatuses
<1>21. ASSUME NEW h \in Turns, RunEnds(h)
      PROVE  TypeOK'
  BY <1>21 DEF TypeOK, RunEnds
<1>22. ASSUME NEW c \in Cancels, CancelByThread(c)
      PROVE  TypeOK'
  <2>1. hold' \in [Turns -> HoldStatus]
    BY <1>22, FinishedType DEF TypeOK, CancelByThread, ReleaseActive, Release, HoldStatus
  <2> QED
    BY SMTT(40), <1>22, <2>1 DEF TypeOK, CancelByThread, ReleaseActive, CancelRun, HoldStatus,
                      TaskStatus, TerminalStatuses, Results
<1>23. ASSUME NEW c \in Cancels, CancelTail(c)
      PROVE  TypeOK'
  <2>1. hold' \in [Turns -> HoldStatus]
    BY <1>23, FinishedType DEF TypeOK, CancelTail, ReleaseActive, Release, HoldStatus
  <2> QED
    BY <1>23, <2>1 DEF TypeOK, CancelTail, ReleaseActive, CancelRun, HoldStatus,
                      TaskStatus, TerminalStatuses, Results
<1>24. ASSUME Crash
      PROVE  TypeOK'
  BY <1>24, CrashAssumption DEF TypeOK, Crash, LoseMemory, Points
<1>25. ASSUME NEW t \in Tasks, CrashInCreate(t)
      PROVE  TypeOK'
  BY <1>25, CrashAssumption DEF TypeOK, CrashInCreate, LoseMemory, Points, TaskStatus, ActiveStatuses
<1>26. ASSUME NEW h \in Continuations, CrashInReopen(h)
      PROVE  TypeOK'
  BY <1>26, CrashAssumption DEF TypeOK, CrashInReopen, LoseMemory, ReopenRow, Points, TaskStatus, ActiveStatuses, Results
<1>27. ASSUME NEW t \in Tasks, NEW outcome \in TerminalStatuses, NEW saved \in BOOLEAN,
           CrashInTerminate(t, outcome, saved)
      PROVE  TypeOK'
  BY <1>27, CrashAssumption DEF TypeOK, CrashInTerminate, LoseMemory, Points, TaskStatus, Results
<1>28. ASSUME NEW t \in Tasks, RecoverTask(t)
      PROVE  TypeOK'
  BY <1>28 DEF TypeOK, RecoverTask, TaskStatus, TerminalStatuses
<1>29. ASSUME RecoverRuntime
      PROVE  TypeOK'
  BY <1>29 DEF TypeOK, RecoverRuntime, Recovered, ReleaseAll, StaleHolds
<1>30. CASE UNCHANGED vars
  BY <1>30 DEF TypeOK, vars
<1>31. ASSUME NEW t \in Tasks, CrashInAttach(t)
      PROVE  TypeOK'
  BY <1>31, CrashAssumption DEF TypeOK, CrashInAttach, AttachSession, LoseMemory,
         Points, TaskStatus, ActiveStatuses, Results
<1>32. ASSUME NEW stale \in SUBSET StaleHolds, CrashInRelease(stale)
      PROVE  TypeOK'
  BY <1>32, CrashAssumption DEF TypeOK, CrashInRelease, Recovered, ReleaseAll,
         StaleHolds, LoseMemory, Points, TaskStatus, ActiveStatuses, Results
<1> QED
  BY <1>1, <1>2, <1>3, <1>4, <1>5, <1>6, <1>7, <1>8, <1>9, <1>10, <1>11, <1>12, <1>13, <1>14, <1>15, <1>16, <1>17, <1>18, <1>19, <1>20, <1>21, <1>22, <1>23, <1>24, <1>25, <1>26, <1>27, <1>28, <1>29, <1>30, <1>31, <1>32
     DEF Next, StartStep, ContinueStep, TurnStep, RunCallback, CrashStep, RecoveryStep

\* The initial state is well-typed.
LEMMA TypeInit == Init => TypeOK
BY CrashAssumption DEF Init, TypeOK, TaskStatus, Results, Points

\* Every state the coordinator can reach is well-typed.
THEOREM TypeCorrect == Spec => []TypeOK
<1> QED
  BY TypeInit, TypeStep, PTL DEF Spec

-----------------------------------------------------------------------------
(* The safety properties, from one inductive invariant.  Each lemma shows   *)
(* that one conjunct survives every step: one step per action that writes   *)
(* the conjunct's variables.                                                *)

\* The inductive invariant.
Inv ==
    /\ TypeOK
    /\ StartFacts
    /\ ContinuationFacts
    /\ RecoveringIsQuiet
    /\ ResultRecorded
    /\ ResultMatchesStatus
    /\ RunningHasSession
    /\ RendererFacts
    /\ OwnerFacts
    /\ HoldFacts
    /\ NoForeignEvents
    /\ WaitingIsAsked
    /\ CrashedHoldsReleased

\* No handler gives a task a session, or a status of its own, before the
\* provider returned to the task's first turn.
LEMMA StartFactsStep ==
    ASSUME Inv, [Next]_vars
    PROVE  StartFacts'
<1> USE TurnFacts DEF Inv
<1>1. ASSUME NEW t \in Tasks, StartReserve(t)
      PROVE  StartFacts'
  BY <1>1 DEF TypeOK, StartFacts, ContinuationFacts, StartReserve, TerminalStatuses, At,
         Goto, maps, callback, provider, process, history
<1>2. ASSUME NEW t \in Tasks, StartWorkspace(t)
      PROVE  StartFacts'
  BY <1>2 DEF TypeOK, StartFacts, ContinuationFacts, StartWorkspace, TerminalStatuses,
         At, Goto, Reject, callback, provider, process, history
<1>3. ASSUME NEW t \in Tasks, CreateWithWorktree(t)
      PROVE  StartFacts'
  BY <1>3 DEF TypeOK, StartFacts, ContinuationFacts, CreateWithWorktree,
         TerminalStatuses, At, Goto, Reject, callback, provider, process
<1>4. ASSUME NEW t \in Tasks, BeginStarting(t)
      PROVE  StartFacts'
  BY <1>4 DEF TypeOK, StartFacts, ContinuationFacts, BeginStarting, TerminalStatuses,
         At, Goto, Reject, CanTransition, callback, provider, process, history,
         LegalTransitions
<1>5. ASSUME NEW h \in Continuations, ContinueCheck(h)
      PROVE  StartFacts'
  BY <1>5 DEF TypeOK, StartFacts, ContinuationFacts, ContinueCheck, TerminalStatuses,
         At, Goto, CanReopen, durable, maps, callback, provider, process, history
<1>6. ASSUME NEW h \in Continuations, ContinueReserve(h)
      PROVE  StartFacts'
  BY <1>6 DEF TypeOK, StartFacts, ContinuationFacts, ContinueReserve, TerminalStatuses,
         At, Goto, maps, callback, provider, process, history
<1>7. ASSUME NEW h \in Continuations, ReopenForContinuation(h)
      PROVE  StartFacts'
  BY <1>7 DEF TypeOK, StartFacts, ContinuationFacts, ReopenForContinuation,
         TerminalStatuses, At, Goto, Reject, ReopenRow, CanReopen, callback, provider,
         process, history
<1>8. ASSUME NEW h \in Turns, CallProvider(h)
      PROVE  StartFacts'
  BY <1>8 DEF TypeOK, StartFacts, ContinuationFacts, CallProvider, TerminalStatuses, At,
         Goto, durable, callback, process, history
<1>9. ASSUME NEW h \in Turns, ProviderRejects(h)
      PROVE  StartFacts'
  BY <1>9 DEF TypeOK, StartFacts, ContinuationFacts, ProviderRejects, TerminalStatuses,
         At, FailStartingTask, DropStartup, callback, process, history, Goto, Reject,
         CanSaveResult
<1>10. ASSUME NEW h \in Turns, SessionMismatch(h)
      PROVE  StartFacts'
  BY <1>10 DEF TypeOK, StartFacts, ContinuationFacts, SessionMismatch, TerminalStatuses,
         At, FailStartingTask, DropStartup, callback, process, history, Goto, Reject,
         CanSaveResult
<1>11. ASSUME NEW h \in Turns, ProviderReturns(h)
      PROVE  StartFacts'
  BY <1>11 DEF TypeOK, StartFacts, ContinuationFacts, ProviderReturns, TerminalStatuses,
         At, Goto, Reject, DropStartup, AttachSession, CanTransition, callback, process,
         history, LegalTransitions
<1>12. ASSUME NEW h \in Turns, OpenGate(h)
      PROVE  StartFacts'
  BY <1>12 DEF TypeOK, StartFacts, ContinuationFacts, OpenGate, TerminalStatuses, At,
         Goto, durable, maps, callback, provider, process, history
<1>13. ASSUME NEW h \in Turns, NEW outcome \in TerminalStatuses, FinalizeTask(h, outcome)
      PROVE  StartFacts'
  BY <1>13 DEF TypeOK, StartFacts, ContinuationFacts, FinalizeTask, TerminalStatuses,
         At, Goto, Reject, CanTransition, callback, provider, process, history,
         LegalTransitions
<1>14. ASSUME NEW h \in Turns, FinishRenderer(h)
      PROVE  StartFacts'
  BY <1>14 DEF TypeOK, StartFacts, ContinuationFacts, FinishRenderer, TerminalStatuses,
         At, Goto, durable, callback, provider, process, history
<1>15. ASSUME NEW h \in Turns, AskUser(h)
      PROVE  StartFacts'
  BY <1>15 DEF TypeOK, StartFacts, ContinuationFacts, AskUser, TerminalStatuses,
         GateResolved, maps, provider, process, history
<1>16. ASSUME NEW h \in Turns, ResolveDecision(h)
      PROVE  StartFacts'
  BY <1>16 DEF TypeOK, StartFacts, ContinuationFacts, ResolveDecision, TerminalStatuses,
         maps, provider, process, history
<1>17. ASSUME NEW c \in Cancels, CancelByThread(c)
      PROVE  StartFacts'
  BY <1>17 DEF TypeOK, StartFacts, ContinuationFacts, CancelByThread, TerminalStatuses,
         ActiveStatuses, callback, process, history
<1>18. ASSUME Crash
      PROVE  StartFacts'
  BY <1>18 DEF TypeOK, StartFacts, ContinuationFacts, Crash, TerminalStatuses,
         LoseMemory, durable, Live, history, BeforeOpen, Starting, Executing
<1>19. ASSUME NEW t \in Tasks, CrashInCreate(t)
      PROVE  StartFacts'
  BY <1>19 DEF TypeOK, StartFacts, ContinuationFacts, CrashInCreate, TerminalStatuses,
         At, LoseMemory, Live, history, BeforeOpen, Starting, Executing
<1>20. ASSUME NEW h \in Continuations, CrashInReopen(h)
      PROVE  StartFacts'
  BY <1>20 DEF TypeOK, StartFacts, ContinuationFacts, CrashInReopen, TerminalStatuses,
         At, LoseMemory, ReopenRow, CanReopen, Live, history, BeforeOpen, Starting,
         Executing
<1>21. ASSUME NEW t \in Tasks, NEW outcome \in TerminalStatuses, NEW saved \in BOOLEAN,
           CrashInTerminate(t, outcome, saved)
      PROVE  StartFacts'
  BY <1>21 DEF TypeOK, StartFacts, ContinuationFacts, CrashInTerminate,
         TerminalStatuses, ActiveStatuses, LoseMemory, CanTransition, Live, history,
         LegalTransitions, BeforeOpen, Starting, Executing
<1>22. ASSUME NEW t \in Tasks, RecoverTask(t)
      PROVE  StartFacts'
  BY <1>22 DEF TypeOK, StartFacts, ContinuationFacts, RecoverTask, TerminalStatuses,
         Recoverable, maps, callback, provider, process, history
<1>23. CASE UNCHANGED <<pc, status, session, startingTasks, startupCancelled>>
  BY <1>23 DEF StartFacts
<1>24. ASSUME NEW t \in Tasks, CrashInAttach(t)
      PROVE  StartFacts'
  BY <1>24 DEF TypeOK, StartFacts, ContinuationFacts, CrashInAttach, AttachSession,
         TerminalStatuses, At, LoseMemory, Live, history, BeforeOpen, Starting,
         Executing
<1>25. ASSUME NEW stale \in SUBSET StaleHolds, CrashInRelease(stale)
      PROVE  StartFacts'
  BY <1>25 DEF TypeOK, StartFacts, ContinuationFacts, CrashInRelease, Recovered,
         ReleaseAll, StaleHolds, TerminalStatuses, LoseMemory, Live, history,
         BeforeOpen, Starting, Executing
<1> QED
  BY <1>1, <1>2, <1>3, <1>4, <1>5, <1>6, <1>7, <1>8, <1>9, <1>10, <1>11, <1>12, <1>13,
         <1>14, <1>15, <1>16, <1>17, <1>18, <1>19, <1>20, <1>21, <1>22, <1>23, <1>24, <1>25
     DEF Next, StartStep, ContinueStep, TurnStep, RunCallback, CrashStep, RecoveryStep,
         Emit, EmitCriticalUsage, RequestDecision, InterruptRun, RunEnds, CancelTail,
         RecoverRuntime, Recovered, ReleaseAll, StaleHolds, CancelRun, ReleaseActive, durable, maps, callback, provider,
         process, history, vars

\* Continuations stay tied to tasks with a session, which were started.
LEMMA ContinuationFactsStep ==
    ASSUME Inv, [Next]_vars
    PROVE  ContinuationFacts'
<1> USE TurnFacts DEF Inv
<1>1. ASSUME NEW t \in Tasks, StartReserve(t)
      PROVE  ContinuationFacts'
  BY <1>1 DEF TypeOK, ContinuationFacts, StartFacts, StartReserve, At, Goto, maps,
         callback, provider, process, history, TerminalStatuses
<1>2. ASSUME NEW t \in Tasks, StartWorkspace(t)
      PROVE  ContinuationFacts'
  BY <1>2 DEF TypeOK, ContinuationFacts, StartFacts, StartWorkspace, At, Goto, Reject,
         callback, provider, process, history, TerminalStatuses
<1>3. ASSUME NEW t \in Tasks, CreateWithWorktree(t)
      PROVE  ContinuationFacts'
  BY <1>3 DEF TypeOK, ContinuationFacts, StartFacts, CreateWithWorktree, At, Goto,
         Reject, callback, provider, process, TerminalStatuses
<1>4. ASSUME NEW t \in Tasks, BeginStarting(t)
      PROVE  ContinuationFacts'
  BY <1>4 DEF TypeOK, ContinuationFacts, StartFacts, BeginStarting, At, Goto, Reject,
         CanTransition, callback, provider, process, history, TerminalStatuses,
         LegalTransitions
<1>5. ASSUME NEW h \in Continuations, ContinueCheck(h)
      PROVE  ContinuationFacts'
  BY <1>5 DEF TypeOK, ContinuationFacts, StartFacts, ContinueCheck, At, Goto, CanReopen,
         durable, maps, callback, provider, process, history, TerminalStatuses
<1>6. ASSUME NEW h \in Continuations, ContinueReserve(h)
      PROVE  ContinuationFacts'
  BY <1>6 DEF TypeOK, ContinuationFacts, StartFacts, ContinueReserve, At, Goto, maps,
         callback, provider, process, history, TerminalStatuses
<1>7. ASSUME NEW h \in Continuations, ReopenForContinuation(h)
      PROVE  ContinuationFacts'
  BY <1>7 DEF TypeOK, ContinuationFacts, StartFacts, ReopenForContinuation, At, Goto,
         Reject, ReopenRow, CanReopen, callback, provider, process, history,
         TerminalStatuses
<1>8. ASSUME NEW h \in Turns, CallProvider(h)
      PROVE  ContinuationFacts'
  BY <1>8 DEF TypeOK, ContinuationFacts, StartFacts, CallProvider, At, Goto, durable,
         callback, process, history, TerminalStatuses
<1>9. ASSUME NEW h \in Turns, ProviderRejects(h)
      PROVE  ContinuationFacts'
  BY <1>9 DEF TypeOK, ContinuationFacts, StartFacts, ProviderRejects, At,
         FailStartingTask, DropStartup, callback, process, history, TerminalStatuses,
         Goto, Reject, CanSaveResult
<1>10. ASSUME NEW h \in Turns, SessionMismatch(h)
      PROVE  ContinuationFacts'
  BY <1>10 DEF TypeOK, ContinuationFacts, StartFacts, SessionMismatch, At,
         FailStartingTask, DropStartup, callback, process, history, TerminalStatuses,
         Goto, Reject, CanSaveResult
<1>11. ASSUME NEW h \in Turns, ProviderReturns(h)
      PROVE  ContinuationFacts'
  BY <1>11 DEF TypeOK, ContinuationFacts, StartFacts, ProviderReturns, TerminalStatuses,
         At, Goto, Reject, DropStartup, AttachSession, CanTransition, callback, process,
         history, LegalTransitions
<1>12. ASSUME NEW h \in Turns, OpenGate(h)
      PROVE  ContinuationFacts'
  BY <1>12 DEF TypeOK, ContinuationFacts, StartFacts, OpenGate, At, Goto, durable, maps,
         callback, provider, process, history, TerminalStatuses
<1>13. ASSUME NEW h \in Turns, NEW outcome \in TerminalStatuses, FinalizeTask(h, outcome)
      PROVE  ContinuationFacts'
  BY <1>13 DEF TypeOK, ContinuationFacts, StartFacts, FinalizeTask, TerminalStatuses,
         At, Goto, Reject, CanTransition, callback, provider, process, history,
         LegalTransitions
<1>14. ASSUME NEW h \in Turns, FinishRenderer(h)
      PROVE  ContinuationFacts'
  BY <1>14 DEF TypeOK, ContinuationFacts, StartFacts, FinishRenderer, At, Goto, durable,
         callback, provider, process, history, TerminalStatuses
<1>15. ASSUME NEW h \in Turns, AskUser(h)
      PROVE  ContinuationFacts'
  BY <1>15 DEF TypeOK, ContinuationFacts, StartFacts, AskUser, GateResolved, maps,
         provider, process, history, TerminalStatuses
<1>16. ASSUME NEW h \in Turns, ResolveDecision(h)
      PROVE  ContinuationFacts'
  BY <1>16 DEF TypeOK, ContinuationFacts, StartFacts, ResolveDecision, maps, provider,
         process, history, TerminalStatuses
<1>17. ASSUME NEW c \in Cancels, CancelByThread(c)
      PROVE  ContinuationFacts'
  BY <1>17 DEF TypeOK, ContinuationFacts, StartFacts, CancelByThread, ActiveStatuses,
         callback, process, history, TerminalStatuses
<1>18. ASSUME Crash
      PROVE  ContinuationFacts'
  BY <1>18 DEF TypeOK, ContinuationFacts, StartFacts, Crash, LoseMemory, durable,
         TerminalStatuses, Live, history, BeforeOpen, Starting, Executing
<1>19. ASSUME NEW t \in Tasks, CrashInCreate(t)
      PROVE  ContinuationFacts'
  BY <1>19 DEF TypeOK, ContinuationFacts, StartFacts, CrashInCreate, At, LoseMemory,
         TerminalStatuses, Live, history, BeforeOpen, Starting, Executing
<1>20. ASSUME NEW h \in Continuations, CrashInReopen(h)
      PROVE  ContinuationFacts'
  BY <1>20 DEF TypeOK, ContinuationFacts, StartFacts, CrashInReopen, At, LoseMemory,
         ReopenRow, CanReopen, TerminalStatuses, Live, history, BeforeOpen, Starting,
         Executing
<1>21. ASSUME NEW t \in Tasks, NEW outcome \in TerminalStatuses, NEW saved \in BOOLEAN,
           CrashInTerminate(t, outcome, saved)
      PROVE  ContinuationFacts'
  BY <1>21 DEF TypeOK, ContinuationFacts, StartFacts, CrashInTerminate, ActiveStatuses,
         LoseMemory, CanTransition, TerminalStatuses, Live, history, LegalTransitions,
         BeforeOpen, Starting, Executing
<1>22. ASSUME NEW t \in Tasks, RecoverTask(t)
      PROVE  ContinuationFacts'
  BY <1>22 DEF TypeOK, ContinuationFacts, StartFacts, RecoverTask, Recoverable, maps,
         callback, provider, process, history, TerminalStatuses
<1>23. CASE UNCHANGED <<pc, status, session>>
  BY <1>23 DEF ContinuationFacts
<1>24. ASSUME NEW t \in Tasks, CrashInAttach(t)
      PROVE  ContinuationFacts'
  BY <1>24 DEF TypeOK, ContinuationFacts, StartFacts, CrashInAttach, AttachSession,
         At, LoseMemory, TerminalStatuses, Live, history, BeforeOpen, Starting,
         Executing
<1>25. ASSUME NEW stale \in SUBSET StaleHolds, CrashInRelease(stale)
      PROVE  ContinuationFacts'
  BY <1>25 DEF TypeOK, ContinuationFacts, StartFacts, CrashInRelease, Recovered,
         ReleaseAll, StaleHolds, LoseMemory, TerminalStatuses, Live, history,
         BeforeOpen, Starting, Executing
<1> QED
  BY <1>1, <1>2, <1>3, <1>4, <1>5, <1>6, <1>7, <1>8, <1>9, <1>10, <1>11, <1>12, <1>13,
         <1>14, <1>15, <1>16, <1>17, <1>18, <1>19, <1>20, <1>21, <1>22, <1>23, <1>24, <1>25
     DEF Next, StartStep, ContinueStep, TurnStep, RunCallback, CrashStep, RecoveryStep,
         Emit, EmitCriticalUsage, RequestDecision, InterruptRun, RunEnds, CancelTail,
         RecoverRuntime, Recovered, ReleaseAll, StaleHolds, CancelRun, ReleaseActive, durable, maps, callback, provider,
         process, history, vars

\* Whoever terminalizes a row under a turn that is past its opening stores the
\* result in the same stretch.
LEMMA ResultRecordedStep ==
    ASSUME Inv, [Next]_vars
    PROVE  ResultRecorded'
<1> USE TurnFacts DEF Inv
<1>1. ASSUME NEW t \in Tasks, StartReserve(t)
      PROVE  ResultRecorded'
  BY <1>1 DEF TypeOK, ResultRecorded, StartFacts, ContinuationFacts, RecoveringIsQuiet,
         StartReserve, Opened, TerminalStatuses, At, Goto, maps, callback, provider,
         process, history, Live, Starting, Executing, BeforeOpen
<1>2. ASSUME NEW t \in Tasks, StartWorkspace(t)
      PROVE  ResultRecorded'
  BY <1>2 DEF TypeOK, ResultRecorded, StartFacts, ContinuationFacts, RecoveringIsQuiet,
         StartWorkspace, Opened, TerminalStatuses, At, Goto, Reject, callback, provider,
         process, history, Live, Starting, Executing, BeforeOpen
<1>3. ASSUME NEW t \in Tasks, CreateWithWorktree(t)
      PROVE  ResultRecorded'
  BY <1>3 DEF TypeOK, ResultRecorded, StartFacts, ContinuationFacts, RecoveringIsQuiet,
         CreateWithWorktree, Opened, TerminalStatuses, At, Goto, Reject, callback,
         provider, process, Live, Starting, Executing, BeforeOpen
<1>4. ASSUME NEW t \in Tasks, BeginStarting(t)
      PROVE  ResultRecorded'
  BY <1>4 DEF TypeOK, ResultRecorded, StartFacts, ContinuationFacts, RecoveringIsQuiet,
         BeginStarting, Opened, TerminalStatuses, At, Goto, Reject, CanTransition,
         callback, provider, process, history, Live, Starting, Executing,
         LegalTransitions, BeforeOpen
<1>5. ASSUME NEW h \in Continuations, ContinueCheck(h)
      PROVE  ResultRecorded'
  BY <1>5 DEF TypeOK, ResultRecorded, StartFacts, ContinuationFacts, RecoveringIsQuiet,
         ContinueCheck, Opened, TerminalStatuses, At, Goto, CanReopen, durable, maps,
         callback, provider, process, history, Live, Starting, Executing, BeforeOpen
<1>6. ASSUME NEW h \in Continuations, ContinueReserve(h)
      PROVE  ResultRecorded'
  BY <1>6 DEF TypeOK, ResultRecorded, StartFacts, ContinuationFacts, RecoveringIsQuiet,
         ContinueReserve, Opened, TerminalStatuses, At, Goto, maps, callback, provider,
         process, history, Live, Starting, Executing, BeforeOpen
<1>7. ASSUME NEW h \in Continuations, ReopenForContinuation(h)
      PROVE  ResultRecorded'
  BY <1>7 DEF TypeOK, ResultRecorded, StartFacts, ContinuationFacts, RecoveringIsQuiet,
         ReopenForContinuation, Opened, TerminalStatuses, At, Goto, Reject, ReopenRow,
         CanReopen, callback, provider, process, history, Live, Starting, Executing,
         BeforeOpen
<1>8. ASSUME NEW h \in Turns, CallProvider(h)
      PROVE  ResultRecorded'
  BY <1>8 DEF TypeOK, ResultRecorded, StartFacts, ContinuationFacts, RecoveringIsQuiet,
         CallProvider, Opened, TerminalStatuses, At, Goto, durable, callback, process,
         history, Live, Starting, Executing, BeforeOpen
<1>9. ASSUME NEW h \in Turns, ProviderRejects(h)
      PROVE  ResultRecorded'
  BY <1>9 DEF TypeOK, ResultRecorded, StartFacts, ContinuationFacts, RecoveringIsQuiet,
         ProviderRejects, Opened, TerminalStatuses, At, FailStartingTask, DropStartup,
         callback, process, history, Live, Starting, Executing, Goto, Reject,
         CanSaveResult, BeforeOpen
<1>10. ASSUME NEW h \in Turns, SessionMismatch(h)
      PROVE  ResultRecorded'
  BY <1>10 DEF TypeOK, ResultRecorded, StartFacts, ContinuationFacts, RecoveringIsQuiet,
         SessionMismatch, Opened, TerminalStatuses, At, FailStartingTask, DropStartup,
         callback, process, history, Live, Starting, Executing, Goto, Reject,
         CanSaveResult, BeforeOpen
<1>11. ASSUME NEW h \in Turns, ProviderReturns(h)
      PROVE  ResultRecorded'
  BY <1>11 DEF TypeOK, ResultRecorded, StartFacts, ContinuationFacts, RecoveringIsQuiet,
         ProviderReturns, Opened, TerminalStatuses, At, Goto, Reject, DropStartup,
         AttachSession, CanTransition, callback, process, history, Live, Starting,
         Executing, LegalTransitions, BeforeOpen
<1>12. ASSUME NEW h \in Turns, OpenGate(h)
      PROVE  ResultRecorded'
  BY <1>12 DEF TypeOK, ResultRecorded, StartFacts, ContinuationFacts, RecoveringIsQuiet,
         OpenGate, Opened, TerminalStatuses, At, Goto, durable, maps, callback,
         provider, process, history, Live, Starting, Executing, BeforeOpen
<1>13. ASSUME NEW h \in Turns, NEW outcome \in TerminalStatuses, FinalizeTask(h, outcome)
      PROVE  ResultRecorded'
  BY <1>13 DEF TypeOK, ResultRecorded, StartFacts, ContinuationFacts, RecoveringIsQuiet,
         FinalizeTask, Opened, TerminalStatuses, At, Goto, Reject, CanTransition,
         callback, provider, process, history, Live, Starting, Executing,
         LegalTransitions, BeforeOpen
<1>14. ASSUME NEW h \in Turns, FinishRenderer(h)
      PROVE  ResultRecorded'
  BY <1>14 DEF TypeOK, ResultRecorded, StartFacts, ContinuationFacts, RecoveringIsQuiet,
         FinishRenderer, Opened, TerminalStatuses, At, Goto, durable, callback,
         provider, process, history, Live, Starting, Executing, BeforeOpen
<1>15. ASSUME NEW h \in Turns, AskUser(h)
      PROVE  ResultRecorded'
  BY <1>15 DEF TypeOK, ResultRecorded, StartFacts, ContinuationFacts, RecoveringIsQuiet,
         AskUser, Opened, TerminalStatuses, GateResolved, maps, provider, process,
         history, Live, Starting, Executing, BeforeOpen
<1>16. ASSUME NEW h \in Turns, ResolveDecision(h)
      PROVE  ResultRecorded'
  BY <1>16 DEF TypeOK, ResultRecorded, StartFacts, ContinuationFacts, RecoveringIsQuiet,
         ResolveDecision, Opened, TerminalStatuses, maps, provider, process, history,
         Live, Starting, Executing, BeforeOpen
<1>17. ASSUME NEW c \in Cancels, CancelByThread(c)
      PROVE  ResultRecorded'
  BY <1>17 DEF TypeOK, ResultRecorded, StartFacts, ContinuationFacts, RecoveringIsQuiet,
         CancelByThread, Opened, TerminalStatuses, ActiveStatuses, callback, process,
         history, Live, Starting, Executing, BeforeOpen
<1>18. ASSUME Crash
      PROVE  ResultRecorded'
  BY <1>18 DEF TypeOK, ResultRecorded, StartFacts, ContinuationFacts, RecoveringIsQuiet,
         Crash, Opened, TerminalStatuses, LoseMemory, durable, Live, Starting,
         Executing, history, BeforeOpen
<1>19. ASSUME NEW t \in Tasks, CrashInCreate(t)
      PROVE  ResultRecorded'
  BY <1>19 DEF TypeOK, ResultRecorded, StartFacts, ContinuationFacts, RecoveringIsQuiet,
         CrashInCreate, Opened, TerminalStatuses, At, LoseMemory, Live, Starting,
         Executing, history, BeforeOpen
<1>20. ASSUME NEW h \in Continuations, CrashInReopen(h)
      PROVE  ResultRecorded'
  BY <1>20 DEF TypeOK, ResultRecorded, StartFacts, ContinuationFacts, RecoveringIsQuiet,
         CrashInReopen, Opened, TerminalStatuses, At, LoseMemory, ReopenRow, CanReopen,
         Live, Starting, Executing, history, BeforeOpen
<1>21. ASSUME NEW t \in Tasks, NEW outcome \in TerminalStatuses, NEW saved \in BOOLEAN,
           CrashInTerminate(t, outcome, saved)
      PROVE  ResultRecorded'
  BY <1>21 DEF TypeOK, ResultRecorded, StartFacts, ContinuationFacts, RecoveringIsQuiet,
         CrashInTerminate, Opened, TerminalStatuses, ActiveStatuses, LoseMemory,
         CanTransition, Live, Starting, Executing, history, LegalTransitions, BeforeOpen
<1>22. ASSUME NEW t \in Tasks, RecoverTask(t)
      PROVE  ResultRecorded'
  BY <1>22 DEF TypeOK, ResultRecorded, StartFacts, ContinuationFacts, RecoveringIsQuiet,
         RecoverTask, Opened, TerminalStatuses, Recoverable, maps, callback, provider,
         process, history, Live, Starting, Executing, BeforeOpen
<1>23. CASE UNCHANGED <<pc, status, result>>
  BY <1>23 DEF ResultRecorded
<1>24. ASSUME NEW t \in Tasks, CrashInAttach(t)
      PROVE  ResultRecorded'
  BY <1>24 DEF TypeOK, ResultRecorded, StartFacts, ContinuationFacts,
         RecoveringIsQuiet, CrashInAttach, AttachSession, Opened, TerminalStatuses,
         At, LoseMemory, Live, Starting, Executing, history, BeforeOpen
<1>25. ASSUME NEW stale \in SUBSET StaleHolds, CrashInRelease(stale)
      PROVE  ResultRecorded'
  BY <1>25 DEF TypeOK, ResultRecorded, StartFacts, ContinuationFacts,
         RecoveringIsQuiet, CrashInRelease, Recovered, ReleaseAll, StaleHolds, Opened,
         TerminalStatuses, LoseMemory, Live, Starting, Executing, history, BeforeOpen
<1> QED
  BY <1>1, <1>2, <1>3, <1>4, <1>5, <1>6, <1>7, <1>8, <1>9, <1>10, <1>11, <1>12, <1>13,
         <1>14, <1>15, <1>16, <1>17, <1>18, <1>19, <1>20, <1>21, <1>22, <1>23, <1>24, <1>25
     DEF Next, StartStep, ContinueStep, TurnStep, RunCallback, CrashStep, RecoveryStep,
         Emit, EmitCriticalUsage, RequestDecision, InterruptRun, RunEnds, CancelTail,
         RecoverRuntime, Recovered, ReleaseAll, StaleHolds, CancelRun, ReleaseActive, durable, maps, callback, provider,
         process, history, vars

\* No handler runs between a crash and the end of recovery.
LEMMA RecoveringIsQuietStep ==
    ASSUME Inv, [Next]_vars
    PROVE  RecoveringIsQuiet'
<1> USE TurnFacts DEF Inv
<1>1. ASSUME NEW t \in Tasks, StartReserve(t)
      PROVE  RecoveringIsQuiet'
  BY <1>1 DEF TypeOK, RecoveringIsQuiet, StartReserve, Live, At, Goto, maps, callback,
         provider, process, history, BeforeOpen, Starting, Executing
<1>2. ASSUME NEW t \in Tasks, StartWorkspace(t)
      PROVE  RecoveringIsQuiet'
  BY <1>2 DEF TypeOK, RecoveringIsQuiet, StartWorkspace, Live, At, Goto, Reject,
         callback, provider, process, history, BeforeOpen, Starting, Executing
<1>3. ASSUME NEW t \in Tasks, CreateWithWorktree(t)
      PROVE  RecoveringIsQuiet'
  BY <1>3 DEF TypeOK, RecoveringIsQuiet, CreateWithWorktree, Live, At, Goto, Reject,
         callback, provider, process, BeforeOpen, Starting, Executing
<1>4. ASSUME NEW t \in Tasks, BeginStarting(t)
      PROVE  RecoveringIsQuiet'
  BY <1>4 DEF TypeOK, RecoveringIsQuiet, BeginStarting, Live, At, Goto, Reject,
         CanTransition, callback, provider, process, history, BeforeOpen, Starting,
         Executing, LegalTransitions
<1>5. ASSUME NEW h \in Continuations, ContinueCheck(h)
      PROVE  RecoveringIsQuiet'
  BY <1>5 DEF TypeOK, RecoveringIsQuiet, ContinueCheck, Live, At, Goto, CanReopen,
         durable, maps, callback, provider, process, history, BeforeOpen, Starting,
         Executing, TerminalStatuses
<1>6. ASSUME NEW h \in Continuations, ContinueReserve(h)
      PROVE  RecoveringIsQuiet'
  BY <1>6 DEF TypeOK, RecoveringIsQuiet, ContinueReserve, Live, At, Goto, maps,
         callback, provider, process, history, BeforeOpen, Starting, Executing
<1>7. ASSUME NEW h \in Continuations, ReopenForContinuation(h)
      PROVE  RecoveringIsQuiet'
  BY <1>7 DEF TypeOK, RecoveringIsQuiet, ReopenForContinuation, Live, At, Goto, Reject,
         ReopenRow, CanReopen, callback, provider, process, history, BeforeOpen,
         Starting, Executing, TerminalStatuses
<1>8. ASSUME NEW h \in Turns, CallProvider(h)
      PROVE  RecoveringIsQuiet'
  BY <1>8 DEF TypeOK, RecoveringIsQuiet, CallProvider, Live, At, Goto, durable,
         callback, process, history, BeforeOpen, Starting, Executing
<1>9. ASSUME NEW h \in Turns, ProviderRejects(h)
      PROVE  RecoveringIsQuiet'
  BY <1>9 DEF TypeOK, RecoveringIsQuiet, ProviderRejects, Live, At, FailStartingTask,
         DropStartup, callback, process, history, BeforeOpen, Starting, Executing,
         TerminalStatuses, Goto, Reject, CanSaveResult
<1>10. ASSUME NEW h \in Turns, SessionMismatch(h)
      PROVE  RecoveringIsQuiet'
  BY <1>10 DEF TypeOK, RecoveringIsQuiet, SessionMismatch, Live, At, FailStartingTask,
         DropStartup, callback, process, history, BeforeOpen, Starting, Executing,
         TerminalStatuses, Goto, Reject, CanSaveResult
<1>11. ASSUME NEW h \in Turns, ProviderReturns(h)
      PROVE  RecoveringIsQuiet'
  BY <1>11 DEF TypeOK, RecoveringIsQuiet, ProviderReturns, Live, TerminalStatuses, At,
         Goto, Reject, DropStartup, AttachSession, CanTransition, callback, process,
         history, BeforeOpen, Starting, Executing, LegalTransitions
<1>12. ASSUME NEW h \in Turns, OpenGate(h)
      PROVE  RecoveringIsQuiet'
  BY <1>12 DEF TypeOK, RecoveringIsQuiet, OpenGate, Live, At, Goto, durable, maps,
         callback, provider, process, history, BeforeOpen, Starting, Executing
<1>13. ASSUME NEW h \in Turns, NEW outcome \in TerminalStatuses, FinalizeTask(h, outcome)
      PROVE  RecoveringIsQuiet'
  BY <1>13 DEF TypeOK, RecoveringIsQuiet, FinalizeTask, Live, TerminalStatuses, At,
         Goto, Reject, CanTransition, callback, provider, process, history, BeforeOpen,
         Starting, Executing, LegalTransitions
<1>14. ASSUME NEW h \in Turns, FinishRenderer(h)
      PROVE  RecoveringIsQuiet'
  BY <1>14 DEF TypeOK, RecoveringIsQuiet, FinishRenderer, Live, At, Goto, durable,
         callback, provider, process, history, BeforeOpen, Starting, Executing
<1>15. ASSUME Crash
      PROVE  RecoveringIsQuiet'
  BY <1>15 DEF TypeOK, RecoveringIsQuiet, Crash, Live, LoseMemory, durable, BeforeOpen,
         Starting, Executing, history
<1>16. ASSUME NEW t \in Tasks, CrashInCreate(t)
      PROVE  RecoveringIsQuiet'
  BY <1>16 DEF TypeOK, RecoveringIsQuiet, CrashInCreate, Live, At, LoseMemory,
         BeforeOpen, Starting, Executing, history
<1>17. ASSUME NEW h \in Continuations, CrashInReopen(h)
      PROVE  RecoveringIsQuiet'
  BY <1>17 DEF TypeOK, RecoveringIsQuiet, CrashInReopen, Live, At, LoseMemory,
         ReopenRow, CanReopen, BeforeOpen, Starting, Executing, history,
         TerminalStatuses
<1>18. ASSUME NEW t \in Tasks, NEW outcome \in TerminalStatuses, NEW saved \in BOOLEAN,
           CrashInTerminate(t, outcome, saved)
      PROVE  RecoveringIsQuiet'
  BY <1>18 DEF TypeOK, RecoveringIsQuiet, CrashInTerminate, Live, ActiveStatuses,
         LoseMemory, CanTransition, BeforeOpen, Starting, Executing, history,
         LegalTransitions
<1>19. ASSUME RecoverRuntime
      PROVE  RecoveringIsQuiet'
  BY <1>19 DEF TypeOK, RecoveringIsQuiet, RecoverRuntime, Recovered, ReleaseAll, StaleHolds, Live, Recoverable, maps,
         callback, provider, history, BeforeOpen, Starting, Executing
<1>20. CASE UNCHANGED <<pc, mode>>
  BY <1>20 DEF RecoveringIsQuiet
<1>21. ASSUME NEW t \in Tasks, CrashInAttach(t)
      PROVE  RecoveringIsQuiet'
  BY <1>21 DEF TypeOK, RecoveringIsQuiet, CrashInAttach, AttachSession, Live, At,
         LoseMemory, BeforeOpen, Starting, Executing, history, TerminalStatuses
<1>22. ASSUME NEW stale \in SUBSET StaleHolds, CrashInRelease(stale)
      PROVE  RecoveringIsQuiet'
  BY <1>22 DEF TypeOK, RecoveringIsQuiet, CrashInRelease, Recovered, ReleaseAll,
         StaleHolds, Live, LoseMemory, BeforeOpen, Starting, Executing, history,
         TerminalStatuses
<1> QED
  BY <1>1, <1>2, <1>3, <1>4, <1>5, <1>6, <1>7, <1>8, <1>9, <1>10, <1>11, <1>12, <1>13,
         <1>14, <1>15, <1>16, <1>17, <1>18, <1>19, <1>20, <1>21, <1>22
     DEF Next, StartStep, ContinueStep, TurnStep, RunCallback, CrashStep, RecoveryStep,
         Emit, EmitCriticalUsage, RequestDecision, InterruptRun, AskUser,
         ResolveDecision, RunEnds, CancelByThread, CancelTail, RecoverTask, CancelRun,
         ReleaseActive, durable, maps, callback, provider, process, history, vars

\* No handler moves a row that has a result, except by the reopening that
\* deletes it.
LEMMA ResultMatchesStatusStep ==
    ASSUME Inv, [Next]_vars
    PROVE  ResultMatchesStatus'
<1> USE TurnFacts DEF Inv
<1>1. ASSUME NEW t \in Tasks, CreateWithWorktree(t)
      PROVE  ResultMatchesStatus'
  BY SMTT(40), <1>1 DEF TypeOK, ResultMatchesStatus, StartFacts, ContinuationFacts, Results,
         TaskStatus, ActiveStatuses, TerminalStatuses, CreateWithWorktree, At, Goto,
         Reject, callback, provider, process
<1>2. ASSUME NEW t \in Tasks, BeginStarting(t)
      PROVE  ResultMatchesStatus'
  BY <1>2, SMTT(30) DEF TypeOK, ResultMatchesStatus, StartFacts, ContinuationFacts, Results,
         TaskStatus, ActiveStatuses, TerminalStatuses, BeginStarting, At, Goto, Reject,
         CanTransition, callback, provider, process, history, LegalTransitions
<1>3. ASSUME NEW h \in Continuations, ReopenForContinuation(h)
      PROVE  ResultMatchesStatus'
  <2>1. CASE CanReopen(status[Task(h)], Task(h) \in session)
    <3>1. /\ status' = [status EXCEPT ![Task(h)] = "starting"]
          /\ result' = [result EXCEPT ![Task(h)] = "none"]
      BY <1>3, <2>1 DEF ReopenForContinuation, ReopenRow
    <3> QED
      BY <3>1 DEF TypeOK, ResultMatchesStatus
  <2>2. CASE ~CanReopen(status[Task(h)], Task(h) \in session)
    BY <1>3, <2>2 DEF ReopenForContinuation, ResultMatchesStatus
  <2> QED
    BY <2>1, <2>2
<1>4. ASSUME NEW h \in Turns, ProviderRejects(h)
      PROVE  ResultMatchesStatus'
  BY <1>4 DEF TypeOK, ResultMatchesStatus, StartFacts, ContinuationFacts, Results,
         TaskStatus, ActiveStatuses, TerminalStatuses, ProviderRejects, At,
         FailStartingTask, DropStartup, callback, process, history, Goto, Reject,
         CanSaveResult
<1>5. ASSUME NEW h \in Turns, SessionMismatch(h)
      PROVE  ResultMatchesStatus'
  BY <1>5 DEF TypeOK, ResultMatchesStatus, StartFacts, ContinuationFacts, Results,
         TaskStatus, ActiveStatuses, TerminalStatuses, SessionMismatch, At,
         FailStartingTask, DropStartup, callback, process, history, Goto, Reject,
         CanSaveResult
<1>6. ASSUME NEW h \in Turns, ProviderReturns(h)
      PROVE  ResultMatchesStatus'
  BY <1>6 DEF TypeOK, ResultMatchesStatus, StartFacts, ContinuationFacts, Results,
         TaskStatus, ActiveStatuses, TerminalStatuses, ProviderReturns, At, Goto,
         Reject, DropStartup, AttachSession, CanTransition, callback, process, history,
         LegalTransitions
<1>7. ASSUME NEW h \in Turns, NEW outcome \in TerminalStatuses, FinalizeTask(h, outcome)
      PROVE  ResultMatchesStatus'
  BY <1>7 DEF TypeOK, ResultMatchesStatus, StartFacts, ContinuationFacts, Results,
         TaskStatus, ActiveStatuses, TerminalStatuses, FinalizeTask, At, Goto, Reject,
         CanTransition, callback, provider, process, history, LegalTransitions
<1>8. ASSUME NEW h \in Turns, AskUser(h)
      PROVE  ResultMatchesStatus'
  BY <1>8 DEF TypeOK, ResultMatchesStatus, StartFacts, ContinuationFacts, Results,
         TaskStatus, ActiveStatuses, TerminalStatuses, AskUser, GateResolved, maps,
         provider, process, history
<1>9. ASSUME NEW h \in Turns, ResolveDecision(h)
      PROVE  ResultMatchesStatus'
  BY <1>9 DEF TypeOK, ResultMatchesStatus, StartFacts, ContinuationFacts, Results,
         TaskStatus, ActiveStatuses, TerminalStatuses, ResolveDecision, maps, provider,
         process, history
<1>10. ASSUME NEW c \in Cancels, CancelByThread(c)
      PROVE  ResultMatchesStatus'
  BY <1>10 DEF TypeOK, ResultMatchesStatus, StartFacts, ContinuationFacts, Results,
         TaskStatus, ActiveStatuses, TerminalStatuses, CancelByThread, callback,
         process, history
<1>11. ASSUME NEW t \in Tasks, CrashInCreate(t)
      PROVE  ResultMatchesStatus'
  BY SMTT(40), <1>11 DEF TypeOK, ResultMatchesStatus, StartFacts, ContinuationFacts, Results,
         TaskStatus, ActiveStatuses, TerminalStatuses, CrashInCreate, At, LoseMemory,
         Live, history, BeforeOpen, Starting, Executing
<1>12. ASSUME NEW h \in Continuations, CrashInReopen(h)
      PROVE  ResultMatchesStatus'
  BY <1>12 DEF TypeOK, ResultMatchesStatus, StartFacts, ContinuationFacts, Results,
         TaskStatus, ActiveStatuses, TerminalStatuses, CrashInReopen, At, LoseMemory,
         ReopenRow, CanReopen, Live, history, BeforeOpen, Starting, Executing
<1>13. ASSUME NEW t \in Tasks, NEW outcome \in TerminalStatuses, NEW saved \in BOOLEAN,
           CrashInTerminate(t, outcome, saved)
      PROVE  ResultMatchesStatus'
  BY <1>13 DEF TypeOK, ResultMatchesStatus, StartFacts, ContinuationFacts, Results,
         TaskStatus, ActiveStatuses, TerminalStatuses, CrashInTerminate, LoseMemory,
         CanTransition, Live, history, LegalTransitions, BeforeOpen, Starting, Executing
<1>14. ASSUME NEW t \in Tasks, RecoverTask(t)
      PROVE  ResultMatchesStatus'
  BY <1>14 DEF TypeOK, ResultMatchesStatus, StartFacts, ContinuationFacts, Results,
         TaskStatus, ActiveStatuses, TerminalStatuses, RecoverTask, Recoverable, maps,
         callback, provider, process, history
<1>15. CASE UNCHANGED <<status, result>>
  BY <1>15 DEF ResultMatchesStatus
<1>16. ASSUME NEW t \in Tasks, CrashInAttach(t)
      PROVE  ResultMatchesStatus'
  BY <1>16 DEF TypeOK, ResultMatchesStatus, StartFacts, ContinuationFacts, Results,
         TaskStatus, ActiveStatuses, TerminalStatuses, CrashInAttach, AttachSession,
         At, LoseMemory, Live, history, BeforeOpen, Starting, Executing
<1>17. ASSUME NEW stale \in SUBSET StaleHolds, CrashInRelease(stale)
      PROVE  ResultMatchesStatus'
  BY <1>17 DEF TypeOK, ResultMatchesStatus, StartFacts, ContinuationFacts, Results,
         TaskStatus, ActiveStatuses, TerminalStatuses, CrashInRelease, Recovered,
         ReleaseAll, StaleHolds, LoseMemory, Live, history, BeforeOpen, Starting,
         Executing
<1> QED
  BY <1>1, <1>2, <1>3, <1>4, <1>5, <1>6, <1>7, <1>8, <1>9, <1>10, <1>11, <1>12, <1>13,
         <1>14, <1>15, <1>16, <1>17
     DEF Next, StartStep, ContinueStep, TurnStep, RunCallback, CrashStep, RecoveryStep,
         StartReserve, StartWorkspace, ContinueCheck, ContinueReserve, CallProvider,
         OpenGate, FinishRenderer, Emit, EmitCriticalUsage, RequestDecision,
         InterruptRun, RunEnds, CancelTail, Crash, RecoverRuntime, Recovered, ReleaseAll, StaleHolds, Reject, CancelRun,
         ReleaseActive, LoseMemory, durable, maps, callback, provider, process, history,
         vars

\* Only a turn whose session is stored moves its task to running.
LEMMA RunningHasSessionStep ==
    ASSUME Inv, [Next]_vars
    PROVE  RunningHasSession'
<1> USE TurnFacts DEF Inv
<1>1. ASSUME NEW t \in Tasks, CreateWithWorktree(t)
      PROVE  RunningHasSession'
  BY <1>1 DEF TypeOK, RunningHasSession, ContinuationFacts, TerminalStatuses,
         CreateWithWorktree, At, Goto, Reject, callback, provider, process
<1>2. ASSUME NEW t \in Tasks, BeginStarting(t)
      PROVE  RunningHasSession'
  BY <1>2 DEF TypeOK, RunningHasSession, ContinuationFacts, TerminalStatuses,
         BeginStarting, At, Goto, Reject, CanTransition, callback, provider, process,
         history, LegalTransitions
<1>3. ASSUME NEW h \in Continuations, ReopenForContinuation(h)
      PROVE  RunningHasSession'
  BY <1>3 DEF TypeOK, RunningHasSession, ContinuationFacts, TerminalStatuses,
         ReopenForContinuation, At, Goto, Reject, ReopenRow, CanReopen, callback,
         provider, process, history
<1>4. ASSUME NEW h \in Turns, ProviderRejects(h)
      PROVE  RunningHasSession'
  BY <1>4 DEF TypeOK, RunningHasSession, ContinuationFacts, TerminalStatuses,
         ProviderRejects, At, FailStartingTask, DropStartup, callback, process, history,
         Goto, Reject, CanSaveResult
<1>5. ASSUME NEW h \in Turns, SessionMismatch(h)
      PROVE  RunningHasSession'
  BY <1>5 DEF TypeOK, RunningHasSession, ContinuationFacts, TerminalStatuses,
         SessionMismatch, At, FailStartingTask, DropStartup, callback, process, history,
         Goto, Reject, CanSaveResult
<1>6. ASSUME NEW h \in Turns, ProviderReturns(h)
      PROVE  RunningHasSession'
  BY <1>6 DEF TypeOK, RunningHasSession, ContinuationFacts, TerminalStatuses,
         ProviderReturns, At, Goto, Reject, DropStartup, AttachSession, CanTransition,
         callback, process, history, LegalTransitions
<1>7. ASSUME NEW h \in Turns, NEW outcome \in TerminalStatuses, FinalizeTask(h, outcome)
      PROVE  RunningHasSession'
  BY <1>7 DEF TypeOK, RunningHasSession, ContinuationFacts, TerminalStatuses,
         FinalizeTask, At, Goto, Reject, CanTransition, callback, provider, process,
         history, LegalTransitions
<1>8. ASSUME NEW h \in Turns, AskUser(h)
      PROVE  RunningHasSession'
  BY <1>8 DEF TypeOK, RunningHasSession, ContinuationFacts, TerminalStatuses, AskUser,
         GateResolved, maps, provider, process, history
<1>9. ASSUME NEW h \in Turns, ResolveDecision(h)
      PROVE  RunningHasSession'
  BY <1>9 DEF TypeOK, RunningHasSession, ContinuationFacts, TerminalStatuses,
         ResolveDecision, maps, provider, process, history
<1>10. ASSUME NEW c \in Cancels, CancelByThread(c)
      PROVE  RunningHasSession'
  BY <1>10 DEF TypeOK, RunningHasSession, ContinuationFacts, TerminalStatuses,
         CancelByThread, ActiveStatuses, callback, process, history
<1>11. ASSUME NEW t \in Tasks, CrashInCreate(t)
      PROVE  RunningHasSession'
  BY <1>11 DEF TypeOK, RunningHasSession, ContinuationFacts, TerminalStatuses,
         CrashInCreate, At, LoseMemory, Live, history, BeforeOpen, Starting, Executing
<1>12. ASSUME NEW h \in Continuations, CrashInReopen(h)
      PROVE  RunningHasSession'
  BY <1>12 DEF TypeOK, RunningHasSession, ContinuationFacts, TerminalStatuses,
         CrashInReopen, At, LoseMemory, ReopenRow, CanReopen, Live, history, BeforeOpen,
         Starting, Executing
<1>13. ASSUME NEW t \in Tasks, NEW outcome \in TerminalStatuses, NEW saved \in BOOLEAN,
           CrashInTerminate(t, outcome, saved)
      PROVE  RunningHasSession'
  BY <1>13 DEF TypeOK, RunningHasSession, ContinuationFacts, TerminalStatuses,
         CrashInTerminate, ActiveStatuses, LoseMemory, CanTransition, Live, history,
         LegalTransitions, BeforeOpen, Starting, Executing
<1>14. ASSUME NEW t \in Tasks, RecoverTask(t)
      PROVE  RunningHasSession'
  BY <1>14 DEF TypeOK, RunningHasSession, ContinuationFacts, TerminalStatuses,
         RecoverTask, Recoverable, maps, callback, provider, process, history
<1>15. CASE UNCHANGED <<status, session>>
  BY <1>15 DEF RunningHasSession
<1>16. ASSUME NEW t \in Tasks, CrashInAttach(t)
      PROVE  RunningHasSession'
  BY <1>16 DEF TypeOK, RunningHasSession, ContinuationFacts, TerminalStatuses,
         CrashInAttach, AttachSession, At, LoseMemory, Live, history, BeforeOpen,
         Starting, Executing
<1>17. ASSUME NEW stale \in SUBSET StaleHolds, CrashInRelease(stale)
      PROVE  RunningHasSession'
  BY <1>17 DEF TypeOK, RunningHasSession, ContinuationFacts, TerminalStatuses,
         CrashInRelease, Recovered, ReleaseAll, StaleHolds, LoseMemory, Live, history,
         BeforeOpen, Starting, Executing
<1> QED
  BY <1>1, <1>2, <1>3, <1>4, <1>5, <1>6, <1>7, <1>8, <1>9, <1>10, <1>11, <1>12, <1>13,
         <1>14, <1>15, <1>16, <1>17
     DEF Next, StartStep, ContinueStep, TurnStep, RunCallback, CrashStep, RecoveryStep,
         StartReserve, StartWorkspace, ContinueCheck, ContinueReserve, CallProvider,
         OpenGate, FinishRenderer, Emit, EmitCriticalUsage, RequestDecision,
         InterruptRun, RunEnds, CancelTail, Crash, RecoverRuntime, Recovered, ReleaseAll, StaleHolds, Reject, CancelRun,
         ReleaseActive, LoseMemory, durable, maps, callback, provider, process, history,
         vars

\* The renderer map never points at a turn older than the one that opened the
\* task last.
LEMMA RendererFactsStep ==
    ASSUME Inv, [Next]_vars
    PROVE  RendererFacts'
<1> USE TurnFacts DEF Inv
<1>1. ASSUME NEW t \in Tasks, StartReserve(t)
      PROVE  RendererFacts'
  BY <1>1 DEF TypeOK, RendererFacts, StartFacts, ContinuationFacts, StartReserve, At,
         Goto, maps, callback, provider, process, history, TerminalStatuses
<1>2. ASSUME NEW t \in Tasks, StartWorkspace(t)
      PROVE  RendererFacts'
  BY <1>2 DEF TypeOK, RendererFacts, StartFacts, ContinuationFacts, StartWorkspace, At,
         Goto, Reject, callback, provider, process, history, TerminalStatuses, Erase
<1>3. ASSUME NEW t \in Tasks, CreateWithWorktree(t)
      PROVE  RendererFacts'
  BY <1>3 DEF TypeOK, RendererFacts, StartFacts, ContinuationFacts, CreateWithWorktree,
         At, Goto, Reject, callback, provider, process, TerminalStatuses, Erase
<1>4. ASSUME NEW t \in Tasks, BeginStarting(t)
      PROVE  RendererFacts'
  BY <1>4 DEF TypeOK, RendererFacts, StartFacts, ContinuationFacts, BeginStarting, At,
         Goto, Reject, CanTransition, callback, provider, process, history,
         TerminalStatuses, Erase, LegalTransitions
<1>5. ASSUME NEW h \in Continuations, ContinueCheck(h)
      PROVE  RendererFacts'
  BY <1>5 DEF TypeOK, RendererFacts, StartFacts, ContinuationFacts, ContinueCheck, At,
         Goto, CanReopen, durable, maps, callback, provider, process, history,
         TerminalStatuses
<1>6. ASSUME NEW h \in Continuations, ContinueReserve(h)
      PROVE  RendererFacts'
  BY <1>6 DEF TypeOK, RendererFacts, StartFacts, ContinuationFacts, ContinueReserve, At,
         Goto, maps, callback, provider, process, history, TerminalStatuses
<1>7. ASSUME NEW h \in Continuations, ReopenForContinuation(h)
      PROVE  RendererFacts'
  BY <1>7 DEF TypeOK, RendererFacts, StartFacts, ContinuationFacts,
         ReopenForContinuation, At, Goto, Reject, ReopenRow, CanReopen, callback,
         provider, process, history, TerminalStatuses, Erase
<1>8. ASSUME NEW h \in Turns, CallProvider(h)
      PROVE  RendererFacts'
  BY <1>8 DEF TypeOK, RendererFacts, StartFacts, ContinuationFacts, CallProvider, At,
         Goto, durable, callback, process, history, TerminalStatuses
<1>9. ASSUME NEW h \in Turns, ProviderRejects(h)
      PROVE  RendererFacts'
  BY <1>9 DEF TypeOK, RendererFacts, StartFacts, ContinuationFacts, ProviderRejects, At,
         FailStartingTask, DropStartup, Erase, callback, process, history,
         TerminalStatuses, Goto, Reject, CanSaveResult
<1>10. ASSUME NEW h \in Turns, SessionMismatch(h)
      PROVE  RendererFacts'
  BY <1>10 DEF TypeOK, RendererFacts, StartFacts, ContinuationFacts, SessionMismatch,
         At, FailStartingTask, DropStartup, Erase, callback, process, history,
         TerminalStatuses, Goto, Reject, CanSaveResult
<1>11. ASSUME NEW h \in Turns, ProviderReturns(h)
      PROVE  RendererFacts'
  BY <1>11 DEF TypeOK, RendererFacts, StartFacts, ContinuationFacts, ProviderReturns,
         TerminalStatuses, At, Goto, Reject, DropStartup, AttachSession, CanTransition,
         callback, process, history, Erase, LegalTransitions
<1>12. ASSUME NEW h \in Turns, OpenGate(h)
      PROVE  RendererFacts'
  BY <1>12 DEF TypeOK, RendererFacts, StartFacts, ContinuationFacts, OpenGate, At, Goto,
         durable, maps, callback, provider, process, history, TerminalStatuses
<1>13. ASSUME NEW h \in Turns, NEW outcome \in TerminalStatuses, FinalizeTask(h, outcome)
      PROVE  RendererFacts'
  BY <1>13 DEF TypeOK, RendererFacts, StartFacts, ContinuationFacts, FinalizeTask,
         TerminalStatuses, At, Goto, Reject, CanTransition, Erase, callback, provider,
         process, history, LegalTransitions
<1>14. ASSUME NEW h \in Turns, FinishRenderer(h)
      PROVE  RendererFacts'
  BY <1>14 DEF TypeOK, RendererFacts, StartFacts, ContinuationFacts, FinishRenderer, At,
         Goto, Erase, durable, callback, provider, process, history, TerminalStatuses
<1>15. ASSUME NEW c \in Cancels, CancelTail(c)
      PROVE  RendererFacts'
  BY <1>15 DEF TypeOK, RendererFacts, StartFacts, ContinuationFacts, CancelTail, Erase,
         callback, provider, process, history, TerminalStatuses
<1>16. ASSUME Crash
      PROVE  RendererFacts'
  BY <1>16 DEF TypeOK, RendererFacts, StartFacts, ContinuationFacts, Crash, LoseMemory,
         durable, TerminalStatuses, Live, history, BeforeOpen, Starting, Executing
<1>17. ASSUME NEW t \in Tasks, CrashInCreate(t)
      PROVE  RendererFacts'
  BY <1>17 DEF TypeOK, RendererFacts, StartFacts, ContinuationFacts, CrashInCreate, At,
         LoseMemory, TerminalStatuses, Live, history, BeforeOpen, Starting, Executing
<1>18. ASSUME NEW h \in Continuations, CrashInReopen(h)
      PROVE  RendererFacts'
  BY <1>18 DEF TypeOK, RendererFacts, StartFacts, ContinuationFacts, CrashInReopen, At,
         LoseMemory, ReopenRow, CanReopen, TerminalStatuses, Live, history, BeforeOpen,
         Starting, Executing
<1>19. ASSUME NEW t \in Tasks, NEW outcome \in TerminalStatuses, NEW saved \in BOOLEAN,
           CrashInTerminate(t, outcome, saved)
      PROVE  RendererFacts'
  BY <1>19 DEF TypeOK, RendererFacts, StartFacts, ContinuationFacts, CrashInTerminate,
         ActiveStatuses, LoseMemory, CanTransition, TerminalStatuses, Live, history,
         LegalTransitions, BeforeOpen, Starting, Executing
<1>20. CASE UNCHANGED <<pc, activeRenderers, current>>
  BY <1>20 DEF RendererFacts
<1>21. ASSUME NEW t \in Tasks, CrashInAttach(t)
      PROVE  RendererFacts'
  BY <1>21 DEF TypeOK, RendererFacts, StartFacts, ContinuationFacts, CrashInAttach,
         AttachSession, At, LoseMemory, TerminalStatuses, Live, history, BeforeOpen,
         Starting, Executing
<1>22. ASSUME NEW stale \in SUBSET StaleHolds, CrashInRelease(stale)
      PROVE  RendererFacts'
  BY <1>22 DEF TypeOK, RendererFacts, StartFacts, ContinuationFacts, CrashInRelease,
         Recovered, ReleaseAll, StaleHolds, LoseMemory, TerminalStatuses, Live,
         history, BeforeOpen, Starting, Executing
<1> QED
  BY <1>1, <1>2, <1>3, <1>4, <1>5, <1>6, <1>7, <1>8, <1>9, <1>10, <1>11, <1>12, <1>13,
         <1>14, <1>15, <1>16, <1>17, <1>18, <1>19, <1>20, <1>21, <1>22
     DEF Next, StartStep, ContinueStep, TurnStep, RunCallback, CrashStep, RecoveryStep,
         Emit, EmitCriticalUsage, RequestDecision, InterruptRun, AskUser,
         ResolveDecision, RunEnds, CancelByThread, RecoverTask, RecoverRuntime, Recovered, ReleaseAll, StaleHolds,
         CancelRun, ReleaseActive, durable, maps, callback, provider, process, history,
         vars

\* A turn leaves its startup or its execution only together with the status it
\* is responsible for.
LEMMA OwnerFactsStep ==
    ASSUME Inv, [Next]_vars
    PROVE  OwnerFacts'
<1> USE TurnFacts DEF Inv
<1>1. ASSUME NEW t \in Tasks, StartReserve(t)
      PROVE  OwnerFacts'
  BY <1>1 DEF TypeOK, OwnerFacts, StartFacts, ContinuationFacts, RecoveringIsQuiet,
         RendererFacts, ResultMatchesStatus, TaskStatus, StartReserve, Starting,
         Executing, At, Goto, maps, callback, provider, process, history,
         TerminalStatuses, Live, BeforeOpen
<1>2. ASSUME NEW t \in Tasks, StartWorkspace(t)
      PROVE  OwnerFacts'
  BY <1>2 DEF TypeOK, OwnerFacts, StartFacts, ContinuationFacts, RecoveringIsQuiet,
         RendererFacts, ResultMatchesStatus, TaskStatus, StartWorkspace, Starting,
         Executing, At, Goto, Reject, callback, provider, process, history,
         TerminalStatuses, Live, BeforeOpen
<1>3. ASSUME NEW t \in Tasks, CreateWithWorktree(t)
      PROVE  OwnerFacts'
  BY <1>3 DEF TypeOK, OwnerFacts, StartFacts, ContinuationFacts, RecoveringIsQuiet,
         RendererFacts, ResultMatchesStatus, TaskStatus, CreateWithWorktree, Starting,
         Executing, At, Goto, Reject, callback, provider, process, TerminalStatuses,
         Live, BeforeOpen
<1>4. ASSUME NEW t \in Tasks, BeginStarting(t)
      PROVE  OwnerFacts'
  BY SMTT(40), <1>4 DEF TypeOK, OwnerFacts, StartFacts, ContinuationFacts, RecoveringIsQuiet,
         RendererFacts, ResultMatchesStatus, TaskStatus, BeginStarting, Starting,
         Executing, At, Goto, Reject, CanTransition, callback, provider, process,
         history, TerminalStatuses, Live, LegalTransitions, BeforeOpen
<1>5. ASSUME NEW h \in Continuations, ContinueCheck(h)
      PROVE  OwnerFacts'
  BY <1>5 DEF TypeOK, OwnerFacts, StartFacts, ContinuationFacts, RecoveringIsQuiet,
         RendererFacts, ResultMatchesStatus, TaskStatus, ContinueCheck, Starting,
         Executing, At, Goto, CanReopen, durable, maps, callback, provider, process,
         history, TerminalStatuses, Live, BeforeOpen
<1>6. ASSUME NEW h \in Continuations, ContinueReserve(h)
      PROVE  OwnerFacts'
  BY <1>6 DEF TypeOK, OwnerFacts, StartFacts, ContinuationFacts, RecoveringIsQuiet,
         RendererFacts, ResultMatchesStatus, TaskStatus, ContinueReserve, Starting,
         Executing, At, Goto, maps, callback, provider, process, history,
         TerminalStatuses, Live, BeforeOpen
<1>7. ASSUME NEW h \in Continuations, ReopenForContinuation(h)
      PROVE  OwnerFacts'
  BY SMTT(40), <1>7 DEF TypeOK, OwnerFacts, StartFacts, ContinuationFacts, RecoveringIsQuiet,
         RendererFacts, ResultMatchesStatus, TaskStatus, ReopenForContinuation,
         Starting, Executing, At, Goto, Reject, ReopenRow, CanReopen, callback,
         provider, process, history, TerminalStatuses, Live, BeforeOpen
<1>8. ASSUME NEW h \in Turns, CallProvider(h)
      PROVE  OwnerFacts'
  BY <1>8 DEF TypeOK, OwnerFacts, StartFacts, ContinuationFacts, RecoveringIsQuiet,
         RendererFacts, ResultMatchesStatus, TaskStatus, CallProvider, Starting,
         Executing, At, Goto, durable, callback, process, history, TerminalStatuses,
         Live, BeforeOpen
<1>9. ASSUME NEW h \in Turns, ProviderRejects(h)
      PROVE  OwnerFacts'
  BY <1>9 DEF TypeOK, OwnerFacts, StartFacts, ContinuationFacts, RecoveringIsQuiet,
         RendererFacts, ResultMatchesStatus, TaskStatus, ProviderRejects, Starting,
         Executing, At, FailStartingTask, DropStartup, callback, process, history,
         TerminalStatuses, Live, Goto, Reject, CanSaveResult, BeforeOpen
<1>10. ASSUME NEW h \in Turns, SessionMismatch(h)
      PROVE  OwnerFacts'
  BY <1>10 DEF TypeOK, OwnerFacts, StartFacts, ContinuationFacts, RecoveringIsQuiet,
         RendererFacts, ResultMatchesStatus, TaskStatus, SessionMismatch, Starting,
         Executing, At, FailStartingTask, DropStartup, callback, process, history,
         TerminalStatuses, Live, Goto, Reject, CanSaveResult, BeforeOpen
<1>11. ASSUME NEW h \in Turns, ProviderReturns(h)
      PROVE  OwnerFacts'
  BY <1>11 DEF TypeOK, OwnerFacts, StartFacts, ContinuationFacts, RecoveringIsQuiet,
         RendererFacts, ResultMatchesStatus, TaskStatus, ProviderReturns, Starting,
         Executing, TerminalStatuses, At, Goto, Reject, DropStartup, AttachSession,
         CanTransition, callback, process, history, Live, LegalTransitions, BeforeOpen
<1>12. ASSUME NEW h \in Turns, OpenGate(h)
      PROVE  OwnerFacts'
  BY <1>12 DEF TypeOK, OwnerFacts, StartFacts, ContinuationFacts, RecoveringIsQuiet,
         RendererFacts, ResultMatchesStatus, TaskStatus, OpenGate, Starting, Executing,
         At, Goto, durable, maps, callback, provider, process, history,
         TerminalStatuses, Live, BeforeOpen
<1>13. ASSUME NEW h \in Turns, NEW outcome \in TerminalStatuses, FinalizeTask(h, outcome)
      PROVE  OwnerFacts'
  <2> DEFINE t == Task(h)
  <2>1. status[t] \in {"running", "waiting_for_user"}
          => status'[t] \in TerminalStatuses /\ result[t] = "none"
    BY <1>13 DEF TypeOK, ResultMatchesStatus, FinalizeTask, CanTransition, LegalTransitions,
                TerminalStatuses, Results
  <2>2. status'[t] \in TerminalStatuses \cup {status[t]}
    BY <1>13 DEF TypeOK, FinalizeTask
  <2>3. \A u \in Tasks : u # t => status'[u] = status[u]
    BY <1>13 DEF TypeOK, FinalizeTask
  <2>4. /\ pc[h] = "awaiting" /\ pc' \in [Turns -> Points]
        /\ \A g \in Turns : g # h => pc'[g] = pc[g]
        /\ UNCHANGED <<mode, current>>
    BY <1>13 DEF TypeOK, FinalizeTask, At, Goto, Reject, Points, Live, process, history
  <2>5. SUFFICES ASSUME mode = "up", NEW u \in Tasks
                 PROVE  /\ status'[u] = "starting"
                              => /\ current[u] \in Turns /\ Task(current[u]) = u
                                 /\ pc'[current[u]] \in Starting
                        /\ status'[u] \in {"running", "waiting_for_user"}
                              => \E g \in Turns : Task(g) = u /\ pc'[g] \in Executing
    BY <2>4 DEF OwnerFacts
  <2>6. CASE u = t
    BY <2>1, <2>2, <2>4, <2>5, <2>6 DEF OwnerFacts, Starting, TerminalStatuses
  <2>7. CASE u # t
    BY <2>3, <2>4, <2>5, <2>7 DEF OwnerFacts
  <2> QED
    BY <2>6, <2>7
<1>14. ASSUME NEW h \in Turns, FinishRenderer(h)
      PROVE  OwnerFacts'
  BY <1>14 DEF TypeOK, OwnerFacts, StartFacts, ContinuationFacts, RecoveringIsQuiet,
         RendererFacts, ResultMatchesStatus, TaskStatus, FinishRenderer, Starting,
         Executing, At, Goto, durable, callback, provider, process, history,
         TerminalStatuses, Live, BeforeOpen
<1>15. ASSUME NEW h \in Turns, AskUser(h)
      PROVE  OwnerFacts'
  BY <1>15 DEF TypeOK, OwnerFacts, StartFacts, ContinuationFacts, RecoveringIsQuiet,
         RendererFacts, ResultMatchesStatus, TaskStatus, AskUser, Starting, Executing,
         GateResolved, maps, provider, process, history, TerminalStatuses, Live,
         BeforeOpen
<1>16. ASSUME NEW h \in Turns, ResolveDecision(h)
      PROVE  OwnerFacts'
  BY <1>16 DEF TypeOK, OwnerFacts, StartFacts, ContinuationFacts, RecoveringIsQuiet,
         RendererFacts, ResultMatchesStatus, TaskStatus, ResolveDecision, Starting,
         Executing, maps, provider, process, history, TerminalStatuses, Live, BeforeOpen
<1>17. ASSUME NEW c \in Cancels, CancelByThread(c)
      PROVE  OwnerFacts'
  BY <1>17 DEF TypeOK, OwnerFacts, StartFacts, ContinuationFacts, RecoveringIsQuiet,
         RendererFacts, ResultMatchesStatus, TaskStatus, CancelByThread, Starting,
         Executing, ActiveStatuses, callback, process, history, TerminalStatuses, Live,
         BeforeOpen
<1>18. ASSUME Crash
      PROVE  OwnerFacts'
  BY <1>18 DEF TypeOK, OwnerFacts, StartFacts, ContinuationFacts, RecoveringIsQuiet,
         RendererFacts, ResultMatchesStatus, TaskStatus, Crash, Starting, Executing,
         LoseMemory, durable, TerminalStatuses, Live, history, BeforeOpen
<1>19. ASSUME NEW t \in Tasks, CrashInCreate(t)
      PROVE  OwnerFacts'
  BY <1>19 DEF TypeOK, OwnerFacts, StartFacts, ContinuationFacts, RecoveringIsQuiet,
         RendererFacts, ResultMatchesStatus, TaskStatus, CrashInCreate, Starting,
         Executing, At, LoseMemory, TerminalStatuses, Live, history, BeforeOpen
<1>20. ASSUME NEW h \in Continuations, CrashInReopen(h)
      PROVE  OwnerFacts'
  BY <1>20 DEF TypeOK, OwnerFacts, StartFacts, ContinuationFacts, RecoveringIsQuiet,
         RendererFacts, ResultMatchesStatus, TaskStatus, CrashInReopen, Starting,
         Executing, At, LoseMemory, ReopenRow, CanReopen, TerminalStatuses, Live,
         history, BeforeOpen
<1>21. ASSUME NEW t \in Tasks, NEW outcome \in TerminalStatuses, NEW saved \in BOOLEAN,
           CrashInTerminate(t, outcome, saved)
      PROVE  OwnerFacts'
  BY <1>21 DEF TypeOK, OwnerFacts, StartFacts, ContinuationFacts, RecoveringIsQuiet,
         RendererFacts, ResultMatchesStatus, TaskStatus, CrashInTerminate, Starting,
         Executing, ActiveStatuses, LoseMemory, CanTransition, TerminalStatuses, Live,
         history, LegalTransitions, BeforeOpen
<1>22. ASSUME NEW t \in Tasks, RecoverTask(t)
      PROVE  OwnerFacts'
  BY <1>22 DEF TypeOK, OwnerFacts, StartFacts, ContinuationFacts, RecoveringIsQuiet,
         RendererFacts, ResultMatchesStatus, TaskStatus, RecoverTask, Starting,
         Executing, Recoverable, maps, callback, provider, process, history,
         TerminalStatuses, Live, BeforeOpen
<1>23. ASSUME RecoverRuntime
      PROVE  OwnerFacts'
  BY <1>23 DEF TypeOK, OwnerFacts, StartFacts, ContinuationFacts, RecoveringIsQuiet,
         RendererFacts, ResultMatchesStatus, TaskStatus, RecoverRuntime, Recovered, ReleaseAll, StaleHolds, Starting,
         Executing, Recoverable, maps, callback, provider, history, TerminalStatuses,
         Live, BeforeOpen
<1>24. CASE UNCHANGED <<status, pc, current, mode>>
  BY <1>24 DEF OwnerFacts
<1>25. ASSUME NEW t \in Tasks, CrashInAttach(t)
      PROVE  OwnerFacts'
  BY <1>25 DEF TypeOK, OwnerFacts, StartFacts, ContinuationFacts, RecoveringIsQuiet,
         RendererFacts, ResultMatchesStatus, TaskStatus, CrashInAttach, AttachSession,
         Starting, Executing, At, LoseMemory, TerminalStatuses, Live, history,
         BeforeOpen
<1>26. ASSUME NEW stale \in SUBSET StaleHolds, CrashInRelease(stale)
      PROVE  OwnerFacts'
  BY <1>26 DEF TypeOK, OwnerFacts, StartFacts, ContinuationFacts, RecoveringIsQuiet,
         RendererFacts, ResultMatchesStatus, TaskStatus, CrashInRelease, Recovered,
         ReleaseAll, StaleHolds, Starting, Executing, LoseMemory, TerminalStatuses,
         Live, history, BeforeOpen
<1> QED
  BY <1>1, <1>2, <1>3, <1>4, <1>5, <1>6, <1>7, <1>8, <1>9, <1>10, <1>11, <1>12, <1>13,
         <1>14, <1>15, <1>16, <1>17, <1>18, <1>19, <1>20, <1>21, <1>22, <1>23, <1>24, <1>25, <1>26
     DEF Next, StartStep, ContinueStep, TurnStep, RunCallback, CrashStep, RecoveryStep,
         Emit, EmitCriticalUsage, RequestDecision, InterruptRun, RunEnds, CancelTail,
         CancelRun, ReleaseActive, durable, maps, callback, provider, process, history,
         vars

\* A turn reserves only from a point where it has no reservation.
LEMMA HoldFactsStep ==
    ASSUME Inv, [Next]_vars
    PROVE  HoldFacts'
<1> USE TurnFacts DEF Inv
<1>1. ASSUME NEW t \in Tasks, StartReserve(t)
      PROVE  HoldFacts'
  BY <1>1 DEF TypeOK, HoldFacts, StartFacts, ContinuationFacts, TerminalStatuses,
         StartReserve, At, Goto, maps, callback, provider, process, history
<1>2. ASSUME NEW t \in Tasks, StartWorkspace(t)
      PROVE  HoldFacts'
  BY <1>2 DEF TypeOK, HoldFacts, StartFacts, ContinuationFacts, TerminalStatuses,
         StartWorkspace, At, Goto, Reject, callback, provider, process, history,
         Release, Finished
<1>3. ASSUME NEW t \in Tasks, CreateWithWorktree(t)
      PROVE  HoldFacts'
  BY <1>3 DEF TypeOK, HoldFacts, StartFacts, ContinuationFacts, TerminalStatuses,
         CreateWithWorktree, At, Goto, Reject, callback, provider, process, Release,
         Finished
<1>4. ASSUME NEW t \in Tasks, BeginStarting(t)
      PROVE  HoldFacts'
  BY SMTT(40), <1>4 DEF TypeOK, HoldFacts, StartFacts, ContinuationFacts, TerminalStatuses,
         BeginStarting, At, Goto, Reject, CanTransition, callback, provider, process,
         history, Release, LegalTransitions, Finished
<1>5. ASSUME NEW h \in Continuations, ContinueCheck(h)
      PROVE  HoldFacts'
  BY <1>5 DEF TypeOK, HoldFacts, StartFacts, ContinuationFacts, TerminalStatuses,
         ContinueCheck, At, Goto, CanReopen, durable, maps, callback, provider, process,
         history
<1>6. ASSUME NEW h \in Continuations, ContinueReserve(h)
      PROVE  HoldFacts'
  BY <1>6 DEF TypeOK, HoldFacts, StartFacts, ContinuationFacts, TerminalStatuses,
         ContinueReserve, At, Goto, maps, callback, provider, process, history
<1>7. ASSUME NEW h \in Continuations, ReopenForContinuation(h)
      PROVE  HoldFacts'
  BY SMTT(40), <1>7 DEF TypeOK, HoldFacts, StartFacts, ContinuationFacts, TerminalStatuses,
         ReopenForContinuation, At, Goto, Reject, ReopenRow, CanReopen, callback,
         provider, process, history, Release, Finished
<1>8. ASSUME NEW h \in Turns, CallProvider(h)
      PROVE  HoldFacts'
  BY <1>8 DEF TypeOK, HoldFacts, StartFacts, ContinuationFacts, TerminalStatuses,
         CallProvider, At, Goto, durable, callback, process, history
<1>9. ASSUME NEW h \in Turns, ProviderRejects(h)
      PROVE  HoldFacts'
  <2>1. /\ pc[h] = "calling" /\ pc' \in [Turns -> Points]
        /\ pc'[h] \in {"finishing", "done"}
        /\ \A g \in Turns : g # h => pc'[g] = pc[g] /\ hold'[g] = hold[g]
    BY SMTT(40), <1>9 DEF TypeOK, ProviderRejects, FailStartingTask, At, Goto, Reject, Complete, Release,
                Finished, Points, Live
  <2>2. UNCHANGED <<session, holdTask>>
    BY <1>9 DEF ProviderRejects
  <2>3. \A t \in Tasks : status[t] # "absent" => status'[t] # "absent"
    BY <1>9 DEF TypeOK, ProviderRejects, FailStartingTask, TerminalStatuses
  <2> QED
    BY <2>1, <2>2, <2>3 DEF HoldFacts, TypeOK
<1>10. ASSUME NEW h \in Turns, SessionMismatch(h)
      PROVE  HoldFacts'
  BY SMTT(40), <1>10 DEF TypeOK, HoldFacts, StartFacts, ContinuationFacts, TerminalStatuses,
         SessionMismatch, At, FailStartingTask, DropStartup, callback, process, history,
         Goto, Reject, CanSaveResult, Complete, Release, Finished
<1>11. ASSUME NEW h \in Turns, ProviderReturns(h)
      PROVE  HoldFacts'
  BY <1>11 DEF TypeOK, HoldFacts, StartFacts, ContinuationFacts, TerminalStatuses,
         ProviderReturns, At, Goto, Reject, DropStartup, AttachSession, CanTransition,
         callback, process, history, Release, LegalTransitions, Finished
<1>12. ASSUME NEW h \in Turns, OpenGate(h)
      PROVE  HoldFacts'
  BY <1>12 DEF TypeOK, HoldFacts, StartFacts, ContinuationFacts, TerminalStatuses,
         OpenGate, At, Goto, durable, maps, callback, provider, process, history
<1>13. ASSUME NEW h \in Turns, NEW outcome \in TerminalStatuses, FinalizeTask(h, outcome)
      PROVE  HoldFacts'
  BY <1>13 DEF TypeOK, HoldFacts, StartFacts, ContinuationFacts, TerminalStatuses,
         FinalizeTask, At, Goto, Reject, CanTransition, Complete, callback, provider,
         process, history, Release, LegalTransitions, Finished
<1>14. ASSUME NEW h \in Turns, FinishRenderer(h)
      PROVE  HoldFacts'
  BY <1>14 DEF TypeOK, HoldFacts, StartFacts, ContinuationFacts, TerminalStatuses,
         FinishRenderer, At, Goto, durable, callback, provider, process, history
<1>15. ASSUME NEW h \in Turns, AskUser(h)
      PROVE  HoldFacts'
  BY <1>15 DEF TypeOK, HoldFacts, StartFacts, ContinuationFacts, TerminalStatuses,
         AskUser, GateResolved, maps, provider, process, history
<1>16. ASSUME NEW h \in Turns, ResolveDecision(h)
      PROVE  HoldFacts'
  BY <1>16 DEF TypeOK, HoldFacts, StartFacts, ContinuationFacts, TerminalStatuses,
         ResolveDecision, maps, provider, process, history
<1>17. ASSUME NEW c \in Cancels, CancelByThread(c)
      PROVE  HoldFacts'
  BY <1>17 DEF TypeOK, HoldFacts, StartFacts, ContinuationFacts, TerminalStatuses,
         CancelByThread, ActiveStatuses, ReleaseActive, callback, process, history,
         Release, Finished
<1>18. ASSUME NEW c \in Cancels, CancelTail(c)
      PROVE  HoldFacts'
  BY <1>18 DEF TypeOK, HoldFacts, StartFacts, ContinuationFacts, TerminalStatuses,
         CancelTail, ReleaseActive, callback, provider, process, history, Release,
         Finished
<1>19. ASSUME Crash
      PROVE  HoldFacts'
  BY <1>19 DEF TypeOK, HoldFacts, StartFacts, ContinuationFacts, TerminalStatuses,
         Crash, LoseMemory, durable, Live, history, BeforeOpen, Starting, Executing
<1>20. ASSUME NEW t \in Tasks, CrashInCreate(t)
      PROVE  HoldFacts'
  BY <1>20 DEF TypeOK, HoldFacts, StartFacts, ContinuationFacts, TerminalStatuses,
         CrashInCreate, At, LoseMemory, Live, history, BeforeOpen, Starting, Executing
<1>21. ASSUME NEW h \in Continuations, CrashInReopen(h)
      PROVE  HoldFacts'
  BY <1>21 DEF TypeOK, HoldFacts, StartFacts, ContinuationFacts, TerminalStatuses,
         CrashInReopen, At, LoseMemory, ReopenRow, CanReopen, Live, history, BeforeOpen,
         Starting, Executing
<1>22. ASSUME NEW t \in Tasks, NEW outcome \in TerminalStatuses, NEW saved \in BOOLEAN,
           CrashInTerminate(t, outcome, saved)
      PROVE  HoldFacts'
  BY <1>22 DEF TypeOK, HoldFacts, StartFacts, ContinuationFacts, TerminalStatuses,
         CrashInTerminate, ActiveStatuses, LoseMemory, CanTransition, Live, history,
         LegalTransitions, BeforeOpen, Starting, Executing
<1>23. ASSUME NEW t \in Tasks, RecoverTask(t)
      PROVE  HoldFacts'
  BY <1>23 DEF TypeOK, HoldFacts, StartFacts, ContinuationFacts, TerminalStatuses,
         RecoverTask, Recoverable, maps, callback, provider, process, history
<1>24. ASSUME RecoverRuntime
      PROVE  HoldFacts'
  BY <1>24 DEF TypeOK, HoldFacts, StartFacts, ContinuationFacts, TerminalStatuses,
         RecoverRuntime, Recovered, ReleaseAll, StaleHolds, Recoverable, maps, callback, provider, history
<1>25. CASE UNCHANGED <<pc, hold, holdTask, status, session>>
  BY <1>25 DEF HoldFacts
<1>26. ASSUME NEW t \in Tasks, CrashInAttach(t)
      PROVE  HoldFacts'
  BY <1>26 DEF TypeOK, HoldFacts, StartFacts, ContinuationFacts, TerminalStatuses,
         CrashInAttach, AttachSession, At, LoseMemory, Live, history, BeforeOpen,
         Starting, Executing
<1>27. ASSUME NEW stale \in SUBSET StaleHolds, CrashInRelease(stale)
      PROVE  HoldFacts'
  BY <1>27 DEF TypeOK, HoldFacts, StartFacts, ContinuationFacts, TerminalStatuses,
         CrashInRelease, Recovered, ReleaseAll, StaleHolds, LoseMemory, Live, history,
         BeforeOpen, Starting, Executing
<1> QED
  BY <1>1, <1>2, <1>3, <1>4, <1>5, <1>6, <1>7, <1>8, <1>9, <1>10, <1>11, <1>12, <1>13,
         <1>14, <1>15, <1>16, <1>17, <1>18, <1>19, <1>20, <1>21, <1>22, <1>23, <1>24,
         <1>25, <1>26, <1>27
     DEF Next, StartStep, ContinueStep, TurnStep, RunCallback, CrashStep, RecoveryStep,
         Emit, EmitCriticalUsage, RequestDecision, InterruptRun, RunEnds, CancelRun,
         durable, maps, callback, provider, process, history, vars

\* emit() appends only for the turn that opened the task last.
LEMMA NoForeignEventsStep ==
    ASSUME Inv, [Next]_vars
    PROVE  NoForeignEvents'
<1> USE TurnFacts DEF Inv
<1>1. ASSUME NEW t \in Tasks, CreateWithWorktree(t)
      PROVE  NoForeignEvents'
  BY <1>1 DEF TypeOK, NoForeignEvents, RendererFacts, CreateWithWorktree, At, Goto,
         Reject, callback, provider, process
<1>2. ASSUME NEW h \in Continuations, ReopenForContinuation(h)
      PROVE  NoForeignEvents'
  BY <1>2 DEF TypeOK, NoForeignEvents, RendererFacts, ReopenForContinuation, At, Goto,
         Reject, ReopenRow, CanReopen, callback, provider, process, history,
         TerminalStatuses
<1>3. ASSUME NEW h \in Turns, Emit(h)
      PROVE  NoForeignEvents'
  BY <1>3 DEF TypeOK, NoForeignEvents, RendererFacts, Emit, Accepts, RunEmits, durable,
         maps, callback, provider, process, TerminalStatuses
<1>4. ASSUME NEW h \in Turns, EmitCriticalUsage(h)
      PROVE  NoForeignEvents'
  BY <1>4 DEF TypeOK, NoForeignEvents, RendererFacts, EmitCriticalUsage, Accepts,
         RunEmits, durable, provider, process, TerminalStatuses
<1>5. CASE UNCHANGED <<log, current>>
  BY <1>5 DEF NoForeignEvents
<1> QED
  BY ZenonT(60), <1>1, <1>2, <1>3, <1>4, <1>5
     DEF Next, StartStep, ContinueStep, TurnStep, RunCallback, CrashStep, RecoveryStep,
         StartReserve, StartWorkspace, BeginStarting, ContinueCheck, ContinueReserve,
         CallProvider, ProviderRejects, SessionMismatch, ProviderReturns, OpenGate,
         FinalizeTask, FinishRenderer, RequestDecision, InterruptRun, AskUser,
         ResolveDecision, RunEnds, CancelByThread, CancelTail, Crash, CrashInCreate,
         CrashInReopen, CrashInAttach, CrashInRelease, AttachSession, CrashInTerminate, RecoverTask, RecoverRuntime, Recovered, ReleaseAll, StaleHolds, Reject,
         FailStartingTask, CancelRun, ReleaseActive, LoseMemory, ReopenRow, durable,
         maps, callback, provider, process, history, vars

\* A row enters and leaves waiting_for_user together with a decision request.
LEMMA WaitingIsAskedStep ==
    ASSUME Inv, [Next]_vars
    PROVE  WaitingIsAsked'
<1> USE TurnFacts DEF Inv
<1>1. ASSUME NEW t \in Tasks, CreateWithWorktree(t)
      PROVE  WaitingIsAsked'
  BY <1>1 DEF TypeOK, WaitingIsAsked, CreateWithWorktree, At, Goto, Reject, callback,
         provider, process
<1>2. ASSUME NEW t \in Tasks, BeginStarting(t)
      PROVE  WaitingIsAsked'
  BY <1>2 DEF TypeOK, WaitingIsAsked, BeginStarting, At, Goto, Reject, CanTransition,
         callback, provider, process, history, LegalTransitions
<1>3. ASSUME NEW h \in Continuations, ReopenForContinuation(h)
      PROVE  WaitingIsAsked'
  BY <1>3 DEF TypeOK, WaitingIsAsked, ReopenForContinuation, At, Goto, Reject,
         ReopenRow, CanReopen, callback, provider, process, history, TerminalStatuses
<1>4. ASSUME NEW h \in Turns, ProviderRejects(h)
      PROVE  WaitingIsAsked'
  BY <1>4 DEF TypeOK, WaitingIsAsked, ProviderRejects, At, FailStartingTask,
         DropStartup, callback, process, history, TerminalStatuses, Goto, Reject,
         CanSaveResult
<1>5. ASSUME NEW h \in Turns, SessionMismatch(h)
      PROVE  WaitingIsAsked'
  BY <1>5 DEF TypeOK, WaitingIsAsked, SessionMismatch, At, FailStartingTask,
         DropStartup, callback, process, history, TerminalStatuses, Goto, Reject,
         CanSaveResult
<1>6. ASSUME NEW h \in Turns, ProviderReturns(h)
      PROVE  WaitingIsAsked'
  BY <1>6 DEF TypeOK, WaitingIsAsked, ProviderReturns, TerminalStatuses, At, Goto,
         Reject, DropStartup, AttachSession, CanTransition, callback, process, history,
         LegalTransitions
<1>7. ASSUME NEW h \in Turns, NEW outcome \in TerminalStatuses, FinalizeTask(h, outcome)
      PROVE  WaitingIsAsked'
  BY <1>7 DEF TypeOK, WaitingIsAsked, FinalizeTask, TerminalStatuses, At, Goto, Reject,
         CanTransition, callback, provider, process, history, LegalTransitions
<1>8. ASSUME NEW h \in Turns, RequestDecision(h)
      PROVE  WaitingIsAsked'
  BY <1>8 DEF TypeOK, WaitingIsAsked, RequestDecision, RunEmits, GateResolved, durable,
         maps, provider, process, history
<1>9. ASSUME NEW h \in Turns, AskUser(h)
      PROVE  WaitingIsAsked'
  BY <1>9 DEF TypeOK, WaitingIsAsked, AskUser, RunEmits, GateResolved, maps, provider,
         process, history
<1>10. ASSUME NEW h \in Turns, ResolveDecision(h)
      PROVE  WaitingIsAsked'
  BY <1>10 DEF TypeOK, WaitingIsAsked, ResolveDecision, maps, provider, process, history
<1>11. ASSUME NEW c \in Cancels, CancelByThread(c)
      PROVE  WaitingIsAsked'
  BY <1>11 DEF TypeOK, WaitingIsAsked, CancelByThread, ActiveStatuses, callback,
         process, history
<1>12. ASSUME Crash
      PROVE  WaitingIsAsked'
  BY <1>12 DEF TypeOK, WaitingIsAsked, Crash, LoseMemory, durable, Live, history,
         BeforeOpen, Starting, Executing
<1>13. ASSUME NEW t \in Tasks, CrashInCreate(t)
      PROVE  WaitingIsAsked'
  BY <1>13 DEF TypeOK, WaitingIsAsked, CrashInCreate, At, LoseMemory, Live, history,
         BeforeOpen, Starting, Executing
<1>14. ASSUME NEW h \in Continuations, CrashInReopen(h)
      PROVE  WaitingIsAsked'
  BY <1>14 DEF TypeOK, WaitingIsAsked, CrashInReopen, At, LoseMemory, ReopenRow,
         CanReopen, Live, history, TerminalStatuses, BeforeOpen, Starting, Executing
<1>15. ASSUME NEW t \in Tasks, NEW outcome \in TerminalStatuses, NEW saved \in BOOLEAN,
           CrashInTerminate(t, outcome, saved)
      PROVE  WaitingIsAsked'
  BY <1>15 DEF TypeOK, WaitingIsAsked, CrashInTerminate, ActiveStatuses, LoseMemory,
         CanTransition, Live, history, LegalTransitions, BeforeOpen, Starting, Executing
<1>16. ASSUME NEW t \in Tasks, RecoverTask(t)
      PROVE  WaitingIsAsked'
  BY <1>16 DEF TypeOK, WaitingIsAsked, RecoverTask, Recoverable, maps, callback,
         provider, process, history
<1>17. ASSUME RecoverRuntime
      PROVE  WaitingIsAsked'
  BY <1>17 DEF TypeOK, WaitingIsAsked, RecoverRuntime, Recovered, ReleaseAll, StaleHolds, Recoverable, maps, callback,
         provider, history
<1>18. CASE UNCHANGED <<mode, status, decision>>
  BY <1>18 DEF WaitingIsAsked
<1>19. ASSUME NEW t \in Tasks, CrashInAttach(t)
      PROVE  WaitingIsAsked'
  BY <1>19 DEF TypeOK, WaitingIsAsked, CrashInAttach, AttachSession, At, LoseMemory,
         Live, history, TerminalStatuses, BeforeOpen, Starting, Executing
<1>20. ASSUME NEW stale \in SUBSET StaleHolds, CrashInRelease(stale)
      PROVE  WaitingIsAsked'
  BY <1>20 DEF TypeOK, WaitingIsAsked, CrashInRelease, Recovered, ReleaseAll,
         StaleHolds, LoseMemory, Live, history, TerminalStatuses, BeforeOpen,
         Starting, Executing
<1> QED
  BY <1>1, <1>2, <1>3, <1>4, <1>5, <1>6, <1>7, <1>8, <1>9, <1>10, <1>11, <1>12, <1>13,
         <1>14, <1>15, <1>16, <1>17, <1>18, <1>19, <1>20
     DEF Next, StartStep, ContinueStep, TurnStep, RunCallback, CrashStep, RecoveryStep,
         StartReserve, StartWorkspace, ContinueCheck, ContinueReserve, CallProvider,
         OpenGate, FinishRenderer, Emit, EmitCriticalUsage, InterruptRun, RunEnds,
         CancelTail, Reject, CancelRun, ReleaseActive, durable, maps, callback,
         provider, process, history, vars

\* Recovery settles the reservations of crashed turns, and nobody reopens one.
LEMMA CrashedHoldsReleasedStep ==
    ASSUME Inv, [Next]_vars
    PROVE  CrashedHoldsReleased'
<1> USE TurnFacts DEF Inv
<1>1. ASSUME NEW t \in Tasks, StartReserve(t)
      PROVE  CrashedHoldsReleased'
  BY <1>1 DEF TypeOK, CrashedHoldsReleased, StartFacts, ContinuationFacts, HoldFacts,
         TaskStatus, ActiveStatuses, StartReserve, At, Goto, maps, callback, provider,
         process, history, TerminalStatuses
<1>2. ASSUME NEW t \in Tasks, StartWorkspace(t)
      PROVE  CrashedHoldsReleased'
  BY <1>2 DEF TypeOK, CrashedHoldsReleased, StartFacts, ContinuationFacts, HoldFacts,
         TaskStatus, ActiveStatuses, StartWorkspace, At, Goto, Reject, callback,
         provider, process, history, TerminalStatuses, Release, Finished
<1>3. ASSUME NEW t \in Tasks, CreateWithWorktree(t)
      PROVE  CrashedHoldsReleased'
  BY <1>3 DEF TypeOK, CrashedHoldsReleased, StartFacts, ContinuationFacts, HoldFacts,
         TaskStatus, ActiveStatuses, CreateWithWorktree, At, Goto, Reject, callback,
         provider, process, TerminalStatuses, Release, Finished
<1>4. ASSUME NEW t \in Tasks, BeginStarting(t)
      PROVE  CrashedHoldsReleased'
  BY <1>4 DEF TypeOK, CrashedHoldsReleased, StartFacts, ContinuationFacts, HoldFacts,
         TaskStatus, ActiveStatuses, BeginStarting, At, Goto, Reject, CanTransition,
         callback, provider, process, history, TerminalStatuses, Release,
         LegalTransitions, Finished
<1>5. ASSUME NEW h \in Continuations, ContinueCheck(h)
      PROVE  CrashedHoldsReleased'
  BY <1>5 DEF TypeOK, CrashedHoldsReleased, StartFacts, ContinuationFacts, HoldFacts,
         TaskStatus, ActiveStatuses, ContinueCheck, At, Goto, CanReopen, durable, maps,
         callback, provider, process, history, TerminalStatuses
<1>6. ASSUME NEW h \in Continuations, ContinueReserve(h)
      PROVE  CrashedHoldsReleased'
  BY <1>6 DEF TypeOK, CrashedHoldsReleased, StartFacts, ContinuationFacts, HoldFacts,
         TaskStatus, ActiveStatuses, ContinueReserve, At, Goto, maps, callback,
         provider, process, history, TerminalStatuses
<1>7. ASSUME NEW h \in Continuations, ReopenForContinuation(h)
      PROVE  CrashedHoldsReleased'
  BY <1>7 DEF TypeOK, CrashedHoldsReleased, StartFacts, ContinuationFacts, HoldFacts,
         TaskStatus, ActiveStatuses, ReopenForContinuation, At, Goto, Reject, ReopenRow,
         CanReopen, callback, provider, process, history, TerminalStatuses, Release,
         Finished
<1>8. ASSUME NEW h \in Turns, CallProvider(h)
      PROVE  CrashedHoldsReleased'
  BY <1>8 DEF TypeOK, CrashedHoldsReleased, StartFacts, ContinuationFacts, HoldFacts,
         TaskStatus, ActiveStatuses, CallProvider, At, Goto, durable, callback, process,
         history, TerminalStatuses
<1>9. ASSUME NEW h \in Turns, ProviderRejects(h)
      PROVE  CrashedHoldsReleased'
  BY <1>9 DEF TypeOK, CrashedHoldsReleased, StartFacts, ContinuationFacts, HoldFacts,
         TaskStatus, ActiveStatuses, ProviderRejects, At, FailStartingTask, DropStartup,
         callback, process, history, TerminalStatuses, Goto, Reject, CanSaveResult,
         Complete, Release, Finished
<1>10. ASSUME NEW h \in Turns, SessionMismatch(h)
      PROVE  CrashedHoldsReleased'
  BY <1>10 DEF TypeOK, CrashedHoldsReleased, StartFacts, ContinuationFacts, HoldFacts,
         TaskStatus, ActiveStatuses, SessionMismatch, At, FailStartingTask, DropStartup,
         callback, process, history, TerminalStatuses, Goto, Reject, CanSaveResult,
         Complete, Release, Finished
<1>11. ASSUME NEW h \in Turns, ProviderReturns(h)
      PROVE  CrashedHoldsReleased'
  BY <1>11 DEF TypeOK, CrashedHoldsReleased, StartFacts, ContinuationFacts, HoldFacts,
         TaskStatus, ActiveStatuses, ProviderReturns, TerminalStatuses, At, Goto,
         Reject, DropStartup, AttachSession, CanTransition, callback, process, history,
         Release, LegalTransitions, Finished
<1>12. ASSUME NEW h \in Turns, OpenGate(h)
      PROVE  CrashedHoldsReleased'
  BY <1>12 DEF TypeOK, CrashedHoldsReleased, StartFacts, ContinuationFacts, HoldFacts,
         TaskStatus, ActiveStatuses, OpenGate, At, Goto, durable, maps, callback,
         provider, process, history, TerminalStatuses
<1>13. ASSUME NEW h \in Turns, NEW outcome \in TerminalStatuses, FinalizeTask(h, outcome)
      PROVE  CrashedHoldsReleased'
  BY <1>13 DEF TypeOK, CrashedHoldsReleased, StartFacts, ContinuationFacts, HoldFacts,
         TaskStatus, ActiveStatuses, FinalizeTask, TerminalStatuses, At, Goto, Reject,
         CanTransition, Complete, callback, provider, process, history, Release,
         LegalTransitions, Finished
<1>14. ASSUME NEW h \in Turns, FinishRenderer(h)
      PROVE  CrashedHoldsReleased'
  BY <1>14 DEF TypeOK, CrashedHoldsReleased, StartFacts, ContinuationFacts, HoldFacts,
         TaskStatus, ActiveStatuses, FinishRenderer, At, Goto, durable, callback,
         provider, process, history, TerminalStatuses
<1>15. ASSUME NEW c \in Cancels, CancelByThread(c)
      PROVE  CrashedHoldsReleased'
  BY <1>15 DEF TypeOK, CrashedHoldsReleased, StartFacts, ContinuationFacts, HoldFacts,
         TaskStatus, ActiveStatuses, CancelByThread, ReleaseActive, callback, process,
         history, TerminalStatuses, Release, Finished
<1>16. ASSUME NEW c \in Cancels, CancelTail(c)
      PROVE  CrashedHoldsReleased'
  BY <1>16 DEF TypeOK, CrashedHoldsReleased, StartFacts, ContinuationFacts, HoldFacts,
         TaskStatus, ActiveStatuses, CancelTail, ReleaseActive, callback, provider,
         process, history, TerminalStatuses, Release, Finished
<1>17. ASSUME Crash
      PROVE  CrashedHoldsReleased'
  BY <1>17 DEF TypeOK, CrashedHoldsReleased, StartFacts, ContinuationFacts, HoldFacts,
         TaskStatus, ActiveStatuses, Crash, LoseMemory, durable, TerminalStatuses, Live,
         history, BeforeOpen, Starting, Executing
<1>18. ASSUME NEW t \in Tasks, CrashInCreate(t)
      PROVE  CrashedHoldsReleased'
  BY <1>18 DEF TypeOK, CrashedHoldsReleased, StartFacts, ContinuationFacts, HoldFacts,
         TaskStatus, ActiveStatuses, CrashInCreate, At, LoseMemory, TerminalStatuses,
         Live, history, BeforeOpen, Starting, Executing
<1>19. ASSUME NEW h \in Continuations, CrashInReopen(h)
      PROVE  CrashedHoldsReleased'
  BY <1>19 DEF TypeOK, CrashedHoldsReleased, StartFacts, ContinuationFacts, HoldFacts,
         TaskStatus, ActiveStatuses, CrashInReopen, At, LoseMemory, ReopenRow,
         CanReopen, TerminalStatuses, Live, history, BeforeOpen, Starting, Executing
<1>20. ASSUME NEW t \in Tasks, NEW outcome \in TerminalStatuses, NEW saved \in BOOLEAN,
           CrashInTerminate(t, outcome, saved)
      PROVE  CrashedHoldsReleased'
  BY <1>20 DEF TypeOK, CrashedHoldsReleased, StartFacts, ContinuationFacts, HoldFacts,
         TaskStatus, ActiveStatuses, CrashInTerminate, LoseMemory, CanTransition,
         TerminalStatuses, Live, history, LegalTransitions, BeforeOpen, Starting,
         Executing
<1>21. ASSUME RecoverRuntime
      PROVE  CrashedHoldsReleased'
  BY <1>21 DEF TypeOK, CrashedHoldsReleased, StartFacts, ContinuationFacts, HoldFacts,
         TaskStatus, ActiveStatuses, RecoverRuntime, Recovered, ReleaseAll, StaleHolds, Recoverable, Stale, maps, callback,
         provider, history, TerminalStatuses
<1>22. CASE UNCHANGED <<mode, pc, hold, session>>
  BY <1>22 DEF CrashedHoldsReleased
<1>23. ASSUME NEW t \in Tasks, CrashInAttach(t)
      PROVE  CrashedHoldsReleased'
  BY <1>23 DEF TypeOK, CrashedHoldsReleased, StartFacts, ContinuationFacts, HoldFacts,
         TaskStatus, ActiveStatuses, CrashInAttach, AttachSession, At, LoseMemory,
         TerminalStatuses, Live, history, BeforeOpen, Starting, Executing
<1>24. ASSUME NEW stale \in SUBSET StaleHolds, CrashInRelease(stale)
      PROVE  CrashedHoldsReleased'
  BY <1>24 DEF TypeOK, CrashedHoldsReleased, StartFacts, ContinuationFacts, HoldFacts,
         TaskStatus, ActiveStatuses, CrashInRelease, Recovered, ReleaseAll,
         StaleHolds, LoseMemory, TerminalStatuses, Live, history, BeforeOpen,
         Starting, Executing
<1> QED
  BY <1>1, <1>2, <1>3, <1>4, <1>5, <1>6, <1>7, <1>8, <1>9, <1>10, <1>11, <1>12, <1>13,
         <1>14, <1>15, <1>16, <1>17, <1>18, <1>19, <1>20, <1>21, <1>22, <1>23, <1>24
     DEF Next, StartStep, ContinueStep, TurnStep, RunCallback, CrashStep, RecoveryStep,
         Emit, EmitCriticalUsage, RequestDecision, InterruptRun, AskUser,
         ResolveDecision, RunEnds, RecoverTask, CancelRun, durable, maps, callback,
         provider, process, history, vars

-----------------------------------------------------------------------------
(* The invariant and the safety properties.                                 *)

LEMMA InvInit == Init => Inv
<1> SUFFICES ASSUME Init PROVE Inv
  OBVIOUS
<1> USE TurnFacts DEF Init
<1>1. TypeOK
  BY TypeInit
<1>2. StartFacts /\ ContinuationFacts /\ RecoveringIsQuiet /\ ResultRecorded
  BY DEF StartFacts, ContinuationFacts, RecoveringIsQuiet, ResultRecorded, Opened,
         Starting, Executing
<1>3. ResultMatchesStatus /\ RunningHasSession /\ RendererFacts /\ OwnerFacts
  BY DEF ResultMatchesStatus, RunningHasSession, RendererFacts, OwnerFacts
<1>4. HoldFacts /\ NoForeignEvents /\ WaitingIsAsked /\ CrashedHoldsReleased
  BY DEF HoldFacts, NoForeignEvents, WaitingIsAsked, CrashedHoldsReleased
<1> QED
  BY <1>1, <1>2, <1>3, <1>4 DEF Inv

LEMMA InvStep == Inv /\ [Next]_vars => Inv'
<1> SUFFICES ASSUME Inv, [Next]_vars PROVE Inv'
  OBVIOUS
<1>1. TypeOK'
  BY TypeStep DEF Inv
<1>2. StartFacts' /\ ContinuationFacts' /\ RecoveringIsQuiet' /\ ResultRecorded'
  BY StartFactsStep, ContinuationFactsStep, RecoveringIsQuietStep, ResultRecordedStep
<1>3. ResultMatchesStatus' /\ RunningHasSession' /\ RendererFacts' /\ OwnerFacts'
  BY ResultMatchesStatusStep, RunningHasSessionStep, RendererFactsStep, OwnerFactsStep
<1>4. HoldFacts' /\ NoForeignEvents' /\ WaitingIsAsked' /\ CrashedHoldsReleased'
  BY HoldFactsStep, NoForeignEventsStep, WaitingIsAskedStep, CrashedHoldsReleasedStep
<1> QED
  BY <1>1, <1>2, <1>3, <1>4 DEF Inv

\* The inductive invariant holds in every reachable state.
THEOREM Invariance == Spec => []Inv
BY InvInit, InvStep, PTL DEF Spec

\* However turns, cancellations, callbacks and crashes interleave, a stored
\* result tells the status of its row.
THEOREM ResultCorrect == Spec => []ResultMatchesStatus
<1>1. Inv => ResultMatchesStatus
  BY DEF Inv
<1> QED
  BY <1>1, Invariance, PTL

\* A task that is running or waiting for the user has its provider session
\* stored, so that it can be continued after a crash.
THEOREM SessionCorrect == Spec => []RunningHasSession
<1>1. Inv => RunningHasSession
  BY DEF Inv
<1> QED
  BY <1>1, Invariance, PTL

\* No interleaving leaves a starting, running or waiting task without a turn
\* that will terminalize it.
THEOREM OwnerCorrect == Spec => []NonterminalHasOwner
<1>1. Inv => NonterminalHasOwner
  <2> SUFFICES ASSUME Inv, mode = "up", NEW t \in Tasks
               PROVE  /\ status[t] = "starting"
                            => \E h \in Turns : Task(h) = t /\ pc[h] \in Starting
                      /\ status[t] \in {"running", "waiting_for_user"}
                            => \E h \in Turns : Task(h) = t /\ pc[h] \in Executing
    BY DEF NonterminalHasOwner
  <2> QED
    BY DEF Inv, OwnerFacts
<1> QED
  BY <1>1, Invariance, PTL

\* A task waits for the user only while one of its turns has an open question.
THEOREM WaitingCorrect == Spec => []WaitingIsAsked
<1>1. Inv => WaitingIsAsked
  BY DEF Inv
<1> QED
  BY <1>1, Invariance, PTL

\* The events of a superseded turn are never appended to the task.
THEOREM EventsCorrect == Spec => []NoForeignEvents
<1>1. Inv => NoForeignEvents
  BY DEF Inv
<1> QED
  BY <1>1, Invariance, PTL

\* Recovery gives back the capacity of every crashed turn whose task had a
\* provider session.
THEOREM CrashedHoldsCorrect == Spec => []CrashedHoldsReleased
<1>1. Inv => CrashedHoldsReleased
  BY DEF Inv
<1> QED
  BY <1>1, Invariance, PTL

-----------------------------------------------------------------------------
(* Reservations are finished once.                                          *)

\* Only a turn that never reserved puts a reservation into the table; everyone
\* else finishes an active one.
LEMMA HoldsStep ==
    ASSUME Inv, [Next]_vars, NEW g \in Turns, hold[g] \in {"released", "consumed"}
    PROVE  hold'[g] = hold[g]
<1> USE TurnFacts DEF Inv, TypeOK
<1>1. ASSUME NEW t \in Tasks, StartReserve(t)
      PROVE  hold'[g] = hold[g]
  BY <1>1 DEF HoldFacts, StartReserve, At, Goto, maps, callback, provider, process,
         history
<1>2. ASSUME NEW t \in Tasks, StartWorkspace(t)
      PROVE  hold'[g] = hold[g]
  BY <1>2 DEF HoldFacts, StartWorkspace, At, Goto, Reject, callback, provider, process,
         history, Release, Finished
<1>3. ASSUME NEW t \in Tasks, CreateWithWorktree(t)
      PROVE  hold'[g] = hold[g]
  BY <1>3 DEF HoldFacts, CreateWithWorktree, At, Goto, Reject, callback, provider,
         process, Release, Finished
<1>4. ASSUME NEW t \in Tasks, BeginStarting(t)
      PROVE  hold'[g] = hold[g]
  BY <1>4 DEF HoldFacts, BeginStarting, At, Goto, Reject, CanTransition, callback,
         provider, process, history, Release, LegalTransitions, Finished
<1>5. ASSUME NEW h \in Continuations, ContinueReserve(h)
      PROVE  hold'[g] = hold[g]
  BY <1>5 DEF HoldFacts, ContinueReserve, At, Goto, maps, callback, provider, process,
         history
<1>6. ASSUME NEW h \in Continuations, ReopenForContinuation(h)
      PROVE  hold'[g] = hold[g]
  BY <1>6 DEF HoldFacts, ReopenForContinuation, At, Goto, Reject, ReopenRow, CanReopen,
         callback, provider, process, history, Release, TerminalStatuses, Finished
<1>7. ASSUME NEW h \in Turns, ProviderRejects(h)
      PROVE  hold'[g] = hold[g]
  BY <1>7 DEF HoldFacts, ProviderRejects, At, FailStartingTask, DropStartup, callback,
         process, history, TerminalStatuses, Goto, Reject, CanSaveResult, Complete,
         Release, Finished
<1>8. ASSUME NEW h \in Turns, SessionMismatch(h)
      PROVE  hold'[g] = hold[g]
  BY <1>8 DEF HoldFacts, SessionMismatch, At, FailStartingTask, DropStartup, callback,
         process, history, TerminalStatuses, Goto, Reject, CanSaveResult, Complete,
         Release, Finished
<1>9. ASSUME NEW h \in Turns, ProviderReturns(h)
      PROVE  hold'[g] = hold[g]
  BY <1>9 DEF HoldFacts, ProviderReturns, TerminalStatuses, At, Goto, Reject,
         DropStartup, AttachSession, CanTransition, callback, process, history, Release,
         LegalTransitions, Finished
<1>10. ASSUME NEW h \in Turns, NEW outcome \in TerminalStatuses, FinalizeTask(h, outcome)
      PROVE  hold'[g] = hold[g]
  BY <1>10 DEF HoldFacts, FinalizeTask, TerminalStatuses, At, Goto, Reject,
         CanTransition, Complete, callback, provider, process, history, Release,
         LegalTransitions, Finished
<1>11. ASSUME NEW c \in Cancels, CancelByThread(c)
      PROVE  hold'[g] = hold[g]
  BY <1>11 DEF HoldFacts, CancelByThread, ActiveStatuses, ReleaseActive, callback,
         process, history, Release, Finished
<1>12. ASSUME NEW c \in Cancels, CancelTail(c)
      PROVE  hold'[g] = hold[g]
  BY <1>12 DEF HoldFacts, CancelTail, ReleaseActive, callback, provider, process,
         history, Release, Finished
<1>13. ASSUME RecoverRuntime
      PROVE  hold'[g] = hold[g]
  BY <1>13 DEF HoldFacts, RecoverRuntime, Recovered, ReleaseAll, StaleHolds, Recoverable, Stale, maps, callback, provider,
         history, TerminalStatuses
<1>14. CASE UNCHANGED <<hold>>
  BY <1>14
<1>15. ASSUME NEW stale \in SUBSET StaleHolds, CrashInRelease(stale)
      PROVE  hold'[g] = hold[g]
  BY <1>15 DEF CrashInRelease, Recovered, ReleaseAll, StaleHolds
<1> QED
  BY <1>1, <1>2, <1>3, <1>4, <1>5, <1>6, <1>7, <1>8, <1>9, <1>10, <1>11, <1>12, <1>13,
         <1>14, <1>15
     DEF Next, StartStep, ContinueStep, TurnStep, RunCallback, CrashStep, RecoveryStep,
         ContinueCheck, CallProvider, OpenGate, FinishRenderer, Emit, EmitCriticalUsage,
         RequestDecision, InterruptRun, AskUser, ResolveDecision, RunEnds, Crash,
         CrashInCreate, CrashInReopen, CrashInAttach, CrashInTerminate, RecoverTask, CancelRun,
         LoseMemory, ReopenRow, durable, maps, callback, provider, process, history,
         vars

\* A turn, a cancellation and the recovery racing for a reservation finish it
\* once, and the first of them decides how.
THEOREM HoldsCorrect == Spec => HoldsFinishOnce
<1>1. Inv /\ [Next]_vars
        => [\A h \in Turns : hold[h] \in {"released", "consumed"} => hold'[h] = hold[h]]_vars
  BY HoldsStep
<1> QED
  BY <1>1, Invariance, PTL DEF Spec, HoldsFinishOnce

-----------------------------------------------------------------------------
(* The coordinator implements the lifecycle of a durable task.              *)

\* While a provider is being called, the task was started.
LEMMA CallingStarted ==
    ASSUME Inv, NEW h \in Turns, pc[h] = "calling"
    PROVE  status[Task(h)] \in {"starting", "running", "waiting_for_user"} \cup TerminalStatuses
BY TurnFacts DEF Inv, TypeOK, StartFacts, ContinuationFacts, TaskStatus, ActiveStatuses

\* failStartingTask ends the task's life, or finds it ended and recorded.
LEMMA FailStartingLifecycle ==
    ASSUME Inv, NEW h \in Turns, pc[h] = "calling", FailStartingTask(h), UNCHANGED session
    PROVE  Lifecycle!Terminate(Task(h)) \/ UNCHANGED <<status, session, result>>
<1> DEFINE t == Task(h)
<1>1. CASE status[t] \in TerminalStatuses
  <2>1. result[t] # "none"
    BY <1>1 DEF Inv, ResultRecorded, Opened, Starting
  <2>2. UNCHANGED <<status, result>>
    BY <1>1, <2>1, TurnFacts DEF Inv, TypeOK, FailStartingTask, CanSaveResult
  <2> QED
    BY <2>2
<1>2. CASE status[t] \notin TerminalStatuses
  <2>1. status[t] \in {"starting", "running", "waiting_for_user"}
    BY <1>2, CallingStarted
  <2>2. /\ status' = [status EXCEPT ![t] = "failed"]
        /\ result' \in {result, [result EXCEPT ![t] = "failed"]}
    BY <1>2 DEF FailStartingTask
  <2> QED
    BY <2>1, <2>2 DEF Lifecycle!Terminate, Lifecycle!CanTransition, Lifecycle!LegalTransitions,
                      Lifecycle!TerminalStatuses, Lifecycle!ActiveStatuses
<1> QED
  BY <1>1, <1>2

\* Every step is a step of the lifecycle of one task, or leaves all rows alone.
LEMMA LifecycleStep ==
    ASSUME Inv, [Next]_vars
    PROVE  [Lifecycle!Next]_(Lifecycle!lifecycleVars)
<1> USE TurnFacts DEF Inv, TypeOK, Lifecycle!CanTransition, Lifecycle!LegalTransitions,
        Lifecycle!TerminalStatuses, Lifecycle!ActiveStatuses
<1>1. ASSUME NEW t \in Tasks, CreateWithWorktree(t)
      PROVE  Lifecycle!Create(t) \/ UNCHANGED <<status, session, result>>
  BY <1>1 DEF StartFacts, ContinuationFacts, ResultRecorded, Opened, Lifecycle!Create,
         Lifecycle!CanReopen, TerminalStatuses, ActiveStatuses, TaskStatus,
         CreateWithWorktree, At, Goto, Reject, callback, provider, process, Executing,
         Starting
<1>2. ASSUME NEW t \in Tasks, BeginStarting(t)
      PROVE  Lifecycle!Progress(t) \/ UNCHANGED <<status, session, result>>
  BY <1>2 DEF StartFacts, ContinuationFacts, ResultRecorded, Opened, Lifecycle!Progress,
         Lifecycle!CanReopen, TerminalStatuses, ActiveStatuses, TaskStatus,
         BeginStarting, At, Goto, Reject, CanTransition, callback, provider, process,
         history, LegalTransitions, Executing, Starting
<1>3. ASSUME NEW h \in Continuations, ReopenForContinuation(h)
      PROVE  Lifecycle!Reopen(Task(h)) \/ UNCHANGED <<status, session, result>>
  BY <1>3 DEF StartFacts, ContinuationFacts, ResultRecorded, Opened, Lifecycle!Reopen,
         Lifecycle!CanReopen, TerminalStatuses, ActiveStatuses, TaskStatus,
         ReopenForContinuation, At, Goto, Reject, ReopenRow, CanReopen, callback,
         provider, process, history, Executing, Starting
<1>4. ASSUME NEW h \in Turns, ProviderRejects(h)
      PROVE  Lifecycle!Terminate(Task(h)) \/ UNCHANGED <<status, session, result>>
  BY <1>4, FailStartingLifecycle DEF ProviderRejects, At
<1>5. ASSUME NEW h \in Turns, SessionMismatch(h)
      PROVE  Lifecycle!Terminate(Task(h)) \/ UNCHANGED <<status, session, result>>
  BY <1>5, FailStartingLifecycle DEF SessionMismatch, At
<1>6. ASSUME NEW h \in Turns, ProviderReturns(h)
      PROVE  Lifecycle!Progress(Task(h)) \/ UNCHANGED <<status, session, result>>
  BY <1>6 DEF StartFacts, ContinuationFacts, ResultRecorded, Opened, Lifecycle!Progress,
         Lifecycle!CanReopen, TerminalStatuses, ActiveStatuses, TaskStatus,
         ProviderReturns, At, Goto, Reject, DropStartup, AttachSession, CanTransition,
         callback, process, history, LegalTransitions, Executing, Starting
<1>7. ASSUME NEW h \in Turns, NEW outcome \in TerminalStatuses, FinalizeTask(h, outcome)
      PROVE  Lifecycle!Terminate(Task(h)) \/ UNCHANGED <<status, session, result>>
  BY <1>7 DEF StartFacts, ContinuationFacts, ResultRecorded, Opened,
         Lifecycle!Terminate, Lifecycle!CanReopen, TerminalStatuses, ActiveStatuses,
         TaskStatus, FinalizeTask, At, Goto, Reject, CanTransition, callback, provider,
         process, history, LegalTransitions, Executing, Starting
<1>8. ASSUME NEW h \in Turns, AskUser(h)
      PROVE  Lifecycle!Progress(Task(h)) \/ UNCHANGED <<status, session, result>>
  BY <1>8 DEF StartFacts, ContinuationFacts, ResultRecorded, Opened, Lifecycle!Progress,
         Lifecycle!CanReopen, TerminalStatuses, ActiveStatuses, TaskStatus, AskUser,
         maps, provider, process, history, Executing, Starting
<1>9. ASSUME NEW h \in Turns, ResolveDecision(h)
      PROVE  Lifecycle!Progress(Task(h)) \/ UNCHANGED <<status, session, result>>
  BY <1>9 DEF StartFacts, ContinuationFacts, ResultRecorded, Opened, Lifecycle!Progress,
         Lifecycle!CanReopen, TerminalStatuses, ActiveStatuses, TaskStatus,
         ResolveDecision, maps, provider, process, history, Executing, Starting
<1>10. ASSUME NEW c \in Cancels, CancelByThread(c)
      PROVE  Lifecycle!Terminate(TaskOf[c])
  BY <1>10 DEF StartFacts, ContinuationFacts, ResultRecorded, Opened,
         Lifecycle!Terminate, Lifecycle!CanReopen, TerminalStatuses, ActiveStatuses,
         TaskStatus, CancelByThread, callback, process, history, Executing, Starting
<1>11. ASSUME NEW t \in Tasks, CrashInCreate(t)
      PROVE  Lifecycle!Create(t)
  BY <1>11 DEF StartFacts, ContinuationFacts, ResultRecorded, Opened, Lifecycle!Create,
         Lifecycle!CanReopen, TerminalStatuses, ActiveStatuses, TaskStatus,
         CrashInCreate, At, LoseMemory, Live, history, BeforeOpen, Starting, Executing
<1>12. ASSUME NEW h \in Continuations, CrashInReopen(h)
      PROVE  Lifecycle!Reopen(Task(h))
  BY <1>12 DEF StartFacts, ContinuationFacts, ResultRecorded, Opened, Lifecycle!Reopen,
         Lifecycle!CanReopen, TerminalStatuses, ActiveStatuses, TaskStatus,
         CrashInReopen, At, LoseMemory, ReopenRow, CanReopen, Live, history, BeforeOpen,
         Starting, Executing
<1>13. ASSUME NEW t \in Tasks, NEW outcome \in TerminalStatuses, NEW saved \in BOOLEAN,
           CrashInTerminate(t, outcome, saved)
      PROVE  Lifecycle!Terminate(t)
  <2>1. status[t] \in ActiveStatuses /\ outcome \in LegalTransitions[status[t]]
    <3>1. CASE outcome = "cancelled"
      BY <1>13, <3>1 DEF CrashInTerminate, ActiveStatuses, LegalTransitions
    <3>2. CASE \E h \in Turns : outcome = "failed" /\ Task(h) = t /\ pc[h] = "calling"
      BY <1>13, <3>2, CallingStarted DEF CrashInTerminate, ActiveStatuses, TerminalStatuses,
                                        LegalTransitions
    <3>3. CASE CanTransition(status[t], {status[t]}, outcome)
      BY <1>13, <3>3 DEF CrashInTerminate, CanTransition
    <3> QED
      BY <1>13, <3>1, <3>2, <3>3 DEF CrashInTerminate
  <2>2. /\ status' = [status EXCEPT ![t] = outcome]
        /\ result' \in {result, [result EXCEPT ![t] = outcome]}
        /\ UNCHANGED session
    <3>1. result[t] = "none"
      BY <2>1 DEF ResultMatchesStatus, ActiveStatuses, Results, TerminalStatuses
    <3> QED
      BY <1>13, <3>1 DEF CrashInTerminate
  <2> QED
    BY <2>1, <2>2 DEF Lifecycle!Terminate, ActiveStatuses, TerminalStatuses, LegalTransitions
<1>14. ASSUME NEW t \in Tasks, RecoverTask(t)
      PROVE  Lifecycle!Terminate(t)
  BY <1>14 DEF StartFacts, ContinuationFacts, ResultRecorded, Opened,
         Lifecycle!Terminate, Lifecycle!CanReopen, TerminalStatuses, ActiveStatuses,
         TaskStatus, RecoverTask, Recoverable, maps, callback, provider, process,
         history, Executing, Starting
<1>15. CASE UNCHANGED <<status, session, result>>
  BY <1>15 DEF Lifecycle!lifecycleVars
<1>16. ASSUME NEW t \in Tasks, CrashInAttach(t)
      PROVE  Lifecycle!Attach(t)
  BY <1>16 DEF StartFacts, ContinuationFacts, ResultRecorded, Opened,
         Lifecycle!Attach, Lifecycle!TerminalStatuses, ActiveStatuses, TaskStatus,
         CrashInAttach, AttachSession, At, LoseMemory, Live, history, BeforeOpen,
         Starting, Executing
<1> QED
  BY <1>1, <1>2, <1>3, <1>4, <1>5, <1>6, <1>7, <1>8, <1>9, <1>10, <1>11, <1>12, <1>13,
         <1>14, <1>15, <1>16
     DEF Lifecycle!Next, Lifecycle!lifecycleVars, Next, StartStep, ContinueStep,
         TurnStep, RunCallback, CrashStep, RecoveryStep, StartReserve, StartWorkspace,
         ContinueCheck, ContinueReserve, CallProvider, OpenGate, FinishRenderer, Emit,
         EmitCriticalUsage, RequestDecision, InterruptRun, RunEnds, CancelTail, Crash,
         RecoverRuntime, Recovered, ReleaseAll, StaleHolds, Reject, CancelRun, ReleaseActive, LoseMemory, CrashInRelease, durable, maps,
         callback, provider, process, history, vars

\* The handlers, callbacks, crashes and recovery together do to the rows only
\* what TaskLifecycle allows.
THEOREM LifecycleCorrect == Spec => ImplementsLifecycle
<1>1. Init => Lifecycle!Init
  BY DEF Init, Lifecycle!Init
<1>2. Inv /\ [Next]_vars => [Lifecycle!Next]_(Lifecycle!lifecycleVars)
  BY LifecycleStep
<1> QED
  BY <1>1, <1>2, Invariance, PTL DEF Spec, ImplementsLifecycle, Lifecycle!Spec

-----------------------------------------------------------------------------
(* Decisions: what a request is about to resolve to was chosen by a member  *)
(* who held the role when it was looked at.                                 *)

\* Who is being checked, and whose decision is acknowledged.
ActorsAre ==
    \A r \in Requests : asked[r] \in {"checking", "deferring"} =>
        actor[r].member \in Members /\ actor[r].choice \in Controls(r)

DecisionsStand ==
    \A r \in Requests : asked[r] = "deferring" =>
        <<r, actor[r].member, actor[r].choice>> \in acted

\* What a member did on a request was done on one of its controls.
ActsAre ==
    \A r \in Requests : \A m, c : <<r, m, c>> \in acted => m \in Members /\ c \in Controls(r)

BrokerKept ==
    /\ asked = [r \in Requests |-> asked[r]]
    /\ actor = [r \in Requests |-> actor[r]]
    /\ answer = [r \in Requests |-> answer[r]]
    /\ ActorsAre /\ DecisionsStand /\ ActsAre /\ DecisionIsAuthorized

LEMMA BrokerStarts == BrokerInit => BrokerKept
  BY DEF BrokerInit, BrokerKept, ActorsAre, DecisionsStand, ActsAre, DecisionIsAuthorized, NoAnswer

\* A reply is heard by the requests for text, and a click by its own.
LEMMA HeardOfKind ==
    ASSUME NEW r \in Requests, NEW c \in Controls(r), NEW q \in Requests,
           IF KindOf[r] = "text" THEN KindOf[q] = "text" ELSE q = r
    PROVE  c \in Controls(q)
  BY DEF Controls

LEMMA BrokerStep == BrokerKept /\ [BrokerNext]_brokerVars => BrokerKept'
  <1> SUFFICES ASSUME BrokerKept, [BrokerNext]_brokerVars PROVE BrokerKept'
    OBVIOUS
  <1> USE DEF BrokerKept, ActorsAre, DecisionsStand, ActsAre, DecisionIsAuthorized
  <1>1. CASE UNCHANGED brokerVars
    BY <1>1 DEF brokerVars
  <1>2. ASSUME NEW r \in Requests, AskRequest(r) PROVE BrokerKept'
    BY <1>2 DEF AskRequest, Goes
  <1>3. ASSUME NEW r \in Requests, NEW m \in Members, NEW c \in Controls(r), Interact(m, r, c)
        PROVE BrokerKept'
    <2> DEFINE heard == {q \in Requests :
                           /\ asked[q] = "collecting" /\ q \notin expired
                           /\ IF KindOf[r] = "text" THEN KindOf[q] = "text" ELSE q = r}
    <2>1. /\ asked' = [q \in Requests |-> IF q \in heard THEN "checking" ELSE asked[q]]
          /\ actor' = [q \in Requests |-> IF q \in heard THEN [member |-> m, choice |-> c] ELSE actor[q]]
          /\ UNCHANGED <<answer, acted>>
      BY <1>3 DEF Interact
    <2>2. \A q \in heard : c \in Controls(q)
      BY HeardOfKind
    <2> HIDE DEF heard
    <2>3. ActorsAre'
      BY <2>1, <2>2
    <2>4. DecisionsStand' /\ ActsAre' /\ DecisionIsAuthorized'
      BY <2>1
    <2> QED
      BY <2>1, <2>3, <2>4
  <1>4. ASSUME NEW r \in Requests, MemberChecked(r) PROVE BrokerKept'
    <2>1. actor[r].member \in Members /\ actor[r].choice \in Controls(r)
      BY <1>4 DEF MemberChecked
    <2>2. \/ acted' = acted \cup {<<r, actor[r].member, actor[r].choice>>}
          \/ UNCHANGED acted /\ asked'[r] = "collecting"
      BY <1>4 DEF MemberChecked, Goes
    <2>3. /\ asked' = [asked EXCEPT ![r] = asked'[r]] /\ asked'[r] \in {"collecting", "deferring"}
          /\ UNCHANGED <<actor, answer>>
      BY <1>4 DEF MemberChecked, Goes
    <2>4. ActorsAre'
      BY <2>1, <2>3
    <2>5. ActsAre' /\ acted \subseteq acted'
      BY <2>1, <2>2
    <2>6. DecisionsStand'
      BY <2>2, <2>3
    <2>7. DecisionIsAuthorized'
      BY <2>3, <2>5
    <2> QED
      BY <2>3, <2>4, <2>5, <2>6, <2>7
  <1>5. ASSUME NEW r \in Requests, Decided(r) PROVE BrokerKept'
    <2>1. answer' = [answer EXCEPT ![r] = actor[r].choice] /\ UNCHANGED <<actor, acted>>
      BY <1>5 DEF Decided
    <2>2. actor[r].member \in Members /\ <<r, actor[r].member, actor[r].choice>> \in acted
      BY <1>5 DEF Decided
    <2>3. DecisionIsAuthorized'
      BY <2>1, <2>2
    <2> QED
      BY <1>5, <2>1, <2>3 DEF Decided, Goes
  <1>6. ASSUME NEW r \in Requests, DeadlinePasses(r) PROVE BrokerKept'
    BY <1>6 DEF DeadlinePasses
  <1>7. ASSUME NEW r \in Requests, CollectorEnds(r) PROVE BrokerKept'
    BY <1>7 DEF CollectorEnds, Goes, GivenUp
  <1>8. ASSUME NEW r \in Requests, Resolve(r) PROVE BrokerKept'
    BY <1>8 DEF Resolve, Goes
  <1>9. CASE RolesChange
    BY <1>9 DEF RolesChange
  <1> QED
    BY <1>1, <1>2, <1>3, <1>4, <1>5, <1>6, <1>7, <1>8, <1>9 DEF BrokerNext

\* Whoever else acts on a request, and whoever gains or loses the role, what
\* it resolves to was chosen on a control of its own by a member with the role.
THEOREM DecisionsAuthorized == BrokerSpec => [](DecisionIsAuthorized /\ ActsAre)
  <1>1. BrokerKept => DecisionIsAuthorized /\ ActsAre
    BY DEF BrokerKept
  <1> QED
    BY <1>1, BrokerStarts, BrokerStep, PTL DEF BrokerSpec

-----------------------------------------------------------------------------
(* The control card.  Whichever turn changes the row, a renderer that is    *)
(* told of it draws what it was told last; a card nobody knows of was lost  *)
(* on its way, unless two renderers were at work.                           *)

Pins == {"none", "unknown", "pinned", "not_pinned", "failed"}
Lives == {"none", "started", "ended", "finishing", "disposed", "dead"}
Steps == {"nothing", "fetching", "sending", "sending text", "editing", "editing text", "pinning"}

\* The cards that were ever sent.
Sent == 1..Len(shown)

SentTypes == shown \in Seq(Nat) /\ drawnBy \in Seq(Renderers) /\ Len(drawnBy) = Len(shown)

CardTypes ==
    /\ version \in Nat /\ strays \in Nat
    /\ SentTypes
    /\ cards \in SUBSET Sent
    /\ active \in Renderers \cup {NoRenderer} /\ told \in SUBSET Renderers
    /\ store.message \in Sent \cup {NoCard} /\ store.pin \in Pins
    /\ life \in [Renderers -> Lives] /\ drawing \in [Renderers -> Steps]
    /\ latest \in [Renderers -> Nat] /\ context \in [Renderers -> Nat]
    /\ scheduled \in [Renderers -> BOOLEAN] /\ failed \in [Renderers -> BOOLEAN]
    /\ persistedPin \in [Renderers -> Pins]
    /\ message \in [Renderers -> Sent \cup {NoCard}]

\* What has work to do is there, and what is not there yet has done nothing.
WorkIsWorked ==
    \A r \in Renderers :
        /\ ~Idle(r) => Alive(r)
        /\ life[r] = "none" => message[r] = NoCard

\* Who was told of the row as it is remembers nothing else.
ToldIsLatest == \A r \in told : latest[r] = version

\* What is not scheduled any more is being drawn, or was.
TakenIsLatest == \A r \in Renderers : Alive(r) /\ ~scheduled[r] => context[r] = latest[r]

\* What was drawn is shown until another renderer draws over it.
DrawnIsShown ==
    \A r \in Renderers :
        (Alive(r) /\ (drawing[r] = "pinning" \/ (drawing[r] = "nothing" /\ ~failed[r]))) =>
            (message[r] \in cards /\ drawnBy[message[r]] = r => shown[message[r]] = context[r])

\* While no two renderers are at work, all but the stored card are strays, and
\* a new one is sent when the stored one is gone.
StoredIsKnown ==
    ~overlapped =>
        /\ \A r, q \in Renderers : AtWork(r) /\ AtWork(q) => r = q
        /\ \A r \in Renderers : AtWork(r) => message[r] \in {NoCard, store.message}
        /\ \A r \in Renderers :
              /\ drawing[r] \in {"fetching", "editing", "editing text", "pinning"} =>
                    message[r] = store.message
              /\ drawing[r] \in {"sending", "sending text"} => store.message \notin cards

StraysCounted == ~overlapped => Cardinality(cards \ {store.message}) <= strays

\* A card that is sent was not pinned before.
SentUnpinned ==
    /\ store.pin = "pinned" => store.message # NoCard
    /\ \A r \in Renderers : drawing[r] \in {"sending", "sending text"} => persistedPin[r] # "pinned"

CardKept ==
    /\ CardTypes /\ WorkIsWorked /\ ToldIsLatest /\ TakenIsLatest
    /\ DrawnIsShown /\ StoredIsKnown /\ StraysCounted /\ SentUnpinned /\ PinIsOfTheCard

-----------------------------------------------------------------------------

LEMMA NoCardIsSent == NoCard \notin Sent
  BY DEF NoCard, Sent

LEMMA NextCardIs == CardTypes => NextCard = Len(shown) + 1
  <1> SUFFICES ASSUME CardTypes PROVE NextCard = Len(shown) + 1
    OBVIOUS
  <1>1. DOMAIN shown = 1..Len(shown) /\ Len(shown) \in Nat
    BY DEF CardTypes, SentTypes
  <1>2. PICK n \in Nat : n = Len(shown)
    BY <1>1
  <1>3. Cardinality(1..n) = n
    BY FS_Interval
  <1> QED
    BY <1>1, <1>2, <1>3 DEF NextCard

LEMMA CardStarts == CardInit => CardKept
  <1> SUFFICES ASSUME CardInit PROVE CardKept
    OBVIOUS
  <1>1. CardTypes
    BY DEF CardInit, CardTypes, SentTypes, Sent, Pins, Lives, Steps, NoCard
  <1>2. WorkIsWorked /\ ToldIsLatest /\ TakenIsLatest /\ DrawnIsShown
    BY DEF CardInit, WorkIsWorked, ToldIsLatest, TakenIsLatest, DrawnIsShown, Idle, Alive, NoCard
  <1>3. StoredIsKnown /\ SentUnpinned /\ PinIsOfTheCard
    BY DEF CardInit, StoredIsKnown, SentUnpinned, PinIsOfTheCard, AtWork, TakesUpdates, Idle, NoCard
  <1>4. StraysCounted
    <2>1. cards \ {store.message} = {} /\ strays = 0
      BY DEF CardInit
    <2> QED
      BY <2>1, FS_EmptySet DEF StraysCounted
  <1> QED
    BY <1>1, <1>2, <1>3, <1>4 DEF CardKept

\* The cards are what the rest of the invariant counts: fewer are left of them.
LEMMA FewerCards ==
    ASSUME NEW n \in Nat, NEW old \in SUBSET (1..n), NEW new \in SUBSET old
    PROVE  Cardinality(new) <= Cardinality(old) /\ Cardinality(new) \in Nat /\ Cardinality(old) \in Nat
  <1>0. IsFiniteSet(1..n)
    BY FS_Interval
  <1>1. IsFiniteSet(old)
    BY <1>0, FS_Subset
  <1> QED
    BY <1>1, FS_Subset, FS_CardinalityType

\* One more.
LEMMA OneCardMore ==
    ASSUME NEW n \in Nat, NEW old \in SUBSET (1..n)
    PROVE  Cardinality(old \cup {n + 1}) = Cardinality(old) + 1 /\ Cardinality(old) \in Nat
  <1>0. IsFiniteSet(1..n)
    BY FS_Interval
  <1>1. IsFiniteSet(old)
    BY <1>0, FS_Subset
  <1>2. n + 1 \notin old
    OBVIOUS
  <1> QED
    BY <1>1, <1>2, FS_AddElement, FS_CardinalityType

-----------------------------------------------------------------------------
(* The coordinator's side: the row, and what is scheduled.  Nothing is drawn. *)

NothingIsDrawn ==
    UNCHANGED <<store, cards, shown, pinned, drawnBy, strays, drawing, context, persistedPin,
                message, failed>>

\* The types of what the coordinator changes.
ToldTypes ==
    /\ version \in Nat
    /\ active \in Renderers \cup {NoRenderer} /\ told \in SUBSET Renderers
    /\ life \in [Renderers -> Lives]
    /\ latest \in [Renderers -> Nat] /\ scheduled \in [Renderers -> BOOLEAN]

LEMMA TypesOfTold ==
    ASSUME CardTypes, NothingIsDrawn, ToldTypes'
    PROVE  CardTypes'
  BY DEF CardTypes, NothingIsDrawn, ToldTypes, SentTypes, Sent

\* An update, if any, is queued by a renderer that takes updates, and no
\* renderer comes or goes.
UpdateQueued ==
    /\ \/ UNCHANGED <<latest, scheduled>> /\ told' \subseteq told /\ (told' = {} \/ version' = version)
       \/ \E r \in Renderers :
             /\ TakesUpdates(r)
             /\ latest' = [latest EXCEPT ![r] = version']
             /\ scheduled' = [scheduled EXCEPT ![r] = TRUE]
             /\ told' = {r} \/ (told' = told \cup {r} /\ version' = version)
    /\ UNCHANGED overlapped
    /\ \A q \in Renderers : (TakesUpdates(q)' => TakesUpdates(q)) /\ (Alive(q)' <=> Alive(q))
                            /\ (life'[q] = "none" => life[q] = "none")

LEMMA QueuedKeeps ==
    ASSUME CardKept, NothingIsDrawn, ToldTypes', UpdateQueued
    PROVE  CardKept'
  <1> USE DEF CardKept
  <1>1. CardTypes'
    BY TypesOfTold
  <1>2. ToldIsLatest'
    BY DEF UpdateQueued, ToldIsLatest, CardTypes
  <1>3. /\ drawing' = drawing /\ context' = context /\ message' = message /\ failed' = failed
        /\ cards' = cards /\ shown' = shown /\ drawnBy' = drawnBy /\ store' = store /\ pinned' = pinned
        /\ strays' = strays /\ persistedPin' = persistedPin
    BY DEF NothingIsDrawn
  <1>4. ASSUME NEW q \in Renderers
        PROVE  \/ latest'[q] = latest[q] /\ scheduled'[q] = scheduled[q]
               \/ TakesUpdates(q) /\ scheduled'[q]
    BY DEF UpdateQueued, CardTypes
  <1>5. \A q \in Renderers : TakesUpdates(q) => Alive(q) /\ AtWork(q)
    BY DEF TakesUpdates, Alive, AtWork
  <1>6. \A q \in Renderers : (Alive(q)' <=> Alive(q)) /\ (life'[q] = "none" => life[q] = "none")
    BY DEF UpdateQueued
  <1>7. \A q \in Renderers : AtWork(q)' => AtWork(q)
    BY <1>3, <1>4, <1>5 DEF UpdateQueued, AtWork, Idle
  <1>8. WorkIsWorked'
    BY <1>3, <1>4, <1>5, <1>6 DEF WorkIsWorked, Idle
  <1>9. TakenIsLatest'
    BY <1>3, <1>4, <1>6 DEF TakenIsLatest
  <1>10. DrawnIsShown'
    BY <1>3, <1>6 DEF DrawnIsShown
  <1>11. StoredIsKnown' /\ StraysCounted'
    BY <1>3, <1>7 DEF UpdateQueued, StoredIsKnown, StraysCounted
  <1>12. SentUnpinned' /\ PinIsOfTheCard'
    BY <1>3 DEF SentUnpinned, PinIsOfTheCard
  <1> QED
    BY <1>1, <1>2, <1>8, <1>9, <1>10, <1>11, <1>12

\* A renderer begins with the row as it is.
RendererBegins(r) ==
    /\ life[r] = "none"
    /\ \E as \in {"started", "disposed"} : life' = [life EXCEPT ![r] = as]
    /\ latest' = [latest EXCEPT ![r] = version'] /\ scheduled' = [scheduled EXCEPT ![r] = TRUE]
    /\ told' = {r}
    /\ overlapped' <=> (overlapped \/ \E q \in Renderers : AtWork(q))

LEMMA BeginKeeps ==
    ASSUME CardKept, NEW r \in Renderers, NothingIsDrawn, ToldTypes', RendererBegins(r)
    PROVE  CardKept'
  <1> USE DEF CardKept
  <1>1. CardTypes'
    BY TypesOfTold
  <1>2. /\ drawing' = drawing /\ context' = context /\ message' = message /\ failed' = failed
        /\ cards' = cards /\ shown' = shown /\ drawnBy' = drawnBy /\ store' = store /\ pinned' = pinned
        /\ strays' = strays /\ persistedPin' = persistedPin
    BY DEF NothingIsDrawn
  <1>3. /\ life[r] = "none" /\ life'[r] \in {"started", "disposed"}
        /\ latest'[r] = version' /\ scheduled'[r] = TRUE
        /\ \A q \in Renderers : q # r => /\ life'[q] = life[q] /\ latest'[q] = latest[q]
                                         /\ scheduled'[q] = scheduled[q]
    BY DEF RendererBegins, CardTypes
  <1>4. message[r] = NoCard /\ NoCard \notin cards /\ drawing[r] = "nothing"
    BY <1>3, NoCardIsSent DEF WorkIsWorked, Idle, Alive, CardTypes
  <1>5. ToldIsLatest'
    BY <1>3 DEF RendererBegins, ToldIsLatest
  <1>6. WorkIsWorked'
    BY <1>2, <1>3 DEF WorkIsWorked, Idle, Alive
  <1>7. TakenIsLatest'
    BY <1>2, <1>3 DEF TakenIsLatest, Alive
  <1>8. DrawnIsShown'
    BY <1>2, <1>3, <1>4 DEF DrawnIsShown, Alive
  <1>9. StoredIsKnown'
    <2> SUFFICES ASSUME ~overlapped' PROVE StoredIsKnown'
      BY DEF StoredIsKnown
    <2>1. ~overlapped /\ \A q \in Renderers : ~AtWork(q)
      BY DEF RendererBegins
    <2>2. \A q \in Renderers : AtWork(q)' => q = r
      BY <1>2, <1>3, <2>1 DEF AtWork, TakesUpdates, Idle
    <2> QED
      BY <1>2, <1>4, <2>1, <2>2 DEF StoredIsKnown
  <1>10. StraysCounted'
    BY <1>2 DEF RendererBegins, StraysCounted
  <1>11. SentUnpinned' /\ PinIsOfTheCard'
    BY <1>2 DEF SentUnpinned, PinIsOfTheCard
  <1> QED
    BY <1>1, <1>5, <1>6, <1>7, <1>8, <1>9, <1>10, <1>11

LEMMA StartKeeps ==
    ASSUME CardKept, NEW r \in Renderers, StartRenderer(r)
    PROVE  CardKept'
  <1>1. NothingIsDrawn
    BY DEF StartRenderer, NothingIsDrawn, locals, fields
  <1>2. ToldTypes'
    BY DEF StartRenderer, RowChanges, UpdateCard, CardKept, CardTypes, ToldTypes, Lives
  <1>3. RendererBegins(r)
    BY DEF StartRenderer, UpdateCard, RendererBegins
  <1> QED
    BY <1>1, <1>2, <1>3, BeginKeeps

\* Everything that ends a turn leaves its renderer alive.
LEMMA EndsIs ==
    ASSUME CardTypes, NEW r \in Renderers, Ends(r)
    PROVE  /\ life' \in [Renderers -> Lives]
           /\ \A q \in Renderers : /\ TakesUpdates(q)' <=> TakesUpdates(q)
                                   /\ Alive(q)' <=> Alive(q)
                                   /\ life'[q] = "none" <=> life[q] = "none"
  BY DEF Ends, CardTypes, Lives, TakesUpdates, Alive

LEMMA TellIs ==
    ASSUME CardTypes, NEW r \in Renderers, RowChanges, Tell(r)
    PROVE  /\ version' \in Nat /\ told' \in SUBSET Renderers
           /\ latest' \in [Renderers -> Nat] /\ scheduled' \in [Renderers -> BOOLEAN]
           /\ \/ UNCHANGED <<latest, scheduled>> /\ told' \subseteq told /\ told' = {}
              \/ /\ TakesUpdates(r) /\ told' = {r}
                 /\ latest' = [latest EXCEPT ![r] = version']
                 /\ scheduled' = [scheduled EXCEPT ![r] = TRUE]
  <1>1. version' \in Nat
    BY DEF RowChanges, CardTypes
  <1>2. CASE TakesUpdates(r)
    BY <1>1, <1>2 DEF Tell, UpdateCard, CardTypes
  <1>3. CASE ~TakesUpdates(r)
    BY <1>1, <1>3 DEF Tell, CardTypes
  <1> QED
    BY <1>2, <1>3

LEMMA SyncKeeps ==
    ASSUME CardKept, NEW r \in Renderers, SyncCard(r)
    PROVE  CardKept'
  <1>1. CardTypes /\ RowChanges /\ Tell(r)
    BY DEF SyncCard, CardKept
  <1>2. UNCHANGED <<life, active, overlapped>> /\ NothingIsDrawn
    BY DEF SyncCard, NothingIsDrawn, thread, locals, fields
  <1>3. ToldTypes'
    BY <1>1, <1>2, TellIs DEF CardTypes, ToldTypes
  <1>4. UpdateQueued
    BY <1>1, <1>2, TellIs DEF UpdateQueued, TakesUpdates, Alive
  <1> QED
    BY <1>2, <1>3, <1>4, QueuedKeeps

LEMMA StatusKeeps ==
    ASSUME CardKept, NEW r \in Renderers, StatusCard(r)
    PROVE  CardKept'
  <1>1. /\ TakesUpdates(r)
        /\ latest' = [latest EXCEPT ![r] = version] /\ scheduled' = [scheduled EXCEPT ![r] = TRUE]
        /\ told' = told \cup {r} /\ UNCHANGED <<version, life, active, overlapped>>
    BY DEF StatusCard, UpdateCard, thread
  <1>2. NothingIsDrawn
    BY DEF StatusCard, NothingIsDrawn, thread, locals, fields
  <1>3. ToldTypes'
    BY <1>1 DEF CardKept, CardTypes, ToldTypes
  <1>4. UpdateQueued
    BY <1>1 DEF UpdateQueued, TakesUpdates, Alive
  <1> QED
    BY <1>2, <1>3, <1>4, QueuedKeeps

LEMMA TurnEndsKeeps ==
    ASSUME CardKept, NEW r \in Renderers, TurnEnds(r)
    PROVE  CardKept'
  <1>1. CardTypes /\ RowChanges /\ Tell(r) /\ Ends(r)
    BY DEF TurnEnds, CardKept
  <1>2. UNCHANGED overlapped /\ NothingIsDrawn /\ active' \in {active, NoRenderer}
    BY DEF TurnEnds, NothingIsDrawn, thread, locals, fields
  <1>3. ToldTypes'
    BY <1>1, <1>2, TellIs, EndsIs DEF CardTypes, ToldTypes
  <1>4. UpdateQueued
    BY <1>1, <1>2, TellIs, EndsIs DEF UpdateQueued
  <1> QED
    BY <1>2, <1>3, <1>4, QueuedKeeps

LEMMA TurnEndedKeeps ==
    ASSUME CardKept, NEW r \in Renderers, TurnEnded(r)
    PROVE  CardKept'
  <1>1. CardTypes /\ UNCHANGED <<version, overlapped>> /\ NothingIsDrawn
    BY DEF TurnEnded, NothingIsDrawn, thread, locals, fields, CardKept
  <1>2. CASE active' = NoRenderer /\ UNCHANGED <<life, latest, scheduled, told>>
    <2>1. ToldTypes'
      BY <1>1, <1>2 DEF CardTypes, ToldTypes
    <2>2. UpdateQueued
      BY <1>1, <1>2 DEF UpdateQueued, TakesUpdates, Alive
    <2> QED
      BY <1>1, <2>1, <2>2, QueuedKeeps
  <1>3. CASE /\ life[r] = "started" /\ Ends(r)
             /\ UpdateCard(r, version) /\ told' = told \cup {r}
             /\ UNCHANGED active
    <2>1. /\ TakesUpdates(r)
          /\ latest' = [latest EXCEPT ![r] = version] /\ scheduled' = [scheduled EXCEPT ![r] = TRUE]
      BY <1>3 DEF UpdateCard, TakesUpdates
    <2>2. ToldTypes'
      BY <1>1, <1>3, <2>1, EndsIs DEF CardTypes, ToldTypes
    <2>3. UpdateQueued
      BY <1>1, <1>3, <2>1, EndsIs DEF UpdateQueued
    <2> QED
      BY <1>1, <2>2, <2>3, QueuedKeeps
  <1> QED
    BY <1>2, <1>3 DEF TurnEnded

LEMMA CancelKeeps ==
    ASSUME CardKept, CancelCard
    PROVE  CardKept'
  <1>1. CardTypes /\ RowChanges /\ UNCHANGED <<active, overlapped>> /\ NothingIsDrawn
    BY DEF CancelCard, NothingIsDrawn, thread, locals, fields, CardKept
  <1>2. CASE told' = {} /\ UNCHANGED <<life, latest, scheduled>>
    <2>1. ToldTypes'
      BY <1>1, <1>2 DEF CardTypes, ToldTypes, RowChanges
    <2>2. UpdateQueued
      BY <1>1, <1>2 DEF UpdateQueued, TakesUpdates, Alive
    <2> QED
      BY <1>1, <2>1, <2>2, QueuedKeeps
  <1>3. CASE active # NoRenderer /\ Tell(active) /\ Ends(active)
    <2>1. PICK r \in Renderers : r = active
      BY <1>1, <1>3 DEF CardTypes
    <2>2. Tell(r) /\ Ends(r)
      BY <1>3, <2>1
    <2>3. ToldTypes'
      BY <1>1, <2>2, TellIs, EndsIs DEF CardTypes, ToldTypes
    <2>4. UpdateQueued
      BY <1>1, <2>2, TellIs, EndsIs DEF UpdateQueued
    <2> QED
      BY <1>1, <2>3, <2>4, QueuedKeeps
  <1> QED
    BY <1>2, <1>3 DEF CancelCard

LEMMA FinishKeeps ==
    ASSUME CardKept, NEW r \in Renderers, FinishCard(r)
    PROVE  CardKept'
  <1> USE DEF CardKept
  <1>1. /\ life[r] = "ended" /\ life' = [life EXCEPT ![r] = "finishing"]
        /\ latest' = [latest EXCEPT ![r] = latest[r]] /\ scheduled' = [scheduled EXCEPT ![r] = TRUE]
        /\ UNCHANGED <<version, store, cards, shown, pinned, drawnBy, strays, overlapped, drawing, context,
                       persistedPin, message, pinAttempted, textOnly, failed, told, active>>
    BY DEF FinishCard, UpdateCard, locals, fields, thread, row
  <1>2. CardTypes' /\ latest' = latest
    BY <1>1 DEF CardTypes, SentTypes, Sent, Lives
  <1>3. ToldIsLatest' /\ SentUnpinned' /\ PinIsOfTheCard' /\ StraysCounted'
    BY <1>1, <1>2 DEF ToldIsLatest, SentUnpinned, PinIsOfTheCard, StraysCounted
  <1>4. /\ life'[r] = "finishing" /\ scheduled'[r] = TRUE
        /\ \A q \in Renderers : q # r => life'[q] = life[q] /\ scheduled'[q] = scheduled[q]
    BY <1>1 DEF CardTypes
  <1>5. WorkIsWorked'
    BY <1>1, <1>4 DEF WorkIsWorked, Idle, Alive
  <1>6. TakenIsLatest' /\ DrawnIsShown'
    BY <1>1, <1>2, <1>4 DEF TakenIsLatest, DrawnIsShown, Alive
  <1>7. \A q \in Renderers : AtWork(q)' => AtWork(q)
    BY <1>1, <1>4 DEF AtWork, TakesUpdates, Idle
  <1>8. StoredIsKnown'
    BY <1>1, <1>7 DEF StoredIsKnown
  <1> QED
    BY <1>2, <1>3, <1>5, <1>6, <1>8

LEMMA DisposeKeeps ==
    ASSUME CardKept, NEW r \in Renderers, DisposeRenderer(r)
    PROVE  CardKept'
  <1>1. /\ life[r] \in {"ended", "finishing"} /\ life' = [life EXCEPT ![r] = "disposed"]
        /\ active' = NoRenderer /\ UNCHANGED <<version, told, overlapped, latest, scheduled>>
    BY DEF DisposeRenderer, thread
  <1>2. NothingIsDrawn
    BY DEF DisposeRenderer, NothingIsDrawn, thread, locals, fields
  <1>3. ToldTypes'
    BY <1>1 DEF CardKept, CardTypes, ToldTypes, Lives
  <1>4. UpdateQueued
    BY <1>1 DEF UpdateQueued, TakesUpdates, Alive, CardKept, CardTypes
  <1> QED
    BY <1>2, <1>3, <1>4, QueuedKeeps

LEMMA RecoverKeeps ==
    ASSUME CardKept, RecoverCard
    PROVE  CardKept'
  <1>1. CardTypes /\ RowChanges /\ UNCHANGED <<active, overlapped>> /\ NothingIsDrawn
    BY DEF RecoverCard, NothingIsDrawn, thread, locals, fields, CardKept
  <1>2. CASE told' = {} /\ UNCHANGED <<life, latest, scheduled>>
    <2>1. ToldTypes'
      BY <1>1, <1>2 DEF CardTypes, ToldTypes, RowChanges
    <2>2. UpdateQueued
      BY <1>1, <1>2 DEF UpdateQueued, TakesUpdates, Alive
    <2> QED
      BY <1>1, <2>1, <2>2, QueuedKeeps
  <1>3. ASSUME NEW r \in Renderers, life[r] = "none", life' = [life EXCEPT ![r] = "disposed"],
               UpdateCard(r, version'), told' = {r}
        PROVE  CardKept'
    <2>1. ToldTypes'
      BY <1>1, <1>3 DEF CardTypes, ToldTypes, RowChanges, UpdateCard, Lives
    <2>2. \A q \in Renderers : ~Alive(q)
      BY DEF RecoverCard
    <2>3. \A q \in Renderers : ~AtWork(q)
      BY <2>2 DEF CardKept, WorkIsWorked, AtWork, TakesUpdates, Alive
    <2>4. overlapped' <=> (overlapped \/ \E q \in Renderers : AtWork(q))
      BY <1>1, <2>3
    <2>5. RendererBegins(r)
      BY <1>3, <2>4 DEF RendererBegins, UpdateCard
    <2> QED
      BY <1>1, <2>1, <2>5, BeginKeeps
  <1> QED
    BY <1>2, <1>3 DEF RecoverCard

LEMMA DeleteKeeps ==
    ASSUME CardKept, DeleteCard
    PROVE  CardKept'
  <1> USE DEF CardKept
  <1>1. PICK m \in cards : cards' = cards \ {m} /\ pinned' = pinned \ {m}
    BY DEF DeleteCard
  <1>2. UNCHANGED <<version, told, active, store, shown, drawnBy, strays, overlapped, drawing, context, persistedPin,
                    message, pinAttempted, textOnly, failed, latest, scheduled, life, told, active>>
    BY DEF DeleteCard, locals, fields, queue, row
  <1>3. CardTypes'
    BY <1>1, <1>2 DEF CardTypes, SentTypes, Sent
  <1>4. SentUnpinned' /\ PinIsOfTheCard'
    BY <1>1, <1>2 DEF SentUnpinned, PinIsOfTheCard
  <1>5. WorkIsWorked' /\ ToldIsLatest' /\ TakenIsLatest' /\ DrawnIsShown'
    BY <1>1, <1>2 DEF WorkIsWorked, ToldIsLatest, TakenIsLatest, DrawnIsShown, Alive, Idle
  <1>6. StoredIsKnown'
    BY <1>1, <1>2 DEF StoredIsKnown, AtWork, TakesUpdates, Idle
  <1>7. StraysCounted'
    <2> DEFINE old == cards \ {store.message}
    <2>1. PICK n \in Nat : n = Len(shown)
      BY DEF CardTypes, SentTypes
    <2>2. old \in SUBSET (1..n) /\ (cards \ {store.message})' \in SUBSET old
      BY <1>1, <1>2, <2>1 DEF CardTypes, Sent
    <2> HIDE DEF old
    <2>3. Cardinality(cards \ {store.message})' <= Cardinality(old) /\ Cardinality(old) \in Nat
          /\ Cardinality(cards \ {store.message})' \in Nat
      BY <2>2, FewerCards
    <2> QED
      BY <1>2, <2>3 DEF StraysCounted, old, CardTypes
  <1> QED
    BY <1>3, <1>4, <1>5, <1>6, <1>7

-----------------------------------------------------------------------------
(* The drawings.                                                            *)

LEMMA RowUntouched ==
    ASSUME CardKept, UNCHANGED <<version, told, active, latest, told>>
    PROVE  ToldIsLatest'
  BY DEF CardKept, ToldIsLatest

LEMMA SentUntouched ==
    ASSUME CardKept, UNCHANGED <<shown, drawnBy>>
    PROVE  Sent' = Sent /\ SentTypes'
  BY DEF CardKept, CardTypes, SentTypes, Sent

LEMMA DrawStartsKeeps ==
    ASSUME CardKept, NEW r \in Renderers, DrawStarts(r)
    PROVE  CardKept'
  <1> USE DEF CardKept
  <1>1. /\ scheduled[r] /\ drawing[r] = "nothing"
        /\ scheduled' = [scheduled EXCEPT ![r] = FALSE]
        /\ context' = [context EXCEPT ![r] = latest[r]]
        /\ persistedPin' = [persistedPin EXCEPT ![r] = store.pin]
        /\ failed' = [failed EXCEPT ![r] = FALSE]
        /\ UNCHANGED <<version, told, active, store, cards, shown, pinned, drawnBy, strays, overlapped, life, latest,
                       pinAttempted, textOnly>>
    BY DEF DrawStarts, row, thread
  <1>2. PICK step \in {"editing", "fetching", "sending"} : drawing' = [drawing EXCEPT ![r] = step]
    BY DEF DrawStarts, Draw
  <1>3. \/ message[r] # NoCard /\ drawing'[r] = "editing" /\ UNCHANGED message
        \/ /\ message[r] = NoCard /\ store.message # NoCard /\ drawing'[r] = "fetching"
           /\ message' = [message EXCEPT ![r] = store.message]
        \/ message[r] = NoCard /\ store.message = NoCard /\ drawing'[r] = "sending" /\ UNCHANGED message
    BY <1>1 DEF DrawStarts, Draw, CardTypes
  <1>4. AtWork(r) /\ Alive(r)
    BY <1>1 DEF AtWork, Idle, WorkIsWorked
  <1>5. CardTypes'
    <2>1. message' \in [Renderers -> Sent \cup {NoCard}]
      BY <1>3 DEF CardTypes
    <2>2. drawing' \in [Renderers -> Steps]
      BY <1>2 DEF CardTypes, Steps
    <2> QED
      BY <1>1, <2>1, <2>2, SentUntouched DEF CardTypes
  <1>6. ToldIsLatest'
    BY <1>1, RowUntouched
  <1>7. WorkIsWorked'
    BY <1>1, <1>2, <1>3, <1>4 DEF WorkIsWorked, Idle, Alive, CardTypes
  <1>8. TakenIsLatest'
    BY <1>1 DEF TakenIsLatest, Alive, CardTypes
  <1>9. DrawnIsShown'
    BY <1>1, <1>2, <1>3 DEF DrawnIsShown, Alive, CardTypes
  <1>10. StoredIsKnown'
    <2> SUFFICES ASSUME ~overlapped PROVE StoredIsKnown'
      BY <1>1 DEF StoredIsKnown
    <2>1. message[r] \in {NoCard, store.message}
      BY <1>4 DEF StoredIsKnown
    <2>2. NoCard \notin cards
      BY NoCardIsSent DEF CardTypes
    <2> QED
      BY <1>1, <1>2, <1>3, <2>1, <2>2 DEF StoredIsKnown, AtWork, TakesUpdates, Idle, CardTypes
  <1>11. StraysCounted' /\ PinIsOfTheCard'
    BY <1>1 DEF StraysCounted, PinIsOfTheCard
  <1>12. SentUnpinned'
    BY <1>1, <1>2, <1>3 DEF SentUnpinned, CardTypes
  <1> QED
    BY <1>5, <1>6, <1>7, <1>8, <1>9, <1>10, <1>11, <1>12

LEMMA FetchKeeps ==
    ASSUME CardKept, NEW r \in Renderers, FetchAnswered(r)
    PROVE  CardKept'
  <1> USE DEF CardKept
  <1>1. /\ drawing[r] = "fetching"
        /\ UNCHANGED <<version, told, active, store, cards, shown, pinned, drawnBy, strays, overlapped, life, latest,
                       scheduled, context, textOnly>>
    BY DEF FetchAnswered, row, thread, queue
  <1>2. \/ /\ message[r] \in cards /\ drawing' = [drawing EXCEPT ![r] = "editing"]
           /\ UNCHANGED <<persistedPin, message, failed>>
        \/ /\ message[r] \notin cards /\ message' = [message EXCEPT ![r] = NoCard]
           /\ drawing' = [drawing EXCEPT ![r] = "sending"] /\ UNCHANGED failed
           /\ \/ persistedPin[r] = "failed" /\ UNCHANGED persistedPin
              \/ persistedPin' = [persistedPin EXCEPT ![r] = "unknown"]
        \/ /\ message' = [message EXCEPT ![r] = NoCard]
           /\ drawing' = [drawing EXCEPT ![r] = "nothing"] /\ failed' = [failed EXCEPT ![r] = TRUE]
           /\ UNCHANGED persistedPin
    BY DEF FetchAnswered, Draw, Throws
  <1>3. AtWork(r) /\ Alive(r)
    BY <1>1 DEF AtWork, Idle, WorkIsWorked
  <1>4. CardTypes'
    <2>1. message' \in [Renderers -> Sent \cup {NoCard}]
      BY <1>2 DEF CardTypes
    <2>2. drawing' \in [Renderers -> Steps] /\ failed' \in [Renderers -> BOOLEAN]
      BY <1>2 DEF CardTypes, Steps
    <2>3. persistedPin' \in [Renderers -> Pins]
      BY <1>2 DEF CardTypes, Pins
    <2> QED
      BY <1>1, <2>1, <2>2, <2>3, SentUntouched DEF CardTypes
  <1>5. ToldIsLatest'
    BY <1>1, RowUntouched
  <1>6. WorkIsWorked'
    BY <1>1, <1>2, <1>3 DEF WorkIsWorked, Idle, Alive, CardTypes
  <1>7. TakenIsLatest' /\ StraysCounted' /\ PinIsOfTheCard'
    BY <1>1 DEF TakenIsLatest, Alive, StraysCounted, PinIsOfTheCard
  <1>8. DrawnIsShown'
    BY <1>1, <1>2 DEF DrawnIsShown, Alive, CardTypes
  <1>9. StoredIsKnown'
    <2>1. \A q \in Renderers : AtWork(q)' => AtWork(q)
      BY <1>1, <1>2, <1>3 DEF AtWork, TakesUpdates, Idle, CardTypes
    <2>2. \A q \in Renderers : q # r => message'[q] = message[q] /\ drawing'[q] = drawing[q]
      BY <1>2 DEF CardTypes
    <2>3. \/ message'[r] = message[r] /\ drawing'[r] = "editing"
          \/ message'[r] = NoCard /\ drawing'[r] = "sending" /\ message[r] \notin cards
          \/ message'[r] = NoCard /\ drawing'[r] = "nothing"
      BY <1>2 DEF CardTypes
    <2> QED
      BY <1>1, <2>1, <2>2, <2>3 DEF StoredIsKnown
  <1>10. SentUnpinned'
    BY <1>1, <1>2 DEF SentUnpinned, CardTypes
  <1> QED
    BY <1>4, <1>5, <1>6, <1>7, <1>8, <1>9, <1>10

\* The outcome of the pin belongs to the stored card.
LEMMA PinKeeps ==
    ASSUME CardKept, NEW r \in Renderers, PinAnswered(r)
    PROVE  CardKept'
  <1> USE DEF CardKept
  <1>1. /\ drawing[r] = "pinning" /\ drawing' = [drawing EXCEPT ![r] = "nothing"]
        /\ UNCHANGED <<version, told, active, cards, shown, drawnBy, strays, overlapped, life, latest, scheduled,
                       context, persistedPin, message, pinAttempted, textOnly, failed>>
    BY DEF PinAnswered, Draw, row, queue, locals, fields
  <1>2. \/ message[r] \in cards /\ pinned' = pinned \cup {message[r]} /\ store' = [message |-> message[r], pin |-> "pinned"]
        \/ store' = [message |-> message[r], pin |-> "failed"] /\ UNCHANGED pinned
    BY DEF PinAnswered
  <1>a. store'.message = message[r] /\ store'.pin \in {"pinned", "failed"}
        /\ (store'.pin = "pinned" => message[r] \in cards /\ message[r] \in pinned')
    BY <1>2
  <1>3. CardTypes'
    <2>1. drawing' \in [Renderers -> Steps]
      BY <1>1 DEF CardTypes, Steps
    <2>2. store'.message \in Sent \cup {NoCard} /\ store'.pin \in Pins
      BY <1>a DEF CardTypes, Pins
    <2> QED
      BY <1>1, <2>1, <2>2, SentUntouched DEF CardTypes
  <1>4. ToldIsLatest'
    BY <1>1, RowUntouched
  <1>5. WorkIsWorked' /\ TakenIsLatest'
    BY <1>1 DEF WorkIsWorked, Idle, Alive, TakenIsLatest, Alive, CardTypes
  <1>6. DrawnIsShown'
    BY <1>1 DEF DrawnIsShown, Alive, CardTypes
  <1>7. ASSUME ~overlapped PROVE store'.message = store.message
    BY <1>1, <1>a, <1>7 DEF StoredIsKnown
  <1>8. StoredIsKnown'
    BY <1>1, <1>7 DEF StoredIsKnown, AtWork, TakesUpdates, Idle, CardTypes
  <1>9. StraysCounted'
    BY <1>1, <1>7 DEF StraysCounted
  <1>10. SentUnpinned'
    <2>1. NoCard \notin cards
      BY NoCardIsSent DEF CardTypes
    <2> QED
      BY <1>1, <1>a, <2>1 DEF SentUnpinned, CardTypes
  <1>11. PinIsOfTheCard'
    BY <1>1, <1>a DEF PinIsOfTheCard
  <1> QED
    BY <1>3, <1>4, <1>5, <1>6, <1>8, <1>9, <1>10, <1>11

LEMMA EditKeeps ==
    ASSUME CardKept, NEW r \in Renderers, EditAnswered(r)
    PROVE  CardKept'
  <1> USE DEF CardKept
  <1>1. /\ drawing[r] \in {"editing", "editing text"}
        /\ UNCHANGED <<version, told, active, cards, pinned, strays, overlapped, life, latest, scheduled,
                       context, persistedPin>>
    BY DEF EditAnswered, row, queue, locals
  <1>2. \/ /\ message[r] \in cards
           /\ shown' = [shown EXCEPT ![message[r]] = context[r]]
           /\ drawnBy' = [drawnBy EXCEPT ![message[r]] = r]
           /\ UNCHANGED <<message, failed>>
           /\ \/ drawing' = [drawing EXCEPT ![r] = "pinning"] /\ store' = store
              \/ /\ drawing' = [drawing EXCEPT ![r] = "nothing"]
                 /\ store' = store \/ store' = [message |-> message[r], pin |-> "not_pinned"]
        \/ /\ UNCHANGED <<store, shown, drawnBy>>
           /\ \/ drawing' = [drawing EXCEPT ![r] = "editing text"] /\ UNCHANGED <<message, failed>>
              \/ /\ message' = [message EXCEPT ![r] = NoCard]
                 /\ drawing' = [drawing EXCEPT ![r] = "nothing"] /\ failed' = [failed EXCEPT ![r] = TRUE]
    BY DEF EditAnswered, Draw, Throws, PinOrDone
  <1>3. AtWork(r) /\ Alive(r)
    BY <1>1 DEF AtWork, Idle, WorkIsWorked
  <1>0. store' = store \/ store' = [message |-> message[r], pin |-> "not_pinned"]
    BY <1>2
  <1>a. store' = store \/ (store'.message = message[r] /\ store'.pin = "not_pinned")
    BY <1>0
  <1>4. Sent' = Sent /\ SentTypes'
    <2>1. context[r] \in Nat /\ shown \in Seq(Nat) /\ drawnBy \in Seq(Renderers) /\ Len(drawnBy) = Len(shown)
      BY DEF CardTypes, SentTypes
    <2>2. CASE UNCHANGED <<shown, drawnBy>>
      BY <2>2, SentUntouched
    <2>3. CASE /\ message[r] \in cards
               /\ shown' = [shown EXCEPT ![message[r]] = context[r]]
               /\ drawnBy' = [drawnBy EXCEPT ![message[r]] = r]
      <3>0. PICK m : m = message[r] /\ m \in 1..Len(shown) /\ m \in 1..Len(drawnBy)
        BY <2>1, <2>3 DEF CardTypes, Sent
      <3>1. shown' \in Seq(Nat) /\ Len(shown') = Len(shown)
        BY <2>1, <2>3, <3>0, ExceptSeq
      <3>2. drawnBy' \in Seq(Renderers) /\ Len(drawnBy') = Len(drawnBy)
        BY <2>1, <2>3, <3>0, ExceptSeq
      <3> QED
        BY <2>1, <3>1, <3>2 DEF SentTypes, Sent
    <2> QED
      BY <1>2, <2>2, <2>3
  <1>5. CardTypes'
    <2>1. message' \in [Renderers -> Sent \cup {NoCard}]
      BY <1>2 DEF CardTypes
    <2>2. drawing' \in [Renderers -> Steps] /\ failed' \in [Renderers -> BOOLEAN]
      BY <1>2 DEF CardTypes, Steps
    <2>3. store'.message \in Sent \cup {NoCard} /\ store'.pin \in Pins
      BY <1>a DEF CardTypes, Pins
    <2> QED
      BY <1>1, <1>4, <2>1, <2>2, <2>3 DEF CardTypes
  <1>6. ToldIsLatest'
    BY <1>1, RowUntouched
  <1>7. WorkIsWorked' /\ TakenIsLatest'
    BY <1>1, <1>2, <1>3 DEF WorkIsWorked, Idle, Alive, TakenIsLatest, Alive, CardTypes
  <1>8. DrawnIsShown'
    <2> SUFFICES ASSUME NEW q \in Renderers, Alive(q),
                        drawing'[q] = "pinning" \/ (drawing'[q] = "nothing" /\ ~failed'[q]),
                        message'[q] \in cards, drawnBy'[message'[q]] = q
                 PROVE  shown'[message'[q]] = context[q]
      BY <1>1 DEF DrawnIsShown, Alive
    <2>1. message'[q] = message[q] /\ drawing' = [drawing EXCEPT ![r] = drawing'[r]]
      BY <1>2, NoCardIsSent DEF CardTypes
    <2>a. SentTypes /\ cards \subseteq Sent
      BY DEF CardTypes
    <2>b. DOMAIN shown = Sent /\ DOMAIN drawnBy = Sent
      BY <2>a DEF SentTypes, Sent
    <2>2. DOMAIN shown = Sent /\ DOMAIN drawnBy = Sent /\ message[q] \in Sent
      BY <2>1, <2>a, <2>b
    <2>3. CASE UNCHANGED <<shown, drawnBy>>
      BY <1>1, <1>2, <2>1, <2>2, <2>3 DEF DrawnIsShown, CardTypes
    <2>4. CASE /\ shown' = [shown EXCEPT ![message[r]] = context[r]]
               /\ drawnBy' = [drawnBy EXCEPT ![message[r]] = r]
               /\ UNCHANGED failed
      <3>1. CASE q = r
        BY <2>1, <2>2, <2>4, <3>1
      <3>2. CASE q # r
        <4>1. message[q] # message[r]
          BY <2>1, <2>2, <2>4, <3>2
        <4>2. drawing'[q] = drawing[q] /\ failed'[q] = failed[q]
          BY <2>1, <2>4, <3>2 DEF CardTypes
        <4> QED
          BY <2>1, <2>2, <2>4, <4>1, <4>2 DEF DrawnIsShown
      <3> QED
        BY <3>1, <3>2
    <2> QED
      BY <1>2, <2>3, <2>4
  <1>9. ASSUME ~overlapped PROVE store'.message = store.message
    BY <1>1, <1>a, <1>9 DEF StoredIsKnown
  <1>10. StoredIsKnown'
    <2>1. \A q \in Renderers : AtWork(q)' => AtWork(q)
      BY <1>1, <1>2, <1>3 DEF AtWork, TakesUpdates, Idle, CardTypes
    <2> QED
      BY <1>1, <1>2, <1>3, <1>9, <2>1, ZenonT(30) DEF StoredIsKnown, CardTypes
  <1>11. StraysCounted'
    BY <1>1, <1>9 DEF StraysCounted
  <1>b. \A q \in Renderers : drawing'[q] \in {"sending", "sending text"} => drawing[q] = drawing'[q]
    BY <1>2 DEF CardTypes
  <1>12. SentUnpinned' /\ PinIsOfTheCard'
    BY <1>1, <1>a, <1>b DEF SentUnpinned, PinIsOfTheCard
  <1> QED
    BY <1>5, <1>6, <1>7, <1>8, <1>10, <1>11, <1>12

-----------------------------------------------------------------------------
(* A card appears, its answer lost or not.                                  *)

LEMMA CardAppears ==
    ASSUME CardKept, NEW r \in Renderers, Appears(r)
    PROVE  /\ NextCard \notin Sent /\ NextCard # NoCard
           /\ Sent' = Sent \cup {NextCard} /\ SentTypes'
           /\ cards' = cards \cup {NextCard}
           /\ shown'[NextCard] = context[r] /\ drawnBy'[NextCard] = r
           /\ \A m \in Sent : shown'[m] = shown[m] /\ drawnBy'[m] = drawnBy[m]
  <1>0. /\ cards' = cards \cup {NextCard} /\ shown' = Append(shown, context[r])
        /\ drawnBy' = Append(drawnBy, r)
    BY DEF Appears
  <1>1. context[r] \in Nat /\ shown \in Seq(Nat) /\ drawnBy \in Seq(Renderers) /\ Len(drawnBy) = Len(shown)
    BY DEF CardKept, CardTypes, SentTypes
  <1>2. PICK n \in Nat : n = Len(shown)
    BY <1>1
  <1>3. NextCard = n + 1
    BY <1>2, NextCardIs DEF CardKept
  <1>4. Sent = 1..n
    BY <1>2 DEF Sent
  <1>5. /\ shown' \in Seq(Nat) /\ Len(shown') = n + 1
        /\ \A m \in 1..n : shown'[m] = shown[m]
        /\ shown'[n + 1] = context[r]
    BY <1>0, <1>1, <1>2, AppendProperties
  <1>6. /\ drawnBy' \in Seq(Renderers) /\ Len(drawnBy') = n + 1
        /\ \A m \in 1..n : drawnBy'[m] = drawnBy[m]
        /\ drawnBy'[n + 1] = r
    BY <1>0, <1>1, <1>2, AppendProperties
  <1>7. Sent' = 1..(n + 1)
    BY <1>5 DEF Sent
  <1>8. Sent' = Sent \cup {NextCard}
    BY <1>3, <1>4, <1>7
  <1>9. NextCard \notin Sent /\ NextCard # NoCard
    BY <1>3, <1>4 DEF NoCard
  <1>10. SentTypes'
    BY <1>5, <1>6 DEF SentTypes
  <1> QED
    BY <1>0, <1>3, <1>4, <1>5, <1>6, <1>8, <1>9, <1>10

\* One more stray card.
LEMMA StrayCounted ==
    ASSUME CardKept, NEW r \in Renderers, Appears(r), UNCHANGED <<store, overlapped>>, strays' = strays + 1
    PROVE  StraysCounted'
  <1> SUFFICES ASSUME ~overlapped PROVE Cardinality(cards' \ {store.message}) <= strays + 1
    BY DEF StraysCounted
  <1> DEFINE old == cards \ {store.message}
  <1>1. PICK n \in Nat : n = Len(shown)
    BY DEF CardKept, CardTypes, SentTypes
  <1>2. NextCard = n + 1
    BY <1>1, NextCardIs DEF CardKept
  <1>3. store.message # NextCard
    BY CardAppears DEF CardKept, CardTypes
  <1>4. cards' \ {store.message} = old \cup {n + 1}
    BY <1>2, <1>3, CardAppears
  <1>5. old \in SUBSET (1..n)
    BY <1>1 DEF CardKept, CardTypes, Sent
  <1>6. Cardinality(old) <= strays /\ strays \in Nat
    BY DEF CardKept, StraysCounted, CardTypes
  <1> HIDE DEF old
  <1>7. Cardinality(old \cup {n + 1}) = Cardinality(old) + 1 /\ Cardinality(old) \in Nat
    BY <1>5, OneCardMore
  <1>8. PICK c \in Nat : c = Cardinality(old)
    BY <1>7
  <1>9. c <= strays /\ strays \in Nat /\ Cardinality(cards' \ {store.message}) = c + 1
    BY <1>4, <1>6, <1>7, <1>8
  <1> QED
    BY <1>9

LEMMA SendKeeps ==
    ASSUME CardKept, NEW r \in Renderers, SendAnswered(r)
    PROVE  CardKept'
  <1> USE DEF CardKept
  <1>1. /\ drawing[r] \in {"sending", "sending text"}
        /\ UNCHANGED <<version, told, active, pinned, overlapped, life, latest, scheduled, context, persistedPin>>
    BY DEF SendAnswered, row, queue, locals
  <1>2. AtWork(r) /\ Alive(r)
    BY <1>1 DEF AtWork, Idle, WorkIsWorked
  <1>3. ToldIsLatest'
    BY <1>1, RowUntouched
  <1>4. TakenIsLatest'
    BY <1>1 DEF TakenIsLatest, Alive
  <1>5. CASE /\ Appears(r) /\ message' = [message EXCEPT ![r] = NextCard]
             /\ LET pin == IF persistedPin[r] = "none" THEN "unknown" ELSE persistedPin[r] IN
                PinOrDone(r, NextCard, pin, [message |-> NextCard, pin |-> pin])
             /\ UNCHANGED <<strays, textOnly, failed, faults>>
    <2>1. PICK pin \in Pins \ {"pinned"} : PinOrDone(r, NextCard, pin, [message |-> NextCard, pin |-> pin])
      BY <1>1, <1>5 DEF SentUnpinned, CardTypes, Pins
    <2>2. PICK n : n = NextCard
      OBVIOUS
    <2>3. PICK step \in {"pinning", "nothing"} : drawing' = [drawing EXCEPT ![r] = step]
      BY <2>1 DEF PinOrDone, Draw
    <2>4. store'.message = n /\ store'.pin \in Pins \ {"pinned"}
      <3>1. store' = [message |-> n, pin |-> pin] \/ store' = [message |-> n, pin |-> "not_pinned"]
        BY <2>1, <2>2 DEF PinOrDone
      <3> QED
        BY <3>1 DEF Pins
    <2>5. /\ n \notin Sent /\ n # NoCard /\ Sent' = Sent \cup {n} /\ SentTypes' /\ cards' = cards \cup {n}
          /\ shown'[n] = context[r] /\ drawnBy'[n] = r
          /\ \A m \in Sent : shown'[m] = shown[m] /\ drawnBy'[m] = drawnBy[m]
      BY <1>5, <2>2, CardAppears
    <2>6. message' = [message EXCEPT ![r] = n] /\ UNCHANGED <<strays, failed>>
      BY <1>5, <2>2
    <2>7. CardTypes'
      <3>1. message' \in [Renderers -> Sent' \cup {NoCard}]
        BY <2>5, <2>6 DEF CardTypes
      <3>2. drawing' \in [Renderers -> Steps]
        BY <2>3 DEF CardTypes, Steps
      <3> QED
        BY <1>1, <2>4, <2>5, <2>6, <3>1, <3>2 DEF CardTypes
    <2>8. WorkIsWorked'
      BY <1>1, <1>2, <2>3, <2>6 DEF WorkIsWorked, Idle, Alive, CardTypes
    <2>9. DrawnIsShown'
      <3> SUFFICES ASSUME NEW q \in Renderers, Alive(q),
                          drawing'[q] = "pinning" \/ (drawing'[q] = "nothing" /\ ~failed[q]),
                          message'[q] \in cards', drawnBy'[message'[q]] = q
                   PROVE  shown'[message'[q]] = context[q]
        BY <1>1, <2>6 DEF DrawnIsShown, Alive
      <3>1. CASE q = r
        BY <2>5, <2>6, <3>1 DEF CardTypes
      <3>2. CASE q # r
        <4>1. message'[q] = message[q] /\ drawing'[q] = drawing[q]
          BY <2>3, <2>6, <3>2 DEF CardTypes
        <4>2. message[q] \in cards /\ message[q] \in Sent
          BY <2>5, <4>1 DEF CardTypes
        <4> QED
          BY <2>5, <4>1, <4>2 DEF DrawnIsShown
      <3> QED
        BY <3>1, <3>2
    <2>10. StoredIsKnown'
      <3> SUFFICES ASSUME ~overlapped PROVE StoredIsKnown'
        BY <1>1 DEF StoredIsKnown
      <3>1. \A q \in Renderers : AtWork(q) => q = r
        BY <1>2 DEF StoredIsKnown
      <3>2. \A q \in Renderers : q # r => drawing[q] = "nothing"
        BY <3>1 DEF AtWork, Idle
      <3>3. message'[r] = n /\ drawing'[r] = step /\ \A q \in Renderers : q # r => drawing'[q] = drawing[q]
        BY <2>3, <2>6 DEF CardTypes
      <3>4. \A q \in Renderers : AtWork(q)' => AtWork(q)
        BY <1>1, <1>2, <3>3 DEF AtWork, TakesUpdates, Idle
      <3> QED
        BY <2>3, <2>4, <3>1, <3>2, <3>3, <3>4 DEF StoredIsKnown
    <2>11. StraysCounted'
      <3> SUFFICES ASSUME ~overlapped PROVE Cardinality(cards' \ {n}) <= strays
        BY <1>1, <2>4, <2>6 DEF StraysCounted
      <3>1. store.message \notin cards
        BY <1>1 DEF StoredIsKnown
      <3>2. cards' \ {n} = cards \ {store.message}
        BY <2>5, <3>1 DEF CardTypes
      <3> QED
        BY <3>2 DEF StraysCounted
    <2>12. SentUnpinned' /\ PinIsOfTheCard'
      BY <1>1, <2>3, <2>4 DEF SentUnpinned, PinIsOfTheCard, CardTypes
    <2> QED
      BY <1>3, <1>4, <2>7, <2>8, <2>9, <2>10, <2>11, <2>12
  <1>6. CASE /\ UNCHANGED <<cards, shown, drawnBy, strays>> \/ (Appears(r) /\ strays' = strays + 1)
             /\ \/ Draw(r, "sending text") /\ UNCHANGED failed
                \/ Throws(r)
             /\ UNCHANGED <<store, message>>
    <2>1. \/ drawing' = [drawing EXCEPT ![r] = "sending text"] /\ UNCHANGED failed
          \/ drawing' = [drawing EXCEPT ![r] = "nothing"] /\ failed' = [failed EXCEPT ![r] = TRUE]
      BY <1>6 DEF Draw, Throws
    <2>2. PICK n : n = NextCard
      OBVIOUS
    <2>3. \/ UNCHANGED <<cards, shown, drawnBy, Sent>> /\ SentTypes'
          \/ /\ n \notin Sent /\ n # NoCard /\ Sent' = Sent \cup {n} /\ SentTypes' /\ cards' = cards \cup {n}
             /\ \A m \in Sent : shown'[m] = shown[m] /\ drawnBy'[m] = drawnBy[m]
      BY <1>6, <2>2, CardAppears, SentUntouched
    <2>0. strays \in Nat /\ (strays' = strays \/ strays' = strays + 1)
      BY <1>6 DEF CardTypes
    <2>4. strays' \in Nat
      BY <2>0
    <2>5. CardTypes'
      <3>1. message' \in [Renderers -> Sent' \cup {NoCard}] /\ store'.message \in Sent' \cup {NoCard}
        BY <1>6, <2>3 DEF CardTypes
      <3>2. drawing' \in [Renderers -> Steps] /\ failed' \in [Renderers -> BOOLEAN]
        BY <2>1 DEF CardTypes, Steps
      <3>3. cards' \in SUBSET Sent' /\ SentTypes'
        BY <2>3 DEF CardTypes
      <3> QED
        BY <1>1, <1>6, <2>4, <3>1, <3>2, <3>3 DEF CardTypes
    <2>6. WorkIsWorked'
      BY <1>1, <1>2, <1>6, <2>1 DEF WorkIsWorked, Idle, Alive, CardTypes
    <2>7. DrawnIsShown'
      <3> SUFFICES ASSUME NEW q \in Renderers, Alive(q),
                          drawing'[q] = "pinning" \/ (drawing'[q] = "nothing" /\ ~failed'[q]),
                          message[q] \in cards', drawnBy'[message[q]] = q
                   PROVE  shown'[message[q]] = context[q]
        BY <1>1, <1>6 DEF DrawnIsShown, Alive
      <3>1. q # r /\ drawing'[q] = drawing[q] /\ failed'[q] = failed[q]
        BY <2>1 DEF CardTypes
      <3>2. message[q] \in cards /\ message[q] \in Sent
        BY <2>3 DEF CardTypes
      <3> QED
        BY <2>3, <3>1, <3>2 DEF DrawnIsShown
    <2>8. StoredIsKnown'
      <3>1. \A q \in Renderers : AtWork(q)' => AtWork(q)
        BY <1>1, <1>2, <2>1 DEF AtWork, TakesUpdates, Idle, CardTypes
      <3> QED
        BY <1>1, <1>2, <1>6, <2>1, <2>3, <3>1 DEF StoredIsKnown, CardTypes
    <2>9. StraysCounted'
      <3>1. CASE UNCHANGED <<cards, shown, drawnBy, strays>>
        BY <1>1, <1>6, <3>1 DEF StraysCounted
      <3>2. CASE Appears(r) /\ strays' = strays + 1
        BY <1>1, <1>6, <3>2, StrayCounted
      <3> QED
        BY <1>6, <3>1, <3>2
    <2>10. SentUnpinned'
      BY <1>1, <1>6, <2>1 DEF SentUnpinned, CardTypes
    <2>11. PinIsOfTheCard'
      BY <1>1, <1>6, <2>3 DEF PinIsOfTheCard, CardTypes
    <2> QED
      BY <1>3, <1>4, <2>5, <2>6, <2>7, <2>8, <2>9, <2>10, <2>11
  <1>7. \/ /\ Appears(r)
           /\ message' = [message EXCEPT ![r] = NextCard]
           /\ LET pin == IF persistedPin[r] = "none" THEN "unknown" ELSE persistedPin[r] IN
              PinOrDone(r, NextCard, pin, [message |-> NextCard, pin |-> pin])
           /\ UNCHANGED <<strays, textOnly, failed, faults>>
        \/ /\ UNCHANGED <<cards, shown, drawnBy, strays>> \/ (Appears(r) /\ strays' = strays + 1)
           /\ \/ Draw(r, "sending text") /\ UNCHANGED failed
              \/ Throws(r)
           /\ UNCHANGED <<store, message>>
    <2>1. \/ /\ Appears(r)
             /\ message' = [message EXCEPT ![r] = NextCard]
             /\ LET pin == IF persistedPin[r] = "none" THEN "unknown" ELSE persistedPin[r] IN
                PinOrDone(r, NextCard, pin, [message |-> NextCard, pin |-> pin])
             /\ UNCHANGED <<strays, textOnly, failed, faults>>
          \/ /\ Fault
             /\ \/ UNCHANGED <<cards, shown, drawnBy, strays>>
                \/ Appears(r) /\ strays' = strays + 1
             /\ IF drawing[r] = "sending" /\ ~textOnly[r]
                THEN /\ textOnly' = [textOnly EXCEPT ![r] = TRUE]
                     /\ Draw(r, "sending text")
                     /\ UNCHANGED failed
                ELSE Throws(r) /\ UNCHANGED textOnly
             /\ UNCHANGED <<store, message, pinAttempted>>
      BY DEF SendAnswered
    <2> QED
      BY <2>1
  <1> QED
    BY <1>5, <1>6, <1>7

-----------------------------------------------------------------------------
LEMMA CrashKeeps ==
    ASSUME CardKept, CardCrash
    PROVE  CardKept'
  <1> USE DEF CardKept
  <1>1. /\ life' = [r \in Renderers |-> IF Alive(r) THEN "dead" ELSE life[r]]
        /\ active' = NoRenderer
        /\ scheduled' = [r \in Renderers |-> FALSE]
        /\ drawing' = [r \in Renderers |-> "nothing"]
        /\ UNCHANGED <<version, told, store, pinned, overlapped, latest, context, persistedPin, message, failed>>
    BY DEF CardCrash, locals, fields
  <1>2. \/ UNCHANGED <<cards, shown, drawnBy, strays>>
        \/ \E r \in Renderers : Appears(r) /\ strays' = strays + 1
    BY DEF CardCrash
  <1>3. PICK n : n = NextCard
    OBVIOUS
  <1>4. \/ UNCHANGED <<cards, shown, drawnBy, Sent>> /\ SentTypes'
        \/ /\ n \notin Sent /\ n # NoCard /\ Sent' = Sent \cup {n} /\ SentTypes' /\ cards' = cards \cup {n}
           /\ \A m \in Sent : shown'[m] = shown[m] /\ drawnBy'[m] = drawnBy[m]
    BY <1>2, <1>3, CardAppears, SentUntouched
  <1>5. CardTypes'
    <2>1. message' \in [Renderers -> Sent' \cup {NoCard}] /\ store'.message \in Sent' \cup {NoCard}
      BY <1>1, <1>4 DEF CardTypes
    <2>2. drawing' \in [Renderers -> Steps] /\ scheduled' \in [Renderers -> BOOLEAN]
      BY <1>1 DEF Steps
    <2>3. life' \in [Renderers -> Lives]
      BY <1>1 DEF CardTypes, Lives
    <2>4. cards' \in SUBSET Sent' /\ SentTypes'
      BY <1>4 DEF CardTypes
    <2>5. strays' \in Nat
      BY <1>2 DEF CardTypes
    <2> QED
      BY <1>1, <2>1, <2>2, <2>3, <2>4, <2>5 DEF CardTypes
  <1>6. \A r \in Renderers : ~Alive(r)' /\ Idle(r)' /\ ~AtWork(r)' /\ (life'[r] = "none" => life[r] = "none")
    BY <1>1 DEF Alive, Idle, AtWork, TakesUpdates
  <1>7. WorkIsWorked'
    BY <1>1, <1>6 DEF WorkIsWorked
  <1>8. ToldIsLatest'
    BY <1>1 DEF ToldIsLatest
  <1>9. TakenIsLatest' /\ DrawnIsShown'
    BY <1>6 DEF TakenIsLatest, DrawnIsShown
  <1>12. StoredIsKnown'
    BY <1>1, <1>6 DEF StoredIsKnown
  <1>13. StraysCounted'
    <2>1. CASE UNCHANGED <<cards, shown, drawnBy, strays>>
      BY <1>1, <2>1 DEF StraysCounted
    <2>2. ASSUME NEW r \in Renderers, Appears(r), strays' = strays + 1
          PROVE  StraysCounted'
      BY <1>1, <2>2, StrayCounted
    <2> QED
      BY <1>2, <2>1, <2>2
  <1>14. SentUnpinned'
    BY <1>1 DEF SentUnpinned
  <1>15. PinIsOfTheCard'
    BY <1>1, <1>4 DEF PinIsOfTheCard, CardTypes
  <1> QED
    BY <1>5, <1>7, <1>8, <1>9, <1>12, <1>13, <1>14, <1>15

LEMMA CardStep == CardKept /\ [CardNext]_cardVars => CardKept'
  <1> SUFFICES ASSUME CardKept, [CardNext]_cardVars PROVE CardKept'
    OBVIOUS
  <1>1. ASSUME NEW r \in Renderers,
               \/ StartRenderer(r) \/ SyncCard(r) \/ StatusCard(r)
               \/ TurnEnds(r) \/ TurnEnded(r) \/ FinishCard(r) \/ DisposeRenderer(r)
               \/ DrawStarts(r) \/ FetchAnswered(r) \/ SendAnswered(r) \/ EditAnswered(r)
               \/ PinAnswered(r)
        PROVE  CardKept'
    BY <1>1, StartKeeps, SyncKeeps, StatusKeeps, TurnEndsKeeps, TurnEndedKeeps, FinishKeeps,
       DisposeKeeps, DrawStartsKeeps, FetchKeeps, SendKeeps, EditKeeps, PinKeeps
  <1>2. CASE CancelCard \/ RecoverCard \/ DeleteCard
    BY <1>2, CancelKeeps, RecoverKeeps, DeleteKeeps
  <1>3. CASE CardCrash
    BY <1>3, CrashKeeps
  <1>4. CASE UNCHANGED cardVars
    <2>1. UNCHANGED <<version, told, active, store, cards, shown, pinned, drawnBy, strays, overlapped,
                      drawing, context, persistedPin, message, failed, latest, scheduled, life>>
      BY <1>4 DEF cardVars
    <2>2. CardTypes' /\ WorkIsWorked' /\ ToldIsLatest' /\ TakenIsLatest'
      BY <2>1 DEF CardKept, CardTypes, SentTypes, Sent, WorkIsWorked, Idle, Alive, ToldIsLatest,
                  TakenIsLatest
    <2>3. DrawnIsShown' /\ StoredIsKnown' /\ StraysCounted' /\ SentUnpinned' /\ PinIsOfTheCard'
      BY <2>1 DEF CardKept, DrawnIsShown, Alive, StoredIsKnown, AtWork, TakesUpdates, Idle, StraysCounted,
                  SentUnpinned, PinIsOfTheCard
    <2> QED
      BY <2>2, <2>3 DEF CardKept
  <1> QED
    BY <1>1, <1>2, <1>3, <1>4 DEF CardNext

LEMMA KeptIsFaithful == CardKept => CardIsFaithful
  <1> SUFFICES ASSUME CardKept PROVE ShowsRow /\ OneCard /\ PinIsOfTheCard
    BY DEF CardIsFaithful
  <1>1. ShowsRow
    <2> SUFFICES ASSUME NEW r \in told, Newest(r), IsDrawn(r) PROVE ShowsVersion(r)
      BY DEF ShowsRow
    <2>1. r \in Renderers /\ latest[r] = version
      BY DEF CardKept, CardTypes, ToldIsLatest
    <2>2. context[r] = latest[r]
      BY <2>1 DEF CardKept, TakenIsLatest, Newest, IsDrawn, Idle
    <2> QED
      BY <2>1, <2>2 DEF CardKept, DrawnIsShown, Newest, IsDrawn, Idle, ShowsVersion
  <1>2. OneCard
    <2> SUFFICES ASSUME ~overlapped PROVE Cardinality(cards) <= 1 + strays
      BY DEF OneCard
    <2> DEFINE others == cards \ {store.message}
    <2>1. PICK n \in Nat : n = Len(shown)
      BY DEF CardKept, CardTypes, SentTypes
    <2>2. cards \in SUBSET (1..n) /\ others \in SUBSET (1..n)
      BY <2>1 DEF CardKept, CardTypes, Sent
    <2>3. Cardinality(others) <= strays /\ strays \in Nat
      BY DEF CardKept, StraysCounted, CardTypes
    <2>4. IsFiniteSet(1..n)
      BY FS_Interval
    <2>5. IsFiniteSet(cards)
      BY <2>2, <2>4, FS_Subset
    <2>6. Cardinality(cards) \in Nat
      BY <2>5, FS_CardinalityType
    <2>7. CASE store.message \in cards
      <3>1. Cardinality(others) = Cardinality(cards) - 1
        BY <2>5, <2>7, FS_RemoveElement
      <3> QED
        BY <2>3, <2>6, <3>1
    <2>8. CASE store.message \notin cards
      <3>1. others = cards
        BY <2>8
      <3> QED
        BY <2>3, <2>6, <3>1
    <2> QED
      BY <2>7, <2>8
  <1> QED
    BY <1>1, <1>2 DEF CardKept

\* However updates, drawings, answers, failures, deletions and restarts
\* interleave, and whichever turn changes the row: once nothing is left to
\* draw, the card of the newest renderer shows the row if that renderer was
\* told of its last change; while no two renderers were at work at a time,
\* there is one card but for those whose answers were lost; and a stored pin
\* is the pin of the stored card.
THEOREM CardFaithful == CardSpec => []CardIsFaithful
  <1>1. CardSpec => []CardKept
    BY CardStarts, CardStep, PTL DEF CardSpec
  <1> QED
    BY <1>1, KeptIsFaithful, PTL

-----------------------------------------------------------------------------
\* The units after the a-th, up to the b-th.
Units(a, b) == [k \in 1..(b - a) |-> a + k]

\* Where the message ends that begins after the a-th of b units.
EndOf(a, b) == IF a + Limit <= b THEN a + Limit ELSE b

\* The messages that are written no more: not the one still being edited.
Settled == IF currentMessage = None THEN Len(messages) ELSE Len(messages) - 1

\* The first n messages are the first u units, cut into pieces, without a cursor.
PiecedUpTo(n, u) ==
    \E P \in [0..n -> Nat] :
        /\ P[0] = 0 /\ P[n] = u
        /\ \A i \in 1..n : /\ P[i - 1] <= P[i]
                           /\ messages[i] = [text |-> Units(P[i - 1], P[i]), cursor |-> FALSE]

Request(by, text) == [by |-> by, message |-> currentMessage, text |-> text]

\* The requests under way when base units have left the buffer: a flush, a
\* full message that is closed, or the one behind the other.
AskedFor(base) ==
    \E t \in Seq(Nat) :
        /\ sends = IF flushing /\ currentMessage = None THEN <<Request("flush", t)>> ELSE << >>
        /\ \/ /\ edits = IF flushing /\ currentMessage # None THEN <<Request("flush", t)>> ELSE << >>
              /\ PiecedUpTo(Settled, base)
           \/ /\ currentMessage # None /\ Limit <= base
              /\ edits = IF flushing
                         THEN <<Request("flush", t), Request("close", Units(base - Limit, base))>>
                         ELSE <<Request("close", Units(base - Limit, base))>>
              /\ PiecedUpTo(Settled, base - Limit)

\* Up to finish: the buffer is what is in no message that is settled or being
\* closed, and it is not empty while a message can still be edited.
Streaming ==
    \E base \in 0..given :
        /\ buffer = Units(base, given)
        /\ currentMessage # None \/ flushing => base < given
        /\ AskedFor(base)

\* In finish: the chunks are what is in no settled message, nor being written.
Writing ==
    \E w \in 0..given :
        /\ PiecedUpTo(Settled, w)
        /\ CASE stage = "writing" ->
                  /\ edits = << >> /\ sends = << >>
                  /\ chunks = Chunks(Units(w, given))
                  /\ currentMessage # None => w < given
             [] stage = "waiting" ->
                  LET r == Request("final", Units(w, EndOf(w, given))) IN
                  /\ w < given
                  /\ edits = IF currentMessage = None THEN << >> ELSE <<r>>
                  /\ sends = IF currentMessage = None THEN <<r>> ELSE << >>
                  /\ chunks = Chunks(Units(EndOf(w, given), given))
             [] OTHER ->
                  /\ edits = << >> /\ sends = << >>
                  /\ w = given /\ currentMessage = None

StreamTypes ==
    /\ given \in Nat
    /\ flushing \in BOOLEAN
    /\ messages \in Seq([text : Seq(Nat), cursor : BOOLEAN])
    /\ currentMessage \in {None, Len(messages)}
    /\ stage \in {"streaming", "draining", "writing", "waiting", "finished"}

\* While no request failed and no full message was disturbed.
StreamKept ==
    ~lostRequest /\ ~disturbed =>
        /\ StreamTypes
        /\ IF stage \in {"streaming", "draining"} THEN Streaming ELSE Writing

-----------------------------------------------------------------------------
LEMMA LeastOf == \A a, b \in Int : Min({a, b}) = IF a <= b THEN a ELSE b
  <1> SUFFICES ASSUME NEW a \in Int, NEW b \in Int PROVE Min({a, b}) = IF a <= b THEN a ELSE b
    OBVIOUS
  <1> DEFINE m == IF a <= b THEN a ELSE b
  <1>1. m \in {a, b} /\ \A y \in {a, b} : m <= y
    OBVIOUS
  <1>2. \A x \in {a, b} : (\A y \in {a, b} : x <= y) => x = m
    OBVIOUS
  <1> QED
    BY <1>1, <1>2 DEF Min

LEMMA UnitsAre ==
    ASSUME NEW a \in Nat, NEW b \in Nat, a <= b
    PROVE  /\ Units(a, b) \in Seq(Nat)
           /\ Len(Units(a, b)) = b - a
           /\ \A k \in 1..(b - a) : Units(a, b)[k] = a + k
           /\ Units(a, b) = << >> <=> a = b
  <1>1. \A k \in 1..(b - a) : a + k \in Nat
    OBVIOUS
  <1>2. b - a \in Nat
    OBVIOUS
  <1>3. Units(a, b) \in Seq(Nat)
    BY <1>1, <1>2, IsASeq DEF Units
  <1>4. Len(Units(a, b)) = b - a
    BY <1>2, <1>3, LenProperties DEF Units
  <1>5. Units(a, b) = << >> <=> a = b
    BY <1>3, <1>4, EmptySeq
  <1> QED
    BY <1>3, <1>4, <1>5 DEF Units

\* What is appended to a buffer.
LEMMA UnitsJoined ==
    ASSUME NEW a \in Nat, NEW b \in Nat, NEW c \in Nat, a <= b, b <= c
    PROVE  Units(a, b) \o Units(b, c) = Units(a, c)
  <1>1. PICK s, t : s = Units(a, b) /\ t = Units(b, c)
    OBVIOUS
  <1>2. PICK u : u = Units(a, c)
    OBVIOUS
  <1>3. /\ s \in Seq(Nat) /\ Len(s) = b - a /\ \A k \in 1..(b - a) : s[k] = a + k
        /\ t \in Seq(Nat) /\ Len(t) = c - b /\ \A k \in 1..(c - b) : t[k] = b + k
    BY <1>1, UnitsAre, ZenonT(30)
  <1>4. u \in Seq(Nat) /\ Len(u) = c - a /\ \A k \in 1..(c - a) : u[k] = a + k
    <2>1. a <= c
      OBVIOUS
    <2> QED
      BY <1>2, <2>1, UnitsAre, ZenonT(30)
  <1>5. /\ s \o t \in Seq(Nat) /\ Len(s \o t) = c - a
        /\ \A i \in 1..(c - a) : (s \o t)[i] = IF i <= b - a THEN s[i] ELSE t[i - (b - a)]
    <2>1. Len(s) + Len(t) = c - a
      BY <1>3
    <2>2. /\ s \o t \in Seq(Nat) /\ Len(s \o t) = Len(s) + Len(t)
          /\ \A i \in 1..(Len(s) + Len(t)) : (s \o t)[i] = IF i <= Len(s) THEN s[i] ELSE t[i - Len(s)]
      BY <1>3, ConcatProperties
    <2>3. Len(s) = b - a
      BY <1>3
    <2> QED
      BY <2>1, <2>2, <2>3
  <1>6. \A i \in 1..(c - a) : (s \o t)[i] = u[i]
    <2> SUFFICES ASSUME NEW i \in 1..(c - a) PROVE (s \o t)[i] = u[i]
      OBVIOUS
    <2>1. CASE i <= b - a
      BY <1>3, <1>4, <1>5, <2>1
    <2>2. CASE ~(i <= b - a)
      <3>1. i - (b - a) \in 1..(c - b)
        BY <2>2
      <3> QED
        BY <1>3, <1>4, <1>5, <2>2, <3>1, SMTT(30)
    <2> QED
      BY <2>1, <2>2
  <1> QED
    BY <1>1, <1>2, <1>4, <1>5, <1>6, SeqEqual

LEMMA UnitsCut ==
    ASSUME NEW a \in Nat, NEW b \in Nat, NEW c \in Nat, NEW d \in Nat, a <= c, c <= d, d <= b
    PROVE  SubSeq(Units(a, b), c - a + 1, d - a) = Units(c, d)
  <1>1. PICK s : s = Units(a, b)
    OBVIOUS
  <1>2. PICK u : u = Units(c, d)
    OBVIOUS
  <1>3. s \in Seq(Nat) /\ Len(s) = b - a /\ \A k \in 1..(b - a) : s[k] = a + k
    <2>1. a <= b
      OBVIOUS
    <2> QED
      BY <1>1, <2>1, UnitsAre
  <1>4. u \in Seq(Nat) /\ Len(u) = d - c /\ \A k \in 1..(d - c) : u[k] = c + k
    BY <1>2, UnitsAre, ZenonT(30)
  <1>5. PICK m \in Int, n \in Int : m = c - a + 1 /\ n = d - a
    OBVIOUS
  <1>6. PICK v : v = SubSeq(s, m, n)
    OBVIOUS
  <1>7. v \in Seq(Nat) /\ Len(v) = d - c /\ \A i \in 1..(d - c) : v[i] = s[c - a + i]
    <2>1. \A i \in m..n : s[i] \in Nat
      BY <1>3, <1>5
    <2>2. /\ v \in Seq(Nat) /\ Len(v) = IF m <= n THEN n - m + 1 ELSE 0
          /\ \A i \in 1..(n - m + 1) : v[i] = s[m + i - 1]
      BY <1>6, <2>1, SubSeqProperties
    <2>3. n - m + 1 = d - c /\ (m <= n <=> c < d)
      BY <1>5
    <2>4. Len(v) = d - c
      BY <2>2, <2>3
    <2>5. ASSUME NEW i \in 1..(d - c) PROVE v[i] = s[c - a + i]
      <3>1. m + i - 1 = c - a + i
        BY <1>5
      <3>2. v[i] = s[m + i - 1]
        BY <2>2, <2>3
      <3> QED
        BY <3>1, <3>2
    <2> QED
      BY <2>2, <2>4, <2>5
  <1>8. \A i \in 1..(d - c) : v[i] = u[i]
    <2> SUFFICES ASSUME NEW i \in 1..(d - c) PROVE v[i] = u[i]
      OBVIOUS
    <2>1. c - a + i \in 1..(b - a) /\ a + (c - a + i) = c + i
      OBVIOUS
    <2> QED
      BY <1>3, <1>4, <1>7, <2>1
  <1> QED
    BY <1>1, <1>2, <1>4, <1>5, <1>6, <1>7, <1>8, SeqEqual

\* What a message takes of a buffer, and what remains.
LEMMA UnitsSplit ==
    ASSUME NEW a \in Nat, NEW b \in Nat, a <= b
    PROVE  /\ EndOf(a, b) \in Nat /\ a <= EndOf(a, b) /\ EndOf(a, b) <= b
           /\ a < b => a < EndOf(a, b)
           /\ First(Units(a, b)) = Units(a, EndOf(a, b))
           /\ a + Limit < b => Rest(Units(a, b)) = Units(a + Limit, b)
  <1>1. /\ EndOf(a, b) \in Nat /\ a <= EndOf(a, b) /\ EndOf(a, b) <= b
        /\ a < b => a < EndOf(a, b)
    BY StreamAssumption DEF EndOf
  <1>2. First(Units(a, b)) = Units(a, EndOf(a, b))
    <2>1. Min({Limit, Len(Units(a, b))}) = EndOf(a, b) - a
      <3>1. Len(Units(a, b)) = b - a
        BY UnitsAre
      <3>2. Min({Limit, b - a}) = IF Limit <= b - a THEN Limit ELSE b - a
        BY StreamAssumption, LeastOf
      <3> QED
        BY StreamAssumption, <3>1, <3>2 DEF EndOf
    <2>2. PICK e \in Nat : e = EndOf(a, b)
      BY <1>1
    <2>3. a <= a /\ a <= e /\ e <= b /\ a - a + 1 = 1
      BY <1>1, <2>2
    <2>4. SubSeq(Units(a, b), a - a + 1, e - a) = Units(a, e)
      BY <2>3, UnitsCut
    <2> QED
      BY <2>1, <2>2, <2>3, <2>4 DEF First, Upto
  <1>3. ASSUME a + Limit < b PROVE Rest(Units(a, b)) = Units(a + Limit, b)
    <2>1. PICK c \in Nat : c = a + Limit
      BY StreamAssumption
    <2>2. a <= c /\ c <= b /\ b <= b /\ c - a + 1 = Limit + 1
      BY StreamAssumption, <1>3, <2>1
    <2>3. SubSeq(Units(a, b), c - a + 1, b - a) = Units(c, b)
      BY <2>2, UnitsCut, ZenonT(30)
    <2>4. Len(Units(a, b)) = b - a
      BY UnitsAre
    <2> QED
      BY <2>1, <2>2, <2>3, <2>4 DEF Rest
  <1> QED
    BY <1>1, <1>2, <1>3

LEMMA Division ==
    ASSUME NEW n \in Nat \ {0}, NEW x \in Nat
    PROVE  /\ x \div n \in Nat
           /\ (x \div n) * n <= x
           /\ x < n => x \div n = 0
           /\ (x + n) \div n = (x \div n) + 1
  OBVIOUS

\* How many chunks l units make.
Many(l) == (l + Limit - 1) \div Limit

LEMMA ManyAre ==
    ASSUME NEW l \in Nat
    PROVE  /\ Many(l) \in Nat
           /\ l = 0 => Many(l) = 0
           /\ 0 < l /\ l <= Limit => Many(l) = 1
           /\ Limit < l => Many(l) = Many(l - Limit) + 1
           /\ \A i \in 1..Many(l) : (i - 1) * Limit \in Nat /\ (i - 1) * Limit < l
  <1> USE StreamAssumption
  <1>1. PICK x \in Nat : x = l + Limit - 1
    OBVIOUS
  <1>2. Many(l) = x \div Limit
    BY <1>1 DEF Many
  <1>3. Many(l) \in Nat
    BY <1>2, Division
  <1>4. ASSUME l = 0 PROVE Many(l) = 0
    <2>1. x < Limit
      BY <1>1, <1>4
    <2> QED
      BY <1>2, <2>1, Division
  <1>5. ASSUME 0 < l PROVE \E y \in Nat : y = l - 1 /\ x = y + Limit /\ Many(l) = (y \div Limit) + 1
    <2>1. PICK y \in Nat : y = l - 1
      BY <1>5
    <2>2. x = y + Limit
      BY <1>1, <2>1
    <2> QED
      BY <1>2, <2>1, <2>2, Division
  <1>6. ASSUME 0 < l, l <= Limit PROVE Many(l) = 1
    <2>1. PICK y \in Nat : y = l - 1 /\ Many(l) = (y \div Limit) + 1
      BY <1>5, <1>6
    <2>2. y < Limit
      BY <1>6, <2>1
    <2>3. y \div Limit = 0
      BY <2>2, Division
    <2> QED
      BY <2>1, <2>3
  <1>7. ASSUME Limit < l PROVE Many(l) = Many(l - Limit) + 1
    <2>1. PICK y \in Nat : y = l - 1 /\ Many(l) = (y \div Limit) + 1
      BY <1>5, <1>7
    <2>2. y = (l - Limit) + Limit - 1
      BY <2>1
    <2> QED
      BY <2>1, <2>2 DEF Many
  <1>8. ASSUME NEW i \in 1..Many(l) PROVE (i - 1) * Limit \in Nat /\ (i - 1) * Limit < l
    <2>1. PICK n \in Nat : n = Many(l)
      BY <1>3
    <2>2. n * Limit <= l + Limit - 1
      BY <1>1, <1>2, <2>1, Division
    <2>3. i \in 1..n
      BY <2>1
    <2>4. i * Limit <= n * Limit
      BY <2>3
    <2>5. (i - 1) * Limit = i * Limit - Limit
      BY <2>3
    <2>6. (i - 1) * Limit \in Nat
      BY <2>3
    <2> QED
      BY <2>2, <2>3, <2>4, <2>5, <2>6
  <1> QED
    BY <1>3, <1>4, <1>6, <1>7, <1>8

\* Each chunk is what a message takes of what the chunks before it leave.
LEMMA ChunkIs ==
    ASSUME NEW a \in Nat, NEW b \in Nat, a <= b
    PROVE  /\ Chunks(Units(a, b)) \in Seq(Seq(Nat))
           /\ Len(Chunks(Units(a, b))) = Many(b - a)
           /\ \A i \in 1..Many(b - a) :
                 Chunks(Units(a, b))[i] = Units(a + (i - 1) * Limit, EndOf(a + (i - 1) * Limit, b))
  <1> DEFINE Piece(i) == SubSeq(Units(a, b), (i - 1) * Limit + 1, Min({i * Limit, Len(Units(a, b))}))
  <1>1. PICK l \in Nat : l = b - a
    OBVIOUS
  <1>2. Len(Units(a, b)) = l
    BY <1>1, UnitsAre
  <1>3. PICK n \in Nat : n = Many(l)
    BY ManyAre
  <1>4. ASSUME NEW i \in 1..n
        PROVE  /\ Piece(i) = Units(a + (i - 1) * Limit, EndOf(a + (i - 1) * Limit, b))
               /\ Piece(i) \in Seq(Nat)
    <2>1. PICK p \in Nat : p = (i - 1) * Limit
      BY <1>3, ManyAre
    <2>2. p < l
      BY <1>3, <2>1, ManyAre
    <2>3. i * Limit = p + Limit
      BY StreamAssumption, <2>1
    <2>4. PICK c \in Nat : c = a + p
      OBVIOUS
    <2>5. a <= c /\ c <= b
      BY <1>1, <2>2, <2>4
    <2>6. PICK e \in Nat : e = EndOf(c, b)
      BY <2>5, UnitsSplit
    <2>7. c <= e /\ e <= b
      BY <2>5, <2>6, UnitsSplit
    <2>8. Min({p + Limit, l}) = e - a
      <3>1. Min({p + Limit, l}) = IF p + Limit <= l THEN p + Limit ELSE l
        BY StreamAssumption, LeastOf
      <3> QED
        BY StreamAssumption, <1>1, <2>4, <2>6, <3>1 DEF EndOf
    <2>9. SubSeq(Units(a, b), c - a + 1, e - a) = Units(c, e)
      BY <2>5, <2>7, UnitsCut
    <2>10. Piece(i) = SubSeq(Units(a, b), p + 1, Min({p + Limit, l}))
      BY <1>2, <2>1, <2>3
    <2>11. Piece(i) = Units(c, e)
      <3>1. c - a + 1 = p + 1
        BY <2>4
      <3> HIDE DEF Piece
      <3> QED
        BY <2>8, <2>9, <2>10, <3>1
    <2>12. Units(c, e) \in Seq(Nat)
      BY <2>7, UnitsAre
    <2> HIDE DEF Piece
    <2> QED
      BY <2>1, <2>4, <2>6, <2>11, <2>12
  <1>5. Chunks(Units(a, b)) = [i \in 1..n |-> Piece(i)]
    BY <1>2, <1>3 DEF Chunks, Many
  <1> HIDE DEF Piece
  <1>6. [i \in 1..n |-> Piece(i)] \in Seq(Seq(Nat))
    BY <1>4, IsASeq
  <1>7. Len([i \in 1..n |-> Piece(i)]) = n
    BY <1>6, LenProperties
  <1> QED
    BY <1>1, <1>3, <1>4, <1>5, <1>6, <1>7

\* finish writes the chunks one after the other, each to a message.
LEMMA ChunksSplit ==
    ASSUME NEW a \in Nat, NEW b \in Nat, a <= b
    PROVE  /\ Chunks(Units(a, b)) = << >> <=> a = b
           /\ a < b => /\ Head(Chunks(Units(a, b))) = Units(a, EndOf(a, b))
                       /\ Tail(Chunks(Units(a, b))) = Chunks(Units(EndOf(a, b), b))
  <1>1. PICK l \in Nat : l = b - a
    OBVIOUS
  <1>2. PICK s : s = Chunks(Units(a, b))
    OBVIOUS
  <1>3. /\ s \in Seq(Seq(Nat)) /\ Len(s) = Many(l)
        /\ \A i \in 1..Many(l) : s[i] = Units(a + (i - 1) * Limit, EndOf(a + (i - 1) * Limit, b))
    BY <1>1, <1>2, ChunkIs
  <1>4. PICK n \in Nat : n = Many(l)
    BY ManyAre
  <1>5. n = 0 <=> a = b
    <2>1. l = 0 => n = 0
      BY <1>4, ManyAre
    <2>2. 0 < l /\ l <= Limit => n = 1
      BY <1>4, ManyAre
    <2>3. Limit < l => n # 0
      <3> SUFFICES ASSUME Limit < l PROVE n # 0
        OBVIOUS
      <3>1. PICK k \in Nat : k = l - Limit
        BY StreamAssumption
      <3>2. n = Many(k) + 1 /\ Many(k) \in Nat
        BY <1>4, <3>1, ManyAre
      <3> QED
        BY <3>2
    <2> QED
      BY StreamAssumption, <1>1, <2>1, <2>2, <2>3
  <1>6. s = << >> <=> a = b
    BY <1>3, <1>4, <1>5, EmptySeq
  <1>7. ASSUME a < b
        PROVE  Head(s) = Units(a, EndOf(a, b)) /\ Tail(s) = Chunks(Units(EndOf(a, b), b))
    <2>1. s # << >> /\ 1 \in 1..n
      BY <1>4, <1>5, <1>6, <1>7
    <2>2. Head(s) = s[1]
      BY <1>3, <2>1
    <2>3. a + (1 - 1) * Limit = a
      BY StreamAssumption
    <2>4. s[1] = Units(a, EndOf(a, b))
      BY <1>3, <1>4, <2>1, <2>3
    <2>5. PICK e \in Nat : e = EndOf(a, b)
      BY UnitsSplit
    <2>6. e <= b
      BY <2>5, UnitsSplit
    <2>7. PICK t : t = Chunks(Units(e, b))
      OBVIOUS
    <2>8. PICK k \in Nat : k = b - e
      BY <2>6
    <2>9. /\ t \in Seq(Seq(Nat)) /\ Len(t) = Many(k)
          /\ \A i \in 1..Many(k) : t[i] = Units(e + (i - 1) * Limit, EndOf(e + (i - 1) * Limit, b))
      BY <2>6, <2>7, <2>8, ChunkIs
    <2>10. n = Many(k) + 1 /\ Many(k) \in Nat
      <3>1. CASE a + Limit <= b
        <4>1. e = a + Limit /\ k = l - Limit
          BY StreamAssumption, <1>1, <2>5, <2>8, <3>1 DEF EndOf
        <4>2. CASE Limit < l
          BY <1>4, <4>1, <4>2, ManyAre
        <4>3. CASE l = Limit
          <5>1. k = 0 /\ 0 < l
            BY StreamAssumption, <4>1, <4>3
          <5>2. Many(l) = 1
            BY StreamAssumption, <4>3, <5>1, ManyAre
          <5>3. Many(k) = 0
            BY <5>1, ManyAre
          <5> QED
            BY <1>4, <5>2, <5>3
        <4> QED
          BY StreamAssumption, <1>1, <3>1, <4>2, <4>3
      <3>2. CASE ~(a + Limit <= b)
        <4>1. e = b /\ k = 0
          BY <2>5, <2>8, <3>2 DEF EndOf
        <4>2. 0 < l /\ l <= Limit
          BY StreamAssumption, <1>1, <1>7, <3>2
        <4>3. Many(l) = 1
          BY <4>2, ManyAre
        <4>4. Many(k) = 0
          BY <4>1, ManyAre
        <4> QED
          BY <1>4, <4>3, <4>4
      <3> QED
        BY <3>1, <3>2
    <2>11. Tail(s) \in Seq(Seq(Nat)) /\ Len(Tail(s)) = n - 1 /\ \A i \in 1..(n - 1) : Tail(s)[i] = s[i + 1]
      BY <1>3, <1>4, <2>1, HeadTailProperties
    <2>12. ASSUME NEW i \in 1..(n - 1) PROVE s[i + 1] = t[i]
      <3>1. PICK m \in Nat : m = Many(k)
        BY <2>10
      <3>2. i \in 1..m /\ i + 1 \in 1..n /\ m # 0
        BY <2>10, <3>1
      <3>3. a + Limit <= b
        <4> SUFFICES ASSUME ~(a + Limit <= b) PROVE FALSE
          OBVIOUS
        <4>1. k = 0
          BY <2>5, <2>8 DEF EndOf
        <4> QED
          BY <3>1, <3>2, <4>1, ManyAre
      <3>4. e = a + Limit
        BY <2>5, <3>3 DEF EndOf
      <3>5. a + ((i + 1) - 1) * Limit = e + (i - 1) * Limit
        BY StreamAssumption, <3>4, <3>2
      <3>6. s[i + 1] = Units(a + ((i + 1) - 1) * Limit, EndOf(a + ((i + 1) - 1) * Limit, b))
        BY <1>3, <1>4, <3>2
      <3>7. t[i] = Units(e + (i - 1) * Limit, EndOf(e + (i - 1) * Limit, b))
        BY <2>9, <3>1, <3>2
      <3> QED
        BY <3>5, <3>6, <3>7
    <2>13. Tail(s) = t
      <3>1. Len(t) = n - 1
        BY <2>9, <2>10
      <3> QED
        BY <2>9, <2>11, <2>12, <3>1, SeqEqual
    <2> QED
      BY <2>2, <2>4, <2>5, <2>7, <2>13
  <1> QED
    BY <1>2, <1>6, <1>7

\* Messages that are pieces of the text are the text.
LEMMA PiecesAreText ==
    ASSUME NEW u, messages \in Seq([text : Seq(Nat), cursor : BOOLEAN]), PiecedUpTo(Len(messages), u)
    PROVE  Shown = Units(0, u)
  <1>1. PICK n \in Nat : n = Len(messages)
    BY LenProperties
  <1>2. PICK P \in [0..n -> Nat] :
          /\ P[0] = 0 /\ P[n] = u
          /\ \A i \in 1..n : /\ P[i - 1] <= P[i]
                             /\ messages[i] = [text |-> Units(P[i - 1], P[i]), cursor |-> FALSE]
    BY <1>1 DEF PiecedUpTo
  <1>3. PICK s : s = [i \in DOMAIN messages |-> messages[i].text]
    OBVIOUS
  <1>4. s = [i \in 1..n |-> messages[i].text] /\ \A i \in 1..n : messages[i].text \in Seq(Nat)
    <2>1. messages \in [1..n -> [text : Seq(Nat), cursor : BOOLEAN]]
      BY <1>1, LenProperties
    <2>2. \A i \in 1..n : messages[i] \in [text : Seq(Nat), cursor : BOOLEAN]
      BY <2>1
    <2>3. \A i \in 1..n : messages[i].text \in Seq(Nat)
      BY <2>2
    <2> QED
      BY <1>3, <2>1, <2>3
  <1>5. s \in Seq(Seq(Nat)) /\ Len(s) = n
    BY <1>4
  <1>6. \A i \in 1..n : s[i] = Units(P[i - 1], P[i])
    <2> SUFFICES ASSUME NEW i \in 1..n PROVE s[i] = Units(P[i - 1], P[i])
      OBVIOUS
    <2>1. messages[i] = [text |-> Units(P[i - 1], P[i]), cursor |-> FALSE]
      BY <1>2
    <2>2. messages[i].text = Units(P[i - 1], P[i])
      BY <2>1
    <2> QED
      BY <1>4, <2>2
  <1>7. CASE n = 0
    <2>1. s = << >>
      BY <1>5, <1>7
    <2>2. Units(0, 0) = << >>
      BY UnitsAre
    <2>3. FlattenSeq(s) = s
      BY <1>5, <1>7 DEF FlattenSeq
    <2> QED
      BY <1>2, <1>3, <1>7, <2>1, <2>2, <2>3 DEF Shown
  <1>8. CASE n # 0
    <2> DEFINE flatten == CHOOSE f : f = [i \in 1..Len(s) |-> IF i = 1 THEN s[i] ELSE f[i - 1] \o s[i]]
               text == [i \in 1..n |-> Units(0, P[i])]
    <2>1. FlattenSeq(s) = flatten[Len(s)]
      BY <1>5, <1>8 DEF FlattenSeq
    <2>2. ASSUME NEW i \in 1..n
          PROVE  Units(0, P[i]) = IF i = 1 THEN s[i] ELSE Units(0, P[i - 1]) \o s[i]
      <3>0. i - 1 \in 0..n /\ i \in 0..n
        OBVIOUS
      <3>1. PICK p \in Nat, q \in Nat : p = P[i - 1] /\ q = P[i]
        BY <3>0
      <3>a. P[i - 1] <= P[i]
        BY <1>2
      <3>b. 0 <= p /\ p <= q
        BY <3>1, <3>a
      <3>c. Units(0, p) \o Units(p, q) = Units(0, q)
        BY <3>b, UnitsJoined
      <3>2. Units(0, P[i - 1]) \o Units(P[i - 1], P[i]) = Units(0, P[i])
        BY <3>1, <3>c
      <3>3. i = 1 => i - 1 = 0
        OBVIOUS
      <3> QED
        BY <1>2, <1>6, <3>2, <3>3
    <2>3. text = [i \in 1..Len(s) |-> IF i = 1 THEN s[i] ELSE text[i - 1] \o s[i]]
      <3>1. ASSUME NEW i \in 1..n PROVE text[i] = IF i = 1 THEN s[i] ELSE text[i - 1] \o s[i]
        <4>1. i # 1 => i - 1 \in 1..n
          OBVIOUS
        <4> QED
          BY <2>2, <4>1
      <3> HIDE DEF text
      <3>2. text = [i \in 1..n |-> text[i]]
        BY DEF text
      <3> QED
        BY <1>5, <3>1, <3>2
    <2>4. flatten = [i \in 1..n |-> IF i = 1 THEN s[i] ELSE flatten[i - 1] \o s[i]]
      <3> HIDE DEF text
      <3>1. \E f : f = [i \in 1..Len(s) |-> IF i = 1 THEN s[i] ELSE f[i - 1] \o s[i]]
        BY <2>3
      <3> QED
        BY <1>5, <3>1
    <2> HIDE DEF flatten
    <2> DEFINE Wrong == {i \in 1..n : flatten[i] # text[i]}
               R == OpToRel(<, Nat)
    <2>5. Wrong = {}
      <3> SUFFICES ASSUME Wrong # {} PROVE FALSE
        OBVIOUS
      <3>1. Wrong \subseteq Nat
        OBVIOUS
      <3>2. IsWellFoundedOn(R, Nat)
        BY NatLessThanWellFounded
      <3>3. PICK least \in Wrong : \A i \in Wrong : ~(<<i, least>> \in R)
        <4> HIDE DEF R, Wrong
        <4> QED
          BY <3>1, <3>2, WFMin, Zenon
      <3>4. \A i \in Wrong : ~(i < least)
        <4> HIDE DEF Wrong
        <4> QED
          BY <3>1, <3>3 DEF OpToRel
      <3>5. least \in 1..n
        OBVIOUS
      <3>6. least # 1 => least - 1 \in 1..n /\ flatten[least - 1] = text[least - 1]
        BY <3>4, <3>5
      <3>7. flatten[least] = IF least = 1 THEN s[least] ELSE flatten[least - 1] \o s[least]
        BY <2>4, <3>5
      <3>8. text[least] = IF least = 1 THEN s[least] ELSE text[least - 1] \o s[least]
        <4> HIDE DEF text
        <4> QED
          BY <1>5, <2>3, <3>5
      <3>9. flatten[least] = text[least]
        <4> HIDE DEF text
        <4> QED
          BY <3>6, <3>7, <3>8
      <3> QED
        BY <3>9
    <2>6. n \in 1..n
      BY <1>8
    <2>7. flatten[n] = Units(0, u)
      BY <1>2, <2>5, <2>6
    <2> QED
      BY <1>3, <1>5, <2>1, <2>7 DEF Shown
  <1> QED
    BY <1>7, <1>8

-----------------------------------------------------------------------------
LEMMA PiecesStay ==
    ASSUME NEW n \in Nat, NEW u, PiecedUpTo(n, u), \A i \in 1..n : messages'[i] = messages[i]
    PROVE  PiecedUpTo(n, u)'
BY DEF PiecedUpTo

\* The message being written becomes a piece.
LEMMA PieceAdded ==
    ASSUME NEW n \in Nat, NEW u \in Nat, NEW v \in Nat, u <= v, PiecedUpTo(n, u),
           \A i \in 1..n : messages'[i] = messages[i],
           messages'[n + 1] = [text |-> Units(u, v), cursor |-> FALSE]
    PROVE  PiecedUpTo(n + 1, v)'
  <1>1. PICK P \in [0..n -> Nat] :
          /\ P[0] = 0 /\ P[n] = u
          /\ \A i \in 1..n : /\ P[i - 1] <= P[i]
                             /\ messages[i] = [text |-> Units(P[i - 1], P[i]), cursor |-> FALSE]
    BY DEF PiecedUpTo
  <1>2. PICK Q : Q = [i \in 0..(n + 1) |-> IF i = n + 1 THEN v ELSE P[i]]
    OBVIOUS
  <1>3. /\ Q \in [0..(n + 1) -> Nat] /\ Q[n + 1] = v
        /\ \A i \in 0..n : Q[i] = P[i]
    BY <1>2
  <1>4. Q[0] = 0
    BY <1>1, <1>3
  <1>5. ASSUME NEW i \in 1..(n + 1)
        PROVE  Q[i - 1] <= Q[i] /\ messages'[i] = [text |-> Units(Q[i - 1], Q[i]), cursor |-> FALSE]
    <2>1. CASE i = n + 1
      <3>1. i - 1 = n /\ n \in 0..n
        BY <2>1
      <3>2. Q[i - 1] = u /\ Q[i] = v
        BY <1>1, <1>3, <2>1, <3>1
      <3> QED
        BY <2>1, <3>2
    <2>2. CASE i # n + 1
      <3>1. i \in 1..n /\ i \in 0..n /\ i - 1 \in 0..n
        BY <2>2
      <3>2. Q[i - 1] = P[i - 1] /\ Q[i] = P[i]
        BY <1>3, <3>1
      <3> QED
        BY <1>1, <3>1, <3>2
    <2> QED
      BY <2>1, <2>2
  <1> QED
    BY <1>3, <1>4, <1>5 DEF PiecedUpTo

Undisturbed == ~lostRequest /\ ~disturbed

LEMMA SettledIs ==
    ASSUME StreamTypes
    PROVE  /\ Len(messages) \in Nat /\ Settled \in Nat
           /\ currentMessage = None => Settled = Len(messages)
           /\ currentMessage # None => currentMessage = Len(messages) /\ Settled + 1 = Len(messages)
BY DEF StreamTypes, Settled, None

LEMMA StreamStarts == StreamInit => StreamKept
  <1> SUFFICES ASSUME StreamInit PROVE StreamTypes /\ Streaming
    BY DEF StreamInit, StreamKept
  <1>1. StreamTypes
    <2>1. << >> \in Seq([text : Seq(Nat), cursor : BOOLEAN])
      OBVIOUS
    <2>2. messages \in Seq([text : Seq(Nat), cursor : BOOLEAN])
      BY <2>1 DEF StreamInit
    <2> QED
      BY <2>2 DEF StreamInit, StreamTypes
  <1>2. Settled = 0
    BY DEF StreamInit, Settled, None
  <1>3. PiecedUpTo(0, 0)
    <2>1. PICK P \in [0..0 -> Nat] : P[0] = 0
      <3>1. [i \in 0..0 |-> 0] \in [0..0 -> Nat] /\ [i \in 0..0 |-> 0][0] = 0
        OBVIOUS
      <3> QED
        BY <3>1
    <2>2. 1..0 = {}
      OBVIOUS
    <2> QED
      BY <2>1, <2>2 DEF PiecedUpTo
  <1>4. AskedFor(0)
    <2>1. << >> \in Seq(Nat)
      OBVIOUS
    <2> QED
      BY <1>2, <1>3, <2>1 DEF StreamInit, AskedFor
  <1>5. Units(0, 0) = << >>
    BY UnitsAre
  <1>6. 0 \in 0..given /\ buffer = << >> /\ currentMessage = None /\ ~flushing /\ given = 0
    BY DEF StreamInit
  <1> QED
    BY <1>1, <1>4, <1>5, <1>6 DEF Streaming

\* A message that is not being closed: a flush at most is under way.
LEMMA NothingCloses ==
    ASSUME NEW base \in Nat, AskedFor(base), ~Closing
    PROVE  \E t \in Seq(Nat) :
             /\ sends = IF flushing /\ currentMessage = None THEN <<Request("flush", t)>> ELSE << >>
             /\ edits = IF flushing /\ currentMessage # None THEN <<Request("flush", t)>> ELSE << >>
             /\ PiecedUpTo(Settled, base)
  <1>1. PICK t \in Seq(Nat) :
          /\ sends = IF flushing /\ currentMessage = None THEN <<Request("flush", t)>> ELSE << >>
          /\ \/ /\ edits = IF flushing /\ currentMessage # None THEN <<Request("flush", t)>> ELSE << >>
                /\ PiecedUpTo(Settled, base)
             \/ edits = IF flushing
                        THEN <<Request("flush", t), Request("close", Units(base - Limit, base))>>
                        ELSE <<Request("close", Units(base - Limit, base))>>
    BY DEF AskedFor
  <1>2. edits # <<Request("close", Units(base - Limit, base))>>
    <2> SUFFICES ASSUME edits = <<Request("close", Units(base - Limit, base))>> PROVE Closing
      OBVIOUS
    <2>1. 1 \in DOMAIN edits /\ edits[1].by = "close"
      BY DEF Request
    <2> QED
      BY <2>1 DEF Closing
  <1>3. edits # <<Request("flush", t), Request("close", Units(base - Limit, base))>>
    <2> SUFFICES ASSUME edits = <<Request("flush", t), Request("close", Units(base - Limit, base))>>
                 PROVE  Closing
      OBVIOUS
    <2>1. 2 \in DOMAIN edits /\ edits[2].by = "close"
      BY DEF Request
    <2> QED
      BY <2>1 DEF Closing
  <1> QED
    BY <1>1, <1>2, <1>3

\* What a list of one request, and an empty one, are with another added.
LEMMA OneMore ==
    ASSUME NEW a, NEW b
    PROVE  Append(<<a>>, b) = <<a, b>> /\ Append(<< >>, b) = <<b>>
  <1>1. PICK S : S = {a, b}
    OBVIOUS
  <1>2. a \in S /\ b \in S
    BY <1>1
  <1>3. <<a>> \in Seq(S) /\ << >> \in Seq(S) /\ <<a, b>> \in Seq(S)
    BY <1>2
  <1>4. Append(<<a>>, b) = <<a, b>>
    <2>1. PICK s \in Seq(S) : s = <<a>>
      BY <1>3
    <2>2. Len(s) = 1 /\ s[1] = a
      BY <2>1
    <2>3. PICK t \in Seq(S) : t = <<a, b>>
      BY <1>3
    <2>4. Len(t) = 2 /\ t[1] = a /\ t[2] = b
      BY <2>3
    <2>5. PICK u \in Seq(S) : u = Append(s, b) /\ Len(u) = Len(s) + 1
                              /\ (\A i \in 1..Len(s) : u[i] = s[i]) /\ u[Len(s) + 1] = b
      BY <1>2, AppendProperties
    <2>6. Len(u) = 2 /\ u[1] = a /\ u[2] = b
      BY <2>2, <2>5
    <2>7. \A i \in 1..Len(u) : u[i] = t[i]
      BY <2>4, <2>6
    <2>8. u = t
      BY <2>4, <2>6, <2>7, SeqEqual
    <2> QED
      BY <2>1, <2>3, <2>5, <2>8
  <1>5. Append(<< >>, b) = <<b>>
    BY <1>2, <1>3
  <1> QED
    BY <1>4, <1>5

LEMMA TextDeltaKeeps ==
    ASSUME StreamKept, NEW n \in 1..(Limit + 1), TextDelta(n), Undisturbed'
    PROVE  StreamTypes' /\ Streaming' /\ stage' = "streaming"
  <1> USE StreamAssumption
  <1>1. StreamTypes /\ Streaming /\ stage = "streaming" /\ stage' = stage
    BY DEF StreamKept, Undisturbed, TextDelta
  <1>2. PICK base \in 0..given :
          /\ buffer = Units(base, given)
          /\ currentMessage # None \/ flushing => base < given
          /\ AskedFor(base)
    BY <1>1 DEF Streaming
  <1>3. given \in Nat /\ base \in Nat /\ base <= given
    BY <1>1 DEF StreamTypes
  <1>4. PICK total \in Nat : total = given + n
    BY <1>3
  <1>5. given <= total /\ base < total
    BY <1>2, <1>3, <1>4
  <1>6. buffer \o [i \in 1..n |-> given + i] = Units(base, total)
    <2>1. [i \in 1..n |-> given + i] = Units(given, total)
      <3>1. total - given = n
        BY <1>3, <1>4
      <3> QED
        BY <3>1 DEF Units
    <2>2. Units(base, given) \o Units(given, total) = Units(base, total)
      BY <1>3, <1>5, UnitsJoined
    <2> QED
      BY <1>2, <2>1, <2>2
  <1>7. /\ given' = total
        /\ UNCHANGED <<currentMessage, flushing, messages>>
        /\ \/ /\ base + Limit < total /\ currentMessage # None /\ ~Closing
              /\ edits' = Append(edits, Request("close", First(Units(base, total)))) /\ sends' = sends
              /\ buffer' = Rest(Units(base, total))
           \/ UNCHANGED <<edits, sends>> /\ buffer' = Units(base, total)
    <2>1. Len(Units(base, total)) = total - base
      BY <1>5, UnitsAre
    <2>2. Len(Units(base, total)) > Limit <=> base + Limit < total
      BY <2>1
    <2>3. /\ given' = total
          /\ UNCHANGED <<currentMessage, flushing, messages>>
          /\ IF Len(Units(base, total)) > Limit /\ currentMessage # None
             THEN /\ Ask("close", First(Units(base, total)))
                  /\ buffer' = Rest(Units(base, total))
                  /\ disturbed' = (disturbed \/ Closing)
             ELSE buffer' = Units(base, total) /\ UNCHANGED <<edits, sends, disturbed>>
      BY <1>4, <1>6 DEF TextDelta
    <2> QED
      BY <2>2, <2>3 DEF Ask, Request, Undisturbed
  <1>8. StreamTypes'
    BY <1>1, <1>7 DEF StreamTypes
  <1>9. Settled' = Settled
    BY <1>7 DEF Settled
  <1>10. CASE UNCHANGED <<edits, sends>> /\ buffer' = Units(base, total)
    <2>1. AskedFor(base)'
      BY <1>2, <1>7, <1>9, <1>10 DEF AskedFor, PiecedUpTo, Request
    <2>2. base \in 0..total
      BY <1>3, <1>5
    <2> QED
      BY <1>1, <1>5, <1>7, <1>8, <1>10, <2>1, <2>2 DEF Streaming
  <1>11. CASE /\ base + Limit < total /\ currentMessage # None /\ ~Closing
              /\ edits' = Append(edits, Request("close", First(Units(base, total)))) /\ sends' = sends
              /\ buffer' = Rest(Units(base, total))
    <2>1. PICK t \in Seq(Nat) :
            /\ sends = << >>
            /\ edits = IF flushing THEN <<Request("flush", t)>> ELSE << >>
            /\ PiecedUpTo(Settled, base)
      BY <1>2, <1>3, <1>11, NothingCloses
    <2>2. PICK end \in Nat : end = base + Limit
      BY <1>3
    <2>3. First(Units(base, total)) = Units(base, end)
      <3>1. EndOf(base, total) = end
        BY <1>11, <2>2 DEF EndOf
      <3>2. base <= total
        BY <1>3, <1>5
      <3> QED
        BY <1>3, <3>1, <3>2, UnitsSplit
    <2>4. buffer' = Units(end, total)
      <3>1. base <= total
        BY <1>3, <1>5
      <3> QED
        BY <1>3, <1>11, <2>2, <3>1, UnitsSplit
    <2>5. end - Limit = base /\ Limit <= end /\ end < total /\ end \in 0..total
      BY <1>3, <1>11, <2>2
    <2>6. edits' = IF flushing
                   THEN <<Request("flush", t), Request("close", Units(base, end))>>
                   ELSE <<Request("close", Units(base, end))>>
      <3>1. PICK closes : closes = Request("close", Units(base, end))
        OBVIOUS
      <3>2. PICK flushes : flushes = Request("flush", t)
        OBVIOUS
      <3>3. edits' = Append(edits, closes)
        BY <1>11, <2>3, <3>1
      <3>4. edits = IF flushing THEN <<flushes>> ELSE << >>
        BY <2>1, <3>2
      <3>5. Append(<<flushes>>, closes) = <<flushes, closes>> /\ Append(<< >>, closes) = <<closes>>
        BY OneMore
      <3>6. edits' = IF flushing THEN <<flushes, closes>> ELSE <<closes>>
        BY <3>3, <3>4, <3>5
      <3> QED
        BY <3>1, <3>2, <3>6
    <2>7. \A by, text : Request(by, text)' = Request(by, text)
      BY <1>7 DEF Request
    <2>8. PiecedUpTo(Settled, base)'
      BY <1>7, <1>9, <2>1 DEF PiecedUpTo
    <2>9. AskedFor(end)'
      BY <1>7, <1>11, <2>1, <2>5, <2>6, <2>8 DEF AskedFor, Request
    <2> QED
      BY <1>1, <1>7, <1>8, <2>4, <2>5, <2>9 DEF Streaming
  <1> QED
    BY <1>7, <1>10, <1>11

LEMMA FlushKeeps ==
    ASSUME StreamKept, Flush, Undisturbed'
    PROVE  StreamTypes' /\ Streaming' /\ stage' = "streaming"
  <1>1. StreamTypes /\ Streaming /\ stage = "streaming" /\ stage' = stage /\ ~Closing
    BY DEF StreamKept, Undisturbed, Flush
  <1>2. PICK base \in 0..given :
          /\ buffer = Units(base, given)
          /\ AskedFor(base)
    BY <1>1 DEF Streaming
  <1>3. given \in Nat /\ base \in Nat /\ base <= given
    BY <1>1 DEF StreamTypes
  <1>4. base < given
    <2>1. buffer # << >>
      BY DEF Flush
    <2> QED
      BY <1>2, <1>3, <2>1, UnitsAre
  <1>5. sends = << >> /\ edits = << >> /\ PiecedUpTo(Settled, base)
    <2>1. ~flushing
      BY DEF Flush
    <2> QED
      BY <1>1, <1>2, <1>3, <2>1, NothingCloses
  <1>6. PICK t \in Seq(Nat) : t = First(buffer)
    <2>1. First(buffer) = Units(base, EndOf(base, given)) /\ EndOf(base, given) \in Nat
          /\ base <= EndOf(base, given)
      BY <1>2, <1>3, UnitsSplit
    <2>2. PICK e \in Nat : e = EndOf(base, given)
      BY <2>1
    <2>3. Units(base, e) \in Seq(Nat)
      BY <1>3, <2>1, <2>2, UnitsAre
    <2> QED
      BY <2>1, <2>2, <2>3
  <1>7. /\ UNCHANGED <<given, buffer, currentMessage, stage, messages>> /\ flushing' = TRUE
        /\ sends' = IF currentMessage = None THEN <<Request("flush", t)>> ELSE << >>
        /\ edits' = IF currentMessage # None THEN <<Request("flush", t)>> ELSE << >>
    BY <1>5, <1>6 DEF Flush, Ask, Request
  <1>8. StreamTypes'
    BY <1>1, <1>7 DEF StreamTypes
  <1>9. Settled' = Settled /\ PiecedUpTo(Settled, base)'
    BY <1>5, <1>7 DEF Settled, PiecedUpTo
  <1>10. AskedFor(base)'
    BY <1>7, <1>9 DEF AskedFor, Request
  <1> QED
    BY <1>1, <1>2, <1>4, <1>7, <1>8, <1>10 DEF Streaming

LEMMA TextFinishKeeps ==
    ASSUME StreamKept, Finish, Undisturbed'
    PROVE  StreamTypes' /\ Streaming' /\ stage' = "draining"
  <1>1. StreamTypes /\ Streaming
    BY DEF StreamKept, Undisturbed, Finish
  <1>2. stage' = "draining" /\ UNCHANGED <<given, buffer, currentMessage, flushing, edits, sends, messages>>
    BY DEF Finish
  <1>3. StreamTypes'
    BY <1>1, <1>2 DEF StreamTypes
  <1>4. Streaming'
    BY <1>1, <1>2, ZenonT(30) DEF Streaming, AskedFor, PiecedUpTo, Settled, Request
  <1> QED
    BY <1>2, <1>3, <1>4

LEMMA DrainKeeps ==
    ASSUME StreamKept, DrainStarts, Undisturbed'
    PROVE  StreamTypes' /\ Writing' /\ stage' = "writing"
  <1>1. StreamTypes /\ Streaming /\ ~Closing /\ ~flushing /\ stage' = "writing"
        /\ UNCHANGED <<given, currentMessage, flushing, edits, sends, messages>>
        /\ chunks' = IF buffer # << >> THEN Chunks(buffer)
                     ELSE IF currentMessage = None THEN << >> ELSE <<messages[currentMessage].text>>
    BY DEF StreamKept, Undisturbed, DrainStarts
  <1>2. PICK base \in 0..given :
          /\ buffer = Units(base, given)
          /\ currentMessage # None => base < given
          /\ AskedFor(base)
    BY <1>1 DEF Streaming
  <1>3. given \in Nat /\ base \in Nat /\ base <= given
    BY <1>1 DEF StreamTypes
  <1>4. sends = << >> /\ edits = << >> /\ PiecedUpTo(Settled, base)
    BY <1>1, <1>2, <1>3, NothingCloses
  <1>5. chunks' = Chunks(Units(base, given))
    <2>1. buffer = << >> <=> base = given
      BY <1>2, <1>3, UnitsAre
    <2>2. CASE base = given
      <3>1. buffer = << >> /\ currentMessage = None
        BY <1>2, <1>3, <2>1, <2>2
      <3>2. Chunks(Units(base, given)) = << >>
        BY <1>3, <2>2, ChunksSplit
      <3> QED
        BY <1>1, <3>1, <3>2
    <2>3. CASE base # given
      BY <1>1, <1>2, <2>1, <2>3
    <2> QED
      BY <2>2, <2>3
  <1>6. StreamTypes'
    BY <1>1 DEF StreamTypes
  <1>7. PiecedUpTo(Settled, base)'
    BY <1>1, <1>4 DEF PiecedUpTo, Settled
  <1>8. Writing'
    BY <1>1, <1>2, <1>4, <1>5, <1>7 DEF Writing
  <1> QED
    BY <1>1, <1>6, <1>8

LEMMA WritesKeeps ==
    ASSUME StreamKept, WritesChunk, Undisturbed'
    PROVE  StreamTypes' /\ Writing' /\ stage' = "waiting"
  <1>1. StreamTypes /\ Writing /\ stage = "writing" /\ chunks # << >> /\ stage' = "waiting"
        /\ UNCHANGED <<given, currentMessage, flushing, messages>>
        /\ Ask("final", Head(chunks)) /\ chunks' = Tail(chunks)
    BY DEF StreamKept, Undisturbed, WritesChunk
  <1>2. PICK w \in 0..given :
          /\ PiecedUpTo(Settled, w)
          /\ edits = << >> /\ sends = << >>
          /\ chunks = Chunks(Units(w, given))
    BY <1>1 DEF Writing
  <1>3. given \in Nat /\ w \in Nat /\ w <= given
    BY <1>1 DEF StreamTypes
  <1>4. w < given
    BY <1>1, <1>2, <1>3, ChunksSplit
  <1>5. /\ Head(chunks) = Units(w, EndOf(w, given))
        /\ chunks' = Chunks(Units(EndOf(w, given), given))
    BY <1>1, <1>2, <1>3, <1>4, ChunksSplit
  <1>6. /\ edits' = IF currentMessage = None THEN << >> ELSE <<Request("final", Units(w, EndOf(w, given)))>>
        /\ sends' = IF currentMessage = None THEN <<Request("final", Units(w, EndOf(w, given)))>> ELSE << >>
    BY <1>1, <1>2, <1>5 DEF Ask, Request
  <1>7. StreamTypes'
    BY <1>1 DEF StreamTypes
  <1>8. PiecedUpTo(Settled, w)'
    BY <1>1, <1>2 DEF PiecedUpTo, Settled
  <1>9. Writing'
    BY <1>1, <1>2, <1>4, <1>5, <1>6, <1>8 DEF Writing, Request
  <1> QED
    BY <1>1, <1>7, <1>9

LEMMA FinishedKeeps ==
    ASSUME StreamKept, StreamFinished, Undisturbed'
    PROVE  StreamTypes' /\ Writing' /\ stage' = "finished"
  <1>1. StreamTypes /\ Writing /\ stage = "writing" /\ chunks = << >> /\ stage' = "finished"
        /\ UNCHANGED <<given, currentMessage, flushing, edits, sends, messages>>
    BY DEF StreamKept, Undisturbed, StreamFinished
  <1>2. PICK w \in 0..given :
          /\ PiecedUpTo(Settled, w)
          /\ edits = << >> /\ sends = << >>
          /\ chunks = Chunks(Units(w, given))
          /\ currentMessage # None => w < given
    BY <1>1 DEF Writing
  <1>3. given \in Nat /\ w \in Nat /\ w <= given
    BY <1>1 DEF StreamTypes
  <1>4. w = given /\ currentMessage = None
    <2>1. w = given
      BY <1>1, <1>2, <1>3, ChunksSplit
    <2> QED
      BY <1>2, <1>3, <2>1
  <1>5. StreamTypes'
    BY <1>1 DEF StreamTypes
  <1>6. PiecedUpTo(Settled, w)'
    BY <1>1, <1>2 DEF PiecedUpTo, Settled
  <1>7. Writing'
    BY <1>1, <1>2, <1>4, <1>6 DEF Writing
  <1> QED
    BY <1>1, <1>5, <1>7

\* An edit that is answered is of the message being written; the pieces before
\* it stay.
LEMMA EditsLast ==
    ASSUME StreamTypes, currentMessage # None, NEW written \in [text : Seq(Nat), cursor : BOOLEAN],
           messages' = [messages EXCEPT ![currentMessage] = written]
    PROVE  /\ messages' \in Seq([text : Seq(Nat), cursor : BOOLEAN])
           /\ Len(messages') = Len(messages)
           /\ \A i \in 1..Settled : messages'[i] = messages[i]
           /\ messages'[Settled + 1] = written
  <1>1. messages \in Seq([text : Seq(Nat), cursor : BOOLEAN])
    BY DEF StreamTypes
  <1>2. PICK n \in Nat : n = Len(messages)
    BY SettledIs
  <1>3. n = Settled + 1 /\ currentMessage = n /\ Settled \in Nat
    BY <1>2, SettledIs
  <1>4. PICK new : new = [messages EXCEPT ![n] = written]
    OBVIOUS
  <1>a. n \in 1..Len(messages)
    BY <1>2, <1>3
  <1>b. /\ new \in Seq([text : Seq(Nat), cursor : BOOLEAN])
        /\ Len(new) = Len(messages)
        /\ \A j \in 1..Len(messages) : new[j] = IF j = n THEN written ELSE messages[j]
    BY <1>1, <1>4, <1>a, ExceptSeq
  <1>c. messages' = new
    BY <1>3, <1>4
  <1>5. /\ messages' \in Seq([text : Seq(Nat), cursor : BOOLEAN])
        /\ Len(messages') = Len(messages)
        /\ \A j \in 1..n : messages'[j] = IF j = n THEN written ELSE messages[j]
    BY <1>2, <1>b, <1>c
  <1> QED
    BY <1>3, <1>5

\* A message that is sent follows the settled ones.
LEMMA SendsNext ==
    ASSUME StreamTypes, currentMessage = None, NEW written \in [text : Seq(Nat), cursor : BOOLEAN],
           messages' = Append(messages, written)
    PROVE  /\ messages' \in Seq([text : Seq(Nat), cursor : BOOLEAN])
           /\ Len(messages') = Len(messages) + 1
           /\ \A i \in 1..Settled : messages'[i] = messages[i]
           /\ messages'[Settled + 1] = written
  <1>1. messages \in Seq([text : Seq(Nat), cursor : BOOLEAN])
    BY DEF StreamTypes
  <1>2. Settled = Len(messages) /\ Settled \in Nat
    BY SettledIs
  <1> QED
    BY <1>1, <1>2, AppendProperties

LEMMA WrittenIs ==
    ASSUME NEW by, NEW text \in Seq(Nat)
    PROVE  /\ Written(Request(by, text)) = [text |-> text, cursor |-> by = "flush"]
           /\ Written(Request(by, text)) \in [text : Seq(Nat), cursor : BOOLEAN]
BY DEF Written, Request

\* A request that failed is remembered.
LEMMA NoneFailed ==
    ASSUME NEW r, NEW m, Continue(r, m), Undisturbed'
    PROVE  Undisturbed /\ m # None
  <1>1. lostRequest' = (lostRequest \/ m = None) /\ disturbed' = disturbed
    BY DEF Continue
  <1>2. ~lostRequest' /\ ~disturbed'
    BY DEF Undisturbed
  <1>3. ~(lostRequest \/ m = None) /\ ~disturbed
    BY <1>1, <1>2
  <1> QED
    BY <1>3 DEF Undisturbed

LEMMA TextEditDone ==
    ASSUME TextEditAnswered, Undisturbed', NEW r, r = Head(edits)
    PROVE  /\ Undisturbed
           /\ edits # << >> /\ edits' = Tail(edits) /\ UNCHANGED sends
           /\ messages' = [messages EXCEPT ![r.message] = Written(r)]
           /\ Continue(r, r.message)
BY NoneFailed DEF TextEditAnswered

LEMMA TextSendDone ==
    ASSUME TextSendAnswered, Undisturbed', NEW r, r = Head(sends)
    PROVE  /\ Undisturbed
           /\ sends # << >> /\ sends' = Tail(sends) /\ UNCHANGED edits
           /\ messages' = Append(messages, Written(r))
           /\ Continue(r, Len(messages) + 1)
BY NoneFailed DEF TextSendAnswered

LEMMA EditKeepsStreaming ==
    ASSUME StreamKept, TextEditAnswered, Undisturbed', stage \in {"streaming", "draining"}
    PROVE  StreamTypes' /\ Streaming' /\ stage' = stage
  <1>1. StreamTypes /\ Streaming
    BY TextEditDone DEF StreamKept, Undisturbed
  <1>2. PICK base \in 0..given :
          /\ buffer = Units(base, given)
          /\ currentMessage # None \/ flushing => base < given
          /\ AskedFor(base)
    BY <1>1 DEF Streaming
  <1>3. given \in Nat /\ base \in Nat /\ base <= given /\ Settled \in Nat /\ flushing \in BOOLEAN
    BY <1>1, SettledIs DEF StreamTypes
  <1>4. PICK r : r = Head(edits)
    OBVIOUS
  <1>5. /\ edits # << >> /\ edits' = Tail(edits)
        /\ messages' = [messages EXCEPT ![r.message] = Written(r)]
        /\ Continue(r, r.message) /\ UNCHANGED sends
    BY <1>4, TextEditDone
  <1>6. /\ UNCHANGED <<given, buffer>>
        /\ flushing' = (flushing /\ r.by # "flush")
        /\ stage' = IF r.by = "final" THEN "writing" ELSE stage
        /\ currentMessage' = CASE r.by # "flush" -> None
                               [] r.by = "flush" /\ r.message = None /\ r.message # None -> r.message
                               [] OTHER -> currentMessage
    BY <1>5 DEF Continue
  <1>7. PICK t \in Seq(Nat) :
          /\ sends = IF flushing /\ currentMessage = None THEN <<Request("flush", t)>> ELSE << >>
          /\ \/ /\ edits = IF flushing /\ currentMessage # None THEN <<Request("flush", t)>> ELSE << >>
                /\ PiecedUpTo(Settled, base)
             \/ /\ currentMessage # None /\ Limit <= base
                /\ edits = IF flushing
                           THEN <<Request("flush", t), Request("close", Units(base - Limit, base))>>
                           ELSE <<Request("close", Units(base - Limit, base))>>
                /\ PiecedUpTo(Settled, base - Limit)
    BY <1>2 DEF AskedFor
  <1>8. currentMessage # None /\ sends = << >>
    BY <1>5, <1>7
  \* The flush of the message being written.
  <1>9. CASE flushing
    <2>1. r = Request("flush", t)
      BY <1>4, <1>7, <1>8, <1>9
    <2>2. r.by = "flush" /\ r.message = currentMessage
      BY <2>1 DEF Request
    <2>3. /\ messages' \in Seq([text : Seq(Nat), cursor : BOOLEAN]) /\ Len(messages') = Len(messages)
          /\ \A i \in 1..Settled : messages'[i] = messages[i]
      BY <1>1, <1>5, <1>8, <2>1, <2>2, WrittenIs, EditsLast
    <2>4. flushing' = FALSE /\ stage' = stage /\ currentMessage' = currentMessage
      BY <1>6, <2>2
    <2>5. StreamTypes'
      BY <1>1, <1>6, <2>3, <2>4 DEF StreamTypes
    <2>6. Settled' = Settled
      BY <2>3, <2>4 DEF Settled
    <2>7. \A by, text : Request(by, text)' = Request(by, text)
      BY <2>4 DEF Request
    <2>8. AskedFor(base)'
      <3>1. CASE edits = <<Request("flush", t)>> /\ PiecedUpTo(Settled, base)
        <4>1. edits' = << >>
          BY <1>5, <3>1
        <4>2. PiecedUpTo(Settled, base)'
          BY <1>3, <2>3, <2>6, <3>1, PiecesStay
        <4> QED
          BY <1>5, <1>8, <2>4, <4>1, <4>2 DEF AskedFor
      <3>2. CASE /\ Limit <= base
                 /\ edits = <<Request("flush", t), Request("close", Units(base - Limit, base))>>
                 /\ PiecedUpTo(Settled, base - Limit)
        <4>1. edits' = <<Request("close", Units(base - Limit, base))>>
          BY <1>5, <3>2
        <4>2. PiecedUpTo(Settled, base - Limit)'
          BY <1>3, <2>3, <2>6, <3>2, PiecesStay
        <4> QED
          BY <1>5, <1>8, <2>4, <2>7, <3>2, <4>1, <4>2 DEF AskedFor, Request
      <3> QED
        BY <1>7, <1>8, <1>9, <3>1, <3>2
    <2> QED
      BY <1>2, <1>6, <2>4, <2>5, <2>8 DEF Streaming
  \* The full message.
  <1>10. CASE ~flushing
    <2>1. /\ Limit <= base /\ PiecedUpTo(Settled, base - Limit)
          /\ edits = <<Request("close", Units(base - Limit, base))>>
      BY <1>5, <1>7, <1>10
    <2>2. PICK from \in Nat : from = base - Limit
      BY StreamAssumption, <1>3, <2>1
    <2>3. from <= base
      BY StreamAssumption, <1>3, <2>2
    <2>4. r = Request("close", Units(from, base)) /\ edits' = << >>
      BY <1>4, <1>5, <2>1, <2>2
    <2>5. r.by = "close" /\ r.message = currentMessage
      BY <2>4 DEF Request
    <2>6. Units(from, base) \in Seq(Nat)
      BY <1>3, <2>3, UnitsAre
    <2>7. Written(r) = [text |-> Units(from, base), cursor |-> FALSE]
          /\ Written(r) \in [text : Seq(Nat), cursor : BOOLEAN]
      BY <2>4, <2>6, WrittenIs
    <2>8. /\ messages' \in Seq([text : Seq(Nat), cursor : BOOLEAN]) /\ Len(messages') = Len(messages)
          /\ \A i \in 1..Settled : messages'[i] = messages[i]
          /\ messages'[Settled + 1] = Written(r)
      BY <1>1, <1>5, <1>8, <2>5, <2>7, EditsLast
    <2>9. flushing' = FALSE /\ stage' = stage /\ currentMessage' = None
      BY <1>6, <1>10, <2>5
    <2>10. StreamTypes'
      BY <1>1, <1>6, <2>8, <2>9 DEF StreamTypes
    <2>11. Settled' = Settled + 1
      BY <1>1, <1>8, <2>8, <2>9, SettledIs DEF Settled
    <2>12. PiecedUpTo(Settled, base)'
      <3>1. PICK n \in Nat : n = Settled
        BY <1>3
      <3>2. PiecedUpTo(n + 1, base)'
        BY <1>3, <2>1, <2>2, <2>3, <2>7, <2>8, <3>1, PieceAdded
      <3> QED
        BY <2>11, <3>1, <3>2
    <2>14. AskedFor(base)'
      BY <1>5, <1>8, <2>4, <2>9, <2>12 DEF AskedFor
    <2>15. currentMessage' = None /\ ~flushing'
      BY <2>9
    <2> QED
      BY <1>2, <1>6, <2>9, <2>10, <2>14, <2>15 DEF Streaming
  <1> QED
    BY <1>3, <1>9, <1>10

LEMMA SendKeepsStreaming ==
    ASSUME StreamKept, TextSendAnswered, Undisturbed', stage \in {"streaming", "draining"}
    PROVE  StreamTypes' /\ Streaming' /\ stage' = stage
  <1>1. StreamTypes /\ Streaming
    BY TextSendDone DEF StreamKept, Undisturbed
  <1>2. PICK base \in 0..given :
          /\ buffer = Units(base, given)
          /\ currentMessage # None \/ flushing => base < given
          /\ AskedFor(base)
    BY <1>1 DEF Streaming
  <1>3. given \in Nat /\ base \in Nat /\ base <= given /\ Settled \in Nat /\ flushing \in BOOLEAN
    BY <1>1, SettledIs DEF StreamTypes
  <1>4. PICK r : r = Head(sends)
    OBVIOUS
  <1>5. /\ sends # << >> /\ sends' = Tail(sends) /\ UNCHANGED edits
        /\ messages' = Append(messages, Written(r))
        /\ Continue(r, Len(messages) + 1)
    BY <1>4, TextSendDone
  <1>6. PICK t \in Seq(Nat) :
          /\ sends = IF flushing /\ currentMessage = None THEN <<Request("flush", t)>> ELSE << >>
          /\ \/ /\ edits = IF flushing /\ currentMessage # None THEN <<Request("flush", t)>> ELSE << >>
                /\ PiecedUpTo(Settled, base)
             \/ currentMessage # None
    BY <1>2 DEF AskedFor
  <1>7. flushing /\ currentMessage = None
    BY <1>5, <1>6
  <1>8. edits = << >> /\ PiecedUpTo(Settled, base)
    BY <1>6, <1>7
  <1>9. r = Request("flush", t) /\ sends' = << >>
    BY <1>4, <1>5, <1>6, <1>7
  <1>10. r.by = "flush" /\ r.message = None
    BY <1>7, <1>9 DEF Request
  <1>11. Len(messages) + 1 # None /\ Settled = Len(messages) /\ Len(messages) \in Nat
    BY <1>1, <1>7, SettledIs DEF None
  <1>12. /\ UNCHANGED <<given, buffer>> /\ flushing' = FALSE /\ stage' = stage
         /\ currentMessage' = Len(messages) + 1
    BY <1>5, <1>10, <1>11 DEF Continue
  <1>13. /\ messages' \in Seq([text : Seq(Nat), cursor : BOOLEAN])
         /\ Len(messages') = Len(messages) + 1
         /\ \A i \in 1..Settled : messages'[i] = messages[i]
    BY <1>1, <1>5, <1>7, <1>9, WrittenIs, SendsNext
  <1>14. StreamTypes'
    BY <1>1, <1>12, <1>13 DEF StreamTypes
  <1>15. Settled' = Settled /\ currentMessage' # None
    BY <1>11, <1>12, <1>13 DEF Settled
  <1>16. PiecedUpTo(Settled, base)'
    BY <1>3, <1>8, <1>13, <1>15, PiecesStay
  <1>17. AskedFor(base)'
    BY <1>5, <1>8, <1>9, <1>12, <1>16 DEF AskedFor
  <1>18. base < given
    BY <1>2, <1>7
  <1> QED
    BY <1>2, <1>12, <1>14, <1>17, <1>18 DEF Streaming

\* finish goes on when a chunk is written: to the message being edited, or to a
\* new one.
LEMMA AnswerKeepsWriting ==
    ASSUME StreamKept, TextEditAnswered \/ TextSendAnswered, Undisturbed',
           stage \notin {"streaming", "draining"}
    PROVE  StreamTypes' /\ Writing' /\ stage' = "writing"
  <1>1. StreamTypes /\ Writing
    BY TextEditDone, TextSendDone DEF StreamKept, Undisturbed
  <1>2. edits # << >> \/ sends # << >>
    BY DEF TextEditAnswered, TextSendAnswered
  <1>3. stage = "waiting"
    <2>1. stage \in {"writing", "waiting", "finished"}
      BY <1>1 DEF StreamTypes
    <2> QED
      BY <1>1, <1>2, <2>1 DEF Writing
  <1>4. PICK w \in 0..given :
          /\ PiecedUpTo(Settled, w) /\ w < given
          /\ edits = IF currentMessage = None THEN << >>
                     ELSE <<Request("final", Units(w, EndOf(w, given)))>>
          /\ sends = IF currentMessage = None THEN <<Request("final", Units(w, EndOf(w, given)))>>
                     ELSE << >>
          /\ chunks = Chunks(Units(EndOf(w, given), given))
    BY <1>1, <1>3 DEF Writing
  <1>5. given \in Nat /\ w \in Nat /\ w <= given /\ Settled \in Nat
    BY <1>1, SettledIs DEF StreamTypes
  <1>6. PICK e \in 0..given : e = EndOf(w, given) /\ w <= e
    <2>1. EndOf(w, given) \in Nat /\ w <= EndOf(w, given) /\ EndOf(w, given) <= given
      BY <1>5, UnitsSplit
    <2> QED
      BY <1>5, <2>1
  <1>7. PICK r : r = Request("final", Units(w, e))
    OBVIOUS
  <1>8. r.by = "final" /\ r.message = currentMessage
    BY <1>7 DEF Request
  <1>9. Units(w, e) \in Seq(Nat)
    BY <1>5, <1>6, UnitsAre
  <1>10. Written(r) = [text |-> Units(w, e), cursor |-> FALSE]
         /\ Written(r) \in [text : Seq(Nat), cursor : BOOLEAN]
    BY <1>7, <1>9, WrittenIs
  <1>11. /\ edits' = << >> /\ sends' = << >>
         /\ \E m : Continue(r, m)
         /\ messages' \in Seq([text : Seq(Nat), cursor : BOOLEAN]) /\ Len(messages') = Settled + 1
         /\ \A i \in 1..Settled : messages'[i] = messages[i]
         /\ messages'[Settled + 1] = Written(r)
    <2>1. CASE currentMessage # None
      <3>1. edits = <<r>> /\ sends = << >>
        BY <1>4, <1>6, <1>7, <2>1
      <3>2. TextEditAnswered /\ Head(edits) = r /\ Tail(edits) = << >>
        BY <3>1 DEF TextSendAnswered
      <3>3. /\ edits' = << >> /\ sends' = << >> /\ Continue(r, r.message)
            /\ messages' = [messages EXCEPT ![currentMessage] = Written(r)]
        BY <1>8, <3>1, <3>2, TextEditDone
      <3> QED
        BY <1>1, <1>10, <2>1, <3>3, EditsLast, SettledIs
    <2>2. CASE currentMessage = None
      <3>1. sends = <<r>> /\ edits = << >>
        BY <1>4, <1>6, <1>7, <2>2
      <3>2. TextSendAnswered /\ Head(sends) = r /\ Tail(sends) = << >>
        BY <3>1 DEF TextEditAnswered
      <3>3. /\ edits' = << >> /\ sends' = << >> /\ Continue(r, Len(messages) + 1)
            /\ messages' = Append(messages, Written(r))
        BY <3>1, <3>2, TextSendDone
      <3> QED
        BY <1>1, <1>10, <2>2, <3>3, SendsNext, SettledIs
    <2> QED
      BY <2>1, <2>2
  <1>12. /\ UNCHANGED <<given, chunks>> /\ flushing' = flushing /\ stage' = "writing"
         /\ currentMessage' = None
    <2>1. PICK m : Continue(r, m)
      BY <1>11
    <2>2. flushing \in BOOLEAN
      BY <1>1 DEF StreamTypes
    <2> QED
      BY <1>8, <2>1, <2>2 DEF Continue
  <1>13. StreamTypes'
    BY <1>1, <1>11, <1>12 DEF StreamTypes
  <1>14. Settled' = Settled + 1
    BY <1>11, <1>12 DEF Settled
  <1>15. PiecedUpTo(Settled, e)'
    <2>1. PICK n \in Nat : n = Settled
      BY <1>5
    <2>2. PiecedUpTo(n, w) /\ e \in Nat
      BY <1>4, <1>5, <2>1
    <2>3. /\ \A i \in 1..n : messages'[i] = messages[i]
          /\ messages'[n + 1] = [text |-> Units(w, e), cursor |-> FALSE]
      BY <1>10, <1>11, <2>1
    <2>4. PiecedUpTo(n + 1, e)'
      BY <1>5, <1>6, <2>2, <2>3, PieceAdded
    <2> QED
      BY <1>14, <2>1, <2>4
  <1> QED
    BY <1>4, <1>6, <1>11, <1>12, <1>13, <1>15 DEF Writing

LEMMA StreamStep == StreamKept /\ [StreamNext]_streamVars => StreamKept'
  <1> SUFFICES ASSUME StreamKept, [StreamNext]_streamVars, Undisturbed'
               PROVE  /\ StreamTypes'
                      /\ \/ stage' \in {"streaming", "draining"} /\ Streaming'
                         \/ stage' \notin {"streaming", "draining"} /\ Writing'
    BY DEF StreamKept, Undisturbed
  <1>1. ASSUME NEW n \in 1..(Limit + 1), TextDelta(n) PROVE StreamTypes' /\ Streaming' /\ stage' = "streaming"
    BY <1>1, TextDeltaKeeps
  <1>2. CASE Flush
    BY <1>2, FlushKeeps
  <1>3. CASE Finish
    BY <1>3, TextFinishKeeps
  <1>4. CASE DrainStarts
    BY <1>4, DrainKeeps
  <1>5. CASE WritesChunk
    BY <1>5, WritesKeeps
  <1>6. CASE StreamFinished
    BY <1>6, FinishedKeeps
  <1>7. CASE TextEditAnswered
    BY <1>7, EditKeepsStreaming, AnswerKeepsWriting
  <1>8. CASE TextSendAnswered
    BY <1>8, SendKeepsStreaming, AnswerKeepsWriting
  <1>9. CASE UNCHANGED streamVars
    <2>1. UNCHANGED <<given, buffer, currentMessage, flushing, stage, chunks, edits, sends, messages,
                      lostRequest, disturbed>>
      BY <1>9 DEF streamVars
    <2>2. StreamTypes /\ IF stage \in {"streaming", "draining"} THEN Streaming ELSE Writing
      BY <2>1 DEF StreamKept, Undisturbed
    <2>3. StreamTypes'
      BY <2>1, <2>2 DEF StreamTypes
    <2>4. Streaming => Streaming'
      BY <2>1, ZenonT(30) DEF Streaming, AskedFor, PiecedUpTo, Settled, Request
    <2>5. Writing => Writing'
      BY <2>1 DEF Writing, PiecedUpTo, Settled, Request
    <2> QED
      BY <2>1, <2>2, <2>3, <2>4, <2>5
  <1> QED
    BY <1>1, <1>2, <1>3, <1>4, <1>5, <1>6, <1>7, <1>8, <1>9 DEF StreamNext

LEMMA KeptIsComplete == StreamKept => UndisturbedStreamIsComplete
  <1> SUFFICES ASSUME StreamKept, stage = "finished", ~lostRequest, ~disturbed
               PROVE  /\ Shown = [i \in 1..given |-> i]
                      /\ \A i \in DOMAIN messages : ~messages[i].cursor
    BY DEF UndisturbedStreamIsComplete
  <1>1. StreamTypes /\ Writing
    BY DEF StreamKept
  <1>2. currentMessage = None /\ PiecedUpTo(Settled, given)
    BY <1>1 DEF Writing
  <1>3. PICK n \in Nat : n = Len(messages)
    BY <1>1, SettledIs
  <1>4. PiecedUpTo(n, given) /\ messages \in Seq([text : Seq(Nat), cursor : BOOLEAN]) /\ given \in Nat
    BY <1>1, <1>2, <1>3, SettledIs DEF StreamTypes
  <1>5. Shown = Units(0, given)
    BY <1>3, <1>4, PiecesAreText
  <1>6. Units(0, given) = [i \in 1..given |-> i]
    BY <1>4 DEF Units
  <1>7. ASSUME NEW i \in DOMAIN messages PROVE ~messages[i].cursor
    <2>1. i \in 1..n
      BY <1>3, <1>4
    <2>2. \E text : messages[i] = [text |-> text, cursor |-> FALSE]
      BY <1>4, <2>1 DEF PiecedUpTo
    <2> QED
      BY <2>2
  <1> QED
    BY <1>5, <1>6, <1>7

\* However deltas, edits, sends and the end of the turn interleave: when finish
\* is done the thread shows the text, whole, once and in order, unless a request
\* failed or a message that was full was written again while it was being closed.
THEOREM StreamComplete == StreamSpec => []UndisturbedStreamIsComplete
  <1>1. StreamSpec => []StreamKept
    BY StreamStarts, StreamStep, PTL DEF StreamSpec
  <1> QED
    BY <1>1, KeptIsComplete, PTL
=============================================================================
