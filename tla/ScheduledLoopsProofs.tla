------------------------ MODULE ScheduledLoopsProofs ------------------------
(***************************************************************************)
(* Proofs about ScheduledLoops for every set of loops and channels, every  *)
(* interval and every number of restarts: its type invariant, its four     *)
(* safety invariants and its two action properties.                        *)
(***************************************************************************)
EXTENDS ScheduledLoops, TLAPS

USE LoopAssumption

\* The inductive invariant.
Inv ==
    /\ TypeOK
    /\ OneLoopPerChannel
    /\ ArchivedProjectHasNoLoop
    /\ TimersAreLive
    /\ HandlerFacts
    /\ ResumableFacts
    /\ DrivenFacts
    /\ DueFacts

\* Before the first request there is no loop at all.
LEMMA InvInit == Init => Inv
  BY DEF Init, Inv, TypeOK, OneLoopPerChannel, ArchivedProjectHasNoLoop, TimersAreLive,
         HandlerFacts, ResumableFacts, DrivenFacts, DueFacts, Live, Unfinished, Iterating

-----------------------------------------------------------------------------

\* Every step keeps the types.
LEMMA TypeStep == TypeOK /\ [Next]_vars => TypeOK'
<1> SUFFICES ASSUME TypeOK, [Next]_vars PROVE TypeOK'
  OBVIOUS
<1>1. CASE \E l \in Loops : StartLoop(l)
  BY <1>1 DEF StartLoop, Goto, TypeOK, Live, Unfinished, Iterating, vars, rows, timers,
     process, discord
<1>2. CASE \E l \in Loops : CreateAndStart(l)
  BY <1>2 DEF CreateAndStart, CanCreate, Acquire, Goto, TypeOK, Live, Unfinished, Iterating,
     vars, rows, timers, process, discord
<1>3. CASE \E l \in Loops : TimerFires(l)
  BY <1>3 DEF TimerFires, Acquire, Detach, Goto, TypeOK, Live, Unfinished, Iterating, vars,
     rows, timers, process, discord
<1>4. CASE \E l \in Loops : AnnounceIteration(l)
  BY <1>4 DEF AnnounceIteration, CanDeliver, TerminalizeFromResult, Finish, Detach, Goto,
     TypeOK, Live, Unfinished, Iterating, vars, rows, timers, process, discord
<1>5. CASE \E l \in Loops : IterationReturns(l)
  BY <1>5 DEF IterationReturns, ScheduleNext, Schedulable, Defer, Detach, Goto, TypeOK,
     Live, Unfinished, Iterating, vars, rows, timers, process, discord
<1>6. CASE \E l \in Loops : IterationThrows(l)
  BY <1>6 DEF IterationThrows, ScheduleNext, Schedulable, Defer, Detach, Goto,
     TerminalizeFromResult, Finish, TypeOK, Live, Unfinished, Iterating, vars, rows, timers,
     process, discord
<1>7. CASE \E l \in Loops : PresentWaiting(l)
  BY <1>7 DEF PresentWaiting, CanDeliver, Rearm, TerminalizeFromResult, Finish, Detach,
     Goto, TypeOK, Live, Unfinished, Iterating, vars, rows, timers, process, discord
<1>8. CASE \E l \in Loops : AttachSession(l)
  BY <1>8 DEF AttachSession, TypeOK, Live, Unfinished, Iterating, vars, rows, timers,
     process, discord
<1>9. CASE \E l \in Loops : DeleteThread(l)
  BY <1>9 DEF DeleteThread, TypeOK, Live, Unfinished, Iterating, vars, rows, timers,
     process, discord
<1>10. CASE \E l \in Loops : ThreadDeleted(l)
  BY <1>10 DEF ThreadDeleted, Finish, Detach, TypeOK, Live, Unfinished, Iterating, vars,
     rows, timers, process, discord
<1>11. CASE \E l \in Loops : CrashInCreate(l)
  BY <1>11 DEF CrashInCreate, CanCreate, Restart, TypeOK, Live, Unfinished, Iterating, vars,
     rows, timers, process, discord
<1>12. CASE \E ch \in Channels : Stop(ch)
  BY <1>12 DEF Stop, Finish, Detach, TypeOK, Live, Unfinished, Iterating, vars, rows,
     timers, process, discord
<1>13. CASE \E ch \in Channels : RemoveProject(ch)
  BY <1>13 DEF RemoveProject, Finish, Detach, TypeOK, Live, Unfinished, Iterating, vars,
     rows, timers, process, discord
<1>14. CASE \E ch \in Channels : CrashInRemove(ch)
  BY <1>14 DEF CrashInRemove, Finish, Restart, TypeOK, Live, Unfinished, Iterating, vars,
     rows, timers, process, discord
<1>15. CASE Crash
  BY <1>15 DEF Crash, Restart, TypeOK, Live, Unfinished, Iterating, vars, rows, timers,
     process, discord
<1>16. CASE Shutdown
  BY <1>16 DEF Shutdown, Detach, TypeOK, Live, Unfinished, Iterating, vars, rows, timers,
     process, discord
<1>17. CASE Exit
  BY <1>17 DEF Exit, Crash, Restart, TypeOK, Live, Unfinished, Iterating, vars, rows,
     timers, process, discord
<1>18. CASE \E l \in Loops : Reconcile(l)
  BY <1>18 DEF Reconcile, Finish, Defer, Resumed, TypeOK, Live, Unfinished, Iterating, vars,
     rows, timers, process, discord
<1>19. CASE AcceptWork
  BY <1>19 DEF AcceptWork, TypeOK, Live, Unfinished, Iterating, vars, rows, timers, process,
     discord
<1>20. CASE Tick
  BY <1>20 DEF Tick, Countdown, TypeOK, Live, Unfinished, Iterating, vars, rows, timers,
     process, discord
<1>21. CASE UNCHANGED vars
  BY <1>21 DEF TypeOK, Live, Unfinished, Iterating, vars, rows, timers, process, discord
<1> QED
  BY <1>1, <1>2, <1>3, <1>4, <1>5, <1>6, <1>7, <1>8, <1>9, <1>10, <1>11, <1>12, <1>13,
     <1>14, <1>15, <1>16, <1>17, <1>18, <1>19, <1>20, <1>21 DEF Next, LoopStep, RestartStep

-----------------------------------------------------------------------------

\* A row is inserted only into a channel that has none that is not over.
LEMMA ChannelStep == TypeOK /\ OneLoopPerChannel /\ [Next]_vars => OneLoopPerChannel'
<1> SUFFICES ASSUME TypeOK, OneLoopPerChannel, [Next]_vars PROVE OneLoopPerChannel'
  OBVIOUS
<1>1. CASE \E l \in Loops : StartLoop(l)
  BY <1>1 DEF StartLoop, Goto, TypeOK, OneLoopPerChannel, Occupied, Live, Unfinished,
     Iterating, vars, rows, timers, process, discord
<1>2. CASE \E l \in Loops : CreateAndStart(l)
  BY <1>2 DEF CreateAndStart, CanCreate, Acquire, Goto, TypeOK, OneLoopPerChannel, Occupied,
     Live, Unfinished, Iterating, vars, rows, timers, process, discord
<1>3. CASE \E l \in Loops : TimerFires(l)
  BY <1>3 DEF TimerFires, Acquire, Detach, Goto, TypeOK, OneLoopPerChannel, Occupied, Live,
     Unfinished, Iterating, vars, rows, timers, process, discord
<1>4. CASE \E l \in Loops : AnnounceIteration(l)
  BY <1>4 DEF AnnounceIteration, CanDeliver, TerminalizeFromResult, Finish, Detach, Goto,
     TypeOK, OneLoopPerChannel, Occupied, Live, Unfinished, Iterating, vars, rows, timers,
     process, discord
<1>5. CASE \E l \in Loops : IterationReturns(l)
  BY <1>5 DEF IterationReturns, ScheduleNext, Schedulable, Defer, Detach, Goto, TypeOK,
     OneLoopPerChannel, Occupied, Live, Unfinished, Iterating, vars, rows, timers, process,
     discord
<1>6. CASE \E l \in Loops : IterationThrows(l)
  BY <1>6 DEF IterationThrows, ScheduleNext, Schedulable, Defer, Detach, Goto,
     TerminalizeFromResult, Finish, TypeOK, OneLoopPerChannel, Occupied, Live, Unfinished,
     Iterating, vars, rows, timers, process, discord
<1>7. CASE \E l \in Loops : PresentWaiting(l)
  BY <1>7 DEF PresentWaiting, CanDeliver, Rearm, TerminalizeFromResult, Finish, Detach,
     Goto, TypeOK, OneLoopPerChannel, Occupied, Live, Unfinished, Iterating, vars, rows,
     timers, process, discord
<1>8. CASE \E l \in Loops : AttachSession(l)
  BY <1>8 DEF AttachSession, TypeOK, OneLoopPerChannel, Occupied, Live, Unfinished,
     Iterating, vars, rows, timers, process, discord
<1>9. CASE \E l \in Loops : DeleteThread(l)
  BY <1>9 DEF DeleteThread, TypeOK, OneLoopPerChannel, Occupied, Live, Unfinished,
     Iterating, vars, rows, timers, process, discord
<1>10. CASE \E l \in Loops : ThreadDeleted(l)
  BY <1>10 DEF ThreadDeleted, Finish, Detach, TypeOK, OneLoopPerChannel, Occupied, Live,
     Unfinished, Iterating, vars, rows, timers, process, discord
<1>11. CASE \E l \in Loops : CrashInCreate(l)
  BY <1>11 DEF CrashInCreate, CanCreate, Restart, TypeOK, OneLoopPerChannel, Occupied, Live,
     Unfinished, Iterating, vars, rows, timers, process, discord
<1>12. CASE \E ch \in Channels : Stop(ch)
  BY <1>12 DEF Stop, Finish, Detach, TypeOK, OneLoopPerChannel, Occupied, Live, Unfinished,
     Iterating, vars, rows, timers, process, discord
<1>13. CASE \E ch \in Channels : RemoveProject(ch)
  BY <1>13 DEF RemoveProject, Finish, Detach, TypeOK, OneLoopPerChannel, Occupied, Live,
     Unfinished, Iterating, vars, rows, timers, process, discord
<1>14. CASE \E ch \in Channels : CrashInRemove(ch)
  BY <1>14 DEF CrashInRemove, Finish, Restart, TypeOK, OneLoopPerChannel, Occupied, Live,
     Unfinished, Iterating, vars, rows, timers, process, discord
<1>15. CASE Crash
  BY <1>15 DEF Crash, Restart, TypeOK, OneLoopPerChannel, Occupied, Live, Unfinished,
     Iterating, vars, rows, timers, process, discord
<1>16. CASE Shutdown
  BY <1>16 DEF Shutdown, Detach, TypeOK, OneLoopPerChannel, Occupied, Live, Unfinished,
     Iterating, vars, rows, timers, process, discord
<1>17. CASE Exit
  BY <1>17 DEF Exit, Crash, Restart, TypeOK, OneLoopPerChannel, Occupied, Live, Unfinished,
     Iterating, vars, rows, timers, process, discord
<1>18. CASE \E l \in Loops : Reconcile(l)
  BY <1>18 DEF Reconcile, Finish, Defer, Resumed, TypeOK, OneLoopPerChannel, Occupied, Live,
     Unfinished, Iterating, vars, rows, timers, process, discord
<1>19. CASE AcceptWork
  BY <1>19 DEF AcceptWork, TypeOK, OneLoopPerChannel, Occupied, Live, Unfinished, Iterating,
     vars, rows, timers, process, discord
<1>20. CASE Tick
  BY <1>20 DEF Tick, Countdown, TypeOK, OneLoopPerChannel, Occupied, Live, Unfinished,
     Iterating, vars, rows, timers, process, discord
<1>21. CASE UNCHANGED vars
  BY <1>21 DEF TypeOK, OneLoopPerChannel, Occupied, Live, Unfinished, Iterating, vars, rows,
     timers, process, discord
<1> QED
  BY <1>1, <1>2, <1>3, <1>4, <1>5, <1>6, <1>7, <1>8, <1>9, <1>10, <1>11, <1>12, <1>13,
     <1>14, <1>15, <1>16, <1>17, <1>18, <1>19, <1>20, <1>21 DEF Next, LoopStep, RestartStep

-----------------------------------------------------------------------------

\* A project is archived with all its loops ended, and gets no new one.
LEMMA ArchivedStep == TypeOK /\ ArchivedProjectHasNoLoop /\ [Next]_vars => ArchivedProjectHasNoLoop'
<1> SUFFICES ASSUME TypeOK, ArchivedProjectHasNoLoop, [Next]_vars PROVE ArchivedProjectHasNoLoop'
  OBVIOUS
<1>1. CASE \E l \in Loops : StartLoop(l)
  BY <1>1 DEF StartLoop, Goto, TypeOK, ArchivedProjectHasNoLoop, Live, Unfinished,
     Iterating, vars, rows, timers, process, discord
<1>2. CASE \E l \in Loops : CreateAndStart(l)
  BY <1>2 DEF CreateAndStart, CanCreate, Acquire, Goto, TypeOK, ArchivedProjectHasNoLoop,
     Live, Unfinished, Iterating, vars, rows, timers, process, discord
<1>3. CASE \E l \in Loops : TimerFires(l)
  BY <1>3 DEF TimerFires, Acquire, Detach, Goto, TypeOK, ArchivedProjectHasNoLoop, Live,
     Unfinished, Iterating, vars, rows, timers, process, discord
<1>4. CASE \E l \in Loops : AnnounceIteration(l)
  BY <1>4 DEF AnnounceIteration, CanDeliver, TerminalizeFromResult, Finish, Detach, Goto,
     TypeOK, ArchivedProjectHasNoLoop, Live, Unfinished, Iterating, vars, rows, timers,
     process, discord
<1>5. CASE \E l \in Loops : IterationReturns(l)
  BY <1>5 DEF IterationReturns, ScheduleNext, Schedulable, Defer, Detach, Goto, TypeOK,
     ArchivedProjectHasNoLoop, Live, Unfinished, Iterating, vars, rows, timers, process,
     discord
<1>6. CASE \E l \in Loops : IterationThrows(l)
  BY <1>6 DEF IterationThrows, ScheduleNext, Schedulable, Defer, Detach, Goto,
     TerminalizeFromResult, Finish, TypeOK, ArchivedProjectHasNoLoop, Live, Unfinished,
     Iterating, vars, rows, timers, process, discord
<1>7. CASE \E l \in Loops : PresentWaiting(l)
  BY <1>7 DEF PresentWaiting, CanDeliver, Rearm, TerminalizeFromResult, Finish, Detach,
     Goto, TypeOK, ArchivedProjectHasNoLoop, Live, Unfinished, Iterating, vars, rows,
     timers, process, discord
<1>8. CASE \E l \in Loops : AttachSession(l)
  BY <1>8 DEF AttachSession, TypeOK, ArchivedProjectHasNoLoop, Live, Unfinished, Iterating,
     vars, rows, timers, process, discord
<1>9. CASE \E l \in Loops : DeleteThread(l)
  BY <1>9 DEF DeleteThread, TypeOK, ArchivedProjectHasNoLoop, Live, Unfinished, Iterating,
     vars, rows, timers, process, discord
<1>10. CASE \E l \in Loops : ThreadDeleted(l)
  BY <1>10 DEF ThreadDeleted, Finish, Detach, TypeOK, ArchivedProjectHasNoLoop, Live,
     Unfinished, Iterating, vars, rows, timers, process, discord
<1>11. CASE \E l \in Loops : CrashInCreate(l)
  BY <1>11 DEF CrashInCreate, CanCreate, Restart, TypeOK, ArchivedProjectHasNoLoop, Live,
     Unfinished, Iterating, vars, rows, timers, process, discord
<1>12. CASE \E ch \in Channels : Stop(ch)
  BY <1>12 DEF Stop, Finish, Detach, TypeOK, ArchivedProjectHasNoLoop, Live, Unfinished,
     Iterating, vars, rows, timers, process, discord
<1>13. CASE \E ch \in Channels : RemoveProject(ch)
  BY <1>13 DEF RemoveProject, Finish, Detach, TypeOK, ArchivedProjectHasNoLoop, Live,
     Unfinished, Iterating, vars, rows, timers, process, discord
<1>14. CASE \E ch \in Channels : CrashInRemove(ch)
  BY <1>14 DEF CrashInRemove, Finish, Restart, TypeOK, ArchivedProjectHasNoLoop, Live,
     Unfinished, Iterating, vars, rows, timers, process, discord
<1>15. CASE Crash
  BY <1>15 DEF Crash, Restart, TypeOK, ArchivedProjectHasNoLoop, Live, Unfinished,
     Iterating, vars, rows, timers, process, discord
<1>16. CASE Shutdown
  BY <1>16 DEF Shutdown, Detach, TypeOK, ArchivedProjectHasNoLoop, Live, Unfinished,
     Iterating, vars, rows, timers, process, discord
<1>17. CASE Exit
  BY <1>17 DEF Exit, Crash, Restart, TypeOK, ArchivedProjectHasNoLoop, Live, Unfinished,
     Iterating, vars, rows, timers, process, discord
<1>18. CASE \E l \in Loops : Reconcile(l)
  BY <1>18 DEF Reconcile, Finish, Defer, Resumed, TypeOK, ArchivedProjectHasNoLoop, Live,
     Unfinished, Iterating, vars, rows, timers, process, discord
<1>19. CASE AcceptWork
  BY <1>19 DEF AcceptWork, TypeOK, ArchivedProjectHasNoLoop, Live, Unfinished, Iterating,
     vars, rows, timers, process, discord
<1>20. CASE Tick
  BY <1>20 DEF Tick, Countdown, TypeOK, ArchivedProjectHasNoLoop, Live, Unfinished,
     Iterating, vars, rows, timers, process, discord
<1>21. CASE UNCHANGED vars
  BY <1>21 DEF TypeOK, ArchivedProjectHasNoLoop, Live, Unfinished, Iterating, vars, rows,
     timers, process, discord
<1> QED
  BY <1>1, <1>2, <1>3, <1>4, <1>5, <1>6, <1>7, <1>8, <1>9, <1>10, <1>11, <1>12, <1>13,
     <1>14, <1>15, <1>16, <1>17, <1>18, <1>19, <1>20, <1>21 DEF Next, LoopStep, RestartStep

-----------------------------------------------------------------------------

\* A timer is set for a waiting loop and cleared with every change of its row.
LEMMA TimersStep == TypeOK /\ TimersAreLive /\ HandlerFacts /\ ResumableFacts /\ [Next]_vars => TimersAreLive'
<1> SUFFICES ASSUME TypeOK, TimersAreLive, HandlerFacts, ResumableFacts, [Next]_vars PROVE TimersAreLive'
  OBVIOUS
<1>1. CASE \E l \in Loops : StartLoop(l)
  BY <1>1 DEF StartLoop, Goto, TypeOK, TimersAreLive, HandlerFacts, ResumableFacts, Live,
     Unfinished, Iterating, vars, rows, timers, process, discord
<1>2. CASE \E l \in Loops : CreateAndStart(l)
  BY <1>2 DEF CreateAndStart, CanCreate, Acquire, Goto, TypeOK, TimersAreLive, HandlerFacts,
     ResumableFacts, Live, Unfinished, Iterating, vars, rows, timers, process, discord
<1>3. CASE \E l \in Loops : TimerFires(l)
  BY <1>3 DEF TimerFires, Acquire, Detach, Goto, TypeOK, TimersAreLive, HandlerFacts,
     ResumableFacts, Live, Unfinished, Iterating, vars, rows, timers, process, discord
<1>4. CASE \E l \in Loops : AnnounceIteration(l)
  BY <1>4 DEF AnnounceIteration, CanDeliver, TerminalizeFromResult, Finish, Detach, Goto,
     TypeOK, TimersAreLive, HandlerFacts, ResumableFacts, Live, Unfinished, Iterating, vars,
     rows, timers, process, discord
<1>5. CASE \E l \in Loops : IterationReturns(l)
  BY <1>5 DEF IterationReturns, ScheduleNext, Schedulable, Defer, Detach, Goto, TypeOK,
     TimersAreLive, HandlerFacts, ResumableFacts, Live, Unfinished, Iterating, vars, rows,
     timers, process, discord
<1>6. CASE \E l \in Loops : IterationThrows(l)
  BY <1>6 DEF IterationThrows, ScheduleNext, Schedulable, Defer, Detach, Goto,
     TerminalizeFromResult, Finish, TypeOK, TimersAreLive, HandlerFacts, ResumableFacts,
     Live, Unfinished, Iterating, vars, rows, timers, process, discord
<1>7. CASE \E l \in Loops : PresentWaiting(l)
  BY <1>7 DEF PresentWaiting, CanDeliver, Rearm, TerminalizeFromResult, Finish, Detach,
     Goto, TypeOK, TimersAreLive, HandlerFacts, ResumableFacts, Live, Unfinished, Iterating,
     vars, rows, timers, process, discord
<1>8. CASE \E l \in Loops : AttachSession(l)
  BY <1>8 DEF AttachSession, TypeOK, TimersAreLive, HandlerFacts, ResumableFacts, Live,
     Unfinished, Iterating, vars, rows, timers, process, discord
<1>9. CASE \E l \in Loops : DeleteThread(l)
  BY <1>9 DEF DeleteThread, TypeOK, TimersAreLive, HandlerFacts, ResumableFacts, Live,
     Unfinished, Iterating, vars, rows, timers, process, discord
<1>10. CASE \E l \in Loops : ThreadDeleted(l)
  BY <1>10 DEF ThreadDeleted, Finish, Detach, TypeOK, TimersAreLive, HandlerFacts,
     ResumableFacts, Live, Unfinished, Iterating, vars, rows, timers, process, discord
<1>11. CASE \E l \in Loops : CrashInCreate(l)
  BY <1>11 DEF CrashInCreate, CanCreate, Restart, TypeOK, TimersAreLive, HandlerFacts,
     ResumableFacts, Live, Unfinished, Iterating, vars, rows, timers, process, discord
<1>12. CASE \E ch \in Channels : Stop(ch)
  BY <1>12 DEF Stop, Finish, Detach, TypeOK, TimersAreLive, HandlerFacts, ResumableFacts,
     Live, Unfinished, Iterating, vars, rows, timers, process, discord
<1>13. CASE \E ch \in Channels : RemoveProject(ch)
  BY <1>13 DEF RemoveProject, Finish, Detach, TypeOK, TimersAreLive, HandlerFacts,
     ResumableFacts, Live, Unfinished, Iterating, vars, rows, timers, process, discord
<1>14. CASE \E ch \in Channels : CrashInRemove(ch)
  BY <1>14 DEF CrashInRemove, Finish, Restart, TypeOK, TimersAreLive, HandlerFacts,
     ResumableFacts, Live, Unfinished, Iterating, vars, rows, timers, process, discord
<1>15. CASE Crash
  BY <1>15 DEF Crash, Restart, TypeOK, TimersAreLive, HandlerFacts, ResumableFacts, Live,
     Unfinished, Iterating, vars, rows, timers, process, discord
<1>16. CASE Shutdown
  BY <1>16 DEF Shutdown, Detach, TypeOK, TimersAreLive, HandlerFacts, ResumableFacts, Live,
     Unfinished, Iterating, vars, rows, timers, process, discord
<1>17. CASE Exit
  BY <1>17 DEF Exit, Crash, Restart, TypeOK, TimersAreLive, HandlerFacts, ResumableFacts,
     Live, Unfinished, Iterating, vars, rows, timers, process, discord
<1>18. CASE \E l \in Loops : Reconcile(l)
  BY <1>18 DEF Reconcile, Finish, Defer, Resumed, TypeOK, TimersAreLive, HandlerFacts,
     ResumableFacts, Live, Unfinished, Iterating, vars, rows, timers, process, discord
<1>19. CASE AcceptWork
  BY <1>19 DEF AcceptWork, TypeOK, TimersAreLive, HandlerFacts, ResumableFacts, Live,
     Unfinished, Iterating, vars, rows, timers, process, discord
<1>20. CASE Tick
  BY <1>20 DEF Tick, Countdown, TypeOK, TimersAreLive, HandlerFacts, ResumableFacts, Live,
     Unfinished, Iterating, vars, rows, timers, process, discord
<1>21. CASE UNCHANGED vars
  BY <1>21 DEF TypeOK, TimersAreLive, HandlerFacts, ResumableFacts, Live, Unfinished,
     Iterating, vars, rows, timers, process, discord
<1> QED
  BY <1>1, <1>2, <1>3, <1>4, <1>5, <1>6, <1>7, <1>8, <1>9, <1>10, <1>11, <1>12, <1>13,
     <1>14, <1>15, <1>16, <1>17, <1>18, <1>19, <1>20, <1>21 DEF Next, LoopStep, RestartStep

-----------------------------------------------------------------------------

\* Handlers and rows move together, or the row is ended under the handler.
LEMMA HandlerStep == TypeOK /\ TimersAreLive /\ HandlerFacts /\ ResumableFacts /\ [Next]_vars => HandlerFacts'
<1> SUFFICES ASSUME TypeOK, TimersAreLive, HandlerFacts, ResumableFacts, [Next]_vars PROVE HandlerFacts'
  OBVIOUS
<1>1. CASE \E l \in Loops : StartLoop(l)
  BY <1>1 DEF StartLoop, Goto, TypeOK, TimersAreLive, HandlerFacts, ResumableFacts, Live,
     Unfinished, Iterating, vars, rows, timers, process, discord
<1>2. CASE \E l \in Loops : CreateAndStart(l)
  BY <1>2 DEF CreateAndStart, CanCreate, Acquire, Goto, TypeOK, TimersAreLive, HandlerFacts,
     ResumableFacts, Live, Unfinished, Iterating, vars, rows, timers, process, discord
<1>3. CASE \E l \in Loops : TimerFires(l)
  BY <1>3 DEF TimerFires, Acquire, Detach, Goto, TypeOK, TimersAreLive, HandlerFacts,
     ResumableFacts, Live, Unfinished, Iterating, vars, rows, timers, process, discord
<1>4. CASE \E l \in Loops : AnnounceIteration(l)
  BY <1>4 DEF AnnounceIteration, CanDeliver, TerminalizeFromResult, Finish, Detach, Goto,
     TypeOK, TimersAreLive, HandlerFacts, ResumableFacts, Live, Unfinished, Iterating, vars,
     rows, timers, process, discord
<1>5. CASE \E l \in Loops : IterationReturns(l)
  BY <1>5 DEF IterationReturns, ScheduleNext, Schedulable, Defer, Detach, Goto, TypeOK,
     TimersAreLive, HandlerFacts, ResumableFacts, Live, Unfinished, Iterating, vars, rows,
     timers, process, discord
<1>6. CASE \E l \in Loops : IterationThrows(l)
  BY <1>6 DEF IterationThrows, ScheduleNext, Schedulable, Defer, Detach, Goto,
     TerminalizeFromResult, Finish, TypeOK, TimersAreLive, HandlerFacts, ResumableFacts,
     Live, Unfinished, Iterating, vars, rows, timers, process, discord
<1>7. CASE \E l \in Loops : PresentWaiting(l)
  BY <1>7 DEF PresentWaiting, CanDeliver, Rearm, TerminalizeFromResult, Finish, Detach,
     Goto, TypeOK, TimersAreLive, HandlerFacts, ResumableFacts, Live, Unfinished, Iterating,
     vars, rows, timers, process, discord
<1>8. CASE \E l \in Loops : AttachSession(l)
  BY <1>8 DEF AttachSession, TypeOK, TimersAreLive, HandlerFacts, ResumableFacts, Live,
     Unfinished, Iterating, vars, rows, timers, process, discord
<1>9. CASE \E l \in Loops : DeleteThread(l)
  BY <1>9 DEF DeleteThread, TypeOK, TimersAreLive, HandlerFacts, ResumableFacts, Live,
     Unfinished, Iterating, vars, rows, timers, process, discord
<1>10. CASE \E l \in Loops : ThreadDeleted(l)
  BY <1>10 DEF ThreadDeleted, Finish, Detach, TypeOK, TimersAreLive, HandlerFacts,
     ResumableFacts, Live, Unfinished, Iterating, vars, rows, timers, process, discord
<1>11. CASE \E l \in Loops : CrashInCreate(l)
  BY <1>11 DEF CrashInCreate, CanCreate, Restart, TypeOK, TimersAreLive, HandlerFacts,
     ResumableFacts, Live, Unfinished, Iterating, vars, rows, timers, process, discord
<1>12. CASE \E ch \in Channels : Stop(ch)
  BY <1>12 DEF Stop, Finish, Detach, TypeOK, TimersAreLive, HandlerFacts, ResumableFacts,
     Live, Unfinished, Iterating, vars, rows, timers, process, discord
<1>13. CASE \E ch \in Channels : RemoveProject(ch)
  BY <1>13 DEF RemoveProject, Finish, Detach, TypeOK, TimersAreLive, HandlerFacts,
     ResumableFacts, Live, Unfinished, Iterating, vars, rows, timers, process, discord
<1>14. CASE \E ch \in Channels : CrashInRemove(ch)
  BY <1>14 DEF CrashInRemove, Finish, Restart, TypeOK, TimersAreLive, HandlerFacts,
     ResumableFacts, Live, Unfinished, Iterating, vars, rows, timers, process, discord
<1>15. CASE Crash
  BY <1>15 DEF Crash, Restart, TypeOK, TimersAreLive, HandlerFacts, ResumableFacts, Live,
     Unfinished, Iterating, vars, rows, timers, process, discord
<1>16. CASE Shutdown
  BY <1>16 DEF Shutdown, Detach, TypeOK, TimersAreLive, HandlerFacts, ResumableFacts, Live,
     Unfinished, Iterating, vars, rows, timers, process, discord
<1>17. CASE Exit
  BY <1>17 DEF Exit, Crash, Restart, TypeOK, TimersAreLive, HandlerFacts, ResumableFacts,
     Live, Unfinished, Iterating, vars, rows, timers, process, discord
<1>18. CASE \E l \in Loops : Reconcile(l)
  BY <1>18 DEF Reconcile, Finish, Defer, Resumed, TypeOK, TimersAreLive, HandlerFacts,
     ResumableFacts, Live, Unfinished, Iterating, vars, rows, timers, process, discord
<1>19. CASE AcceptWork
  BY <1>19 DEF AcceptWork, TypeOK, TimersAreLive, HandlerFacts, ResumableFacts, Live,
     Unfinished, Iterating, vars, rows, timers, process, discord
<1>20. CASE Tick
  BY <1>20 DEF Tick, Countdown, TypeOK, TimersAreLive, HandlerFacts, ResumableFacts, Live,
     Unfinished, Iterating, vars, rows, timers, process, discord
<1>21. CASE UNCHANGED vars
  BY <1>21 DEF TypeOK, TimersAreLive, HandlerFacts, ResumableFacts, Live, Unfinished,
     Iterating, vars, rows, timers, process, discord
<1> QED
  BY <1>1, <1>2, <1>3, <1>4, <1>5, <1>6, <1>7, <1>8, <1>9, <1>10, <1>11, <1>12, <1>13,
     <1>14, <1>15, <1>16, <1>17, <1>18, <1>19, <1>20, <1>21 DEF Next, LoopStep, RestartStep

-----------------------------------------------------------------------------

\* A restart forgets every handler and timer before the rows are read.
LEMMA ResumableStep == TypeOK /\ TimersAreLive /\ HandlerFacts /\ ResumableFacts /\ [Next]_vars => ResumableFacts'
<1> SUFFICES ASSUME TypeOK, TimersAreLive, HandlerFacts, ResumableFacts, [Next]_vars PROVE ResumableFacts'
  OBVIOUS
<1>1. CASE \E l \in Loops : StartLoop(l)
  BY <1>1 DEF StartLoop, Goto, TypeOK, TimersAreLive, HandlerFacts, ResumableFacts, Live,
     Unfinished, Iterating, vars, rows, timers, process, discord
<1>2. CASE \E l \in Loops : CreateAndStart(l)
  BY <1>2 DEF CreateAndStart, CanCreate, Acquire, Goto, TypeOK, TimersAreLive, HandlerFacts,
     ResumableFacts, Live, Unfinished, Iterating, vars, rows, timers, process, discord
<1>3. CASE \E l \in Loops : TimerFires(l)
  BY <1>3 DEF TimerFires, Acquire, Detach, Goto, TypeOK, TimersAreLive, HandlerFacts,
     ResumableFacts, Live, Unfinished, Iterating, vars, rows, timers, process, discord
<1>4. CASE \E l \in Loops : AnnounceIteration(l)
  BY <1>4 DEF AnnounceIteration, CanDeliver, TerminalizeFromResult, Finish, Detach, Goto,
     TypeOK, TimersAreLive, HandlerFacts, ResumableFacts, Live, Unfinished, Iterating, vars,
     rows, timers, process, discord
<1>5. CASE \E l \in Loops : IterationReturns(l)
  BY <1>5 DEF IterationReturns, ScheduleNext, Schedulable, Defer, Detach, Goto, TypeOK,
     TimersAreLive, HandlerFacts, ResumableFacts, Live, Unfinished, Iterating, vars, rows,
     timers, process, discord
<1>6. CASE \E l \in Loops : IterationThrows(l)
  BY <1>6 DEF IterationThrows, ScheduleNext, Schedulable, Defer, Detach, Goto,
     TerminalizeFromResult, Finish, TypeOK, TimersAreLive, HandlerFacts, ResumableFacts,
     Live, Unfinished, Iterating, vars, rows, timers, process, discord
<1>7. CASE \E l \in Loops : PresentWaiting(l)
  BY <1>7 DEF PresentWaiting, CanDeliver, Rearm, TerminalizeFromResult, Finish, Detach,
     Goto, TypeOK, TimersAreLive, HandlerFacts, ResumableFacts, Live, Unfinished, Iterating,
     vars, rows, timers, process, discord
<1>8. CASE \E l \in Loops : AttachSession(l)
  BY <1>8 DEF AttachSession, TypeOK, TimersAreLive, HandlerFacts, ResumableFacts, Live,
     Unfinished, Iterating, vars, rows, timers, process, discord
<1>9. CASE \E l \in Loops : DeleteThread(l)
  BY <1>9 DEF DeleteThread, TypeOK, TimersAreLive, HandlerFacts, ResumableFacts, Live,
     Unfinished, Iterating, vars, rows, timers, process, discord
<1>10. CASE \E l \in Loops : ThreadDeleted(l)
  BY <1>10 DEF ThreadDeleted, Finish, Detach, TypeOK, TimersAreLive, HandlerFacts,
     ResumableFacts, Live, Unfinished, Iterating, vars, rows, timers, process, discord
<1>11. CASE \E l \in Loops : CrashInCreate(l)
  BY <1>11 DEF CrashInCreate, CanCreate, Restart, TypeOK, TimersAreLive, HandlerFacts,
     ResumableFacts, Live, Unfinished, Iterating, vars, rows, timers, process, discord
<1>12. CASE \E ch \in Channels : Stop(ch)
  BY <1>12 DEF Stop, Finish, Detach, TypeOK, TimersAreLive, HandlerFacts, ResumableFacts,
     Live, Unfinished, Iterating, vars, rows, timers, process, discord
<1>13. CASE \E ch \in Channels : RemoveProject(ch)
  BY <1>13 DEF RemoveProject, Finish, Detach, TypeOK, TimersAreLive, HandlerFacts,
     ResumableFacts, Live, Unfinished, Iterating, vars, rows, timers, process, discord
<1>14. CASE \E ch \in Channels : CrashInRemove(ch)
  BY <1>14 DEF CrashInRemove, Finish, Restart, TypeOK, TimersAreLive, HandlerFacts,
     ResumableFacts, Live, Unfinished, Iterating, vars, rows, timers, process, discord
<1>15. CASE Crash
  BY <1>15 DEF Crash, Restart, TypeOK, TimersAreLive, HandlerFacts, ResumableFacts, Live,
     Unfinished, Iterating, vars, rows, timers, process, discord
<1>16. CASE Shutdown
  BY <1>16 DEF Shutdown, Detach, TypeOK, TimersAreLive, HandlerFacts, ResumableFacts, Live,
     Unfinished, Iterating, vars, rows, timers, process, discord
<1>17. CASE Exit
  BY <1>17 DEF Exit, Crash, Restart, TypeOK, TimersAreLive, HandlerFacts, ResumableFacts,
     Live, Unfinished, Iterating, vars, rows, timers, process, discord
<1>18. CASE \E l \in Loops : Reconcile(l)
  BY <1>18 DEF Reconcile, Finish, Defer, Resumed, TypeOK, TimersAreLive, HandlerFacts,
     ResumableFacts, Live, Unfinished, Iterating, vars, rows, timers, process, discord
<1>19. CASE AcceptWork
  BY <1>19 DEF AcceptWork, TypeOK, TimersAreLive, HandlerFacts, ResumableFacts, Live,
     Unfinished, Iterating, vars, rows, timers, process, discord
<1>20. CASE Tick
  BY <1>20 DEF Tick, Countdown, TypeOK, TimersAreLive, HandlerFacts, ResumableFacts, Live,
     Unfinished, Iterating, vars, rows, timers, process, discord
<1>21. CASE UNCHANGED vars
  BY <1>21 DEF TypeOK, TimersAreLive, HandlerFacts, ResumableFacts, Live, Unfinished,
     Iterating, vars, rows, timers, process, discord
<1> QED
  BY <1>1, <1>2, <1>3, <1>4, <1>5, <1>6, <1>7, <1>8, <1>9, <1>10, <1>11, <1>12, <1>13,
     <1>14, <1>15, <1>16, <1>17, <1>18, <1>19, <1>20, <1>21 DEF Next, LoopStep, RestartStep

-----------------------------------------------------------------------------

\* A handler leaves its row over, or waiting with a timer.
LEMMA DrivenStep == TypeOK /\ TimersAreLive /\ HandlerFacts /\ ResumableFacts /\ DrivenFacts /\ [Next]_vars => DrivenFacts'
<1> SUFFICES ASSUME TypeOK, TimersAreLive, HandlerFacts, ResumableFacts, DrivenFacts, [Next]_vars PROVE DrivenFacts'
  OBVIOUS
<1>1. CASE \E l \in Loops : StartLoop(l)
  BY <1>1 DEF StartLoop, Goto, TypeOK, TimersAreLive, HandlerFacts, ResumableFacts,
     DrivenFacts, Live, Unfinished, Iterating, vars, rows, timers, process, discord
<1>2. CASE \E l \in Loops : CreateAndStart(l)
  BY <1>2 DEF CreateAndStart, CanCreate, Acquire, Goto, TypeOK, TimersAreLive, HandlerFacts,
     ResumableFacts, DrivenFacts, Live, Unfinished, Iterating, vars, rows, timers, process,
     discord
<1>3. CASE \E l \in Loops : TimerFires(l)
  BY <1>3 DEF TimerFires, Acquire, Detach, Goto, TypeOK, TimersAreLive, HandlerFacts,
     ResumableFacts, DrivenFacts, Live, Unfinished, Iterating, vars, rows, timers, process,
     discord
<1>4. CASE \E l \in Loops : AnnounceIteration(l)
  BY <1>4 DEF AnnounceIteration, CanDeliver, TerminalizeFromResult, Finish, Detach, Goto,
     TypeOK, TimersAreLive, HandlerFacts, ResumableFacts, DrivenFacts, Live, Unfinished,
     Iterating, vars, rows, timers, process, discord
<1>5. CASE \E l \in Loops : IterationReturns(l)
  BY <1>5 DEF IterationReturns, ScheduleNext, Schedulable, Defer, Detach, Goto, TypeOK,
     TimersAreLive, HandlerFacts, ResumableFacts, DrivenFacts, Live, Unfinished, Iterating,
     vars, rows, timers, process, discord
<1>6. CASE \E l \in Loops : IterationThrows(l)
  BY <1>6 DEF IterationThrows, ScheduleNext, Schedulable, Defer, Detach, Goto,
     TerminalizeFromResult, Finish, TypeOK, TimersAreLive, HandlerFacts, ResumableFacts,
     DrivenFacts, Live, Unfinished, Iterating, vars, rows, timers, process, discord
<1>7. CASE \E l \in Loops : PresentWaiting(l)
  BY <1>7 DEF PresentWaiting, CanDeliver, Rearm, TerminalizeFromResult, Finish, Detach,
     Goto, TypeOK, TimersAreLive, HandlerFacts, ResumableFacts, DrivenFacts, Live,
     Unfinished, Iterating, vars, rows, timers, process, discord
<1>8. CASE \E l \in Loops : AttachSession(l)
  BY <1>8 DEF AttachSession, TypeOK, TimersAreLive, HandlerFacts, ResumableFacts,
     DrivenFacts, Live, Unfinished, Iterating, vars, rows, timers, process, discord
<1>9. CASE \E l \in Loops : DeleteThread(l)
  BY <1>9 DEF DeleteThread, TypeOK, TimersAreLive, HandlerFacts, ResumableFacts,
     DrivenFacts, Live, Unfinished, Iterating, vars, rows, timers, process, discord
<1>10. CASE \E l \in Loops : ThreadDeleted(l)
  BY <1>10 DEF ThreadDeleted, Finish, Detach, TypeOK, TimersAreLive, HandlerFacts,
     ResumableFacts, DrivenFacts, Live, Unfinished, Iterating, vars, rows, timers, process,
     discord
<1>11. CASE \E l \in Loops : CrashInCreate(l)
  BY <1>11 DEF CrashInCreate, CanCreate, Restart, TypeOK, TimersAreLive, HandlerFacts,
     ResumableFacts, DrivenFacts, Live, Unfinished, Iterating, vars, rows, timers, process,
     discord
<1>12. CASE \E ch \in Channels : Stop(ch)
  BY <1>12 DEF Stop, Finish, Detach, TypeOK, TimersAreLive, HandlerFacts, ResumableFacts,
     DrivenFacts, Live, Unfinished, Iterating, vars, rows, timers, process, discord
<1>13. CASE \E ch \in Channels : RemoveProject(ch)
  BY <1>13 DEF RemoveProject, Finish, Detach, TypeOK, TimersAreLive, HandlerFacts,
     ResumableFacts, DrivenFacts, Live, Unfinished, Iterating, vars, rows, timers, process,
     discord
<1>14. CASE \E ch \in Channels : CrashInRemove(ch)
  BY <1>14 DEF CrashInRemove, Finish, Restart, TypeOK, TimersAreLive, HandlerFacts,
     ResumableFacts, DrivenFacts, Live, Unfinished, Iterating, vars, rows, timers, process,
     discord
<1>15. CASE Crash
  BY <1>15 DEF Crash, Restart, TypeOK, TimersAreLive, HandlerFacts, ResumableFacts,
     DrivenFacts, Live, Unfinished, Iterating, vars, rows, timers, process, discord
<1>16. CASE Shutdown
  BY <1>16 DEF Shutdown, Detach, TypeOK, TimersAreLive, HandlerFacts, ResumableFacts,
     DrivenFacts, Live, Unfinished, Iterating, vars, rows, timers, process, discord
<1>17. CASE Exit
  BY <1>17 DEF Exit, Crash, Restart, TypeOK, TimersAreLive, HandlerFacts, ResumableFacts,
     DrivenFacts, Live, Unfinished, Iterating, vars, rows, timers, process, discord
<1>18. CASE \E l \in Loops : Reconcile(l)
  BY <1>18 DEF Reconcile, Finish, Defer, Resumed, TypeOK, TimersAreLive, HandlerFacts,
     ResumableFacts, DrivenFacts, Live, Unfinished, Iterating, vars, rows, timers, process,
     discord
<1>19. CASE AcceptWork
  BY <1>19 DEF AcceptWork, TypeOK, TimersAreLive, HandlerFacts, ResumableFacts, DrivenFacts,
     Live, Unfinished, Iterating, vars, rows, timers, process, discord
<1>20. CASE Tick
  BY <1>20 DEF Tick, Countdown, TypeOK, TimersAreLive, HandlerFacts, ResumableFacts,
     DrivenFacts, Live, Unfinished, Iterating, vars, rows, timers, process, discord
<1>21. CASE UNCHANGED vars
  BY <1>21 DEF TypeOK, TimersAreLive, HandlerFacts, ResumableFacts, DrivenFacts, Live,
     Unfinished, Iterating, vars, rows, timers, process, discord
<1> QED
  BY <1>1, <1>2, <1>3, <1>4, <1>5, <1>6, <1>7, <1>8, <1>9, <1>10, <1>11, <1>12, <1>13,
     <1>14, <1>15, <1>16, <1>17, <1>18, <1>19, <1>20, <1>21 DEF Next, LoopStep, RestartStep

-----------------------------------------------------------------------------

\* A row becomes active with a whole interval to wait, and ticks move both counts.
LEMMA DueStep == TypeOK /\ DueFacts /\ HandlerFacts /\ [Next]_vars => DueFacts'
<1> SUFFICES ASSUME TypeOK, DueFacts, HandlerFacts, [Next]_vars PROVE DueFacts'
  OBVIOUS
<1>1. CASE \E l \in Loops : StartLoop(l)
  BY <1>1 DEF StartLoop, Goto, TypeOK, DueFacts, HandlerFacts, Live, Unfinished, Iterating,
     vars, rows, timers, process, discord
<1>2. CASE \E l \in Loops : CreateAndStart(l)
  BY <1>2 DEF CreateAndStart, CanCreate, Acquire, Goto, TypeOK, DueFacts, HandlerFacts,
     Live, Unfinished, Iterating, vars, rows, timers, process, discord
<1>3. CASE \E l \in Loops : TimerFires(l)
  BY <1>3 DEF TimerFires, Acquire, Detach, Goto, TypeOK, DueFacts, HandlerFacts, Live,
     Unfinished, Iterating, vars, rows, timers, process, discord
<1>4. CASE \E l \in Loops : AnnounceIteration(l)
  BY <1>4 DEF AnnounceIteration, CanDeliver, TerminalizeFromResult, Finish, Detach, Goto,
     TypeOK, DueFacts, HandlerFacts, Live, Unfinished, Iterating, vars, rows, timers,
     process, discord
<1>5. CASE \E l \in Loops : IterationReturns(l)
  BY <1>5 DEF IterationReturns, ScheduleNext, Schedulable, Defer, Detach, Goto, TypeOK,
     DueFacts, HandlerFacts, Live, Unfinished, Iterating, vars, rows, timers, process,
     discord
<1>6. CASE \E l \in Loops : IterationThrows(l)
  BY <1>6 DEF IterationThrows, ScheduleNext, Schedulable, Defer, Detach, Goto,
     TerminalizeFromResult, Finish, TypeOK, DueFacts, HandlerFacts, Live, Unfinished,
     Iterating, vars, rows, timers, process, discord
<1>7. CASE \E l \in Loops : PresentWaiting(l)
  BY <1>7 DEF PresentWaiting, CanDeliver, Rearm, TerminalizeFromResult, Finish, Detach,
     Goto, TypeOK, DueFacts, HandlerFacts, Live, Unfinished, Iterating, vars, rows, timers,
     process, discord
<1>8. CASE \E l \in Loops : AttachSession(l)
  BY <1>8 DEF AttachSession, TypeOK, DueFacts, HandlerFacts, Live, Unfinished, Iterating,
     vars, rows, timers, process, discord
<1>9. CASE \E l \in Loops : DeleteThread(l)
  BY <1>9 DEF DeleteThread, TypeOK, DueFacts, HandlerFacts, Live, Unfinished, Iterating,
     vars, rows, timers, process, discord
<1>10. CASE \E l \in Loops : ThreadDeleted(l)
  BY <1>10 DEF ThreadDeleted, Finish, Detach, TypeOK, DueFacts, HandlerFacts, Live,
     Unfinished, Iterating, vars, rows, timers, process, discord
<1>11. CASE \E l \in Loops : CrashInCreate(l)
  BY <1>11 DEF CrashInCreate, CanCreate, Restart, TypeOK, DueFacts, HandlerFacts, Live,
     Unfinished, Iterating, vars, rows, timers, process, discord
<1>12. CASE \E ch \in Channels : Stop(ch)
  BY <1>12 DEF Stop, Finish, Detach, TypeOK, DueFacts, HandlerFacts, Live, Unfinished,
     Iterating, vars, rows, timers, process, discord
<1>13. CASE \E ch \in Channels : RemoveProject(ch)
  BY <1>13 DEF RemoveProject, Finish, Detach, TypeOK, DueFacts, HandlerFacts, Live,
     Unfinished, Iterating, vars, rows, timers, process, discord
<1>14. CASE \E ch \in Channels : CrashInRemove(ch)
  BY <1>14 DEF CrashInRemove, Finish, Restart, TypeOK, DueFacts, HandlerFacts, Live,
     Unfinished, Iterating, vars, rows, timers, process, discord
<1>15. CASE Crash
  BY <1>15 DEF Crash, Restart, TypeOK, DueFacts, HandlerFacts, Live, Unfinished, Iterating,
     vars, rows, timers, process, discord
<1>16. CASE Shutdown
  BY <1>16 DEF Shutdown, Detach, TypeOK, DueFacts, HandlerFacts, Live, Unfinished,
     Iterating, vars, rows, timers, process, discord
<1>17. CASE Exit
  BY <1>17 DEF Exit, Crash, Restart, TypeOK, DueFacts, HandlerFacts, Live, Unfinished,
     Iterating, vars, rows, timers, process, discord
<1>18. CASE \E l \in Loops : Reconcile(l)
  BY <1>18 DEF Reconcile, Finish, Defer, Resumed, TypeOK, DueFacts, HandlerFacts, Live,
     Unfinished, Iterating, vars, rows, timers, process, discord
<1>19. CASE AcceptWork
  BY <1>19 DEF AcceptWork, TypeOK, DueFacts, HandlerFacts, Live, Unfinished, Iterating,
     vars, rows, timers, process, discord
<1>20. CASE Tick
  BY <1>20 DEF Tick, Countdown, TypeOK, DueFacts, HandlerFacts, Live, Unfinished, Iterating,
     vars, rows, timers, process, discord
<1>21. CASE UNCHANGED vars
  BY <1>21 DEF TypeOK, DueFacts, HandlerFacts, Live, Unfinished, Iterating, vars, rows,
     timers, process, discord
<1> QED
  BY <1>1, <1>2, <1>3, <1>4, <1>5, <1>6, <1>7, <1>8, <1>9, <1>10, <1>11, <1>12, <1>13,
     <1>14, <1>15, <1>16, <1>17, <1>18, <1>19, <1>20, <1>21 DEF Next, LoopStep, RestartStep

-----------------------------------------------------------------------------

\* The steps together.
LEMMA InvStep == Inv /\ [Next]_vars => Inv'
  BY TypeStep, ChannelStep, ArchivedStep, TimersStep, HandlerStep, ResumableStep,
     DrivenStep, DueStep DEF Inv

\* Every reachable state satisfies the inductive invariant.
THEOREM Invariance == Spec => []Inv
<1>1. Init => Inv
  BY InvInit
<1>2. Inv /\ [Next]_vars => Inv'
  BY InvStep
<1> QED
  BY <1>1, <1>2, PTL DEF Spec

\* The rows, handlers, timers and events of loops always have their types.
THEOREM TypeCorrect == Spec => []TypeOK
<1>1. Inv => TypeOK
  BY DEF Inv
<1> QED
  BY <1>1, Invariance, PTL

\* A channel never has two loops that are not over: create() looks again at
\* what startLoop looked at before its awaits.
THEOREM ChannelCorrect == Spec => []OneLoopPerChannel
<1>1. Inv => OneLoopPerChannel
  BY DEF Inv
<1> QED
  BY <1>1, Invariance, PTL

\* No loop outlives its project: removeProject ends the rows before it
\* archives, and create() looks at the project again.
THEOREM ArchivedCorrect == Spec => []ArchivedProjectHasNoLoop
<1>1. Inv => ArchivedProjectHasNoLoop
  BY DEF Inv
<1> QED
  BY <1>1, Invariance, PTL

\* Only a waiting loop has a timer: whatever ends a row clears the timer with it.
THEOREM TimersCorrect == Spec => []TimersAreLive
<1>1. Inv => TimersAreLive
  BY DEF Inv
<1> QED
  BY <1>1, Invariance, PTL

\* No loop is lost: once work is accepted, every row that is not over has its
\* handler or its timer.
THEOREM LostCorrect == Spec => []NoLoopIsLost
<1>1. Inv => NoLoopIsLost
  BY DEF Inv, NoLoopIsLost, ResumableFacts, DrivenFacts
<1> QED
  BY <1>1, Invariance, PTL

\* A stopped or terminalized loop stays so: every write that could revive it is
\* conditional on the stored status.
THEOREM EndedCorrect == Spec => EndedStaysEnded
<1>1. Inv /\ [Next]_vars => [\A l \in Loops : status[l] \in {"stopped", "terminal"}
                                            => status'[l] = status[l]]_vars
  <2> SUFFICES ASSUME Inv, Next, NEW l \in Loops, status[l] \in {"stopped", "terminal"}
               PROVE  status'[l] = status[l]
    OBVIOUS
  <2> TypeOK /\ HandlerFacts /\ ResumableFacts
    BY DEF Inv
  <2>1. CASE \E k \in Loops : StartLoop(k)
    BY <2>1 DEF StartLoop, Goto, TypeOK, HandlerFacts, ResumableFacts, Live, Unfinished,
       Iterating, vars, rows, timers, process, discord
  <2>2. CASE \E k \in Loops : CreateAndStart(k)
    BY <2>2 DEF CreateAndStart, CanCreate, Acquire, Goto, TypeOK, HandlerFacts,
       ResumableFacts, Live, Unfinished, Iterating, vars, rows, timers, process, discord
  <2>3. CASE \E k \in Loops : TimerFires(k)
    BY <2>3 DEF TimerFires, Acquire, Detach, Goto, TypeOK, HandlerFacts, ResumableFacts, Live,
       Unfinished, Iterating, vars, rows, timers, process, discord
  <2>4. CASE \E k \in Loops : AnnounceIteration(k)
    BY <2>4 DEF AnnounceIteration, CanDeliver, TerminalizeFromResult, Finish, Detach, Goto,
       TypeOK, HandlerFacts, ResumableFacts, Live, Unfinished, Iterating, vars, rows, timers,
       process, discord
  <2>5. CASE \E k \in Loops : IterationReturns(k)
    BY <2>5 DEF IterationReturns, ScheduleNext, Schedulable, Defer, Detach, Goto, TypeOK,
       HandlerFacts, ResumableFacts, Live, Unfinished, Iterating, vars, rows, timers, process,
       discord
  <2>6. CASE \E k \in Loops : IterationThrows(k)
    BY <2>6 DEF IterationThrows, ScheduleNext, Schedulable, Defer, Detach, Goto,
       TerminalizeFromResult, Finish, TypeOK, HandlerFacts, ResumableFacts, Live, Unfinished,
       Iterating, vars, rows, timers, process, discord
  <2>7. CASE \E k \in Loops : PresentWaiting(k)
    BY <2>7 DEF PresentWaiting, CanDeliver, Rearm, TerminalizeFromResult, Finish, Detach,
       Goto, TypeOK, HandlerFacts, ResumableFacts, Live, Unfinished, Iterating, vars, rows,
       timers, process, discord
  <2>8. CASE \E k \in Loops : AttachSession(k)
    BY <2>8 DEF AttachSession, TypeOK, HandlerFacts, ResumableFacts, Live, Unfinished,
       Iterating, vars, rows, timers, process, discord
  <2>9. CASE \E k \in Loops : DeleteThread(k)
    BY <2>9 DEF DeleteThread, TypeOK, HandlerFacts, ResumableFacts, Live, Unfinished,
       Iterating, vars, rows, timers, process, discord
  <2>10. CASE \E k \in Loops : ThreadDeleted(k)
    BY <2>10 DEF ThreadDeleted, Finish, Detach, TypeOK, HandlerFacts, ResumableFacts, Live,
       Unfinished, Iterating, vars, rows, timers, process, discord
  <2>11. CASE \E k \in Loops : CrashInCreate(k)
    BY <2>11 DEF CrashInCreate, CanCreate, Restart, TypeOK, HandlerFacts, ResumableFacts,
       Live, Unfinished, Iterating, vars, rows, timers, process, discord
  <2>12. CASE \E ch \in Channels : Stop(ch)
    BY <2>12 DEF Stop, Finish, Detach, TypeOK, HandlerFacts, ResumableFacts, Live, Unfinished,
       Iterating, vars, rows, timers, process, discord
  <2>13. CASE \E ch \in Channels : RemoveProject(ch)
    BY <2>13 DEF RemoveProject, Finish, Detach, TypeOK, HandlerFacts, ResumableFacts, Live,
       Unfinished, Iterating, vars, rows, timers, process, discord
  <2>14. CASE \E ch \in Channels : CrashInRemove(ch)
    BY <2>14 DEF CrashInRemove, Finish, Restart, TypeOK, HandlerFacts, ResumableFacts, Live,
       Unfinished, Iterating, vars, rows, timers, process, discord
  <2>15. CASE Crash
    BY <2>15 DEF Crash, Restart, TypeOK, HandlerFacts, ResumableFacts, Live, Unfinished,
       Iterating, vars, rows, timers, process, discord
  <2>16. CASE Shutdown
    BY <2>16 DEF Shutdown, Detach, TypeOK, HandlerFacts, ResumableFacts, Live, Unfinished,
       Iterating, vars, rows, timers, process, discord
  <2>17. CASE Exit
    BY <2>17 DEF Exit, Crash, Restart, TypeOK, HandlerFacts, ResumableFacts, Live, Unfinished,
       Iterating, vars, rows, timers, process, discord
  <2>18. CASE \E k \in Loops : Reconcile(k)
    BY <2>18 DEF Reconcile, Finish, Defer, Resumed, TypeOK, HandlerFacts, ResumableFacts,
       Live, Unfinished, Iterating, vars, rows, timers, process, discord
  <2>19. CASE AcceptWork
    BY <2>19 DEF AcceptWork, TypeOK, HandlerFacts, ResumableFacts, Live, Unfinished,
       Iterating, vars, rows, timers, process, discord
  <2>20. CASE Tick
    BY <2>20 DEF Tick, Countdown, TypeOK, HandlerFacts, ResumableFacts, Live, Unfinished,
       Iterating, vars, rows, timers, process, discord
  <2> QED
    BY <2>1, <2>2, <2>3, <2>4, <2>5, <2>6, <2>7, <2>8, <2>9, <2>10, <2>11, <2>12, <2>13,
       <2>14, <2>15, <2>16, <2>17, <2>18, <2>19, <2>20 DEF Next, LoopStep, RestartStep
<1> QED
  BY <1>1, Invariance, PTL DEF Spec, EndedStaysEnded

\* At least an interval passes between two iterations, over any restart.
THEOREM CadenceCorrect == Spec => Cadence
<1>1. Inv /\ [Next]_vars =>
        [\A l \in Loops : status[l] = "active" /\ status'[l] = "running" /\ iteration[l] > 0
                             => sinceStart[l] = Interval]_vars
  <2> SUFFICES ASSUME Inv, Next, NEW l \in Loops,
                      status[l] = "active", status'[l] = "running", iteration[l] > 0
               PROVE  sinceStart[l] = Interval
    OBVIOUS
  <2> TypeOK /\ HandlerFacts /\ ResumableFacts /\ DueFacts
    BY DEF Inv
  <2>1. CASE \E k \in Loops : StartLoop(k)
    BY <2>1 DEF StartLoop, Goto, TypeOK, HandlerFacts, ResumableFacts, DueFacts, Live,
       Unfinished, Iterating, vars, rows, timers, process, discord
  <2>2. CASE \E k \in Loops : CreateAndStart(k)
    BY <2>2 DEF CreateAndStart, CanCreate, Acquire, Goto, TypeOK, HandlerFacts,
       ResumableFacts, DueFacts, Live, Unfinished, Iterating, vars, rows, timers, process,
       discord
  <2>3. CASE \E k \in Loops : TimerFires(k)
    BY <2>3 DEF TimerFires, Acquire, Detach, Goto, TypeOK, HandlerFacts, ResumableFacts,
       DueFacts, Live, Unfinished, Iterating, vars, rows, timers, process, discord
  <2>4. CASE \E k \in Loops : AnnounceIteration(k)
    BY <2>4 DEF AnnounceIteration, CanDeliver, TerminalizeFromResult, Finish, Detach, Goto,
       TypeOK, HandlerFacts, ResumableFacts, DueFacts, Live, Unfinished, Iterating, vars,
       rows, timers, process, discord
  <2>5. CASE \E k \in Loops : IterationReturns(k)
    BY <2>5 DEF IterationReturns, ScheduleNext, Schedulable, Defer, Detach, Goto, TypeOK,
       HandlerFacts, ResumableFacts, DueFacts, Live, Unfinished, Iterating, vars, rows,
       timers, process, discord
  <2>6. CASE \E k \in Loops : IterationThrows(k)
    BY <2>6 DEF IterationThrows, ScheduleNext, Schedulable, Defer, Detach, Goto,
       TerminalizeFromResult, Finish, TypeOK, HandlerFacts, ResumableFacts, DueFacts, Live,
       Unfinished, Iterating, vars, rows, timers, process, discord
  <2>7. CASE \E k \in Loops : PresentWaiting(k)
    BY <2>7 DEF PresentWaiting, CanDeliver, Rearm, TerminalizeFromResult, Finish, Detach,
       Goto, TypeOK, HandlerFacts, ResumableFacts, DueFacts, Live, Unfinished, Iterating,
       vars, rows, timers, process, discord
  <2>8. CASE \E k \in Loops : AttachSession(k)
    BY <2>8 DEF AttachSession, TypeOK, HandlerFacts, ResumableFacts, DueFacts, Live,
       Unfinished, Iterating, vars, rows, timers, process, discord
  <2>9. CASE \E k \in Loops : DeleteThread(k)
    BY <2>9 DEF DeleteThread, TypeOK, HandlerFacts, ResumableFacts, DueFacts, Live,
       Unfinished, Iterating, vars, rows, timers, process, discord
  <2>10. CASE \E k \in Loops : ThreadDeleted(k)
    BY <2>10 DEF ThreadDeleted, Finish, Detach, TypeOK, HandlerFacts, ResumableFacts,
       DueFacts, Live, Unfinished, Iterating, vars, rows, timers, process, discord
  <2>11. CASE \E k \in Loops : CrashInCreate(k)
    BY <2>11 DEF CrashInCreate, CanCreate, Restart, TypeOK, HandlerFacts, ResumableFacts,
       DueFacts, Live, Unfinished, Iterating, vars, rows, timers, process, discord
  <2>12. CASE \E ch \in Channels : Stop(ch)
    BY <2>12 DEF Stop, Finish, Detach, TypeOK, HandlerFacts, ResumableFacts, DueFacts, Live,
       Unfinished, Iterating, vars, rows, timers, process, discord
  <2>13. CASE \E ch \in Channels : RemoveProject(ch)
    BY <2>13 DEF RemoveProject, Finish, Detach, TypeOK, HandlerFacts, ResumableFacts,
       DueFacts, Live, Unfinished, Iterating, vars, rows, timers, process, discord
  <2>14. CASE \E ch \in Channels : CrashInRemove(ch)
    BY <2>14 DEF CrashInRemove, Finish, Restart, TypeOK, HandlerFacts, ResumableFacts,
       DueFacts, Live, Unfinished, Iterating, vars, rows, timers, process, discord
  <2>15. CASE Crash
    BY <2>15 DEF Crash, Restart, TypeOK, HandlerFacts, ResumableFacts, DueFacts, Live,
       Unfinished, Iterating, vars, rows, timers, process, discord
  <2>16. CASE Shutdown
    BY <2>16 DEF Shutdown, Detach, TypeOK, HandlerFacts, ResumableFacts, DueFacts, Live,
       Unfinished, Iterating, vars, rows, timers, process, discord
  <2>17. CASE Exit
    BY <2>17 DEF Exit, Crash, Restart, TypeOK, HandlerFacts, ResumableFacts, DueFacts, Live,
       Unfinished, Iterating, vars, rows, timers, process, discord
  <2>18. CASE \E k \in Loops : Reconcile(k)
    BY <2>18 DEF Reconcile, Finish, Defer, Resumed, TypeOK, HandlerFacts, ResumableFacts,
       DueFacts, Live, Unfinished, Iterating, vars, rows, timers, process, discord
  <2>19. CASE AcceptWork
    BY <2>19 DEF AcceptWork, TypeOK, HandlerFacts, ResumableFacts, DueFacts, Live, Unfinished,
       Iterating, vars, rows, timers, process, discord
  <2>20. CASE Tick
    BY <2>20 DEF Tick, Countdown, TypeOK, HandlerFacts, ResumableFacts, DueFacts, Live,
       Unfinished, Iterating, vars, rows, timers, process, discord
  <2> QED
    BY <2>1, <2>2, <2>3, <2>4, <2>5, <2>6, <2>7, <2>8, <2>9, <2>10, <2>11, <2>12, <2>13,
       <2>14, <2>15, <2>16, <2>17, <2>18, <2>19, <2>20 DEF Next, LoopStep, RestartStep
<1> QED
  BY <1>1, Invariance, PTL DEF Spec, Cadence

=============================================================================
