--------------------------- MODULE ScheduledLoops ---------------------------
(***************************************************************************)
(* Durable scheduled loops: src/services/scheduledLoopService.ts and       *)
(* src/services/loopRunner.ts over the table of                            *)
(* src/repositories/loopRepository.ts, with the events of src/index.ts     *)
(* that reach them.  A loop runs its first iteration when it is created    *)
(* and the next one an interval after the last has ended; the row is the   *)
(* authority, and the timers of a process that stopped are rebuilt from    *)
(* the rows.                                                               *)
(*                                                                         *)
(* Time is relative: next_run_at is held as the ticks that remain until    *)
(* it, so one behaviour may be arbitrarily long.  A loop is named by the   *)
(* request that starts it, a project by its agent channel.                 *)
(***************************************************************************)
EXTENDS Naturals

CONSTANTS
    Loops,       \* requests to start a loop
    Channels,    \* project channels
    ChannelOf,   \* the channel a loop is started in
    Interval,    \* the ticks of a loop's interval
    MaxCrashes   \* bound on stops of the process, by a crash or a shutdown

ASSUME LoopAssumption ==
    /\ ChannelOf \in [Loops -> Channels]
    /\ Interval \in Nat \ {0}
    /\ MaxCrashes \in Nat

VARIABLES
    \* SQLite
    status,      \* scheduled_loops.status; "absent": no row
    iteration,   \* scheduled_loops.iteration; 2 stands for any later one
    nextRun,     \* ticks until next_run_at; 0 also when it is NULL
    archived,    \* channels whose project is archived
    session,     \* loops whose thread's task has a provider session
    \* the process
    pc,          \* where the handler that runs a loop stands
    registered,  \* the keys of the runtimes map
    armed,       \* loops whose timer is set
    mode,        \* "recovering", "up", "stopping"
    resumable,   \* the rows reconcile() read and has not handled yet
    stops,
    \* Discord
    gone,        \* loops whose thread is deleted
    events,      \* loops whose threadDelete event is not delivered yet
    \* history
    sinceStart   \* ticks since a loop's last iteration was acquired, at most Interval

rows    == <<status, iteration, nextRun, sinceStart>>
timers  == <<registered, armed>>
process == <<mode, resumable, stops>>
discord == <<gone, events>>
vars == <<rows, archived, session, pc, timers, process, discord>>

Unfinished == {"active", "running"}

Iterating == {"announcing", "executing"}

TypeOK ==
    /\ status \in [Loops -> {"absent", "active", "running", "stopped", "terminal"}]
    /\ iteration \in [Loops -> 0..2]
    /\ nextRun \in [Loops -> 0..Interval]
    /\ archived \in SUBSET Channels
    /\ session \in SUBSET Loops
    /\ pc \in [Loops -> {"new", "opening", "idle", "presenting"} \cup Iterating]
    /\ registered \in SUBSET Loops
    /\ armed \in SUBSET Loops
    /\ mode \in {"recovering", "up", "stopping"}
    /\ resumable \in SUBSET Loops
    /\ stops \in 0..MaxCrashes
    /\ gone \in SUBSET Loops
    /\ events \in SUBSET Loops
    /\ sinceStart \in [Loops -> 0..Interval]

Init ==
    /\ status = [l \in Loops |-> "absent"]
    /\ iteration = [l \in Loops |-> 0]
    /\ nextRun = [l \in Loops |-> 0]
    /\ archived = {}
    /\ session = {}
    /\ pc = [l \in Loops |-> "new"]
    /\ registered = {}
    /\ armed = {}
    /\ mode = "up"
    /\ resumable = {}
    /\ stops = 0
    /\ gone = {}
    /\ events = {}
    /\ sinceStart = [l \in Loops |-> 0]

-----------------------------------------------------------------------------
(* The repository's writes and the service's helpers.                       *)

Goto(l, point) == pc' = [pc EXCEPT ![l] = point]

Live == {l \in Loops : status[l] \in Unfinished}

\* findActiveByChannelId.
Occupied(ch) == \E l \in Live : ChannelOf[l] = ch

\* detach of a set of loops: their timers are cleared, their runtimes forgotten.
Detach(ls) ==
    /\ registered' = registered \ ls
    /\ armed' = armed \ ls

\* stopByChannel, terminalizeById and their kin, for a set of loops: a row that
\* is final already is left alone.
Finish(ls, final) ==
    /\ status' = [l \in Loops |-> IF l \in ls \cap Live THEN final ELSE status[l]]
    /\ nextRun' = [l \in Loops |-> IF l \in ls \cap Live THEN 0 ELSE nextRun[l]]
    /\ UNCHANGED <<iteration, sinceStart>>

\* acquireIteration of an active row.
Acquire(l) ==
    /\ status' = [status EXCEPT ![l] = "running"]
    /\ iteration' = [iteration EXCEPT ![l] = IF @ < 2 THEN @ + 1 ELSE 2]
    /\ nextRun' = [nextRun EXCEPT ![l] = 0]
    /\ sinceStart' = [sinceStart EXCEPT ![l] = 0]

\* The condition of scheduleNext and deferInterrupted.
Schedulable(l) == status[l] = "running"

\* A slip: the interrupted loop is due at once.
DeferToNow(l) ==
    /\ status' = [status EXCEPT ![l] = "active"]
    /\ nextRun' = [nextRun EXCEPT ![l] = 0]
    /\ UNCHANGED <<iteration, sinceStart>>

\* scheduleNext and deferInterrupted of a running row: an interval from now.
Defer(l) ==
    /\ status' = [status EXCEPT ![l] = "active"]
    /\ nextRun' = [nextRun EXCEPT ![l] = Interval]
    /\ UNCHANGED <<iteration, sinceStart>>

-----------------------------------------------------------------------------
(* Starting a loop: startLoop, createAndStart.                              *)

\* The channel is looked at once, before the thread is opened and the start
\* message sent.
StartLoop(l) ==
    /\ mode = "up"
    /\ pc[l] = "new"
    /\ ~Occupied(ChannelOf[l])
    /\ ChannelOf[l] \notin archived
    /\ Goto(l, "opening")
    /\ UNCHANGED <<rows, archived, session, timers, process, discord>>

\* Slips: the look before the thread was opened counts for the channel, or for
\* the project.
CanCreateInChannel(l) == ~Occupied(ChannelOf[l])

CanCreateInProject(l) == ChannelOf[l] \notin archived

\* create() looks again at the channel and at the project.
CanCreate(l) ==
    /\ ~Occupied(ChannelOf[l])
    /\ ChannelOf[l] \notin archived

\* The row, its runtime and its first iteration, or a refusal; the start
\* message may also be undeliverable.
CreateAndStart(l) ==
    /\ pc[l] = "opening"
    /\ \/ /\ CanCreate(l)
          /\ Acquire(l)
          /\ registered' = registered \cup {l}
          /\ Goto(l, "announcing")
       \/ /\ Goto(l, "idle")
          /\ UNCHANGED <<rows, registered>>
    /\ UNCHANGED <<archived, session, armed, process, discord>>

-----------------------------------------------------------------------------
(* Running an iteration: scheduleRuntime's timer, runNow, executeIteration, *)
(* presentWaiting.                                                          *)

\* The timer is due; a row that is not active ends the runtime.
TimerFires(l) ==
    /\ l \in armed
    /\ nextRun[l] = 0
    /\ \/ /\ status[l] = "active"
          /\ Acquire(l)
          /\ armed' = armed \ {l}
          /\ Goto(l, "announcing")
          /\ UNCHANGED registered
       \/ /\ status[l] # "active"
          /\ Detach({l})
          /\ UNCHANGED <<rows, pc>>
    /\ UNCHANGED <<archived, session, process, discord>>

\* A message to the loop's thread may arrive: never in a deleted thread.
CanDeliver(l) == l \notin gone

\* terminalizeFromResult.
TerminalizeFromResult(l) ==
    /\ Finish({l}, "terminal")
    /\ Detach({l})
    /\ Goto(l, "idle")

\* The iteration is announced before the turn is started.
AnnounceIteration(l) ==
    /\ pc[l] = "announcing"
    /\ \/ /\ CanDeliver(l)
          /\ Goto(l, "executing")
          /\ UNCHANGED <<rows, timers>>
       \/ TerminalizeFromResult(l)
    /\ UNCHANGED <<archived, session, process, discord>>

\* External: the turn of the first iteration gets a provider session.
AttachSession(l) ==
    /\ pc[l] = "executing"
    /\ iteration[l] = 1
    /\ session' = session \cup {l}
    /\ UNCHANGED <<rows, archived, pc, timers, process, discord>>

\* The row is still running: an interval passes before the next iteration, and
\* the waiting state is presented.  Else the runtime is given up.
ScheduleNext(l) ==
    \/ /\ Schedulable(l)
       /\ Defer(l)
       /\ Goto(l, "presenting")
       /\ UNCHANGED timers
    \/ /\ ~Schedulable(l)
       /\ Detach({l})
       /\ Goto(l, "idle")
       /\ UNCHANGED rows

\* The turn ended, however it ended: startInExistingThread resolves with a
\* failed task too, and continueInThread only for a thread with a session.
IterationReturns(l) ==
    /\ pc[l] = "executing"
    /\ iteration[l] > 1 => l \in session
    /\ ScheduleNext(l)
    /\ UNCHANGED <<archived, session, process, discord>>

\* The coordinator threw: the end of a loop in its first iteration; a later
\* one is retried on the normal cadence.
IterationThrows(l) ==
    /\ pc[l] = "executing"
    /\ IF iteration[l] = 1 THEN TerminalizeFromResult(l) ELSE ScheduleNext(l)
    /\ UNCHANGED <<archived, session, process, discord>>

\* The row is read again before the timer is set; a runtime that detachAll has
\* forgotten gets a timer that does nothing.
Rearm(l) ==
    IF status[l] = "active"
    THEN armed' = armed \cup ({l} \cap registered) /\ UNCHANGED registered
    ELSE Detach({l})

\* The waiting state was delivered (or presenting it threw), or it was not.
PresentWaiting(l) ==
    /\ pc[l] = "presenting"
    /\ \/ /\ CanDeliver(l)
          /\ Rearm(l)
          /\ Goto(l, "idle")
          /\ UNCHANGED rows
       \/ TerminalizeFromResult(l)
    /\ UNCHANGED <<archived, session, process, discord>>

-----------------------------------------------------------------------------
(* Ending a loop: stopLoop, stopLoopFromButton, cancelLoop; removeProject;  *)
(* threadDeleteHandler.  A process that is stopping has no loop service any *)
(* more, and each of them throws.                                           *)

Stop(ch) ==
    /\ mode = "up"
    /\ Occupied(ch)
    /\ Finish({l \in Loops : ChannelOf[l] = ch}, "stopped")
    /\ Detach({l \in Live : ChannelOf[l] = ch})
    /\ UNCHANGED <<archived, session, pc, process, discord>>

\* terminalizeLoopsByProject, then the project is archived.
RemoveProject(ch) ==
    /\ mode = "up"
    /\ ch \notin archived
    /\ Finish({l \in Loops : ChannelOf[l] = ch}, "terminal")
    /\ Detach({l \in Live : ChannelOf[l] = ch})
    /\ archived' = archived \cup {ch}
    /\ UNCHANGED <<session, pc, process, discord>>

\* External: somebody deletes the thread of a loop that is not over.  The
\* event may be missed, and is while no handler is attached.
DeleteThread(l) ==
    /\ l \notin gone
    /\ l \in Live \/ pc[l] = "opening"
    /\ gone' = gone \cup {l}
    /\ \/ mode = "up" /\ events' = events \cup {l}
       \/ UNCHANGED events
    /\ UNCHANGED <<rows, archived, session, pc, timers, process>>

\* handleThreadDelete.
ThreadDeleted(l) ==
    /\ mode = "up"
    /\ l \in events
    /\ events' = events \ {l}
    /\ Finish({l}, "terminal")
    /\ Detach({l} \cap Live)
    /\ UNCHANGED <<archived, session, pc, process, gone>>

-----------------------------------------------------------------------------
(* The process: crash, shutdown, restart.                                   *)

\* The next process reads the rows that are not final.
Restart ==
    /\ stops < MaxCrashes
    /\ stops' = stops + 1
    /\ mode' = "recovering"
    /\ resumable' = {l \in Loops : status'[l] \in Unfinished}
    /\ pc' = [l \in Loops |-> IF pc[l] = "new" THEN "new" ELSE "idle"]
    /\ registered' = {}
    /\ armed' = {}
    /\ events' = {}
    /\ UNCHANGED <<archived, session, gone>>

Crash == UNCHANGED rows /\ Restart

\* The crash falls between the insert and the first iteration,
CrashInCreate(l) ==
    /\ pc[l] = "opening"
    /\ CanCreate(l)
    /\ status' = [status EXCEPT ![l] = "active"]
    /\ UNCHANGED <<iteration, nextRun, sinceStart>>
    /\ Restart

\* or between the end of a project's loops and its archiving.
CrashInRemove(ch) ==
    /\ mode = "up"
    /\ ch \notin archived
    /\ Finish({l \in Loops : ChannelOf[l] = ch}, "terminal")
    /\ Restart

\* shutdown: stopAllLoops and clearLoopRunner; the process exits some awaits
\* later.
Shutdown ==
    /\ mode # "stopping"
    /\ stops < MaxCrashes
    /\ mode' = "stopping"
    /\ Detach(Loops)
    /\ UNCHANGED <<rows, archived, session, pc, resumable, stops, discord>>

Exit ==
    /\ mode = "stopping"
    /\ Crash

\* A slip: a loop found running gets no timer.
ResumeWaitingOnly(l) == {l} \cap {k \in Loops : status[k] = "active"}

\* The loops that get a runtime and a timer when l is reconciled.
Resumed(l) == {l}

\* reconcileOne: the project or the thread is missing (or cannot be fetched),
\* the last iteration was interrupted, or the row waits for its time.
Reconcile(l) ==
    /\ mode # "up"
    /\ l \in resumable
    /\ resumable' = resumable \ {l}
    /\ \/ /\ Finish({l}, "terminal")
          /\ UNCHANGED timers
       \/ /\ ChannelOf[l] \notin archived
          /\ l \notin gone
          /\ IF status[l] = "running" THEN Defer(l) ELSE UNCHANGED rows
          /\ registered' = registered \cup Resumed(l)
          /\ armed' = armed \cup Resumed(l)
    /\ UNCHANGED <<archived, session, pc, mode, stops, discord>>

\* Only then are requests and events accepted.
AcceptWork ==
    /\ mode = "recovering"
    /\ resumable = {}
    /\ mode' = "up"
    /\ UNCHANGED <<rows, archived, session, pc, timers, resumable, stops, discord>>

\* Math.max(0, dueAt - now()), a tick later.
Countdown(ticks) == IF ticks = 0 THEN 0 ELSE ticks - 1

Tick ==
    /\ nextRun' = [l \in Loops |-> Countdown(nextRun[l])]
    /\ sinceStart' = [l \in Loops |-> IF sinceStart[l] < Interval THEN sinceStart[l] + 1
                                      ELSE Interval]
    /\ UNCHANGED <<status, iteration, archived, session, pc, timers, process, discord>>

-----------------------------------------------------------------------------

LoopStep(l) ==
    \/ CreateAndStart(l)
    \/ TimerFires(l)
    \/ AnnounceIteration(l)
    \/ IterationReturns(l)
    \/ IterationThrows(l)
    \/ PresentWaiting(l)

RestartStep ==
    \/ Exit
    \/ \E l \in Loops : Reconcile(l)
    \/ AcceptWork

Next ==
    \/ \E l \in Loops : \/ StartLoop(l)
                       \/ LoopStep(l)
                       \/ AttachSession(l)
                       \/ DeleteThread(l)
                       \/ ThreadDeleted(l)
                       \/ CrashInCreate(l)
    \/ \E ch \in Channels : Stop(ch) \/ RemoveProject(ch) \/ CrashInRemove(ch)
    \/ Crash
    \/ Shutdown
    \/ RestartStep
    \/ Tick

Spec == Init /\ [][Next]_vars

\* Time passes, Node runs the timers and the handlers, every awaited message,
\* fetch and turn ends, a shutdown exits.
Fairness ==
    /\ \A l \in Loops : WF_vars(LoopStep(l))
    /\ WF_vars(RestartStep)
    /\ WF_vars(Tick)

FairSpec == Spec /\ Fairness

-----------------------------------------------------------------------------
(* Properties.                                                              *)

\* A channel has at most one loop that is not over, whichever requests were
\* between their first look and their insert at the same time.
OneLoopPerChannel ==
    \A k, l \in Live : ChannelOf[k] = ChannelOf[l] => k = l

\* No loop outlives its project: not one that was being started when the
\* project was removed, nor one whose iteration ended afterwards.
ArchivedProjectHasNoLoop == \A l \in Live : ChannelOf[l] \notin archived

\* Once requests are accepted, every active row has a timer or a handler about
\* to set one, and every running row a handler in its iteration: no restart and
\* no failure leaves a loop that never runs again.
NoLoopIsLost ==
    mode = "up" => \A l \in Loops :
        /\ status[l] = "active" => l \in registered /\ (l \in armed \/ pc[l] = "presenting")
        /\ status[l] = "running" => l \in registered /\ pc[l] \in Iterating

\* A timer is set only for a loop that waits for its next iteration: one that
\* is over, or has an iteration under way, has none.
TimersAreLive == \A l \in armed : status[l] = "active" /\ pc[l] = "idle" /\ l \in registered

\* A loop that was stopped or terminalized stays so, though its iteration may
\* still be under way and end later.
EndedStaysEnded ==
    [][\A l \in Loops : status[l] \in {"stopped", "terminal"}
                            => status'[l] = status[l]]_vars

\* Between two iterations of a loop at least an interval passes, whatever
\* crashes and shutdowns fall between them: no iteration is replayed and no
\* missed ones are caught up.
Cadence ==
    [][\A l \in Loops : status[l] = "active" /\ status'[l] = "running" /\ iteration[l] > 0
                            => sinceStart[l] = Interval]_vars

\* A loop that waits runs again or ends: nothing waits forever.
WaitingLoopRuns == \A l \in Loops : status[l] = "active" ~> status[l] # "active"

\* A loop whose thread was deleted ends, though the event was missed.
DeletedThreadEndsLoop == \A l \in Loops : l \in gone /\ l \in Live ~> l \notin Live

-----------------------------------------------------------------------------
(* The facts that make the properties above inductive.                      *)

\* Where a handler stands tells what its row may say.
HandlerFacts ==
    \A l \in Loops :
        /\ pc[l] \in {"new", "opening"} => status[l] = "absent"
        /\ pc[l] \in Iterating => status[l] \in {"running", "stopped", "terminal"}
        /\ pc[l] = "presenting" => status[l] \in {"active", "stopped", "terminal"}
        /\ status[l] = "absent" => iteration[l] = 0

\* A row that is still to be reconciled is not over, and no handler or timer
\* knows it.
ResumableFacts ==
    /\ mode = "up" => resumable = {}
    /\ \A l \in resumable : l \in Live /\ pc[l] = "idle" /\ l \notin registered

\* Every other row that is not over is driven by a handler or a timer, until a
\* shutdown detaches them.
DrivenFacts ==
    mode # "stopping" => \A l \in Loops \ resumable :
        /\ status[l] = "active" => l \in registered /\ (l \in armed \/ pc[l] = "presenting")
        /\ status[l] = "running" => l \in registered /\ pc[l] \in Iterating

\* An active row is due no earlier than an interval after its last start.
DueFacts ==
    \A l \in Loops : status[l] = "active" /\ iteration[l] > 0
        => sinceStart[l] + nextRun[l] >= Interval

-----------------------------------------------------------------------------
(* REFUTED, and checked by no run: what the tests say and the code does not *)
(* do.                                                                      *)

\* "terminalizes a failed first iteration because no durable continuation
\* exists": a loop that waits for a later iteration has a session to continue.
LoopHasContinuation ==
    \A l \in Loops : status[l] = "active" /\ iteration[l] > 0 => l \in session

=============================================================================
