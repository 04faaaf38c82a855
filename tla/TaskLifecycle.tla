--------------------------- MODULE TaskLifecycle ---------------------------
(***************************************************************************)
(* What the task store promises its readers, whatever the coordinator's    *)
(* handlers do: the abstract lifecycle of a durable task.  A row is        *)
(* created once, moves along the legal transitions, gets at most one       *)
(* result per life, and leaves a terminal status only by a continuation,   *)
(* which needs the provider session of the earlier turn.                   *)
(***************************************************************************)
EXTENDS TaskRepository

CONSTANT Tasks

VARIABLES status, session, result

lifecycleVars == <<status, session, result>>

Init ==
    /\ status = [t \in Tasks |-> "absent"]
    /\ session = {}
    /\ result = [t \in Tasks |-> "none"]

Create(t) ==
    /\ status[t] = "absent"
    /\ status' = [status EXCEPT ![t] = "created"]
    /\ UNCHANGED <<session, result>>

\* The session of the turn that began is stored before its row says running;
\* a crash may leave it so.
Attach(t) ==
    /\ status[t] = "starting" /\ t \notin session
    /\ session' = session \cup {t}
    /\ UNCHANGED <<status, result>>

\* A move between nonterminal statuses; the one to running may come with the
\* session, if nothing falls between the two writes.
Progress(t) ==
    /\ \E s \in ActiveStatuses :
          /\ CanTransition(status[t], ActiveStatuses, s)
          /\ status' = [status EXCEPT ![t] = s]
          /\ session' = session \/ (s = "running" /\ session' = session \cup {t})
    /\ UNCHANGED result

\* The end of a life, with its result or (recovery, a crash) without.
Terminate(t) ==
    /\ \E s \in TerminalStatuses :
          /\ CanTransition(status[t], ActiveStatuses, s)
          /\ status' = [status EXCEPT ![t] = s]
          /\ result' \in {result, [result EXCEPT ![t] = s]}
    /\ UNCHANGED session

Reopen(t) ==
    /\ CanReopen(status[t], t \in session)
    /\ status' = [status EXCEPT ![t] = "starting"]
    /\ result' = [result EXCEPT ![t] = "none"]
    /\ UNCHANGED session

Next == \E t \in Tasks : Create(t) \/ Attach(t) \/ Progress(t) \/ Terminate(t) \/ Reopen(t)

Spec == Init /\ [][Next]_lifecycleVars

=============================================================================
