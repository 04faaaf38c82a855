--------------------------- MODULE CodexProvider ---------------------------
(***************************************************************************)
(* Turns of one Codex thread (src/agents/codex/codexProvider.ts) over the  *)
(* transport.  Runs are numbered in the order in which the coordinator     *)
(* begins them; it begins the next one when the one before is over for it: *)
(* settled, refused, or cancelled - the provider's answer to a             *)
(* cancellation is not awaited.                                            *)
(***************************************************************************)
EXTENDS AppServerTransport

CONSTANT CodexRuns      \* 1..n

ASSUME CodexAssumption == CodexRuns \subseteq Nat \ {0}

VARIABLES
    stage,      \* of startOrContinue, by run
    active,     \* the run in CodexProvider.active for the thread
    ending,     \* <<run, status>>: its terminal event is being emitted
    outcome,    \* what the completion was settled with
    stopped,    \* runs the coordinator cancelled
    subscribed, \* not close()d
    turn,       \* the server's turn of each run (external)
    notices,    \* terminal notifications under way: <<run, status>>
    met         \* history: runs of which two were at work at a time

providerVars == <<stage, active, ending, outcome, stopped, subscribed, turn, notices, met>>
codexVars == <<transportVars, providerVars>>

NoRun == 0
\* Of a turn, as the server names them.  The adapter knows "cancelled" as well,
\* which the server has no turn for: it calls a turn that was stopped interrupted.
Statuses == {"completed", "failed", "interrupted"}
ThreadRequest(r) == <<r, "thread">>
TurnRequest(r) == <<r, "turn">>

CodexInit ==
    /\ TransportInit
    /\ stage = [r \in CodexRuns |-> "none"]
    /\ active = NoRun
    /\ ending = {}
    /\ outcome = [r \in CodexRuns |-> "pending"]
    /\ stopped = {}
    /\ subscribed = TRUE
    /\ turn = [r \in CodexRuns |-> "none"]
    /\ notices = {}
    /\ met = {}

Goes(r, to) == stage' = [stage EXCEPT ![r] = to]

Settles(rs, with) ==
    outcome' = [r \in CodexRuns |-> IF r \in rs /\ outcome[r] = "pending" THEN with ELSE outcome[r]]

AtWork(r) == stage[r] = "starting" \/ (stage[r] = "returned" /\ outcome[r] = "pending")

-----------------------------------------------------------------------------
(* startOrContinue.                                                         *)

StartOrContinue(r) ==
    /\ stage[r] = "none"
    /\ \A q \in CodexRuns : q < r =>
          (stage[q] = "returned" /\ ~AtWork(q)) \/ stage[q] = "refused" \/ q \in stopped
    /\ MakeRequest(ThreadRequest(r))
    /\ Goes(r, "resuming")
    /\ UNCHANGED <<active, ending, outcome, stopped, subscribed, turn, notices, met>>

\* The thread is there, or the request failed, or answered with another thread.
ThreadAnswered(r) ==
    /\ stage[r] = "resuming" /\ Settled(ThreadRequest(r))
    /\ \/ call[ThreadRequest(r)] = "resolved" /\ Goes(r, "announcing")
       \/ Goes(r, "refused")
    /\ UNCHANGED <<transportVars, active, ending, outcome, stopped, subscribed, turn, notices, met>>

\* session_started was emitted, or its delivery failed.
Announced(r) ==
    /\ stage[r] = "announcing"
    /\ \/ /\ Goes(r, "starting")
          /\ active' = r
          /\ MakeRequest(TurnRequest(r))
          /\ LET others == {q \in CodexRuns \ {r} : AtWork(q)} IN
             met' = IF others = {} THEN met ELSE met \cup others \cup {r}
       \/ Goes(r, "refused") /\ UNCHANGED <<active, transportVars, met>>
    /\ UNCHANGED <<ending, outcome, stopped, subscribed, turn, notices>>

TurnAnswered(r) ==
    /\ stage[r] = "starting" /\ Settled(TurnRequest(r))
    /\ IF call[TurnRequest(r)] = "resolved"
       THEN Goes(r, "returned") /\ UNCHANGED active
       ELSE Goes(r, "refused") /\ active' = NoRun
    /\ UNCHANGED <<transportVars, ending, outcome, stopped, subscribed, turn, notices, met>>

\* cancelTask: the turn of the active run is interrupted, or, as long as its
\* id is not known, whatever turn the server has.
CancelRun(r) ==
    /\ stage[r] \notin {"none", "refused"} /\ outcome[r] = "pending" /\ r \notin stopped
    /\ stopped' = stopped \cup {r}
    /\ turn' = [q \in CodexRuns |->
                  IF turn[q] = "running" /\ (q = active \/ active = NoRun \/ stage[active] = "starting")
                  THEN "interrupting" ELSE turn[q]]
    /\ UNCHANGED <<transportVars, stage, active, ending, outcome, subscribed, notices, met>>

-----------------------------------------------------------------------------
(* What the server does.                                                    *)

ServerBegins(r) ==
    /\ turn[r] = "none"
    /\ \E n \in 0..MaxRetries : <<TurnRequest(r), n>> \in received
    /\ turn' = [turn EXCEPT ![r] = "running"]
    /\ UNCHANGED <<transportVars, stage, active, ending, outcome, stopped, subscribed, notices, met>>

ServerAnswers(q) ==
    /\ \E answer \in {"result", "error", "overloaded"} :
          /\ q[2] = "turn" => (answer = "result" <=> turn[q[1]] # "none")
          /\ Answered(q, answer)
    /\ UNCHANGED providerVars

\* turn/completed, with the status of the turn.
ServerEnds(r) ==
    /\ ~closed
    /\ \/ turn[r] = "running" /\ \E status \in {"completed", "failed"} : notices' = notices \cup {<<r, status>>}
       \/ turn[r] = "interrupting" /\ notices' = notices \cup {<<r, "interrupted">>}
    /\ turn' = [turn EXCEPT ![r] = "over"]
    /\ UNCHANGED <<transportVars, stage, active, ending, outcome, stopped, subscribed, met>>

-----------------------------------------------------------------------------
\* handleNotification: it goes to the run that is active on the thread.
Notified(r, status) ==
    /\ <<r, status>> \in notices
    /\ notices' = notices \ {<<r, status>>}
    /\ IF active # NoRun /\ subscribed
       THEN active' = NoRun /\ ending' = ending \cup {<<active, status>>}
       ELSE UNCHANGED <<active, ending>>
    /\ UNCHANGED <<transportVars, stage, outcome, stopped, subscribed, turn, met>>

\* Slip: the completion is not resolved when the terminal event cannot be
\* delivered.
ResolvesDelivered ==
    /\ \E a \in CodexRuns, status \in Statuses :
          /\ <<a, status>> \in ending
          /\ ending' = ending \ {<<a, status>>}
          /\ Settles({a}, status) \/ UNCHANGED outcome
    /\ UNCHANGED <<transportVars, stage, active, stopped, subscribed, turn, notices, met>>

\* Its terminal event was emitted, or could not be; the completion resolves.
Resolves ==
    /\ \E a \in CodexRuns, status \in Statuses :
          /\ <<a, status>> \in ending
          /\ ending' = ending \ {<<a, status>>}
          /\ Settles({a}, status)
    /\ UNCHANGED <<transportVars, stage, active, stopped, subscribed, turn, notices, met>>

\* exit, handleTransportExit
ServerExits ==
    /\ ~closed
    /\ RejectAll
    /\ IF subscribed THEN active' = NoRun /\ Settles({active}, "rejected")
       ELSE UNCHANGED <<active, outcome>>
    /\ UNCHANGED <<stage, ending, stopped, subscribed, turn, notices, met>>

CloseProvider ==
    /\ subscribed
    /\ subscribed' = FALSE
    /\ active' = NoRun
    /\ Settles({active}, "rejected")
    /\ UNCHANGED <<transportVars, stage, ending, stopped, turn, notices, met>>

\* bootstrapProviders' stop closes the provider first.
CloseTransport ==
    /\ ~subscribed /\ ~closed
    /\ RejectAll
    /\ UNCHANGED providerVars

CodexNext ==
    \/ \E r \in CodexRuns :
          \/ StartOrContinue(r) \/ ThreadAnswered(r) \/ Announced(r) \/ TurnAnswered(r)
          \/ CancelRun(r) \/ ServerBegins(r) \/ ServerEnds(r)
          \/ \E status \in Statuses : Notified(r, status)
    \/ \E q \in Requests :
          \/ ServerAnswers(q)
          \/ Retry(q) /\ UNCHANGED providerVars
          \/ TimesOut(q) /\ UNCHANGED providerVars
    \/ Resolves
    \/ ServerExits
    \/ CloseProvider
    \/ CloseTransport

-----------------------------------------------------------------------------
\* There is no run whose completion nobody will settle any more: it is the
\* active one of its thread, or its terminal event is on its way - unless two
\* runs were at work on the thread at a time.
NoRunIsForgotten ==
    \A r \in CodexRuns \ met : subscribed /\ stage[r] = "returned" /\ outcome[r] = "pending" =>
        active = r \/ \E status \in Statuses : <<r, status>> \in ending

\* "completed", "failed", "cancelled" and "interrupted" are outcomes "for the
\* current turn": a run does not end with the outcome of another turn.
\* REFUTED, and checked by no run: an outcome is matched by its thread alone.
OutcomeIsOfTheTurn ==
    \A r \in CodexRuns : outcome[r] \in Statuses => turn[r] = "over"
=============================================================================
