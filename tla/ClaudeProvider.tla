--------------------------- MODULE ClaudeProvider ---------------------------
(***************************************************************************)
(* Turns of one Claude session (src/agents/claude/claudeProvider.ts): a    *)
(* stream of messages per run, and the abort controllers by which it is    *)
(* stopped, kept under the task and under the session.                     *)
(*                                                                         *)
(* Run 1 starts the session, the later ones resume it; the coordinator     *)
(* begins the next one when the one before is settled or cancelled.        *)
(***************************************************************************)
EXTENDS Naturals

CONSTANT ClaudeRuns     \* 1..n

ASSUME ClaudeAssumption == ClaudeRuns \subseteq Nat \ {0}

VARIABLES
    stream,     \* by run
    session,    \* runs with an activeSession
    promised,   \* the session promise, by run
    finalResult,
    controllers,    \* [task |-> run, session |-> run]
    aborted,
    emitting,   \* the terminal event that is being emitted, by run
    ended,      \* what the completion was settled with
    asked       \* history: runs the coordinator cancelled

claudeVars == <<stream, session, promised, finalResult, controllers, aborted, emitting, ended, asked>>

NoClaudeRun == 0

ClaudeInit ==
    /\ stream = [r \in ClaudeRuns |-> "none"]
    /\ session = {}
    /\ promised = [r \in ClaudeRuns |-> "none"]
    /\ finalResult = [r \in ClaudeRuns |-> "none"]
    /\ controllers = [task |-> NoClaudeRun, session |-> NoClaudeRun]
    /\ aborted = {}
    /\ emitting = [r \in ClaudeRuns |-> "none"]
    /\ ended = [r \in ClaudeRuns |-> "pending"]
    /\ asked = {}

Streaming(r) == stream[r] = "streaming"
Resumed(r) == r > 1

Execute(r) ==
    /\ stream[r] = "none"
    /\ \A q \in ClaudeRuns : q < r => q \in session /\ (ended[q] # "pending" \/ q \in asked)
    /\ stream' = [stream EXCEPT ![r] = "streaming"]
    /\ promised' = [promised EXCEPT ![r] = "pending"]
    /\ IF Resumed(r)
       THEN /\ controllers' = [task |-> r, session |-> r]
            /\ session' = session \cup {r}
       ELSE /\ controllers' = [controllers EXCEPT !.task = r]
            /\ UNCHANGED session
    /\ UNCHANGED <<finalResult, aborted, emitting, ended, asked>>

\* The first message with a session id.
SessionArrives(r) ==
    /\ Streaming(r) /\ r \notin session
    /\ session' = session \cup {r}
    /\ controllers' = [controllers EXCEPT !.session = r]
    /\ UNCHANGED <<stream, promised, finalResult, aborted, emitting, ended, asked>>

\* execute returns once the session promise is resolved.
RunReturned(r) ==
    /\ promised[r] = "pending" /\ r \in session
    /\ promised' = [promised EXCEPT ![r] = "fulfilled"]
    /\ UNCHANGED <<stream, session, finalResult, controllers, aborted, emitting, ended, asked>>

ResultArrives(r) ==
    /\ Streaming(r) /\ r \in session
    /\ \E outcome \in {"completed", "failed"} : finalResult' = [finalResult EXCEPT ![r] = outcome]
    /\ UNCHANGED <<stream, session, promised, controllers, aborted, emitting, ended, asked>>

\* The session promise is rejected if the run never had a session.
StreamOver(r, outcome) ==
    /\ stream' = [stream EXCEPT ![r] = "over"]
    /\ emitting' = [emitting EXCEPT ![r] = outcome]
    /\ promised' = IF r \in session THEN promised ELSE [promised EXCEPT ![r] = "rejected"]
    /\ UNCHANGED <<session, finalResult, controllers, aborted, ended, asked>>

\* The stream ends without an error and without a result.
StreamEnds(r) ==
    /\ Streaming(r) /\ finalResult[r] = "none"
    /\ StreamOver(r, IF r \in session THEN "interrupted" ELSE "failed")

\* Slip: what throws is taken for a cancellation.
StreamThrowsCancelled(r) ==
    /\ Streaming(r)
    /\ StreamOver(r, "cancelled")

StreamThrows(r) ==
    /\ Streaming(r)
    /\ StreamOver(r, IF r \in aborted THEN "cancelled" ELSE "failed")

Ends(r, outcome) == ended' = [ended EXCEPT ![r] = outcome]

\* Slip: the session's controller is deleted whoever's it is.
FinallyDeletes(r) == controllers' = [task |-> NoClaudeRun, session |-> NoClaudeRun]

\* The controllers of the task, and of the session if it is this run's.
Finally(r) ==
    controllers' = [task |-> NoClaudeRun,
                    session |-> IF controllers.session = r THEN NoClaudeRun ELSE controllers.session]

\* It ends after a result.
StreamEndsWithResult(r) ==
    /\ Streaming(r) /\ finalResult[r] # "none"
    /\ stream' = [stream EXCEPT ![r] = "over"]
    /\ Ends(r, finalResult[r])
    /\ Finally(r)
    /\ UNCHANGED <<session, promised, finalResult, aborted, emitting, asked>>

\* The terminal event was emitted, or could not be: then a failure is reported
\* once, or the completion is rejected.
SettlesRun(r) ==
    /\ emitting[r] # "none" /\ ended[r] = "pending"
    /\ \E outcome \in {emitting[r], IF r \in aborted THEN "cancelled" ELSE "failed", "rejected"} :
          Ends(r, outcome)
    /\ Finally(r)
    /\ UNCHANGED <<stream, session, promised, finalResult, aborted, emitting, asked>>

TurnTimesOut(r) ==
    /\ stream[r] # "none" /\ ended[r] = "pending"
    /\ aborted' = aborted \cup {r}
    /\ UNCHANGED <<stream, session, promised, finalResult, controllers, emitting, ended, asked>>

\* cancelTask(session)
CancelClaude(r) ==
    /\ r \in session /\ ended[r] = "pending" /\ r \notin asked
    /\ \A q \in ClaudeRuns : q > r => stream[q] = "none"
    /\ asked' = asked \cup {r}
    /\ aborted' = aborted \cup ({controllers.session} \ {NoClaudeRun})
    /\ UNCHANGED <<stream, session, promised, finalResult, controllers, emitting, ended>>

ClaudeNext ==
    \E r \in ClaudeRuns :
       \/ Execute(r) \/ SessionArrives(r) \/ RunReturned(r) \/ ResultArrives(r) \/ StreamEnds(r) \/ StreamThrows(r)
       \/ StreamEndsWithResult(r) \/ SettlesRun(r) \/ TurnTimesOut(r) \/ CancelClaude(r)

-----------------------------------------------------------------------------
\* A cancellation of the session finds the newest run, also while an earlier
\* one that was cancelled still ends.
ClaudeRunIsFound ==
    \A r \in session : /\ ended[r] = "pending"
                       /\ \A q \in ClaudeRuns : q > r => stream[q] = "none"
                       => controllers.session = r
=============================================================================
