------------------------- MODULE AppServerTransport -------------------------
(***************************************************************************)
(* Requests to the Codex App Server over its standard input and output:    *)
(* src/agents/codex/appServerTransport.ts.                                 *)
(*                                                                         *)
(* Every attempt of a request has an id of its own and waits in pending,   *)
(* with a timer.  An overloaded server is asked again after a pause, at    *)
(* most MaxRetries times.  The process may exit at any time, and close     *)
(* ends it; both reject whatever waits.  The server answers an attempt at  *)
(* most once, late, or never.                                              *)
(***************************************************************************)
EXTENDS Naturals

CONSTANTS
    Requests,
    MaxRetries      \* overloadRetries

ASSUME TransportAssumption == MaxRetries \in Nat

VARIABLES
    call,       \* of each request: what its promise is doing
    attempt,    \* of each request
    pending,    \* attempts that wait: <<request, attempt>>
    closed,
    received    \* attempts the server has and may answer (external)

transportVars == <<call, attempt, pending, closed, received>>

TransportInit ==
    /\ call = [q \in Requests |-> "none"]
    /\ attempt = [q \in Requests |-> 0]
    /\ pending = {}
    /\ closed = FALSE
    /\ received = {}

Settled(q) == call[q] \in {"resolved", "rejected"}
Becomes(q, to) == call' = [call EXCEPT ![q] = to]

\* requestOnce, for attempt n.
RequestOnce(q, n) ==
    /\ attempt' = [attempt EXCEPT ![q] = n]
    /\ IF closed
       THEN Becomes(q, "rejected") /\ UNCHANGED <<pending, received>>
       ELSE /\ Becomes(q, "waiting")
            /\ pending' = pending \cup {<<q, n>>}
            /\ received' = received \cup {<<q, n>>}

MakeRequest(q) ==
    /\ call[q] = "none"
    /\ RequestOnce(q, 0)
    /\ UNCHANGED closed

\* route.  An answer to an attempt that no longer waits is ignored, which is as
\* if it never came.
Answered(q, answer) ==
    LET id == <<q, attempt[q]>> IN
    /\ id \in received /\ id \in pending
    /\ received' = received \ {id}
    /\ pending' = pending \ {id}
    /\ Becomes(q, CASE answer = "result" -> "resolved"
                    [] answer = "overloaded" /\ attempt[q] < MaxRetries -> "sleeping"
                    [] OTHER -> "rejected")
    /\ UNCHANGED <<attempt, closed>>

Retry(q) ==
    /\ call[q] = "sleeping"
    /\ RequestOnce(q, attempt[q] + 1)
    /\ UNCHANGED closed

TimesOut(q) ==
    /\ <<q, attempt[q]>> \in pending
    /\ pending' = pending \ {<<q, attempt[q]>>}
    /\ Becomes(q, "rejected")
    /\ UNCHANGED <<attempt, closed, received>>

\* Slip: what waits is dropped, its timers with it.
DropAll ==
    /\ closed' = TRUE
    /\ pending' = {}
    /\ UNCHANGED <<call, attempt, received>>

\* handleFatal and close: what waits is rejected, a pause is not.
RejectAll ==
    /\ closed' = TRUE
    /\ call' = [q \in Requests |-> IF <<q, attempt[q]>> \in pending THEN "rejected" ELSE call[q]]
    /\ pending' = {}
    /\ UNCHANGED <<attempt, received>>

TransportFairness ==
    \A q \in Requests : WF_transportVars(TimesOut(q)) /\ WF_transportVars(Retry(q))

-----------------------------------------------------------------------------
\* Whatever the server does - no answer, overload, exit - nobody waits for a
\* request forever.
RequestsSettle ==
    \A q \in Requests : (call[q] # "none") ~> Settled(q)
=============================================================================
