-------------------------- MODULE RuntimeLifecycle --------------------------
(***************************************************************************)
(* The process: startRuntime and stopRuntime of src/services/runtime.ts,   *)
(* the lifecycle stack of runtimeLifecycle.ts they share, the provider     *)
(* bootstrap that keeps a stack of its own (runtimeProviders.ts), and the  *)
(* start, the signals and the watchdog of src/index.ts.                    *)
(*                                                                         *)
(* A position in `startup` or `shutdown` is the await the code stands at;  *)
(* what it does between two awaits is one step.  The stop of an owner is   *)
(* begun and returns in two steps, whether it waits for something or not;  *)
(* a failed stop is logged and counts as returned.                         *)
(***************************************************************************)
EXTENDS Integers, Sequences

VARIABLES
    startup,      \* where the clientReady handler stands
    shutdown,     \* where shutdown() stands, "no" before the signal
    deferred,     \* by lifecycle: its entries, in the order of acquisition
    begun,        \* owners whose entry is marked stopped
    released,     \* owners whose stop has returned
    stopPromise,  \* by lifecycle: the caller whose stopEntries is the promise
    promise,      \* by lifecycle and caller: whose stopEntries it awaits
    cursor,       \* by lifecycle and caller: entries its stopEntries has ahead
    stopping,     \* by lifecycle and caller: the owner it waits for
    runtime,      \* the runtime variable of index.ts is set
    serving,      \* what index.ts has started by itself
    exited        \* why process.exit was called

stopVars == <<begun, released, stopPromise, promise, cursor, stopping>>
processVars == <<startup, shutdown, deferred, stopVars, runtime, serving, exited>>

NoCaller == "nobody"
Lifecycles == {"runtime", "providers"}
Callers == {"startup", "shutdown"}

ProcessInit ==
    /\ startup = "login" /\ shutdown = "no"
    /\ deferred = [l \in Lifecycles |-> <<>>]
    /\ begun = {} /\ released = {}
    /\ stopPromise = [l \in Lifecycles |-> NoCaller]
    /\ promise = [l \in Lifecycles |-> [c \in Callers |-> NoCaller]]
    /\ cursor = [l \in Lifecycles |-> [c \in Callers |-> 0]]
    /\ stopping = promise
    /\ runtime = FALSE /\ serving = {} /\ exited = "no"

-----------------------------------------------------------------------------
(* RuntimeLifecycle.                                                        *)

\* Slip: every call walks the entries by itself.
OwnWalk(l, c) == c

\* Whose stopEntries the caller c of stop() is given.
SharedWalk(l, c) == IF stopPromise[l] = NoCaller THEN c ELSE stopPromise[l]

StopCalled(l, c) ==
    LET w == SharedWalk(l, c) IN
    /\ stopPromise' = [stopPromise EXCEPT ![l] = IF @ = NoCaller THEN c ELSE @]
    /\ promise' = [promise EXCEPT ![l][c] = w]
    /\ cursor' = [cursor EXCEPT ![l][w] =
                     IF \E d \in Callers : promise[l][d] = w THEN @ ELSE Len(deferred[l])]

\* The promise c was given is resolved.
Stopped(l, c) ==
    LET w == promise[l][c] IN
    w # NoCaller /\ cursor[l][w] = 0 /\ stopping[l][w] = NoCaller

\* The next entry, from the last; the providers have a lifecycle of their own.
StopEntry(l, c) ==
    LET owner == deferred[l][cursor[l][c]] IN
    /\ cursor[l][c] > 0 /\ stopping[l][c] = NoCaller
    /\ IF owner \in begun
       THEN /\ cursor' = [cursor EXCEPT ![l][c] = @ - 1]
            /\ UNCHANGED <<begun, stopping, stopPromise, promise>>
       ELSE /\ begun' = begun \cup {owner}
            /\ stopping' = [stopping EXCEPT ![l][c] = owner]
            /\ IF owner = "provider bootstrap" THEN StopCalled("providers", c)
               ELSE UNCHANGED <<stopPromise, promise, cursor>>
    /\ UNCHANGED <<startup, shutdown, deferred, released, runtime, serving, exited>>

EntryStopped(l, c) ==
    LET owner == stopping[l][c] IN
    /\ owner # NoCaller
    /\ owner = "provider bootstrap" => Stopped("providers", c)
    /\ released' = released \cup {owner}
    /\ stopping' = [stopping EXCEPT ![l][c] = NoCaller]
    /\ cursor' = [cursor EXCEPT ![l][c] = @ - 1]
    /\ UNCHANGED <<startup, shutdown, deferred, begun, stopPromise, promise,
                   runtime, serving, exited>>

-----------------------------------------------------------------------------
(* startRuntime.                                                            *)

Defer(l, owners) == deferred' = [deferred EXCEPT ![l] = @ \o owners]

\* From the await at `here` to the next one.
Goes(here, there) == startup = here /\ startup' = there

\* A failure at `here`: the stack is stopped before it is thrown on.
FailsAt(here, l, there) ==
    /\ Goes(here, there) /\ StopCalled(l, "startup")
    /\ UNCHANGED <<shutdown, deferred, begun, released, stopping, runtime, serving, exited>>

Opens ==
    /\ Goes("login", "claude")
    /\ Defer("runtime", <<"project store", "task renderers">>)
    /\ UNCHANGED <<shutdown, stopVars, runtime, serving, exited>>

\* Codex is enabled, or it is not.
CodexStarts ==
    /\ \/ Goes("claude", "codex") /\ Defer("providers", <<"Codex transport">>)
       \/ Goes("claude", "opencode") /\ UNCHANGED deferred
    /\ UNCHANGED <<shutdown, stopVars, runtime, serving, exited>>

CodexInitialized ==
    /\ Goes("codex", "opencode")
    /\ Defer("providers", <<"Codex auth service", "Codex provider">>)
    /\ UNCHANGED <<shutdown, stopVars, runtime, serving, exited>>

\* The bot goes on without Codex.
CodexGivenUp ==
    /\ Goes("codex fails", "opencode") /\ Stopped("providers", "startup")
    /\ UNCHANGED <<shutdown, deferred, stopVars, runtime, serving, exited>>

ProvidersStarted ==
    /\ Goes("opencode", "primary")
    /\ Defer("runtime", <<"provider bootstrap", "task coordinator", "registries">>)
    /\ UNCHANGED <<shutdown, stopVars, runtime, serving, exited>>

PrimaryStarted ==
    /\ Goes("primary", "usage") /\ Defer("runtime", <<"primary agent">>)
    /\ UNCHANGED <<shutdown, stopVars, runtime, serving, exited>>

UsageStarted ==
    /\ Goes("usage", "recovery") /\ Defer("runtime", <<"usage monitoring">>)
    /\ UNCHANGED <<shutdown, stopVars, runtime, serving, exited>>

\* startRuntime has returned, and the loop runner is configured.
Recovered ==
    /\ Goes("recovery", "reconcile") /\ Defer("runtime", <<"recovery rendering">>)
    /\ runtime' = TRUE /\ serving' = serving \cup {"loops"}
    /\ UNCHANGED <<shutdown, stopVars, exited>>

StartRuntime ==
    \/ Opens \/ CodexStarts \/ CodexInitialized \/ CodexGivenUp
    \/ ProvidersStarted \/ PrimaryStarted \/ UsageStarted \/ Recovered
    \/ FailsAt("codex", "providers", "codex fails")
    \/ \E here \in {"claude", "opencode"} : FailsAt(here, "providers", "bootstrap fails")
    \/ \E here \in {"login", "primary", "usage", "recovery"} :
          FailsAt(here, "runtime", "start fails")
    \/ Stopped("providers", "startup") /\ FailsAt("bootstrap fails", "runtime", "start fails")

-----------------------------------------------------------------------------
(* index.ts: the rest of the clientReady handler, which does not look at    *)
(* shuttingDown.                                                            *)

ReconcileFails ==
    /\ Goes("reconcile", "start fails")
    /\ serving' = serving \ {"loops"}
    /\ StopCalled("runtime", "startup")
    /\ UNCHANGED <<shutdown, deferred, begun, released, stopping, runtime, exited>>

StartFails ==
    /\ Goes("start fails", "exit") /\ Stopped("runtime", "startup")
    /\ serving' = serving \ {"loops"}
    /\ exited' = "start failed"
    /\ UNCHANGED <<shutdown, deferred, stopVars, runtime>>

\* From `here` to `there`, with whatever of `what` could be started.
Starts(here, there, what) ==
    /\ Goes(here, there) /\ serving' = serving \cup what
    /\ UNCHANGED <<shutdown, deferred, stopVars, runtime, exited>>

Reconciled == Starts("reconcile", "commands", {"handlers"})
CommandsRegistered == \E there \in {"broker", "review"} : Starts("commands", there, {})
BrokerListens == Starts("broker", "review", {"broker"})
BrokerFails == Starts("broker", "review", {})
ReviewsAndRepl == \E r \in SUBSET {"review", "repl"} : Starts("review", "up", r)

-----------------------------------------------------------------------------
(* index.ts: shutdown.                                                      *)

StopOrder == <<"no", "repl", "review", "broker", "runtime", "exit">>

\* shutdown() has something of that name to stop.
IsThere(s) ==
    CASE s = "exit" -> TRUE
      [] s = "runtime" -> runtime
      [] OTHER -> s \in serving

\* From one await to the next: what there is not is passed over.
NextStop(i, j) ==
    /\ i < j /\ IsThere(StopOrder[j])
    /\ \A k \in i + 1..j - 1 : ~IsThere(StopOrder[k])

\* The loops are stopped and their runner is cleared once the REPL is out.
ShutdownGoes(i, j) ==
    LET here == StopOrder[i]
        there == StopOrder[j] IN
    /\ shutdown = here /\ shutdown' = there
    /\ NextStop(i, j)
    /\ here = "runtime" => Stopped("runtime", "shutdown")
    /\ serving' = serving \ ({here} \cup IF there = "repl" THEN {} ELSE {"loops"})
    /\ IF there = "runtime" THEN StopCalled("runtime", "shutdown")
       ELSE UNCHANGED <<stopPromise, promise, cursor>>
    /\ exited' = IF there = "exit" THEN "shut down" ELSE exited
    /\ UNCHANGED <<startup, deferred, begun, released, stopping, runtime>>

Shutdown == \E i, j \in DOMAIN StopOrder : ShutdownGoes(i, j)

\* The watchdog found a stale connection and could not log in again.
ReconnectFails ==
    /\ startup # "login"
    /\ exited' = "reconnect failed"
    /\ UNCHANGED <<startup, shutdown, deferred, stopVars, runtime, serving>>

-----------------------------------------------------------------------------
ProcessNext ==
    /\ exited = "no"
    /\ \/ StartRuntime \/ ReconcileFails \/ StartFails
       \/ Reconciled \/ CommandsRegistered \/ BrokerListens \/ BrokerFails \/ ReviewsAndRepl
       \/ Shutdown \/ ReconnectFails
       \/ \E l \in Lifecycles, c \in Callers : StopEntry(l, c) \/ EntryStopped(l, c)

ProcessSpec == ProcessInit /\ [][ProcessNext]_processVars

-----------------------------------------------------------------------------
Entries(l) == {deferred[l][i] : i \in DOMAIN deferred[l]}

(* A failed start and a shutdown may want the same stack stopped: nothing   *)
(* of it is released while something acquired later is still held, the      *)
(* providers' own stack included, and the process exits only with all of it *)
(* released.  Except that a signal which comes before startRuntime returned *)
(* finds no runtime, and exits at once, and that the watchdog, when it      *)
(* gives up reconnecting, exits with nothing released.                      *)
OrderlyExit ==
    /\ \A l \in Lifecycles : \A i, j \in DOMAIN deferred[l] :
          i < j /\ deferred[l][i] \in released => deferred[l][j] \in released
    /\ "provider bootstrap" \in released => Entries("providers") \subseteq released
    /\ exited = "start failed" \/ (exited = "shut down" /\ runtime) =>
          \A l \in Lifecycles : Entries(l) \subseteq released

(* No broker serves requests once the store is closed, as                   *)
(* docs/explanation/architecture/factory-floor-activity-boundary.md:121     *)
(* says.  REFUTED, and checked by no run: a shutdown that came during the   *)
(* start has looked for a broker before there was one.                      *)
IntakeStopsFirst == "broker" \in serving => "project store" \notin released
=============================================================================
