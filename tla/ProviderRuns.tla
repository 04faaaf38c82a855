---------------------------- MODULE ProviderRuns ----------------------------
(***************************************************************************)
(* What the coordinator relies on when it starts or continues a turn with  *)
(* a provider (AgentProvider in src/agents/contracts.ts): the promise of   *)
(* startTask or continueTask is fulfilled or rejected once, the completion *)
(* of the run is settled once, and a run is reported as cancelled only     *)
(* when it was told to stop.                                               *)
(***************************************************************************)
CONSTANT Runs

VARIABLES
    promise,    \* of startTask or continueTask, by run
    completion, \* "pending", or what it was settled with
    told        \* runs that were told to stop, or whose time is over

runVars == <<promise, completion, told>>

RunsInit ==
    /\ promise = [r \in Runs |-> "none"]
    /\ completion = [r \in Runs |-> "pending"]
    /\ told = {}

PromiseMoves(from, to) ==
    \/ from = to
    \/ from = "none" /\ to = "pending"
    \/ from = "pending" /\ to \in {"fulfilled", "rejected"}

CompletionMoves(r, to) ==
    \/ completion[r] = to
    \/ /\ completion[r] = "pending" /\ promise[r] # "none"
       /\ to \in {"completed", "failed", "cancelled", "interrupted", "rejected"}
       /\ to = "cancelled" => r \in told

\* The provider's process may settle several runs at once.
RunsNext ==
    /\ \A r \in Runs : /\ PromiseMoves(promise[r], promise'[r])
                       /\ CompletionMoves(r, completion'[r])
    /\ told \subseteq told'

RunsSpec == RunsInit /\ [][RunsNext]_runVars
=============================================================================
