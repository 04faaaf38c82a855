---------------------------- MODULE MCProviders ----------------------------
(* The providers have no state in common, so a behaviour of this instance is *)
(* one of one of them, while the others stay as they started.                *)
EXTENDS CodexProvider, OpenCodeProvider, ClaudeProvider, CodexAuth, Sequences

VARIABLE part

vars == <<part, codexVars, acpVars, claudeVars, authVars>>

CodexRequests == CodexRuns \X {"thread", "turn"}

Init == /\ part \in {"codex", "opencode", "claude", "sign-in", "transport"}
        /\ CodexInit /\ AcpInit /\ ClaudeInit /\ AuthInit

\* Requests that are retried are looked at by themselves: to the provider a
\* retried request is one that takes longer.
NothingIsRetried == \A q \in Requests : call'[q] # "sleeping"

TransportAlone ==
    /\ \/ \E q \in Requests :
             \/ MakeRequest(q) \/ Retry(q) \/ TimesOut(q)
             \/ \E answer \in {"result", "error", "overloaded"} : Answered(q, answer)
       \/ ~closed /\ RejectAll
    /\ UNCHANGED providerVars

Next ==
    /\ UNCHANGED part
    /\ \/ /\ \/ part = "codex" /\ CodexNext /\ NothingIsRetried
             \/ part = "transport" /\ TransportAlone
          /\ UNCHANGED <<acpVars, claudeVars, authVars>>
       \/ part = "opencode" /\ AcpNext /\ UNCHANGED <<codexVars, claudeVars, authVars>>
       \/ part = "claude" /\ ClaudeNext /\ UNCHANGED <<codexVars, acpVars, authVars>>
       \/ part = "sign-in" /\ AuthNext /\ UNCHANGED <<codexVars, acpVars, claudeVars>>

Spec == Init /\ [][Next]_vars
FairSpec == Spec /\ TransportFairness /\ AuthFairness

-----------------------------------------------------------------------------
\* What the coordinator sees of the three providers' runs.
AllRuns == ({"codex"} \X CodexRuns) \cup ({"opencode"} \X AcpRuns) \cup ({"claude"} \X ClaudeRuns)

CodexPromise(r) == CASE stage[r] = "none" -> "none" [] stage[r] = "returned" -> "fulfilled"
                     [] stage[r] = "refused" -> "rejected" [] OTHER -> "pending"
AcpPromise(r) == CASE opening[r] = "none" -> "none" [] opening[r] = "returned" -> "fulfilled"
                   [] opening[r] = "refused" -> "rejected" [] OTHER -> "pending"

Contract == INSTANCE ProviderRuns WITH
    Runs <- AllRuns,
    promise <- [x \in AllRuns |-> CASE x[1] = "codex" -> CodexPromise(x[2])
                                    [] x[1] = "opencode" -> AcpPromise(x[2])
                                    [] x[1] = "claude" -> promised[x[2]]],
    completion <- [x \in AllRuns |-> CASE x[1] = "codex" -> outcome[x[2]]
                                       [] x[1] = "opencode" -> result[x[2]]
                                       [] x[1] = "claude" -> ended[x[2]]],
    told <- {x \in AllRuns : CASE x[1] = "codex" -> x[2] \in stopped
                               [] x[1] = "opencode" -> x[2] \in cancelled
                               [] x[1] = "claude" -> x[2] \in aborted}

\* Every provider's runs are runs as the coordinator expects them: returned or
\* refused once, settled once, and cancelled only when told to.
RunsAreRuns == Contract!RunsSpec

\* A cancellation finds the run it is for, in the maps by which OpenCode and
\* Claude know their runs.
CancelFindsRun == AcpRunIsFound /\ ClaudeRunIsFound

\* Nothing is left of a run that is over: a completion that nobody will settle,
\* or a process that nobody will end.
NothingIsLeft == NoRunIsForgotten /\ NoProcessIsLeft

\* Whatever the account server does - no answer, overload, exit, sign-ins that
\* overlap - no request waits for it forever, and no sign-in stays "already in
\* progress".
NothingWaitsForever == RequestsSettle /\ LoginLapses
=============================================================================
