---------------------------- MODULE MCTurnLimits ----------------------------
(* What limits a turn: the capacity it is admitted by, and the decisions it *)
(* asks for.  They share no state, so a behaviour is one of one of them.    *)
EXTENDS MCUsageAdmission, InteractionBroker

VARIABLE part

vars == <<part, usageVars, brokerVars>>

Init ==
    /\ part \in {"usage", "decisions"}
    /\ UsageInit /\ BrokerInit
    /\ part = "usage" => authorized = {}

Next ==
    /\ UNCHANGED part
    /\ \/ part = "usage" /\ UsageNext /\ UNCHANGED brokerVars
       \/ part = "decisions" /\ BrokerNext /\ UNCHANGED usageVars

\* UsageFairness, of a behaviour that is about the usage.
PollFairness == \A p \in Polled : WF_usageVars(part = "usage" /\ Refresh(p))

Spec == Init /\ [][Next]_vars /\ BrokerFairness /\ PollFairness

Kinds == [r \in Requests |-> IF r = "q1" THEN "text" ELSE "approval"]
=============================================================================
