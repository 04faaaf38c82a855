------------------------------ MODULE MCTurns ------------------------------
(* The turns of a task, the card they keep and the text they stream have no *)
(* state in common: a behaviour of this instance is one of one of them,     *)
(* while the others stay as they started.                                   *)
EXTENDS MCTaskCoordinator, TaskCard, TaskStream

VARIABLE part

turnsVars == <<part, vars, cardVars, streamVars>>

TurnsInit == /\ part \in {"turns", "card", "stream"}
             /\ Init /\ CardInit /\ StreamInit

\* Bound: not every change of the row with every fault.
CardBound == version + faults < MaxVersions + MaxFaults

TurnsNext ==
    /\ UNCHANGED part
    /\ \/ part = "turns" /\ Next /\ UNCHANGED <<cardVars, streamVars>>
       \/ part = "card" /\ CardNext /\ CardBound' /\ UNCHANGED <<vars, streamVars>>
       \/ part = "stream" /\ StreamNext /\ UNCHANGED <<vars, cardVars>>

TurnsSpec == TurnsInit /\ [][TurnsNext]_turnsVars
=============================================================================
