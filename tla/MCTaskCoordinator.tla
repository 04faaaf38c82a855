------------------------- MODULE MCTaskCoordinator -------------------------
(* Instances with one task: continuations and cancellations all address it. *)
EXTENDS TaskCoordinator, TLC

CONSTANT t1

MCTaskOf == [r \in Continuations \cup Cancels |-> t1]

Symmetric == Permutations(Continuations) \cup Permutations(Cancels)

\* A bound for the instance with three turns: of two runs at a time only one
\* asks the user, and only one is to be interrupted for its capacity.
FewCallbacks ==
    /\ \A g, h \in Turns : decision[g] # "none" /\ decision[h] # "none" => g = h
    /\ \A g, h \in interrupting : g = h

=============================================================================
