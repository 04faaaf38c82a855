-------------------------- MODULE MCScheduledLoops --------------------------
(* Two loops of one project. *)
EXTENDS ScheduledLoops

CONSTANTS l1, l2, a

OneProject == [l \in {l1, l2} |-> a]
=============================================================================
