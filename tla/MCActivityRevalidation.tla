------------------------ MODULE MCActivityRevalidation ------------------------
(***************************************************************************)
(* ActivityRevalidation for TLC: one instance, one project, and requests   *)
(* of one principal for as many runs and threads as there are.             *)
(***************************************************************************)
EXTENDS ActivityRevalidation, TLC

CONSTANTS p1, s1, s2, r1, r2, i1, m1, m2, k1

MCKeyOf == [m \in Messages |-> k1]
MCInstanceOf == [m \in Messages |-> i1]
MCRunOf == [m \in Messages |-> IF m = m2 /\ r2 \in Runs THEN r2 ELSE r1]
MCThreadOf == [m \in Messages |-> s1]

=============================================================================
