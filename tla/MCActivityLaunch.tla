--------------------------- MODULE MCActivityLaunch ---------------------------
(***************************************************************************)
(* ActivityLaunch for TLC: one project with one surface, one run and two   *)
(* interactions, one from the surface's thread and one from the channel.   *)
(***************************************************************************)
EXTENDS ActivityLaunch, TLC

CONSTANTS p1, s1, r1, i1, i2, q1, q2, c1

MCChannelOf == [i \in Instances |-> p1]
MCThreadOf  == [i \in Instances |-> IF i = i1 THEN s1 ELSE None]

RequestSymmetry == Permutations(Requests)

\* At most one request waits for an acknowledgement and one for the checks of
\* an OAuth start.
OneOfEach ==
    \A a, b \in Requests :
        pc[a] = pc[b] /\ pc[a] \in {"acknowledging", "starting"} => a = b

=============================================================================
