-------------------------- MODULE MissionLifecycle --------------------------
(***************************************************************************)
(* Missions and their bindings: src/missions/missionLifecycle.ts.          *)
(*                                                                         *)
(* A mission is promoted from a Discord message and moves through states,  *)
(* each move with fresh evidence of the kind it requires.  The repository  *)
(* is kept as snapshots, from which it is built again after a restart.     *)
(***************************************************************************)
EXTENDS Naturals, Sequences, FiniteSets, FiniteSetsExt

CONSTANTS
    Missions,       \* mission ids
    PromotionKeys, SourceMessages, Threads,
    Owners,
    MaxEvidence     \* bound on the evidence of all missions

ASSUME MissionAssumption == MaxEvidence \in Nat /\ "nobody" \notin Missions

VARIABLES
    missions,       \* missionsById: a record, or Unknown
    byKey, bySource, byThread,  \* the indexes: a mission id, or Nobody
    saved           \* the snapshot a restart builds the repository from

missionVars == <<missions, byKey, bySource, byThread, saved>>

Nobody == "nobody"
Unknown == [state |-> "UNKNOWN"]

States == {"CAPTURED", "ROUTED", "AWAITING_CLAIM", "CLAIMED", "IN_PROGRESS", "VERIFIED",
           "CHANGES_REQUESTED", "AWAITING_LAURA", "DONE", "CANCELLED"}
Kinds == {"capture", "route", "wake", "claim", "execution", "verification", "completion",
          "cancellation", "reroute"}

Known(m) == missions[m] # Unknown
EmptyIndex(keys) == [k \in keys |-> Nobody]

MissionInit ==
    /\ missions = [m \in Missions |-> Unknown]
    /\ byKey = EmptyIndex(PromotionKeys)
    /\ bySource = EmptyIndex(SourceMessages)
    /\ byThread = EmptyIndex(Threads)
    /\ saved = missions

-----------------------------------------------------------------------------
(* What a record must have, and how it may move.                            *)

Required(state) ==
    CASE state = "CAPTURED" -> {"capture"}
      [] state = "ROUTED" -> {"capture", "route"}
      [] state = "AWAITING_CLAIM" -> {"capture", "route", "wake"}
      [] state = "CLAIMED" -> {"capture", "route", "wake", "claim"}
      [] state = "IN_PROGRESS" -> {"capture", "route", "wake", "claim", "execution"}
      [] state \in {"VERIFIED", "CHANGES_REQUESTED", "AWAITING_LAURA"} ->
            {"capture", "route", "wake", "claim", "execution", "verification"}
      [] state = "DONE" ->
            {"capture", "route", "wake", "claim", "execution", "verification", "completion"}
      [] state = "CANCELLED" -> {"capture", "cancellation"}

KindsOf(evidence) == {evidence[i] : i \in DOMAIN evidence}

\* validateRecord
ValidRecord(r) ==
    /\ Required(r.state) \subseteq KindsOf(r.evidence)
    /\ r.state \in {"ROUTED", "AWAITING_CLAIM", "CLAIMED", "IN_PROGRESS"} => r.owner # Nobody

\* Slip: an announced mission may start unclaimed.
StartsUnclaimed(state) ==
    CASE state = "CAPTURED" -> {"ROUTED", "CANCELLED"}
      [] state = "ROUTED" -> {"AWAITING_CLAIM", "ROUTED", "CANCELLED"}
      [] state = "AWAITING_CLAIM" -> {"CLAIMED", "IN_PROGRESS", "ROUTED", "CANCELLED"}
      [] state = "CLAIMED" -> {"IN_PROGRESS", "ROUTED", "CANCELLED"}
      [] state = "IN_PROGRESS" -> {"VERIFIED", "CHANGES_REQUESTED", "AWAITING_LAURA", "CANCELLED"}
      [] state = "VERIFIED" -> {"DONE", "CHANGES_REQUESTED", "AWAITING_LAURA", "CANCELLED"}
      [] state = "CHANGES_REQUESTED" -> {"IN_PROGRESS", "ROUTED", "CANCELLED"}
      [] state = "AWAITING_LAURA" -> {"DONE", "CHANGES_REQUESTED", "CANCELLED"}
      [] state \in {"DONE", "CANCELLED"} -> {}

Allowed(state) ==
    CASE state = "CAPTURED" -> {"ROUTED", "CANCELLED"}
      [] state = "ROUTED" -> {"AWAITING_CLAIM", "ROUTED", "CANCELLED"}
      [] state = "AWAITING_CLAIM" -> {"CLAIMED", "ROUTED", "CANCELLED"}
      [] state = "CLAIMED" -> {"IN_PROGRESS", "ROUTED", "CANCELLED"}
      [] state = "IN_PROGRESS" -> {"VERIFIED", "CHANGES_REQUESTED", "AWAITING_LAURA", "CANCELLED"}
      [] state = "VERIFIED" -> {"DONE", "CHANGES_REQUESTED", "AWAITING_LAURA", "CANCELLED"}
      [] state = "CHANGES_REQUESTED" -> {"IN_PROGRESS", "ROUTED", "CANCELLED"}
      [] state = "AWAITING_LAURA" -> {"DONE", "CHANGES_REQUESTED", "CANCELLED"}
      [] state \in {"DONE", "CANCELLED"} -> {}

\* requiredTransitionEvidence
Fresh(from, to) ==
    CASE to = "ROUTED" -> IF from = "CAPTURED" THEN "route" ELSE "reroute"
      [] to = "AWAITING_CLAIM" -> "wake"
      [] to = "CLAIMED" -> "claim"
      [] to = "IN_PROGRESS" -> "execution"
      [] to \in {"VERIFIED", "CHANGES_REQUESTED", "AWAITING_LAURA"} -> "verification"
      [] to = "DONE" -> "completion"
      [] to = "CANCELLED" -> "cancellation"

-----------------------------------------------------------------------------
(* MissionRepository.                                                       *)

EvidenceTaken == MapThenSumSet(LAMBDA m : IF Known(m) THEN Len(missions[m].evidence) ELSE 0, Missions)

MissionBindings == [id : Missions, key : PromotionKeys, source : SourceMessages, thread : Threads]

BoundTo(b) == {byKey[b.key], bySource[b.source], byThread[b.thread]} \ {Nobody}

\* insert
Insert(b, record) ==
    /\ missions' = [missions EXCEPT ![b.id] = record]
    /\ byKey' = [byKey EXCEPT ![b.key] = b.id]
    /\ bySource' = [bySource EXCEPT ![b.source] = b.id]
    /\ byThread' = [byThread EXCEPT ![b.thread] = b.id]

\* Slip: only the promotion's key is looked up.
PromoteByKey(b) ==
    /\ EvidenceTaken < MaxEvidence
    /\ byKey[b.key] = Nobody /\ ~Known(b.id)
    /\ Insert(b, [state |-> "CAPTURED", owner |-> Nobody, evidence |-> <<"capture">>,
                  key |-> b.key, source |-> b.source, thread |-> b.thread])
    /\ UNCHANGED saved

\* A binding that is known is answered with its mission, or refused when it
\* differs; both leave the repository as it is.
Promote(b) ==
    /\ EvidenceTaken < MaxEvidence
    /\ BoundTo(b) = {} /\ ~Known(b.id)
    /\ Insert(b, [state |-> "CAPTURED", owner |-> Nobody, evidence |-> <<"capture">>,
                  key |-> b.key, source |-> b.source, thread |-> b.thread])
    /\ UNCHANGED saved

\* owner: given with the transition, or Nobody.
Transition(m, to, owner) ==
    /\ EvidenceTaken < MaxEvidence
    /\ Known(m)
    /\ to \in Allowed(missions[m].state)
    /\ LET next == [missions[m] EXCEPT !.state = to,
                                       !.owner = IF owner = Nobody THEN @ ELSE owner,
                                       !.evidence = Append(@, Fresh(missions[m].state, to))] IN
       /\ ValidRecord(next)
       /\ missions' = [missions EXCEPT ![m] = next]
    /\ UNCHANGED <<byKey, bySource, byThread, saved>>

Save ==
    /\ saved # missions
    /\ saved' = missions
    /\ UNCHANGED <<missions, byKey, bySource, byThread>>

SavedMissions == {m \in Missions : saved[m] # Unknown}

\* What fromSnapshot throws at.
Acceptable ==
    /\ \A m \in SavedMissions : ValidRecord(saved[m])
    /\ \A m, n \in SavedMissions : m # n =>
          saved[m].key # saved[n].key /\ saved[m].source # saved[n].source /\ saved[m].thread # saved[n].thread

IndexOf(keys, field) ==
    [k \in keys |-> IF \E m \in SavedMissions : saved[m][field] = k
                    THEN CHOOSE m \in SavedMissions : saved[m][field] = k ELSE Nobody]

\* fromSnapshot.
Restart ==
    /\ Acceptable
    /\ missions' = saved
    /\ byKey' = IndexOf(PromotionKeys, "key")
    /\ bySource' = IndexOf(SourceMessages, "source")
    /\ byThread' = IndexOf(Threads, "thread")
    /\ UNCHANGED saved

MissionNext ==
    \/ \E b \in MissionBindings : Promote(b)
    \/ \E m \in Missions, to \in States, owner \in Owners \cup {Nobody} : Transition(m, to, owner)
    \/ Save
    \/ Restart

MissionSpec == MissionInit /\ [][MissionNext]_missionVars

-----------------------------------------------------------------------------
\* The last evidence of a kind.
Last(m, kinds) == Max({i \in DOMAIN missions[m].evidence : missions[m].evidence[i] \in kinds})

\* A mission that is done was verified after it was last executed, executed
\* after it was last claimed, claimed after it was last announced, and that
\* after it was last routed: none of it is left over from an earlier round.
DoneIsVerified ==
    \A m \in Missions : missions[m].state = "DONE" =>
        /\ Last(m, {"completion"}) > Last(m, {"verification"})
        /\ Last(m, {"verification"}) > Last(m, {"execution"})
        /\ Last(m, {"execution"}) > Last(m, {"claim"})
        /\ Last(m, {"claim"}) > Last(m, {"wake"})
        /\ Last(m, {"wake"}) > Last(m, {"route", "reroute"})

\* A restart never refuses what was saved.
SnapshotRestores == Acceptable
=============================================================================
