--------------------------- MODULE PortfolioProofs --------------------------
(***************************************************************************)
(* What surrounds the tasks and is set up for them, for any number of      *)
(* missions, contracts, providers, changes, messages and lines: the        *)
(* missions and their snapshot, the authority of the members of a team,    *)
(* the settings, those of a project, and the PM chat.                      *)
(***************************************************************************)
EXTENDS MCPortfolio, WellFoundedInduction, FiniteSetTheorems, SequenceTheorems, TLAPS

-----------------------------------------------------------------------------
(* Missions: what is bound to a mission stays bound to it, in the repository *)
(* and in what was saved of it, and each state has the evidence of the round *)
(* that led to it, in order.                                                 *)

\* Some evidence is of kinds, and comes after all that is of before.
After(evidence, kinds, before) ==
    \E i \in DOMAIN evidence :
        evidence[i] \in kinds /\ \A j \in DOMAIN evidence : evidence[j] \in before => j < i

Routes == {"route", "reroute"}
RoutedOK(evidence) == After(evidence, Routes, {})
WokenOK(evidence) == RoutedOK(evidence) /\ After(evidence, {"wake"}, Routes)
ClaimedOK(evidence) == WokenOK(evidence) /\ After(evidence, {"claim"}, {"wake"})
ExecutedOK(evidence) == ClaimedOK(evidence) /\ After(evidence, {"execution"}, {"claim"})
VerifiedOK(evidence) == ExecutedOK(evidence) /\ After(evidence, {"verification"}, {"execution"})
CompletedOK(evidence) == VerifiedOK(evidence) /\ After(evidence, {"completion"}, {"verification"})

RoundOK(r) ==
    /\ r.state = "ROUTED" => RoutedOK(r.evidence)
    /\ r.state = "AWAITING_CLAIM" => WokenOK(r.evidence)
    /\ r.state = "CLAIMED" => ClaimedOK(r.evidence)
    /\ r.state = "IN_PROGRESS" => ExecutedOK(r.evidence)
    /\ r.state \in {"VERIFIED", "CHANGES_REQUESTED", "AWAITING_LAURA"} => VerifiedOK(r.evidence)
    /\ r.state = "DONE" => CompletedOK(r.evidence)

MissionRecords ==
    [state : States, owner : Owners \cup {Nobody}, evidence : Seq(Kinds),
     key : PromotionKeys, source : SourceMessages, thread : Threads]
GoodRecords == {r \in MissionRecords : ValidRecord(r) /\ RoundOK(r)}

\* What the indexes say of a mission.
Indexed(m) ==
    byKey[missions[m].key] = m /\ bySource[missions[m].source] = m /\ byThread[missions[m].thread] = m

MissionInv ==
    /\ missions \in [Missions -> GoodRecords \cup {Unknown}]
    /\ saved \in [Missions -> GoodRecords \cup {Unknown}]
    /\ byKey \in [PromotionKeys -> Missions \cup {Nobody}]
    /\ bySource \in [SourceMessages -> Missions \cup {Nobody}]
    /\ byThread \in [Threads -> Missions \cup {Nobody}]
    /\ \A m \in Missions : missions[m] # Unknown => Indexed(m)
    /\ \A m \in Missions : saved[m] # Unknown =>
          /\ missions[m] # Unknown
          /\ missions[m].key = saved[m].key
          /\ missions[m].source = saved[m].source
          /\ missions[m].thread = saved[m].thread

LEMMA Appended ==
    ASSUME NEW S, NEW e \in Seq(S), NEW x \in S
    PROVE  /\ Append(e, x) \in Seq(S) /\ Len(e) \in Nat
           /\ DOMAIN e = 1..Len(e) /\ DOMAIN Append(e, x) = 1..(Len(e) + 1)
           /\ \A i \in DOMAIN e : Append(e, x)[i] = e[i]
           /\ Append(e, x)[Len(e) + 1] = x
  OBVIOUS

LEMMA AfterStays ==
    ASSUME NEW S, NEW e \in Seq(S), NEW x \in S, NEW kinds, NEW before, After(e, kinds, before), x \notin before
    PROVE  After(Append(e, x), kinds, before)
  <1>1. PICK i \in DOMAIN e : e[i] \in kinds /\ \A j \in DOMAIN e : e[j] \in before => j < i
    BY DEF After
  <1>2. PICK n \in Nat : n = Len(e)
    BY Appended
  <1>3. /\ DOMAIN e = 1..n /\ DOMAIN Append(e, x) = 1..(n + 1)
        /\ \A j \in DOMAIN e : Append(e, x)[j] = e[j]
        /\ Append(e, x)[n + 1] = x
    BY <1>2, Appended
  <1>4. i \in DOMAIN Append(e, x) /\ Append(e, x)[i] \in kinds
    BY <1>1, <1>3
  <1>5. \A j \in DOMAIN Append(e, x) : j \in DOMAIN e \/ j = n + 1
    BY <1>3
  <1>6. \A j \in DOMAIN Append(e, x) : Append(e, x)[j] \in before => j < i
    BY <1>1, <1>3, <1>5
  <1> QED
    BY <1>4, <1>6 DEF After

LEMMA AfterNow ==
    ASSUME NEW S, NEW e \in Seq(S), NEW x \in S, NEW kinds, NEW before, x \in kinds, x \notin before
    PROVE  After(Append(e, x), kinds, before)
  <1>1. PICK n \in Nat : n = Len(e)
    BY Appended
  <1>2. /\ DOMAIN e = 1..n /\ DOMAIN Append(e, x) = 1..(n + 1)
        /\ \A j \in DOMAIN e : Append(e, x)[j] = e[j]
        /\ Append(e, x)[n + 1] = x
    BY <1>1, Appended
  <1>3. \A j \in DOMAIN Append(e, x) : Append(e, x)[j] \in before => j < n + 1
    BY <1>2
  <1>4. n + 1 \in DOMAIN Append(e, x)
    BY <1>2
  <1> QED
    BY <1>2, <1>3, <1>4 DEF After

\* A bounded set of numbers has a greatest one.
LEMMA GreatestExists ==
    ASSUME NEW n \in Nat, NEW S \in SUBSET (1..n), S # {}
    PROVE  Max(S) \in S /\ \A i \in S : Max(S) >= i
  <1> DEFINE bounds == {b \in Nat : \A i \in S : b >= i}
             R == OpToRel(<, Nat)
  <1>1. n \in bounds /\ bounds \subseteq Nat /\ bounds # {}
    OBVIOUS
  <1>2. IsWellFoundedOn(R, Nat)
    BY NatLessThanWellFounded
  <1>3. PICK least \in bounds : \A b \in bounds : ~(<<b, least>> \in R)
    <2> HIDE DEF R, bounds
    <2> QED
      BY <1>1, <1>2, WFMin, Zenon
  <1>4. \A b \in bounds : ~(b < least)
    BY <1>3 DEF OpToRel
  <1>5. least \in S
    <2> SUFFICES ASSUME least \notin S PROVE FALSE
      OBVIOUS
    <2>1. \A i \in S : i \in Nat /\ least > i
      OBVIOUS
    <2>2. PICK i \in S : i \in Nat /\ least > i
      BY <2>1
    <2>3. least - 1 \in Nat /\ least - 1 < least
      BY <2>2
    <2>4. \A j \in S : least - 1 >= j
      BY <2>1
    <2> QED
      BY <1>4, <2>3, <2>4
  <1> QED
    BY <1>5 DEF Max

LEMMA LastIsAfter ==
    ASSUME NEW S, NEW e \in Seq(S), NEW kinds, NEW before, NEW earlier,
           After(e, kinds, before), After(e, before, earlier)
    PROVE  Max({i \in DOMAIN e : e[i] \in kinds}) > Max({i \in DOMAIN e : e[i] \in before})
  <1> DEFINE K == {i \in DOMAIN e : e[i] \in kinds}
             B == {i \in DOMAIN e : e[i] \in before}
  <1>1. PICK n \in Nat : DOMAIN e = 1..n
    OBVIOUS
  <1>2. PICK i \in DOMAIN e : e[i] \in kinds /\ \A j \in DOMAIN e : e[j] \in before => j < i
    BY DEF After
  <1>3. PICK b \in DOMAIN e : e[b] \in before
    BY DEF After
  <1>4. K \in SUBSET (1..n) /\ K # {} /\ B \in SUBSET (1..n) /\ B # {}
    BY <1>1, <1>2, <1>3
  <1>5. Max(K) \in K /\ Max(K) >= i
    BY <1>2, <1>4, GreatestExists
  <1>6. Max(B) \in B
    BY <1>4, GreatestExists
  <1>7. PICK k \in 1..n : k = Max(K) /\ k >= i
    BY <1>4, <1>5
  <1>8. PICK l \in 1..n : l = Max(B) /\ l < i
    BY <1>2, <1>4, <1>6
  <1>9. k > l
    BY <1>7, <1>8, <1>1
  <1> QED
    BY <1>7, <1>8, <1>9

\* What is in order stays so when other evidence is added.
LEMMA OrderStays ==
    ASSUME NEW e \in Seq(Kinds), NEW x \in Kinds
    PROVE  /\ RoutedOK(e) => RoutedOK(Append(e, x))
           /\ WokenOK(e) /\ x \notin Routes => WokenOK(Append(e, x))
           /\ ClaimedOK(e) /\ x \notin Routes \cup {"wake"} => ClaimedOK(Append(e, x))
           /\ ExecutedOK(e) /\ x \notin Routes \cup {"wake", "claim"} => ExecutedOK(Append(e, x))
           /\ VerifiedOK(e) /\ x \notin Routes \cup {"wake", "claim", "execution"} => VerifiedOK(Append(e, x))
  <1>1. \A kinds, before : After(e, kinds, before) /\ x \notin before => After(Append(e, x), kinds, before)
    BY AfterStays
  <1>2. RoutedOK(e) => RoutedOK(Append(e, x))
    BY <1>1 DEF RoutedOK
  <1>3. WokenOK(e) /\ x \notin Routes => WokenOK(Append(e, x))
    BY <1>1, <1>2 DEF WokenOK
  <1>4. ClaimedOK(e) /\ x \notin Routes \cup {"wake"} => ClaimedOK(Append(e, x))
    BY <1>1, <1>3 DEF ClaimedOK
  <1>5. ExecutedOK(e) /\ x \notin Routes \cup {"wake", "claim"} => ExecutedOK(Append(e, x))
    BY <1>1, <1>4 DEF ExecutedOK
  <1>6. VerifiedOK(e) /\ x \notin Routes \cup {"wake", "claim", "execution"} => VerifiedOK(Append(e, x))
    BY <1>1, <1>5 DEF VerifiedOK
  <1> QED
    BY <1>2, <1>3, <1>4, <1>5, <1>6

LEMMA FreshIsKind ==
    ASSUME NEW from \in States, NEW to \in States, to \in Allowed(from)
    PROVE  Fresh(from, to) \in Kinds
  BY DEF States, Allowed, Fresh, Kinds

LEMMA RoundGoesOn ==
    ASSUME NEW r \in MissionRecords, RoundOK(r), NEW to \in States, to \in Allowed(r.state),
           NEW e, e = Append(r.evidence, Fresh(r.state, to))
    PROVE  /\ to = "ROUTED" => RoutedOK(e)
           /\ to = "AWAITING_CLAIM" => WokenOK(e)
           /\ to = "CLAIMED" => ClaimedOK(e)
           /\ to = "IN_PROGRESS" => ExecutedOK(e)
           /\ to \in {"VERIFIED", "CHANGES_REQUESTED", "AWAITING_LAURA"} => VerifiedOK(e)
           /\ to = "DONE" => CompletedOK(e)
  <1>1. PICK x \in Kinds : x = Fresh(r.state, to)
    BY FreshIsKind DEF MissionRecords
  <1>2. r.evidence \in Seq(Kinds) /\ r.state \in States /\ e = Append(r.evidence, x)
    BY <1>1 DEF MissionRecords
  <1>3. \A kinds, before : x \in kinds /\ x \notin before => After(e, kinds, before)
    BY <1>2, AfterNow
  <1>4. ASSUME to = "ROUTED" PROVE RoutedOK(e)
    <2>1. x \in Routes
      BY <1>1, <1>4 DEF Fresh, Routes
    <2> QED
      BY <2>1, <1>3 DEF RoutedOK
  <1>5. ASSUME to = "AWAITING_CLAIM" PROVE WokenOK(e)
    <2>1. x = "wake" /\ r.state = "ROUTED"
      BY <1>1, <1>2, <1>5 DEF Fresh, Allowed, States
    <2>2. RoutedOK(e)
      BY <1>2, <2>1, OrderStays DEF RoundOK
    <2>3. After(e, {"wake"}, Routes)
      BY <2>1, <1>3 DEF Routes
    <2> QED
      BY <2>2, <2>3 DEF WokenOK
  <1>6. ASSUME to = "CLAIMED" PROVE ClaimedOK(e)
    <2>1. x = "claim" /\ r.state = "AWAITING_CLAIM"
      BY <1>1, <1>2, <1>6 DEF Fresh, Allowed, States
    <2>2. WokenOK(e)
      BY <1>2, <2>1, OrderStays DEF RoundOK, Routes
    <2>3. After(e, {"claim"}, {"wake"})
      BY <2>1, <1>3
    <2> QED
      BY <2>2, <2>3 DEF ClaimedOK
  <1>7. ASSUME to = "IN_PROGRESS" PROVE ExecutedOK(e)
    <2>1. x = "execution" /\ r.state \in {"CLAIMED", "CHANGES_REQUESTED"}
      BY <1>1, <1>2, <1>7 DEF Fresh, Allowed, States
    <2>2. ClaimedOK(r.evidence)
      BY <2>1 DEF RoundOK, VerifiedOK, ExecutedOK
    <2>3. ClaimedOK(e)
      BY <1>2, <2>1, <2>2, OrderStays DEF Routes
    <2>4. After(e, {"execution"}, {"claim"})
      BY <2>1, <1>3
    <2> QED
      BY <2>3, <2>4 DEF ExecutedOK
  <1>8. ASSUME to \in {"VERIFIED", "CHANGES_REQUESTED", "AWAITING_LAURA"} PROVE VerifiedOK(e)
    <2>1. x = "verification" /\ r.state \in {"IN_PROGRESS", "VERIFIED", "AWAITING_LAURA"}
      BY <1>1, <1>2, <1>8 DEF Fresh, Allowed, States
    <2>2. ExecutedOK(r.evidence)
      BY <2>1 DEF RoundOK, VerifiedOK
    <2>3. ExecutedOK(e)
      BY <1>2, <2>1, <2>2, OrderStays DEF Routes
    <2>4. After(e, {"verification"}, {"execution"})
      BY <2>1, <1>3
    <2> QED
      BY <2>3, <2>4 DEF VerifiedOK
  <1>9. ASSUME to = "DONE" PROVE CompletedOK(e)
    <2>1. x = "completion" /\ r.state \in {"VERIFIED", "AWAITING_LAURA"}
      BY <1>1, <1>2, <1>9 DEF Fresh, Allowed, States
    <2>2. VerifiedOK(r.evidence)
      BY <2>1 DEF RoundOK
    <2>3. VerifiedOK(e)
      BY <1>2, <2>1, <2>2, OrderStays DEF Routes
    <2>4. After(e, {"completion"}, {"verification"})
      BY <2>1, <1>3
    <2> QED
      BY <2>3, <2>4 DEF CompletedOK
  <1> QED
    BY <1>4, <1>5, <1>6, <1>7, <1>8, <1>9

LEMMA GoodIsKnown == \A r \in GoodRecords : r # Unknown
  BY DEF GoodRecords, MissionRecords, Unknown, States

LEMMA PromoteOK ==
    ASSUME MissionInv, NEW b \in MissionBindings, Promote(b)
    PROVE  MissionInv'
  <1> DEFINE record == [state |-> "CAPTURED", owner |-> Nobody, evidence |-> <<"capture">>,
                        key |-> b.key, source |-> b.source, thread |-> b.thread]
  <1>1. b.id \in Missions /\ b.key \in PromotionKeys /\ b.source \in SourceMessages /\ b.thread \in Threads
    BY DEF MissionBindings
  <1>2. record \in GoodRecords
    <2>1. <<"capture">> \in Seq(Kinds)
      BY DEF Kinds
    <2>2. record \in MissionRecords /\ RoundOK(record)
      BY <1>1, <2>1 DEF MissionRecords, States, RoundOK
    <2>3. KindsOf(<<"capture">>) = {"capture"}
      BY DEF KindsOf
    <2>4. ValidRecord(record)
      BY <2>3 DEF ValidRecord, Required
    <2> QED
      BY <2>2, <2>4 DEF GoodRecords
  <1>3. /\ missions' = [missions EXCEPT ![b.id] = record] /\ byKey' = [byKey EXCEPT ![b.key] = b.id]
        /\ bySource' = [bySource EXCEPT ![b.source] = b.id] /\ byThread' = [byThread EXCEPT ![b.thread] = b.id]
        /\ saved' = saved /\ missions[b.id] = Unknown
    BY DEF Promote, Insert, Known
  <1>4. byKey[b.key] = Nobody /\ bySource[b.source] = Nobody /\ byThread[b.thread] = Nobody
    BY DEF Promote, BoundTo
  <1> HIDE DEF record
  <1>5. \A m \in Missions : m # b.id /\ missions[m] # Unknown =>
           missions[m].key # b.key /\ missions[m].source # b.source /\ missions[m].thread # b.thread
    <2>1. \A m \in Missions : m # Nobody
      BY MissionAssumption DEF Nobody
    <2> QED
      BY <1>4, <2>1 DEF MissionInv, Indexed
  <1>6. record.key = b.key /\ record.source = b.source /\ record.thread = b.thread
    BY DEF record
  <1>7. \A m \in Missions : missions'[m] # Unknown => Indexed(m)'
    <2> SUFFICES ASSUME NEW m \in Missions, missions'[m] # Unknown
                 PROVE  byKey'[missions'[m].key] = m /\ bySource'[missions'[m].source] = m
                        /\ byThread'[missions'[m].thread] = m
      BY DEF Indexed
    <2>1. CASE m = b.id
      BY <1>1, <1>3, <1>6, <2>1 DEF MissionInv
    <2>2. CASE m # b.id
      <3>1. missions'[m] = missions[m] /\ missions[m] \in GoodRecords
        BY <1>1, <1>3, <2>2 DEF MissionInv
      <3>2. missions[m].key \in PromotionKeys /\ missions[m].source \in SourceMessages /\ missions[m].thread \in Threads
        BY <3>1 DEF GoodRecords, MissionRecords
      <3> QED
        BY <1>1, <1>3, <1>5, <2>2, <3>1, <3>2 DEF MissionInv, Indexed
    <2> QED
      BY <2>1, <2>2
  <1>8. \A m \in Missions : saved[m] # Unknown => missions'[m] = missions[m]
    BY <1>1, <1>3 DEF MissionInv
  <1> QED
    BY <1>1, <1>2, <1>3, <1>7, <1>8 DEF MissionInv

LEMMA TransitionOK ==
    ASSUME MissionInv, NEW m \in Missions, NEW to \in States, NEW owner \in Owners \cup {Nobody},
           Transition(m, to, owner)
    PROVE  MissionInv'
  <1> DEFINE next == [missions[m] EXCEPT !.state = to,
                                         !.owner = IF owner = Nobody THEN @ ELSE owner,
                                         !.evidence = Append(@, Fresh(missions[m].state, to))]
  <1>1. missions[m] \in GoodRecords /\ to \in Allowed(missions[m].state)
    BY DEF Transition, Known, MissionInv
  <1>2. /\ ValidRecord(next) /\ missions' = [missions EXCEPT ![m] = next]
        /\ UNCHANGED <<byKey, bySource, byThread, saved>>
    BY DEF Transition
  <1>3. PICK e : e = Append(missions[m].evidence, Fresh(missions[m].state, to))
    OBVIOUS
  <1>4. missions[m] \in MissionRecords /\ RoundOK(missions[m])
    BY <1>1 DEF GoodRecords
  <1>5. e \in Seq(Kinds)
    <2>1. missions[m].evidence \in Seq(Kinds) /\ Fresh(missions[m].state, to) \in Kinds
      BY <1>1, <1>4, FreshIsKind DEF MissionRecords
    <2> QED
      BY <1>3, <2>1, Appended
  <1>6. next \in MissionRecords /\ next.state = to /\ next.evidence = e
        /\ next.key = missions[m].key /\ next.source = missions[m].source /\ next.thread = missions[m].thread
    BY <1>3, <1>4, <1>5 DEF MissionRecords
  <1> HIDE DEF next
  <1>7. RoundOK(next)
    <2>1. /\ to = "ROUTED" => RoutedOK(e)
          /\ to = "AWAITING_CLAIM" => WokenOK(e)
          /\ to = "CLAIMED" => ClaimedOK(e)
          /\ to = "IN_PROGRESS" => ExecutedOK(e)
          /\ to \in {"VERIFIED", "CHANGES_REQUESTED", "AWAITING_LAURA"} => VerifiedOK(e)
          /\ to = "DONE" => CompletedOK(e)
      BY <1>1, <1>3, <1>4, RoundGoesOn
    <2> QED
      BY <1>6, <2>1, Zenon DEF RoundOK
  <1>8. next \in GoodRecords
    BY <1>2, <1>6, <1>7 DEF GoodRecords
  <1>9. \A n \in Missions : /\ missions'[n] = Unknown <=> missions[n] = Unknown
                            /\ missions[n] # Unknown => missions'[n].key = missions[n].key
                                 /\ missions'[n].source = missions[n].source /\ missions'[n].thread = missions[n].thread
    BY <1>1, <1>2, <1>6, <1>8, GoodIsKnown DEF MissionInv
  <1>10. \A n \in Missions : missions'[n] # Unknown => Indexed(n)'
    BY <1>2, <1>9 DEF MissionInv, Indexed
  <1>11. missions' \in [Missions -> GoodRecords \cup {Unknown}]
    BY <1>2, <1>8 DEF MissionInv
  <1> QED
    BY <1>2, <1>9, <1>10, <1>11 DEF MissionInv

LEMMA SaveOK == MissionInv /\ Save => MissionInv'
  BY DEF MissionInv, Save, Indexed

LEMMA RestartOK == MissionInv /\ Restart => MissionInv'
  <1> SUFFICES ASSUME MissionInv, Restart PROVE MissionInv'
    OBVIOUS
  <1>1. missions' = saved /\ saved' = saved
    BY DEF Restart
  <1>2. /\ byKey' \in [PromotionKeys -> Missions \cup {Nobody}]
        /\ \A m \in SavedMissions : byKey'[saved[m].key] = m
    <2>1. byKey' = [k \in PromotionKeys |-> IF \E m \in SavedMissions : saved[m].key = k
                                           THEN CHOOSE m \in SavedMissions : saved[m].key = k ELSE Nobody]
      BY DEF Restart, IndexOf
    <2>2. \A m, n \in SavedMissions : saved[m].key = saved[n].key => m = n
      BY DEF Restart, Acceptable
    <2>3. \A m \in SavedMissions : m \in Missions /\ saved[m].key \in PromotionKeys
      BY DEF SavedMissions, MissionInv, GoodRecords, MissionRecords
    <2> QED
      BY <2>1, <2>2, <2>3
  <1>3. /\ bySource' \in [SourceMessages -> Missions \cup {Nobody}]
        /\ \A m \in SavedMissions : bySource'[saved[m].source] = m
    <2>1. bySource' = [k \in SourceMessages |-> IF \E m \in SavedMissions : saved[m].source = k
                                              THEN CHOOSE m \in SavedMissions : saved[m].source = k ELSE Nobody]
      BY DEF Restart, IndexOf
    <2>2. \A m, n \in SavedMissions : saved[m].source = saved[n].source => m = n
      BY DEF Restart, Acceptable
    <2>3. \A m \in SavedMissions : m \in Missions /\ saved[m].source \in SourceMessages
      BY DEF SavedMissions, MissionInv, GoodRecords, MissionRecords
    <2> QED
      BY <2>1, <2>2, <2>3
  <1>4. /\ byThread' \in [Threads -> Missions \cup {Nobody}]
        /\ \A m \in SavedMissions : byThread'[saved[m].thread] = m
    <2>1. byThread' = [k \in Threads |-> IF \E m \in SavedMissions : saved[m].thread = k
                                       THEN CHOOSE m \in SavedMissions : saved[m].thread = k ELSE Nobody]
      BY DEF Restart, IndexOf
    <2>2. \A m, n \in SavedMissions : saved[m].thread = saved[n].thread => m = n
      BY DEF Restart, Acceptable
    <2>3. \A m \in SavedMissions : m \in Missions /\ saved[m].thread \in Threads
      BY DEF SavedMissions, MissionInv, GoodRecords, MissionRecords
    <2> QED
      BY <2>1, <2>2, <2>3
  <1>5. \A m \in Missions : missions'[m] # Unknown => Indexed(m)'
    BY <1>1, <1>2, <1>3, <1>4 DEF SavedMissions, Indexed
  <1> QED
    BY <1>1, <1>2, <1>3, <1>4, <1>5 DEF MissionInv

LEMMA MissionStep == MissionInv /\ [MissionNext]_missionVars => MissionInv'
  <1>1. MissionInv /\ UNCHANGED missionVars => MissionInv'
    BY DEF MissionInv, missionVars, Indexed
  <1> QED
    BY <1>1, PromoteOK, TransitionOK, SaveOK, RestartOK DEF MissionNext

LEMMA MissionStart == MissionInit => MissionInv
  BY DEF MissionInit, MissionInv, EmptyIndex

LEMMA SavedIsAcceptable == MissionInv => SnapshotRestores
  <1> SUFFICES ASSUME MissionInv PROVE Acceptable
    BY DEF SnapshotRestores
  <1>1. \A m \in SavedMissions : ValidRecord(saved[m]) /\ m \in Missions /\ saved[m] # Unknown
    BY DEF SavedMissions, MissionInv, GoodRecords
  <1>2. \A m \in SavedMissions : Indexed(m) /\ missions[m].key = saved[m].key
            /\ missions[m].source = saved[m].source /\ missions[m].thread = saved[m].thread
    BY <1>1 DEF MissionInv
  <1> QED
    BY <1>1, <1>2 DEF Acceptable, Indexed

LEMMA DoneIsComplete == MissionInv => DoneIsVerified
  <1> SUFFICES ASSUME MissionInv, NEW m \in Missions, missions[m].state = "DONE"
               PROVE  /\ Last(m, {"completion"}) > Last(m, {"verification"})
                      /\ Last(m, {"verification"}) > Last(m, {"execution"})
                      /\ Last(m, {"execution"}) > Last(m, {"claim"})
                      /\ Last(m, {"claim"}) > Last(m, {"wake"})
                      /\ Last(m, {"wake"}) > Last(m, {"route", "reroute"})
    BY DEF DoneIsVerified
  <1>1. missions[m] \in GoodRecords
    BY DEF MissionInv, Unknown
  <1>2. PICK e \in Seq(Kinds) : e = missions[m].evidence
    BY <1>1 DEF GoodRecords, MissionRecords
  <1>3. CompletedOK(e)
    BY <1>1, <1>2 DEF GoodRecords, RoundOK
  <1>4. /\ After(e, {"completion"}, {"verification"}) /\ After(e, {"verification"}, {"execution"})
        /\ After(e, {"execution"}, {"claim"}) /\ After(e, {"claim"}, {"wake"})
        /\ After(e, {"wake"}, Routes) /\ After(e, Routes, {})
    BY <1>3 DEF CompletedOK, VerifiedOK, ExecutedOK, ClaimedOK, WokenOK, RoutedOK
  <1>5. ASSUME NEW kinds, NEW before, NEW earlier, After(e, kinds, before), After(e, before, earlier)
        PROVE  Last(m, kinds) > Last(m, before)
    <2>1. Max({i \in DOMAIN e : e[i] \in kinds}) > Max({i \in DOMAIN e : e[i] \in before})
      BY <1>5, LastIsAfter
    <2> QED
      BY <1>2, <2>1 DEF Last
  <1> QED
    BY <1>4, <1>5, Zenon DEF Routes

(* missionLifecycle.ts: for any missions and bindings, a restart never        *)
(* refuses what was saved, whatever was promoted or moved since.             *)
THEOREM SnapshotAccepted == MissionSpec => []SnapshotRestores
  BY MissionStart, MissionStep, SavedIsAcceptable, PTL DEF MissionSpec

(* missionLifecycle.ts: the evidence of a mission that is done is of one      *)
(* round, in order, however often it was routed and verified before, and     *)
(* across restarts.                                                          *)
THEOREM DoneAfterItsRound == MissionSpec => []DoneIsVerified
  BY MissionStart, MissionStep, DoneIsComplete, PTL DEF MissionSpec

-----------------------------------------------------------------------------
(* Agent teams: a contract never pins a revision that is not there yet, and   *)
(* one that pins the current revision saw what it allows.                    *)

Pinned(c, slot) == <<slot, contracts[c].refs[slot].of>>

PinOK(c, slot) ==
    /\ contracts[c].refs[slot].of \in Ids(slot)
    /\ contracts[c].refs[slot].revision \in Nat
    /\ contracts[c].refs[slot].revision <= contracts[Pinned(c, slot)].revision
    /\ contracts[c].refs[slot].revision = contracts[Pinned(c, slot)].revision =>
          saw[c][slot] = contracts[Pinned(c, slot)].caps

TeamInv ==
    /\ contracts = [c \in TeamContracts |-> contracts[c]]
    /\ saw = [c \in TeamContracts |-> saw[c]]
    /\ \A c \in TeamContracts : contracts[c].revision \in Nat
    /\ \A c \in TeamContracts : \A slot \in Slots(c[1]) : PinOK(c, slot)

LEMMA ContractsAre ==
    /\ \A c \in TeamContracts : \E kind \in Kinded \cup {"identity", "member"} :
          \E id \in Ids(kind) : c = <<kind, id>> /\ c[1] = kind
    /\ \A kind \in Kinded \cup {"identity", "member"} : \A id \in Ids(kind) : <<kind, id>> \in TeamContracts
  BY DEF TeamContracts

LEMMA SlotsAreKinds ==
    ASSUME NEW c \in TeamContracts, NEW slot \in Slots(c[1])
    PROVE  slot \in Kinded \cup {"identity"}
  BY ContractsAre DEF Slots, Kinded

LEMMA PinnedIsThere ==
    ASSUME NEW c \in TeamContracts, NEW slot \in Slots(c[1]), NEW id \in Ids(slot)
    PROVE  <<slot, id>> \in TeamContracts
  BY SlotsAreKinds, ContractsAre

LEMMA NextRevision == \A p, r \in Nat : p <= r => p <= r + 1 /\ p # r + 1
  OBVIOUS

LEMMA TeamStart == TeamInit => TeamInv
  <1> SUFFICES ASSUME TeamInit PROVE TeamInv
    OBVIOUS
  <1>1. PICK able \in SUBSET Kinded :
          contracts = [c \in TeamContracts |->
              [revision |-> 1, caps |-> IF c[1] \in able THEN Capabilities ELSE {},
               refs |-> [slot \in Slots(c[1]) |-> [of |-> CHOOSE id \in Ids(slot) : TRUE, revision |-> 1]]]]
    BY DEF TeamInit
  <1>2. saw = [c \in TeamContracts |->
                 [slot \in Slots(c[1]) |-> contracts[<<slot, contracts[c].refs[slot].of>>].caps]]
    BY DEF TeamInit
  <1>3. \A c \in TeamContracts : contracts[c].revision = 1
    BY <1>1
  <1>4. ASSUME NEW c \in TeamContracts, NEW slot \in Slots(c[1]) PROVE PinOK(c, slot)
    <2>1. contracts[c].refs[slot].of = (CHOOSE id \in Ids(slot) : TRUE) /\ contracts[c].refs[slot].revision = 1
      BY <1>1
    <2>2. Ids(slot) # {}
      BY ContractsAre, ReferentsAssumption DEF Slots, Kinded
    <2>3. contracts[c].refs[slot].of \in Ids(slot)
      BY <2>1, <2>2
    <2>4. Pinned(c, slot) \in TeamContracts
      BY <2>3, PinnedIsThere DEF Pinned
    <2>5. contracts[Pinned(c, slot)].revision = 1
      BY <1>3, <2>4
    <2>6. saw[c][slot] = contracts[Pinned(c, slot)].caps
      BY <1>2 DEF Pinned
    <2>7. 1 \in Nat /\ 1 <= 1
      OBVIOUS
    <2> QED
      BY <2>1, <2>3, <2>5, <2>6, <2>7 DEF PinOK
  <1> QED
    BY <1>1, <1>2, <1>3, <1>4 DEF TeamInv

\* A contract that gets its next revision is pinned by none as it is now, and
\* what it pins itself is pinned as it is or as it was.
LEMMA EditOK ==
    ASSUME TeamInv, NEW c \in TeamContracts, NEW caps, NEW pins, Edit(c, caps, pins),
           saw' = [x \in TeamContracts |-> saw'[x]], \A x \in TeamContracts : x # c => saw'[x] = saw[x],
           \A slot \in Slots(c[1]) :
              /\ pins[slot].of \in Ids(slot) /\ pins[slot].revision \in Nat
              /\ pins[slot].revision <= contracts[<<slot, pins[slot].of>>].revision
              /\ pins[slot].revision = contracts[<<slot, pins[slot].of>>].revision =>
                    saw'[c][slot] = contracts[<<slot, pins[slot].of>>].caps
    PROVE  TeamInv'
  <1>1. contracts' = [contracts EXCEPT ![c] = [revision |-> contracts[c].revision + 1, caps |-> caps, refs |-> pins]]
    BY DEF Edit
  <1>2. /\ contracts' = [x \in TeamContracts |-> contracts'[x]]
        /\ contracts'[c] = [revision |-> contracts[c].revision + 1, caps |-> caps, refs |-> pins]
        /\ \A x \in TeamContracts : x # c => contracts'[x] = contracts[x]
    BY <1>1 DEF TeamInv
  <1>4. PICK r \in Nat : r = contracts[c].revision /\ contracts'[c].revision = r + 1
    BY <1>2 DEF TeamInv
  <1>5. \A x \in TeamContracts : contracts'[x].revision \in Nat
    BY <1>2, <1>4 DEF TeamInv
  <1>6. ASSUME NEW x \in TeamContracts, NEW slot \in Slots(x[1]), NEW p \in Nat, NEW target \in TeamContracts,
               p <= contracts[target].revision,
               p = contracts[target].revision => saw'[x][slot] = contracts[target].caps
        PROVE  /\ p <= contracts'[target].revision
               /\ p = contracts'[target].revision => saw'[x][slot] = contracts'[target].caps
    <2>1. CASE target = c
      BY <1>4, <1>6, <2>1, NextRevision
    <2>2. CASE target # c
      BY <1>2, <1>6, <2>2
    <2> QED
      BY <2>1, <2>2
  <1>7. ASSUME NEW x \in TeamContracts, NEW slot \in Slots(x[1]) PROVE PinOK(x, slot)'
    <2>1. PICK refs : refs = contracts'[x].refs
      OBVIOUS
    <2>2. CASE x = c
      <3>1. refs = pins
        BY <1>2, <2>1, <2>2
      <3>2. <<slot, pins[slot].of>> \in TeamContracts
        BY <2>2, PinnedIsThere
      <3> QED
        BY <1>6, <2>1, <2>2, <3>1, <3>2 DEF PinOK, Pinned
    <2>3. CASE x # c
      <3>1. contracts'[x] = contracts[x] /\ saw'[x] = saw[x] /\ PinOK(x, slot)
        BY <1>2, <2>3 DEF TeamInv
      <3>2. Pinned(x, slot) \in TeamContracts
        BY <3>1, PinnedIsThere DEF PinOK, Pinned
      <3> QED
        BY <1>6, <3>1, <3>2 DEF PinOK, Pinned
    <2> QED
      BY <2>2, <2>3
  <1> QED
    BY <1>2, <1>5, <1>7 DEF TeamInv

LEMMA EditCapabilitiesOK ==
    ASSUME TeamInv, NEW c \in TeamContracts, EditCapabilities(c)
    PROVE  TeamInv'
  <1>1. PICK caps \in SUBSET Capabilities : Edit(c, caps, contracts[c].refs) /\ saw' = saw
    BY DEF EditCapabilities
  <1>2. saw' = [x \in TeamContracts |-> saw'[x]] /\ \A x \in TeamContracts : x # c => saw'[x] = saw[x]
    BY <1>1 DEF TeamInv
  <1>3. PICK pins : pins = contracts[c].refs
    OBVIOUS
  <1>4. \A slot \in Slots(c[1]) :
           /\ pins[slot].of \in Ids(slot) /\ pins[slot].revision \in Nat
           /\ pins[slot].revision <= contracts[<<slot, pins[slot].of>>].revision
           /\ pins[slot].revision = contracts[<<slot, pins[slot].of>>].revision =>
                 saw'[c][slot] = contracts[<<slot, pins[slot].of>>].caps
    BY <1>1, <1>3 DEF TeamInv, PinOK, Pinned
  <1>5. Edit(c, caps, pins)
    BY <1>1, <1>3
  <1> QED
    BY <1>2, <1>4, <1>5, EditOK

LEMMA ReviewOK ==
    ASSUME TeamInv, NEW c \in TeamContracts, Review(c)
    PROVE  TeamInv'
  <1>0. PICK of \in Referents(c[1]) : \E pins :
           /\ pins = [slot \in Slots(c[1]) |->
                        [of |-> of[slot], revision |-> contracts[<<slot, of[slot]>>].revision]]
           /\ Edit(c, contracts[c].caps, pins)
           /\ saw' = [saw EXCEPT ![c] = [slot \in Slots(c[1]) |-> contracts[<<slot, of[slot]>>].caps]]
    BY DEF Review
  <1>1. PICK pins :
           /\ of \in Referents(c[1])
           /\ pins = [slot \in Slots(c[1]) |->
                        [of |-> of[slot], revision |-> contracts[<<slot, of[slot]>>].revision]]
           /\ Edit(c, contracts[c].caps, pins)
           /\ saw' = [saw EXCEPT ![c] = [slot \in Slots(c[1]) |-> contracts[<<slot, of[slot]>>].caps]]
    BY <1>0
  <1>2. ASSUME NEW slot \in Slots(c[1])
        PROVE  /\ pins[slot].of \in Ids(slot) /\ pins[slot].revision \in Nat
               /\ pins[slot].revision <= contracts[<<slot, pins[slot].of>>].revision
               /\ saw'[c][slot] = contracts[<<slot, pins[slot].of>>].caps
    <2>1. of[slot] \in Ids(slot)
      BY <1>1 DEF Referents
    <2>2. <<slot, of[slot]>> \in TeamContracts
      BY <2>1, PinnedIsThere
    <2>3. PICK r \in Nat : r = contracts[<<slot, of[slot]>>].revision
      BY <2>2 DEF TeamInv
    <2>4. r <= r
      OBVIOUS
    <2>5. pins[slot] = [of |-> of[slot], revision |-> r]
      BY <1>1, <2>3
    <2>6. saw'[c][slot] = contracts[<<slot, of[slot]>>].caps
      BY <1>1 DEF TeamInv
    <2> QED
      BY <2>1, <2>3, <2>4, <2>5, <2>6
  <1>3. saw' = [x \in TeamContracts |-> saw'[x]] /\ \A x \in TeamContracts : x # c => saw'[x] = saw[x]
    BY <1>1 DEF TeamInv
  <1>4. \A slot \in Slots(c[1]) :
           /\ pins[slot].of \in Ids(slot) /\ pins[slot].revision \in Nat
           /\ pins[slot].revision <= contracts[<<slot, pins[slot].of>>].revision
           /\ pins[slot].revision = contracts[<<slot, pins[slot].of>>].revision =>
                 saw'[c][slot] = contracts[<<slot, pins[slot].of>>].caps
    BY <1>2
  <1>5. Edit(c, contracts[c].caps, pins)
    BY <1>1
  <1> QED
    BY <1>3, <1>4, <1>5, EditOK

LEMMA TeamStep == TeamInv /\ [TeamNext]_teamVars => TeamInv'
  <1>1. TeamInv /\ UNCHANGED <<contracts, saw>> => TeamInv'
    BY DEF TeamInv, PinOK, Pinned
  <1> QED
    BY <1>1, EditCapabilitiesOK, ReviewOK DEF TeamNext, EditRuntimeSafety, teamVars

LEMMA ResolvedIsSeen ==
    ASSUME TeamInv, NEW c \in TeamContracts, NEW slot \in Slots(c[1]), Resolves(c, slot)
    PROVE  saw[c][slot] = Caps(slot, Ref(c, slot)) /\ Ref(c, slot) \in Ids(slot)
  BY DEF TeamInv, PinOK, Pinned, Resolves, Caps, Ref

LEMMA ComposedIsReviewed == TeamInv => AuthorityIsReviewed
  <1> SUFFICES ASSUME TeamInv, Composed, NEW n \in Members, NEW m, NEW a, NEW b,
                      m = <<"member", n>>, a = <<"assignment", Ref(m, "assignment")>>,
                      b = <<"binding", Ref(m, "binding")>>
               PROVE  Effective(n) \subseteq runtimeSafety
                          \cap saw[m]["role"] \cap saw[m]["assignment"] \cap saw[m]["binding"]
                          \cap saw[a]["role"] \cap saw[a]["operatorProfile"] \cap saw[b]["assignment"]
    BY Zenon DEF AuthorityIsReviewed
  <1>1. m \in TeamContracts /\ m[1] = "member" /\ Slots("member") = {"identity", "role", "assignment", "binding"}
    BY ContractsAre DEF Ids, Slots
  <1>2. \A slot \in {"identity", "role", "assignment", "binding"} : Resolves(m, slot)
    BY <1>1 DEF Composed, TopologyHolds
  <1>3. /\ saw[m]["role"] = Caps("role", Ref(m, "role"))
        /\ saw[m]["assignment"] = Caps("assignment", Ref(m, "assignment"))
        /\ saw[m]["binding"] = Caps("binding", Ref(m, "binding"))
        /\ Ref(m, "assignment") \in Ids("assignment") /\ Ref(m, "binding") \in Ids("binding")
    BY <1>1, <1>2, ResolvedIsSeen
  <1>4. /\ Ref(m, "assignment") \in Assignments /\ Ref(m, "binding") \in Bindings
        /\ a \in TeamContracts /\ a[1] = "assignment" /\ Slots("assignment") = {"role", "operatorProfile"}
        /\ b \in TeamContracts /\ b[1] = "binding" /\ Slots("binding") = {"identity", "assignment"}
    BY <1>3, ContractsAre DEF Ids, Slots, Kinded
  <1>5. Resolves(a, "role") /\ Resolves(a, "operatorProfile") /\ Resolves(b, "assignment")
    BY <1>4 DEF Composed, AssignmentsHold, BindingsHold
  <1>6. /\ saw[a]["role"] = Caps("role", Ref(a, "role"))
        /\ saw[a]["operatorProfile"] = Caps("operatorProfile", Ref(a, "operatorProfile"))
        /\ saw[b]["assignment"] = Caps("assignment", Ref(b, "assignment"))
    BY <1>4, <1>5, ResolvedIsSeen
  <1>7. Ref(a, "role") = Ref(m, "role") /\ Ref(b, "assignment") = Ref(m, "assignment")
    BY DEF Composed, TopologyHolds, RoleOf
  <1>8. Effective(n) = Caps("role", Ref(m, "role"))
                         \cap Caps("operatorProfile", Ref(a, "operatorProfile"))
                         \cap Caps("assignment", Ref(m, "assignment"))
                         \cap Caps("binding", Ref(m, "binding")) \cap runtimeSafety
    BY DEF Effective
  <1> QED
    BY <1>3, <1>6, <1>7, <1>8

(* composition.ts: for any contracts, an agent of a composed team has no      *)
(* authority that an edit gave after the contracts above were reviewed.      *)
THEOREM AuthorityReviewed == TeamSpec => []AuthorityIsReviewed
  BY TeamStart, TeamStep, ComposedIsReviewed, PTL DEF TeamSpec

-----------------------------------------------------------------------------
(* Settings: the PM that is active is the selected one.                     *)

\* Settings with every field there.
WholeSettings(s) ==
    s = [defaultProvider |-> s.defaultProvider, primaryAgentModel |-> s.primaryAgentModel,
         models |-> s.models]

PmAgrees == WholeSettings(global) /\ (created => registered) /\ SettingsAndPmAgree

\* The providers that are asked are known, and None is not one of them.
ChangesKnown ==
    /\ listed \subseteq Providers
    /\ change = [c \in Changes |-> change[c]]
    /\ \A c \in Changes :
          (change[c].at = "checking" \/ (change[c].at = "asking" /\ change[c].key = "defaultProvider"))
              => change[c].provider \in Providers

\* A model of the PM is asked about once a provider is selected.
SelectedFirst ==
    \A c \in Changes :
        (change[c].at = "asking" /\ change[c].key = "primaryAgentModel") => global.defaultProvider # None

AgreementKept == crossed \/ (PmAgrees /\ ChangesKnown /\ SelectedFirst)

-----------------------------------------------------------------------------
(* The settings with one field changed.                                     *)

LEMMA WholeDefault ==
    ASSUME NEW s, NEW provider, WholeSettings(s)
    PROVE  /\ WholeSettings([s EXCEPT !.defaultProvider = provider])
           /\ [s EXCEPT !.defaultProvider = provider].defaultProvider = provider
  BY DEF WholeSettings

LEMMA WholePmModel ==
    ASSUME NEW s, NEW model, WholeSettings(s)
    PROVE  /\ WholeSettings([s EXCEPT !.primaryAgentModel = model])
           /\ [s EXCEPT !.primaryAgentModel = model].defaultProvider = s.defaultProvider
  BY DEF WholeSettings

LEMMA WholeModels ==
    ASSUME NEW s, NEW provider, NEW model, WholeSettings(s)
    PROVE  /\ WholeSettings([s EXCEPT !.models[provider] = model])
           /\ [s EXCEPT !.models[provider] = model].defaultProvider = s.defaultProvider
  BY DEF WholeSettings

-----------------------------------------------------------------------------
(* What the operations of the service keep.                                 *)

LEMMA ActivatedAgrees ==
    ASSUME NEW settings, NEW provider, Activated(settings, provider), created => registered,
           WholeSettings(settings), settings.defaultProvider = provider \/ overtaken'
    PROVE  PmAgrees' /\ global'.defaultProvider = settings.defaultProvider
  <1>1. global' = settings /\ pm' = [provider |-> provider, model |-> PmModel(provider, settings)]
    BY DEF Activated, Activate
  <1>2. WholeSettings(global')
    BY <1>1
  <1>3. created' /\ registered'
    BY DEF Activated, Activate
  <1>4. SettingsAndPmAgree'
    BY <1>1, <1>3 DEF SettingsAndPmAgree, PmModel
  <1> QED
    BY <1>1, <1>2, <1>3, <1>4 DEF PmAgrees, WholeSettings

LEMMA FailedAgrees ==
    ASSUME NEW before, NEW wasRegistered, ActivationFailed(before, wasRegistered), ~crossed', PmAgrees,
           UNCHANGED overtaken
    PROVE  PmAgrees' /\ global' = global
  <1>1. before = global /\ wasRegistered = registered /\ ~crossed
    BY DEF ActivationFailed
  <1>2. UNCHANGED <<global, registered, pm, pmBehind, created>>
    BY <1>1 DEF ActivationFailed
  <1> QED
    BY <1>1, <1>2 DEF PmAgrees, SettingsAndPmAgree, PmModel, WholeSettings

LEMMA PersistAgrees ==
    ASSUME NEW settings, Persist(settings), PmAgrees, WholeSettings(settings),
           settings.defaultProvider = global.defaultProvider, ~crossed, UNCHANGED overtaken
    PROVE  PmAgrees' /\ global'.defaultProvider = global.defaultProvider
  <1>1. global' = settings /\ UNCHANGED <<pm, created, registered>>
    BY DEF Persist
  <1>2. ASSUME pm # Inactive, ~overtaken
        PROVE  /\ pm.provider = settings.defaultProvider
               /\ pm.model = PmModel(pm.provider, settings) \/ pmBehind'
               /\ registered
    BY <1>2 DEF Persist, PmAgrees, SettingsAndPmAgree
  <1>3. SettingsAndPmAgree'
    BY <1>1, <1>2 DEF SettingsAndPmAgree, PmModel
  <1>4. WholeSettings(global') /\ (created => registered)'
    BY <1>1 DEF PmAgrees
  <1> QED
    BY <1>1, <1>3, <1>4 DEF PmAgrees, WholeSettings

LEMMA UntouchedAgrees ==
    ASSUME PmAgrees, UNCHANGED <<global, pmVars, crossed, overtaken>>
    PROVE  PmAgrees'
  BY DEF PmAgrees, pmVars, SettingsAndPmAgree, PmModel, WholeSettings

-----------------------------------------------------------------------------
(* What happens to the changes.                                             *)

LEMMA ChangeEnds ==
    ASSUME NEW c \in Changes, Ends(c), ChangesKnown, SelectedFirst,
           global'.defaultProvider # None \/ global'.defaultProvider = global.defaultProvider
    PROVE  (ChangesKnown /\ SelectedFirst)'
  BY DEF Ends, ChangesKnown, SelectedFirst, NoChange

LEMMA ChangeBegins ==
    ASSUME NEW c \in Changes, NEW record, Begin(c, record), ChangesKnown, SelectedFirst,
           (record.at = "asking" /\ record.key = "defaultProvider") => record.provider \in Providers,
           (record.at = "asking" /\ record.key = "primaryAgentModel") => global.defaultProvider # None,
           record.at = "asking"
    PROVE  (ChangesKnown /\ SelectedFirst)' /\ UNCHANGED <<global, pmVars, crossed, overtaken>>
  BY DEF Begin, ChangesKnown, SelectedFirst, pmVars

LEMMA ChangesUntouched ==
    ASSUME ChangesKnown, SelectedFirst, UNCHANGED <<change, listed>>,
           global'.defaultProvider # None \/ global'.defaultProvider = global.defaultProvider
    PROVE  (ChangesKnown /\ SelectedFirst)'
  BY DEF ChangesKnown, SelectedFirst

LEMMA NoneIsNoProvider == None \notin Providers
  BY SettingsAssumption DEF None

LEMMA AgreementStarts == SettingsInit => AgreementKept
  <1> SUFFICES ASSUME SettingsInit PROVE AgreementKept
    OBVIOUS
  <1>1. WholeSettings(global)
    BY DEF SettingsInit, WholeSettings
  <1>2. PmAgrees
    BY <1>1 DEF SettingsInit, PmAgrees, SettingsAndPmAgree
  <1>3. ChangesKnown /\ SelectedFirst
    BY DEF SettingsInit, ChangesKnown, SelectedFirst, NoChange
  <1> QED
    BY <1>2, <1>3 DEF AgreementKept

\* Once put back over another change, for good.
LEMMA CrossedStays == crossed /\ [SettingsNext]_settingsVars => crossed'
  <1> SUFFICES ASSUME crossed, [SettingsNext]_settingsVars PROVE crossed'
    OBVIOUS
  <1>1. ASSUME NEW settings, NEW provider, Activated(settings, provider) PROVE crossed'
    BY <1>1 DEF Activated
  <1>2. ASSUME NEW before, NEW wasRegistered, ActivationFailed(before, wasRegistered) PROVE crossed'
    BY <1>2 DEF ActivationFailed
  <1>3. ASSUME NEW c \in Changes, NEW record, Begin(c, record) PROVE crossed'
    BY <1>3 DEF Begin
  <1>4. CASE UNCHANGED settingsVars
    BY <1>4 DEF settingsVars
  <1>5. CASE BootActivates \/ BootSelects \/ BootAutoSelects \/ BootPrompts
    BY <1>5, <1>1, <1>2 DEF BootActivates, BootSelects, BootAutoSelects, BootPrompts
  <1>6. ASSUME NEW c \in Changes, NEW provider \in Providers, NEW from \in Sources,
               SelectProvider(c, provider, from)
        PROVE crossed'
    BY <1>6, <1>3 DEF SelectProvider
  <1>7. ASSUME NEW c \in Changes, NEW provider \in Providers, NEW model, SubmitModel(c, provider, model)
        PROVE crossed'
    BY <1>7, <1>3 DEF SubmitModel
  <1>8. ASSUME NEW c \in Changes, NEW model, SubmitPmModel(c, model) \/ ModelCommand(c, model)
        PROVE crossed'
    BY <1>8, <1>3 DEF SubmitPmModel, ModelCommand
  <1>9. ASSUME NEW c \in Changes, ProviderAsked(c) \/ PmModelCleared(c) \/ ModelAsked(c) \/ Refused(c)
        PROVE crossed'
    BY <1>9 DEF ProviderAsked, PmModelCleared, ModelAsked, Refused
  <1>10. ASSUME NEW c \in Changes, ProviderChecked(c) \/ TerminalAsked(c)
        PROVE crossed'
    BY <1>10, <1>1, <1>2 DEF ProviderChecked, TerminalAsked
  <1>11. ASSUME NEW c \in Changes, PmModelAsked(c) \/ ModelCommandAsked(c)
        PROVE crossed'
    BY <1>11, <1>1, <1>2 DEF PmModelAsked, ModelCommandAsked
  <1>12. ASSUME NEW model, SubmitPmModelUnselected(model)
        PROVE crossed'
    BY <1>12 DEF SubmitPmModelUnselected
  <1>13. ASSUME NEW model, TerminalModel(model)
        PROVE crossed'
    BY <1>13, <1>1 DEF TerminalModel
  <1> QED
    BY <1>4, <1>5, <1>6, <1>7, <1>8, <1>9, <1>10, <1>11, <1>12, <1>13 DEF SettingsNext

LEMMA AgreementStep == AgreementKept /\ [SettingsNext]_settingsVars => AgreementKept'
  <1> SUFFICES ASSUME AgreementKept, [SettingsNext]_settingsVars PROVE AgreementKept'
    OBVIOUS
  <1> SUFFICES ASSUME ~crossed, ~crossed', PmAgrees, ChangesKnown, SelectedFirst
               PROVE  (PmAgrees /\ ChangesKnown /\ SelectedFirst)'
    BY CrossedStays DEF AgreementKept
  <1> DEFINE Goal == (PmAgrees /\ ChangesKnown /\ SelectedFirst)'
  <1>a. WholeSettings(global) /\ (created => registered)
    BY DEF PmAgrees
  <1>b. listed \subseteq Providers
    BY DEF ChangesKnown
  <1>1. CASE UNCHANGED settingsVars
    BY <1>1, UntouchedAgrees, ChangesUntouched DEF settingsVars
  <1>2. CASE BootActivates
    <2>1. Activated(global, global.defaultProvider) /\ UNCHANGED <<change, listed>>
      BY <1>2 DEF BootActivates, Activated
    <2> QED
      BY <1>a, <2>1, ActivatedAgrees, ChangesUntouched
  <1>3. CASE BootSelects
    BY <1>3, UntouchedAgrees, ChangesUntouched DEF BootSelects
  <1>4. CASE BootPrompts
    BY <1>4, UntouchedAgrees, ChangesUntouched DEF BootPrompts
  <1>5. CASE BootAutoSelects
    <2>1. PICK provider \in listed :
            \/ Activated([global EXCEPT !.defaultProvider = provider], provider)
            \/ ActivationFailed(global, registered)
            \/ UNCHANGED <<global, pmVars, crossed>>
      BY <1>5 DEF BootAutoSelects
    <2>2. UNCHANGED <<listed, change, overtaken>>
      BY <1>5 DEF BootAutoSelects
    <2>3. provider # None
      BY <1>b, NoneIsNoProvider
    <2>4. CASE Activated([global EXCEPT !.defaultProvider = provider], provider)
      <3> DEFINE settings == [global EXCEPT !.defaultProvider = provider]
      <3>1. WholeSettings(settings) /\ settings.defaultProvider = provider /\ Activated(settings, provider)
        BY <1>a, <2>4, WholeDefault
      <3> HIDE DEF settings
      <3> QED
        BY <1>a, <2>2, <2>3, <3>1, ActivatedAgrees, ChangesUntouched
    <2>5. CASE ActivationFailed(global, registered)
      BY <2>2, <2>5, FailedAgrees, ChangesUntouched
    <2>6. CASE UNCHANGED <<global, pmVars, crossed>>
      BY <2>2, <2>6, UntouchedAgrees, ChangesUntouched
    <2> QED
      BY <2>1, <2>4, <2>5, <2>6
  <1>6. ASSUME NEW c \in Changes, NEW provider \in Providers, NEW from \in Sources,
               SelectProvider(c, provider, from)
        PROVE Goal
    <2> DEFINE record == [at |-> "asking", key |-> "defaultProvider", provider |-> provider, from |-> from]
    <2>1. /\ Begin(c, record)
          /\ record.provider \in Providers /\ record.key # "primaryAgentModel" /\ record.at = "asking"
      BY <1>6 DEF SelectProvider
    <2> HIDE DEF record
    <2>2. (ChangesKnown /\ SelectedFirst)' /\ UNCHANGED <<global, pmVars, crossed, overtaken>>
      BY <2>1, ChangeBegins
    <2> QED
      BY <2>2, UntouchedAgrees
  <1>7. ASSUME NEW c \in Changes, NEW provider \in Providers, NEW model, SubmitModel(c, provider, model)
        PROVE Goal
    <2> DEFINE record == [at |-> "asking", key |-> "models", provider |-> provider, model |-> model]
    <2>1. /\ Begin(c, record) /\ record.at = "asking"
          /\ record.key # "primaryAgentModel" /\ record.key # "defaultProvider"
      BY <1>7 DEF SubmitModel
    <2> HIDE DEF record
    <2>2. (ChangesKnown /\ SelectedFirst)' /\ UNCHANGED <<global, pmVars, crossed, overtaken>>
      BY <2>1, ChangeBegins
    <2> QED
      BY <2>2, UntouchedAgrees
  <1>8. ASSUME NEW c \in Changes, NEW model, SubmitPmModel(c, model)
        PROVE Goal
    <2> DEFINE record == [at |-> "asking", key |-> "primaryAgentModel", provider |-> global.defaultProvider,
                          model |-> model]
    <2>1. /\ Begin(c, record) /\ record.at = "asking"
          /\ record.key # "defaultProvider" /\ global.defaultProvider # None
      BY <1>8 DEF SubmitPmModel
    <2> HIDE DEF record
    <2>2. (ChangesKnown /\ SelectedFirst)' /\ UNCHANGED <<global, pmVars, crossed, overtaken>>
      BY <2>1, ChangeBegins
    <2> QED
      BY <2>2, UntouchedAgrees
  <1>9. ASSUME NEW c \in Changes, NEW model, ModelCommand(c, model)
        PROVE Goal
    <2> DEFINE record == [at |-> "asking", key |-> "command", provider |-> global.defaultProvider,
                          model |-> model]
    <2>1. /\ Begin(c, record) /\ record.at = "asking"
          /\ record.key # "primaryAgentModel" /\ record.key # "defaultProvider"
      BY <1>9 DEF ModelCommand
    <2> HIDE DEF record
    <2>2. (ChangesKnown /\ SelectedFirst)' /\ UNCHANGED <<global, pmVars, crossed, overtaken>>
      BY <2>1, ChangeBegins
    <2> QED
      BY <2>2, UntouchedAgrees
  <1>10. ASSUME NEW c \in Changes, ProviderAsked(c)
         PROVE Goal
    <2>1. UNCHANGED <<global, pmVars, crossed, overtaken>>
      BY <1>10 DEF ProviderAsked
    <2>2. ChangesKnown' /\ SelectedFirst'
      BY <1>10 DEF ProviderAsked, ChangesKnown, SelectedFirst
    <2> QED
      BY <2>1, <2>2, UntouchedAgrees
  <1>11. ASSUME NEW c \in Changes, ProviderChecked(c)
         PROVE Goal
    <2> DEFINE provider == change[c].provider
               settings == [global EXCEPT !.defaultProvider = change[c].provider]
    <2>1. provider # None
      BY <1>11, NoneIsNoProvider DEF ProviderChecked, ChangesKnown
    <2>2. WholeSettings(settings) /\ settings.defaultProvider = provider
      BY <1>a, WholeDefault
    <2>3. Activated(settings, provider) \/ ActivationFailed(change[c].before, change[c].wasRegistered)
      BY <1>11 DEF ProviderChecked
    <2>4. Ends(c) /\ UNCHANGED overtaken
      BY <1>11 DEF ProviderChecked
    <2> HIDE DEF provider, settings
    <2>5. CASE Activated(settings, provider)
      BY <1>a, <2>1, <2>2, <2>4, <2>5, ActivatedAgrees, ChangeEnds
    <2>6. CASE ActivationFailed(change[c].before, change[c].wasRegistered)
      BY <2>4, <2>6, FailedAgrees, ChangeEnds
    <2> QED
      BY <2>3, <2>5, <2>6
  <1>12. ASSUME NEW c \in Changes, TerminalAsked(c)
         PROVE Goal
    <2> DEFINE provider == change[c].provider
               settings == [global EXCEPT !.defaultProvider = change[c].provider]
    <2>1. provider # None
      BY <1>12, NoneIsNoProvider DEF TerminalAsked, ChangesKnown
    <2>2. WholeSettings(settings) /\ settings.defaultProvider = provider
      BY <1>a, WholeDefault
    <2>3. Activated(settings, provider) /\ Ends(c)
      BY <1>12 DEF TerminalAsked
    <2> HIDE DEF provider, settings
    <2> QED
      BY <1>a, <2>1, <2>2, <2>3, ActivatedAgrees, ChangeEnds
  <1>13. ASSUME NEW c \in Changes, PmModelCleared(c)
         PROVE Goal
    <2> DEFINE settings == [global EXCEPT !.primaryAgentModel = None]
    <2>1. WholeSettings(settings) /\ settings.defaultProvider = global.defaultProvider
      BY <1>a, WholePmModel
    <2>2. Persist(settings) /\ Ends(c) /\ UNCHANGED overtaken
      BY <1>13 DEF PmModelCleared
    <2> HIDE DEF settings
    <2> QED
      BY <2>1, <2>2, PersistAgrees, ChangeEnds
  <1>14. ASSUME NEW c \in Changes, PmModelAsked(c)
         PROVE Goal
    <2> DEFINE settings == [global EXCEPT !.primaryAgentModel = change[c].model]
    <2>1. WholeSettings(settings) /\ settings.defaultProvider = global.defaultProvider
      BY <1>a, WholePmModel
    <2>2. Ends(c) /\ UNCHANGED overtaken
      BY <1>14 DEF PmModelAsked
    <2>3. global.defaultProvider # None
      BY <1>14 DEF PmModelAsked, SelectedFirst
    <2>4. CASE StillDefault(change[c].provider)
      <3>1. Activated(settings, change[c].provider) \/ ActivationFailed(global, registered)
        BY <1>14, <2>4 DEF PmModelAsked
      <3>2. change[c].provider = global.defaultProvider
        BY <2>3, <2>4 DEF StillDefault
      <3> HIDE DEF settings
      <3>3. CASE Activated(settings, change[c].provider)
        BY <1>a, <2>1, <2>2, <3>2, <3>3, ActivatedAgrees, ChangeEnds
      <3>4. CASE ActivationFailed(global, registered)
        BY <2>2, <3>4, FailedAgrees, ChangeEnds
      <3> QED
        BY <3>1, <3>3, <3>4
    <2>5. CASE ~StillDefault(change[c].provider)
      <3>1. Persist(settings)
        BY <1>14, <2>5 DEF PmModelAsked
      <3> HIDE DEF settings
      <3> QED
        BY <2>1, <2>2, <3>1, PersistAgrees, ChangeEnds
    <2> QED
      BY <2>4, <2>5
  <1>15. ASSUME NEW c \in Changes, ModelAsked(c)
         PROVE Goal
    <2> DEFINE settings == [global EXCEPT !.models[change[c].provider] = change[c].model]
    <2>1. WholeSettings(settings) /\ settings.defaultProvider = global.defaultProvider
      BY <1>a, WholeModels
    <2>2. Persist(settings) /\ Ends(c) /\ UNCHANGED overtaken
      BY <1>15 DEF ModelAsked
    <2> HIDE DEF settings
    <2> QED
      BY <2>1, <2>2, PersistAgrees, ChangeEnds
  <1>16. ASSUME NEW c \in Changes, ModelCommandAsked(c)
         PROVE Goal
    <2> DEFINE settings == [global EXCEPT !.models[change[c].provider] = change[c].model]
    <2>1. WholeSettings(settings) /\ settings.defaultProvider = global.defaultProvider
      BY <1>a, WholeModels
    <2>2. Ends(c)
      BY <1>16 DEF ModelCommandAsked
    <2>3. \/ /\ Activated(settings, change[c].provider)
             /\ overtaken' = (change[c].provider # global.defaultProvider)
          \/ ActivationFailed(global, registered) /\ UNCHANGED overtaken
      BY <1>16 DEF ModelCommandAsked
    <2> HIDE DEF settings
    <2>4. CASE /\ Activated(settings, change[c].provider)
               /\ overtaken' = (change[c].provider # global.defaultProvider)
      <3>1. settings.defaultProvider = change[c].provider \/ overtaken'
        BY <2>1, <2>4
      <3>2. PmAgrees' /\ global'.defaultProvider = settings.defaultProvider
        BY <1>a, <2>1, <2>4, <3>1, ActivatedAgrees
      <3> QED
        BY <2>1, <2>2, <3>2, ChangeEnds
    <2>5. CASE ActivationFailed(global, registered) /\ UNCHANGED overtaken
      BY <2>2, <2>5, FailedAgrees, ChangeEnds
    <2> QED
      BY <2>3, <2>4, <2>5
  <1>17. ASSUME NEW c \in Changes, Refused(c)
         PROVE Goal
    BY <1>17, UntouchedAgrees, ChangeEnds DEF Refused
  <1>18. ASSUME NEW model, SubmitPmModelUnselected(model)
         PROVE Goal
    <2> DEFINE settings == [global EXCEPT !.primaryAgentModel = model]
    <2>1. WholeSettings(settings) /\ settings.defaultProvider = global.defaultProvider
      BY <1>a, WholePmModel
    <2>2. Persist(settings) /\ UNCHANGED <<overtaken, change, listed>>
      BY <1>18 DEF SubmitPmModelUnselected, AtOnce
    <2> HIDE DEF settings
    <2> QED
      BY <2>1, <2>2, PersistAgrees, ChangesUntouched
  <1>19. ASSUME NEW model, TerminalModel(model)
         PROVE Goal
    <2> DEFINE settings == [global EXCEPT !.primaryAgentModel = model]
    <2>1. WholeSettings(settings) /\ settings.defaultProvider = global.defaultProvider
      BY <1>a, WholePmModel
    <2>2. UNCHANGED <<overtaken, change, listed>>
      BY <1>19 DEF TerminalModel, AtOnce
    <2>3. Activated(settings, global.defaultProvider) \/ Persist(settings)
      BY <1>19 DEF TerminalModel
    <2> HIDE DEF settings
    <2> QED
      BY <1>a, <2>1, <2>2, <2>3, ActivatedAgrees, PersistAgrees, ChangesUntouched
  <1> QED
    BY <1>1, <1>2, <1>3, <1>4, <1>5, <1>6, <1>7, <1>8, <1>9, <1>10, <1>11, <1>12, <1>13, <1>14,
       <1>15, <1>16, <1>17, <1>18, <1>19 DEF SettingsNext

\* Whatever changes of provider and model overlap, fail and are put back, the
\* PM that is active is the selected one, runs with the model that is stored
\* unless it was not told of it, and receives the messages of its channel.
THEOREM PmIsTheSelected == SettingsSpec => []SettingsAndPmAgree
  <1>1. AgreementKept => SettingsAndPmAgree
    BY DEF AgreementKept, PmAgrees, SettingsAndPmAgree
  <1> QED
    BY <1>1, AgreementStarts, AgreementStep, PTL DEF SettingsSpec

-----------------------------------------------------------------------------
(* ProjectSettings: the models that are stored are those asked for.         *)

\* A row that is there is whole.
RowWhole ==
    row # Absent =>
        /\ row = [defaultProvider |-> row.defaultProvider, models |-> row.models,
                  reasoning |-> row.reasoning, baseBranch |-> row.baseBranch]
        /\ row.models = [p \in ProjectProviders |-> row.models[p]]

EditsThere == edit = [e \in Edits |-> edit[e]]

\* A model is asked for, and a provider asked whether it is available.
Asking(e) == edit[e].at = "asking" /\ edit[e].what \in {"model", "command"}

\* A model the panel asks a provider about is that of a provider it offers.
PanelAsks ==
    \A e \in Edits :
        (edit[e].at = "asking" /\ edit[e].what = "model") => edit[e].provider \in ProjectProviders

\* No two changes have one number.
EditsNumbered ==
    /\ editsBegun \in Nat
    /\ \A e \in Edits : edit[e] # NoEdit => edit[e].n \in 1..editsBegun
    /\ \A e, f \in Edits : e # f /\ edit[e] # NoEdit /\ edit[f] # NoEdit => edit[e].n # edit[f].n

AsksNumbered ==
    /\ \A a \in asks : a.n \in 1..editsBegun
    /\ \A a, b \in asks : a.n = b.n => a = b

\* A change in flight is what was asked for, and what was asked for later was
\* asked for beside it.
AsksStand ==
    \A e \in Edits : edit[e] # NoEdit =>
        /\ Asking(e) => \E a \in asks : a.n = edit[e].n /\ a.provider = edit[e].provider /\ a.model = edit[e].model
        /\ ~Asking(e) => \A a \in asks : a.n # edit[e].n
        /\ \A b \in asks : b.n > edit[e].n => edit[e].n \in b.beside

EditsKept == EditsThere /\ PanelAsks /\ EditsNumbered /\ AsksNumbered /\ AsksStand

ChoicesKept == RowWhole /\ EditsKept /\ ModelsAreTheChosen

LEMMA ChoicesStart == ProjectSettingsInit => ChoicesKept
  <1> SUFFICES ASSUME ProjectSettingsInit PROVE ChoicesKept
    OBVIOUS
  <1>1. RowWhole
    BY DEF ProjectSettingsInit, RowWhole, Registered, Unchosen
  <1>2. EditsKept
    BY DEF ProjectSettingsInit, EditsKept, EditsThere, PanelAsks, EditsNumbered, AsksNumbered, AsksStand, NoEdit
  <1>3. ModelsAreTheChosen
    BY DEF ProjectSettingsInit, ModelsAreTheChosen, AskedLast, Done, Registered, Unchosen
  <1> QED
    BY <1>1, <1>2, <1>3 DEF ChoicesKept

\* The changes in flight after one is begun, and after one has ended.
LEMMA FlightBegins ==
    ASSUME NEW e \in Edits, NEW record, EditsThere, BeginEdit(e, record), record # NoEdit
    PROVE  InFlight' = InFlight \cup {record.n}
  <1>1. edit[e] = NoEdit /\ edit'[e] = record /\ \A f \in Edits : f # e => edit'[f] = edit[f]
    BY DEF BeginEdit, EditsThere
  <1> QED
    BY <1>1 DEF InFlight

LEMMA FlightEnds ==
    ASSUME NEW e \in Edits, EditsThere, EditsNumbered, edit[e] # NoEdit, EndEdit(e)
    PROVE  InFlight' = InFlight \ {edit[e].n}
  <1>1. edit'[e] = NoEdit /\ \A f \in Edits : f # e => edit'[f] = edit[f]
    BY DEF EndEdit, EditsThere
  <1> QED
    BY <1>1 DEF InFlight, EditsNumbered

\* The number of the next change is nobody's.
LEMMA NextIsNew ==
    ASSUME EditsNumbered, AsksNumbered
    PROVE  NextNumber \notin InFlight /\ \A a \in asks : a.n # NextNumber /\ a.n < NextNumber
  BY DEF EditsNumbered, AsksNumbered, InFlight, NextNumber

\* A change that asks for no model is begun.
LEMMA OtherBegins ==
    ASSUME NEW e \in Edits, NEW record, EditsKept, BeginEdit(e, record), record # NoEdit, record.n = NextNumber,
           ~(record.at = "asking" /\ record.what \in {"model", "command"}), UNCHANGED asks
    PROVE  EditsKept' /\ \A p : Done(p)' = Done(p)
  <1> USE DEF EditsKept
  <1>1. edit[e] = NoEdit /\ edit'[e] = record /\ editsBegun' = editsBegun + 1
        /\ \A f \in Edits : f # e => edit'[f] = edit[f]
    BY DEF BeginEdit, EditsThere
  <1>2. EditsThere'
    BY DEF BeginEdit, EditsThere
  <1>3. PanelAsks'
    BY <1>1 DEF PanelAsks
  <1>4. EditsNumbered'
    BY <1>1 DEF EditsNumbered, NextNumber
  <1>5. AsksNumbered'
    BY <1>1 DEF EditsNumbered, AsksNumbered
  <1>6. AsksStand'
    BY <1>1, NextIsNew DEF AsksStand, Asking, AsksNumbered, EditsNumbered, NextNumber
  <1>7. \A p : Done(p)' = Done(p)
    BY FlightBegins, NextIsNew DEF Done
  <1> QED
    BY <1>2, <1>3, <1>4, <1>5, <1>6, <1>7

\* A model is asked for.
LEMMA AskBegins ==
    ASSUME NEW e \in Edits, NEW record, NEW provider, NEW model, EditsKept, BeginEdit(e, record), record # NoEdit,
           record.n = NextNumber, record.at = "asking", record.what \in {"model", "command"},
           record.provider = provider, record.model = model,
           record.what = "model" => provider \in ProjectProviders, Ask(provider, model)
    PROVE  EditsKept' /\ \A p : Done(p)' = Done(p)
  <1> USE DEF EditsKept
  <1> DEFINE new == [n |-> NextNumber, provider |-> provider, model |-> model, beside |-> InFlight]
  <1>1. edit[e] = NoEdit /\ edit'[e] = record /\ editsBegun' = editsBegun + 1
        /\ \A f \in Edits : f # e => edit'[f] = edit[f]
    BY DEF BeginEdit, EditsThere
  <1>a. asks' = asks \cup {new}
    BY DEF Ask
  <1>b. new.n = NextNumber /\ new.provider = provider /\ new.model = model /\ new.beside = InFlight
    OBVIOUS
  <1> HIDE DEF new
  <1>2. EditsThere'
    BY DEF BeginEdit, EditsThere
  <1>3. PanelAsks'
    BY <1>1 DEF PanelAsks
  <1>4. EditsNumbered'
    BY <1>1 DEF EditsNumbered, NextNumber
  <1>5. AsksNumbered'
    BY <1>1, <1>a, <1>b, NextIsNew DEF EditsNumbered, AsksNumbered, NextNumber
  <1>6. AsksStand'
    <2> SUFFICES ASSUME NEW f \in Edits, edit'[f] # NoEdit
                 PROVE  /\ Asking(f)' => \E a \in asks' : a.n = edit'[f].n /\ a.provider = edit'[f].provider
                                                          /\ a.model = edit'[f].model
                        /\ ~Asking(f)' => \A a \in asks' : a.n # edit'[f].n
                        /\ \A b \in asks' : b.n > edit'[f].n => edit'[f].n \in b.beside
      BY DEF AsksStand
    <2>1. CASE f = e
      <3>1. Asking(f)' /\ edit'[f] = record
        BY <1>1, <2>1 DEF Asking
      <3>2. \A b \in asks' : ~(b.n > record.n)
        BY <1>a, <1>b, NextIsNew DEF NextNumber, EditsNumbered, AsksNumbered
      <3> QED
        BY <3>1, <3>2, <1>a, <1>b
    <2>2. CASE f # e
      <3>1. edit'[f] = edit[f] /\ (Asking(f)' <=> Asking(f)) /\ edit[f].n \in InFlight
        BY <1>1, <2>2 DEF Asking, InFlight
      <3>2. edit[f].n # NextNumber
        BY <3>1, NextIsNew
      <3> QED
        BY <3>1, <3>2, <1>a, <1>b DEF AsksStand
    <2> QED
      BY <2>1, <2>2
  <1>7. \A p : Done(p)' = Done(p)
    BY <1>a, <1>b, FlightBegins, NextIsNew DEF Done
  <1> QED
    BY <1>2, <1>3, <1>4, <1>5, <1>6, <1>7

\* A change ends; what it asked for counts, or is forgotten.
LEMMA ProjectEditEnds ==
    ASSUME NEW e \in Edits, EditsKept, edit[e] # NoEdit, EndEdit(e), UNCHANGED editsBegun,
           (UNCHANGED asks) \/ Forget(e)
    PROVE  EditsKept'
  <1> USE DEF EditsKept
  <1>1. edit'[e] = NoEdit /\ \A f \in Edits : f # e => edit'[f] = edit[f]
    BY DEF EndEdit, EditsThere
  <1>2. asks' \subseteq asks /\ \A a \in asks : a.n # edit[e].n => a \in asks'
    BY DEF Forget
  <1>3. EditsThere'
    BY DEF EndEdit, EditsThere
  <1>4. PanelAsks'
    BY <1>1 DEF PanelAsks, NoEdit
  <1>5. EditsNumbered'
    BY <1>1 DEF EditsNumbered
  <1>6. AsksNumbered'
    BY <1>2 DEF AsksNumbered
  <1>7. AsksStand'
    BY <1>1, <1>2 DEF AsksStand, Asking, EditsNumbered
  <1> QED
    BY <1>3, <1>4, <1>5, <1>6, <1>7

\* One that asked for nothing, or is forgotten, leaves what has been done.
LEMMA NothingDone ==
    ASSUME NEW e \in Edits, EditsKept, edit[e] # NoEdit, EndEdit(e),
           (~Asking(e) /\ UNCHANGED asks) \/ Forget(e)
    PROVE  \A p : Done(p)' = Done(p)
  <1>1. InFlight' = InFlight \ {edit[e].n} /\ edit[e].n \in InFlight
    BY FlightEnds DEF EditsKept, InFlight
  <1>2. CASE ~Asking(e) /\ UNCHANGED asks
    BY <1>1, <1>2 DEF Done, EditsKept, AsksStand
  <1>3. CASE Forget(e)
    BY <1>1, <1>3 DEF Done, Forget
  <1> QED
    BY <1>2, <1>3

\* One that is stored as the provider's own is what was asked for last.
LEMMA AskIsDone ==
    ASSUME NEW e \in Edits, EditsKept, Asking(e), edit[e] # NoEdit, EndEdit(e), UNCHANGED asks,
           NEW provider, NEW model, edit[e].provider = provider, edit[e].model = model
    PROVE  /\ \A p : p # provider => Done(p)' = Done(p)
           /\ AskedLast(provider, model)'
  <1> USE DEF EditsKept
  <1>1. InFlight' = InFlight \ {edit[e].n}
    BY FlightEnds
  <1>2. PICK a \in asks : a.n = edit[e].n /\ a.provider = provider /\ a.model = model
    BY DEF AsksStand
  <1>3. \A b \in asks : b.n = edit[e].n => b = a
    BY <1>2 DEF AsksNumbered
  <1>4. \A p : p # provider => Done(p)' = Done(p)
    BY <1>1, <1>2, <1>3 DEF Done
  <1>5. a \in Done(provider)' /\ \A b \in asks : b.n > a.n => a.n \in b.beside
    BY <1>1, <1>2 DEF Done, AsksStand
  <1>6. \A b \in Done(provider)' : b \in asks
    BY DEF Done
  <1> QED
    BY <1>2, <1>4, <1>5, <1>6 DEF AskedLast

\* A model that is asked for and stored at once.
LEMMA AskAtOnce ==
    ASSUME NEW provider, NEW model, EditsKept, Ask(provider, model), NextNumber \notin InFlight',
           \A a \in asks : a.n \in InFlight' <=> a.n \in InFlight
    PROVE  /\ \A p : p # provider => Done(p)' = Done(p)
           /\ AskedLast(provider, model)'
  <1> USE DEF EditsKept
  <1> DEFINE new == [n |-> NextNumber, provider |-> provider, model |-> model, beside |-> InFlight]
  <1>1. asks' = asks \cup {new}
    BY DEF Ask
  <1>2. new.n = NextNumber /\ new.provider = provider /\ new.model = model
    OBVIOUS
  <1> HIDE DEF new
  <1>3. new \in Done(provider)'
    BY <1>1, <1>2 DEF Done
  <1>4. \A b \in asks' : ~(b.n > new.n)
    BY <1>1, <1>2, NextIsNew DEF NextNumber, EditsNumbered, AsksNumbered
  <1>5. \A b \in Done(provider)' : b \in asks'
    BY DEF Done
  <1>6. AskedLast(provider, model)'
    BY <1>2, <1>3, <1>4, <1>5 DEF AskedLast
  <1> QED
    BY <1>1, <1>2, <1>6 DEF Done

\* What asking at once leaves of the changes in flight.
LEMMA AtOnceKeeps ==
    ASSUME NEW provider, NEW model, EditsKept, Ask(provider, model), editsBegun' = editsBegun + 1,
           \/ UNCHANGED edit
           \/ \E e \in Edits : EndEdit(e)
    PROVE  EditsKept'
  <1> USE DEF EditsKept
  <1> DEFINE new == [n |-> NextNumber, provider |-> provider, model |-> model, beside |-> InFlight]
  <1>1. asks' = asks \cup {new}
    BY DEF Ask
  <1>2. new.n = NextNumber /\ new.beside = InFlight
    OBVIOUS
  <1> HIDE DEF new
  <1>3. \A f \in Edits : edit'[f] = edit[f] \/ edit'[f] = NoEdit
    BY DEF EndEdit, EditsThere
  <1>4. EditsThere'
    BY DEF EndEdit, EditsThere
  <1>5. PanelAsks'
    BY <1>3 DEF PanelAsks, NoEdit
  <1>6. EditsNumbered'
    BY <1>3 DEF EditsNumbered
  <1>7. AsksNumbered'
    BY <1>1, <1>2, NextIsNew DEF EditsNumbered, AsksNumbered, NextNumber
  <1>8. AsksStand'
    <2> SUFFICES ASSUME NEW f \in Edits, edit'[f] # NoEdit
                 PROVE  /\ Asking(f)' => \E a \in asks' : a.n = edit'[f].n /\ a.provider = edit'[f].provider
                                                          /\ a.model = edit'[f].model
                        /\ ~Asking(f)' => \A a \in asks' : a.n # edit'[f].n
                        /\ \A b \in asks' : b.n > edit'[f].n => edit'[f].n \in b.beside
      BY DEF AsksStand
    <2>1. edit'[f] = edit[f] /\ (Asking(f)' <=> Asking(f)) /\ edit[f].n \in InFlight
      BY <1>3 DEF Asking, InFlight
    <2>2. edit[f].n # NextNumber
      BY <2>1, NextIsNew
    <2> QED
      BY <2>1, <2>2, <1>1, <1>2 DEF AsksStand
  <1> QED
    BY <1>4, <1>5, <1>6, <1>7, <1>8

\* The row after a model was stored.
LEMMA RowStored ==
    ASSUME NEW key, NEW model, RowWhole, row # Absent, StoreModel(key, model)
    PROVE  /\ RowWhole' /\ row' # Absent
           /\ \A p \in ProjectProviders : row'.models[p] = IF p = key THEN model ELSE row.models[p]
  <1> DEFINE p0 == row.defaultProvider
             s == row.models
             r == row.reasoning
             b == row.baseBranch
  <1>1. row = [defaultProvider |-> p0, models |-> s, reasoning |-> r, baseBranch |-> b]
    BY DEF RowWhole
  <1>2. s = [p \in ProjectProviders |-> s[p]]
    BY DEF RowWhole
  <1>3. row' = [row EXCEPT !.models[key] = model]
    BY DEF StoreModel
  <1> HIDE DEF p0, s, r, b
  <1>4. row' = [defaultProvider |-> p0, models |-> [s EXCEPT ![key] = model], reasoning |-> r, baseBranch |-> b]
    BY <1>1, <1>3
  <1>5. row'.models = [s EXCEPT ![key] = model] /\ row.models = s
    BY <1>1, <1>4
  <1>6. \A p \in ProjectProviders : row'.models[p] = IF p = key THEN model ELSE row.models[p]
    BY <1>2, <1>5
  <1>7. row'.models = [p \in ProjectProviders |-> row'.models[p]]
    BY <1>2, <1>5
  <1>8. RowWhole'
    BY <1>4, <1>7 DEF RowWhole
  <1>9. row' # Absent
    BY <1>4 DEF Absent
  <1> QED
    BY <1>6, <1>8, <1>9

\* Nothing is stored for an archived project.
LEMMA NoRowStored ==
    ASSUME row = Absent, UNCHANGED row
    PROVE  RowWhole' /\ ModelsAreTheChosen'
  BY DEF RowWhole, ModelsAreTheChosen

\* A model that is stored as its provider's own.
LEMMA OwnStored ==
    ASSUME NEW provider, NEW model, RowWhole, ModelsAreTheChosen, row # Absent,
           StoreModel(provider, model), Filed(provider),
           \A p : p # provider => Done(p)' = Done(p), AskedLast(provider, model)'
    PROVE  RowWhole' /\ ModelsAreTheChosen'
  <1>1. RowWhole' /\ \A p \in ProjectProviders : row'.models[p] = IF p = provider THEN model ELSE row.models[p]
    BY RowStored
  <1>2. misfiled' = misfiled \ {provider}
    BY DEF Filed
  <1> SUFFICES ASSUME NEW p \in ProjectProviders PROVE (p \in misfiled)' \/ AskedLast(p, row.models[p])'
    BY <1>1 DEF ModelsAreTheChosen
  <1>3. CASE p = provider
    BY <1>1, <1>3
  <1>4. CASE p # provider
    <2>1. row'.models[p] = row.models[p] /\ Done(p)' = Done(p) /\ (p \in misfiled => p \in misfiled')
      BY <1>1, <1>2, <1>4
    <2>2. p \in misfiled \/ AskedLast(p, row.models[p])
      BY DEF ModelsAreTheChosen
    <2> QED
      BY <2>1, <2>2 DEF AskedLast
  <1> QED
    BY <1>3, <1>4

\* A model the panel stores.
LEMMA PanelStored ==
    ASSUME NEW provider \in ProjectProviders, NEW model, RowWhole, ModelsAreTheChosen, row # Absent,
           PanelStores(provider, model),
           \A p : p # provider => Done(p)' = Done(p), AskedLast(provider, model)'
    PROVE  RowWhole' /\ ModelsAreTheChosen'
  <1>1. CASE provider # "opencode"
    <2>1. PanelKey(provider) = provider
      BY <1>1, ProjectSettingsAssumption DEF PanelKey
    <2> QED
      BY <1>1, <2>1, OwnStored DEF PanelStores
  <1>2. CASE provider = "opencode"
    <2>1. StoreModel("codex", model) /\ misfiled' = misfiled \cup {"codex", "opencode"}
      BY <1>2 DEF PanelStores, PanelKey
    <2>2. RowWhole' /\ \A p \in ProjectProviders : row'.models[p] = IF p = "codex" THEN model ELSE row.models[p]
      BY <2>1, RowStored
    <2> SUFFICES ASSUME NEW p \in ProjectProviders, p \notin misfiled' PROVE AskedLast(p, row.models[p])'
      BY <2>2 DEF ModelsAreTheChosen
    <2>3. row'.models[p] = row.models[p] /\ Done(p)' = Done(p) /\ p \notin misfiled
      BY <1>2, <2>1, <2>2
    <2> QED
      BY <2>3 DEF ModelsAreTheChosen, AskedLast
  <1> QED
    BY <1>1, <1>2

\* What leaves the models and the asks as they were.
LEMMA NothingStored ==
    ASSUME RowWhole, ModelsAreTheChosen, UNCHANGED <<row, misfiled>>, \A p : Done(p)' = Done(p)
    PROVE  (RowWhole /\ ModelsAreTheChosen)'
  BY DEF RowWhole, ModelsAreTheChosen, AskedLast

LEMMA OtherFieldStored ==
    ASSUME RowWhole, ModelsAreTheChosen, UNCHANGED misfiled, \A p : Done(p)' = Done(p), row # Absent,
           NEW value,
           \/ row' = [row EXCEPT !.defaultProvider = value]
           \/ row' = [row EXCEPT !.reasoning = value]
           \/ row' = [row EXCEPT !.baseBranch = value]
    PROVE  (RowWhole /\ ModelsAreTheChosen)'
  <1> DEFINE p0 == row.defaultProvider
             s == row.models
             r == row.reasoning
             b == row.baseBranch
  <1>1. row = [defaultProvider |-> p0, models |-> s, reasoning |-> r, baseBranch |-> b]
        /\ s = [p \in ProjectProviders |-> s[p]]
    BY DEF RowWhole
  <1> HIDE DEF p0, s, r, b
  <1>2. \E q, t, c : row' = [defaultProvider |-> q, models |-> s, reasoning |-> t, baseBranch |-> c]
    BY <1>1
  <1>3. row'.models = row.models /\ RowWhole'
    BY <1>1, <1>2 DEF RowWhole
  <1> QED
    BY <1>3 DEF ModelsAreTheChosen, AskedLast

LEMMA EditsUntouched ==
    ASSUME EditsKept, UNCHANGED <<edit, asks>>, editsBegun' = editsBegun \/ editsBegun' = editsBegun + 1
    PROVE  EditsKept' /\ \A p : Done(p)' = Done(p)
  <1> USE DEF EditsKept
  <1>1. EditsThere' /\ PanelAsks' /\ AsksStand'
    BY DEF EditsThere, PanelAsks, AsksStand, Asking
  <1>2. EditsNumbered' /\ AsksNumbered'
    BY DEF EditsNumbered, AsksNumbered
  <1>3. \A p : Done(p)' = Done(p)
    BY DEF Done, InFlight
  <1> QED
    BY <1>1, <1>2, <1>3

LEMMA ChoicesStep == ChoicesKept /\ [ProjectSettingsNext]_projectSettingsVars => ChoicesKept'
  <1> SUFFICES ASSUME ChoicesKept, [ProjectSettingsNext]_projectSettingsVars PROVE ChoicesKept'
    OBVIOUS
  <1> USE DEF ChoicesKept
  <1>1. CASE UNCHANGED projectSettingsVars
    BY <1>1, NothingStored, EditsUntouched DEF projectSettingsVars
  <1>2. ASSUME NEW e \in Edits, NEW provider \in ProjectProviders, SelectProjectProvider(e, provider)
        PROVE ChoicesKept'
    <2> DEFINE record == [at |-> "asking", n |-> NextNumber, what |-> "provider", provider |-> provider]
    <2>1. BeginEdit(e, record) /\ record.what \notin {"model", "command"} /\ record.at = "asking"
          /\ record.n = NextNumber /\ UNCHANGED asks
      BY <1>2 DEF SelectProjectProvider
    <2> HIDE DEF record
    <2>2. record # NoEdit
      BY <2>1 DEF NoEdit
    <2>3. UNCHANGED <<row, misfiled>>
      BY <2>1 DEF BeginEdit
    <2> QED
      BY <2>1, <2>2, <2>3, OtherBegins, NothingStored
  <1>3. ASSUME NEW e \in Edits, NEW provider \in ProjectProviders,
               NEW model \in ProjectModels \cup {Unset}, SelectProjectModel(e, provider, model)
        PROVE ChoicesKept'
    <2> DEFINE record == [at |-> "asking", n |-> NextNumber, what |-> "model", provider |-> provider, model |-> model]
    <2>1. BeginEdit(e, record) /\ record.what = "model" /\ record.at = "asking" /\ record.n = NextNumber
          /\ record.provider = provider /\ record.model = model /\ Ask(provider, model)
      BY <1>3 DEF SelectProjectModel
    <2> HIDE DEF record
    <2>2. record # NoEdit /\ record.what \in {"model", "command"}
      BY <2>1 DEF NoEdit
    <2>3. UNCHANGED <<row, misfiled>>
      BY <2>1 DEF BeginEdit
    <2>4. EditsKept' /\ \A p : Done(p)' = Done(p)
      BY <2>1, <2>2, AskBegins
    <2> QED
      BY <2>3, <2>4, NothingStored
  <1>4. ASSUME NEW e \in Edits, NEW model \in ProjectModels \cup {Unset}, ProjectModelCommand(e, model)
        PROVE ChoicesKept'
    <2> DEFINE provider == row.defaultProvider
               record == [at |-> "asking", n |-> NextNumber, what |-> "command", provider |-> provider, model |-> model]
    <2>1. BeginEdit(e, record) /\ record.what = "command" /\ record.at = "asking" /\ record.n = NextNumber
          /\ record.provider = provider /\ record.model = model /\ Ask(provider, model)
      BY <1>4 DEF ProjectModelCommand
    <2> HIDE DEF record, provider
    <2>2. record # NoEdit /\ record.what \in {"model", "command"} /\ record.what # "model"
      BY <2>1 DEF NoEdit
    <2>3. UNCHANGED <<row, misfiled>>
      BY <2>1 DEF BeginEdit
    <2>4. EditsKept' /\ \A p : Done(p)' = Done(p)
      BY <2>1, <2>2, AskBegins
    <2> QED
      BY <2>3, <2>4, NothingStored
  <1>5. ASSUME NEW e \in Edits, PickClaudeModel(e)
        PROVE ChoicesKept'
    <2> DEFINE record == [at |-> "picking", n |-> NextNumber]
    <2>1. BeginEdit(e, record) /\ record.at = "picking" /\ record.n = NextNumber /\ UNCHANGED asks
      BY <1>5 DEF PickClaudeModel
    <2> HIDE DEF record
    <2>2. record # NoEdit /\ record.at # "asking"
      BY <2>1 DEF NoEdit
    <2>3. UNCHANGED <<row, misfiled>>
      BY <2>1 DEF BeginEdit
    <2> QED
      BY <2>1, <2>2, <2>3, OtherBegins, NothingStored
  <1>6. ASSUME NEW e \in Edits, ProjectModelAsked(e)
        PROVE ChoicesKept'
    <2>1. edit[e] # NoEdit /\ Asking(e) /\ edit[e].provider \in ProjectProviders
      BY <1>6 DEF ProjectModelAsked, Asking, NoEdit, EditsKept, PanelAsks
    <2>2. EndEdit(e) /\ Unrefused(e) /\ UNCHANGED editsBegun /\ PanelStores(edit[e].provider, edit[e].model)
      BY <1>6 DEF ProjectModelAsked
    <2>3. EditsKept'
      BY <2>1, <2>2, ProjectEditEnds DEF Unrefused
    <2>4. CASE row = Absent
      BY <2>2, <2>3, <2>4, NoRowStored DEF PanelStores, StoreModel
    <2>5. CASE row # Absent
      <3>1. UNCHANGED asks
        BY <2>2, <2>5 DEF Unrefused
      <3>2. PICK provider, model : edit[e].provider = provider /\ edit[e].model = model
        OBVIOUS
      <3>3. (\A p : p # provider => Done(p)' = Done(p)) /\ AskedLast(provider, model)'
        BY <2>1, <2>2, <3>1, <3>2, AskIsDone
      <3> QED
        BY <2>1, <2>2, <2>3, <2>5, <3>2, <3>3, PanelStored
    <2> QED
      BY <2>4, <2>5
  <1>7. ASSUME NEW e \in Edits, ProjectModelCommandAsked(e)
        PROVE ChoicesKept'
    <2>1. edit[e] # NoEdit /\ Asking(e)
      BY <1>7 DEF ProjectModelCommandAsked, Asking, NoEdit
    <2>2. EndEdit(e) /\ Unrefused(e) /\ UNCHANGED editsBegun
          /\ StoreModel(edit[e].provider, edit[e].model) /\ Filed(edit[e].provider)
      BY <1>7 DEF ProjectModelCommandAsked
    <2>3. EditsKept'
      BY <2>1, <2>2, ProjectEditEnds DEF Unrefused
    <2>4. CASE row = Absent
      BY <2>2, <2>3, <2>4, NoRowStored DEF StoreModel
    <2>5. CASE row # Absent
      <3>1. UNCHANGED asks
        BY <2>2, <2>5 DEF Unrefused
      <3>2. PICK provider, model : edit[e].provider = provider /\ edit[e].model = model
        OBVIOUS
      <3>3. (\A p : p # provider => Done(p)' = Done(p)) /\ AskedLast(provider, model)'
        BY <2>1, <2>2, <3>1, <3>2, AskIsDone
      <3> QED
        BY <2>1, <2>2, <2>3, <2>5, <3>2, <3>3, OwnStored
    <2> QED
      BY <2>4, <2>5
  <1>8. ASSUME NEW e \in Edits, NEW model \in ProjectModels \cup {Unset}, ClaudeModelPicked(e, model)
        PROVE ChoicesKept'
    <2>1. edit[e] # NoEdit /\ ~Asking(e)
      BY <1>8 DEF ClaudeModelPicked, Asking, NoEdit
    <2>2. EndEdit(e) /\ editsBegun' = editsBegun + 1 /\ StoreModel("claude", model) /\ Filed("claude")
      BY <1>8 DEF ClaudeModelPicked
    <2>3. InFlight' = InFlight \ {edit[e].n} /\ \A a \in asks : a.n # edit[e].n
      BY <2>1, <2>2, FlightEnds DEF EditsKept, AsksStand
    <2>4. CASE row = Absent
      <3>1. UNCHANGED asks
        BY <1>8, <2>4 DEF ClaudeModelPicked
      <3>2. EditsKept'
        <4> USE DEF EditsKept
        <4>1. edit'[e] = NoEdit /\ \A f \in Edits : f # e => edit'[f] = edit[f]
          BY <2>2 DEF EndEdit, EditsThere
        <4>2. EditsThere'
          BY <2>2 DEF EndEdit, EditsThere
        <4>3. PanelAsks'
          BY <4>1 DEF PanelAsks, NoEdit
        <4>4. EditsNumbered'
          BY <2>2, <4>1 DEF EditsNumbered
        <4>5. AsksNumbered'
          BY <2>2, <3>1 DEF AsksNumbered, EditsNumbered
        <4>6. AsksStand'
          BY <3>1, <4>1 DEF AsksStand, Asking
        <4> QED
          BY <4>2, <4>3, <4>4, <4>5, <4>6
      <3> QED
        BY <2>2, <2>4, <3>2, NoRowStored DEF StoreModel
    <2>5. CASE row # Absent
      <3>1. Ask("claude", model)
        BY <1>8, <2>5 DEF ClaudeModelPicked
      <3>2. EditsKept'
        BY <2>2, <3>1, AtOnceKeeps
      <3>3. NextNumber \notin InFlight' /\ \A a \in asks : a.n \in InFlight' <=> a.n \in InFlight
        BY <2>3, NextIsNew DEF EditsKept
      <3>4. (\A p : p # "claude" => Done(p)' = Done(p)) /\ AskedLast("claude", model)'
        BY <3>1, <3>3, AskAtOnce
      <3> QED
        BY <2>2, <2>5, <3>2, <3>4, OwnStored
    <2> QED
      BY <2>4, <2>5
  <1>9. ASSUME NEW e \in Edits, ProjectProviderAsked(e)
        PROVE ChoicesKept'
    <2>1. edit[e] # NoEdit /\ ~Asking(e)
      BY <1>9 DEF ProjectProviderAsked, Asking, NoEdit
    <2>2. EndEdit(e) /\ UNCHANGED <<editsBegun, asks, misfiled>>
      BY <1>9 DEF ProjectProviderAsked
    <2>3. EditsKept' /\ \A p : Done(p)' = Done(p)
      BY <2>1, <2>2, ProjectEditEnds, NothingDone
    <2>4. CASE row = Absent
      BY <1>9, <2>3, <2>4 DEF ProjectProviderAsked, RowWhole, ModelsAreTheChosen
    <2>5. CASE row # Absent
      <3>1. row' = [row EXCEPT !.defaultProvider = edit[e].provider]
        BY <1>9, <2>5 DEF ProjectProviderAsked
      <3>2. PICK provider : edit[e].provider = provider
        OBVIOUS
      <3> QED
        BY <2>2, <2>3, <2>5, <3>1, <3>2, OtherFieldStored
    <2> QED
      BY <2>4, <2>5
  <1>10. ASSUME NEW e \in Edits, EditRefused(e)
         PROVE ChoicesKept'
    <2>1. edit[e] # NoEdit /\ EndEdit(e) /\ Forget(e) /\ UNCHANGED <<row, editsBegun, misfiled>>
      BY <1>10 DEF EditRefused
    <2> QED
      BY <2>1, ProjectEditEnds, NothingDone, NothingStored
  <1>11. ASSUME NEW provider \in ProjectProviders, ClearProjectModel(provider)
         PROVE ChoicesKept'
    <2>1. Ask(provider, Unset) /\ PanelStores(provider, Unset) /\ editsBegun' = editsBegun + 1
          /\ UNCHANGED edit /\ row # Absent
      BY <1>11 DEF ClearProjectModel, EditAtOnce, MayEdit
    <2>2. EditsKept'
      BY <2>1, AtOnceKeeps
    <2>3. InFlight' = InFlight
      BY <2>1 DEF InFlight
    <2>4. (\A p : p # provider => Done(p)' = Done(p)) /\ AskedLast(provider, Unset)'
      BY <2>1, <2>3, NextIsNew, AskAtOnce DEF EditsKept
    <2> QED
      BY <2>1, <2>2, <2>4, PanelStored
  <1>12. ASSUME NEW provider \in ProjectProviders, RegisterProject(provider)
         PROVE ChoicesKept'
    <2>1. RowWhole'
      BY <1>12 DEF RegisterProject, Registered, Unchosen, RowWhole
    <2>2. asks' = {a \in asks : a.n \in InFlight} /\ UNCHANGED <<edit, editsBegun>>
      BY <1>12 DEF RegisterProject
    <2>3. EditsKept'
      <3> USE DEF EditsKept
      <3>1. EditsThere' /\ PanelAsks'
        BY <2>2 DEF EditsThere, PanelAsks
      <3>2. EditsNumbered' /\ AsksNumbered'
        BY <2>2 DEF EditsNumbered, AsksNumbered
      <3>3. \A e \in Edits : edit[e] # NoEdit => edit[e].n \in InFlight
        BY DEF InFlight
      <3>4. AsksStand'
        BY <2>2, <3>3 DEF AsksStand, Asking
      <3> QED
        BY <3>1, <3>2, <3>4
    <2>4. \A p : Done(p)' = {}
      BY <2>2 DEF Done, InFlight
    <2>5. \A p \in ProjectProviders : row'.models[p] = Unset
      BY <1>12 DEF RegisterProject, Registered, Unchosen
    <2>6. ModelsAreTheChosen'
      BY <2>4, <2>5 DEF ModelsAreTheChosen, AskedLast
    <2> QED
      BY <2>1, <2>3, <2>6
  <1>13. ASSUME NEW effort, SetReasoning(effort)
         PROVE ChoicesKept'
    BY <1>13, EditsUntouched, OtherFieldStored DEF SetReasoning, EditAtOnce, MayEdit
  <1>14. ASSUME NEW branch, SetBaseBranch(branch)
         PROVE ChoicesKept'
    BY <1>14, EditsUntouched, OtherFieldStored DEF SetBaseBranch, EditAtOnce, MayEdit
  <1>15. ASSUME NEW name, SetMcpProfile(name)
         PROVE ChoicesKept'
    BY <1>15, EditsUntouched, NothingStored DEF SetMcpProfile, EditAtOnce
  <1>16. CASE ArchiveProject
    <2>1. RowWhole' /\ ModelsAreTheChosen'
      BY <1>16 DEF ArchiveProject, RowWhole, ModelsAreTheChosen
    <2> QED
      BY <1>16, <2>1, EditsUntouched DEF ArchiveProject
  <1> QED
    BY <1>1, <1>2, <1>3, <1>4, <1>5, <1>6, <1>7, <1>8, <1>9, <1>10, <1>11, <1>12, <1>13, <1>14,
       <1>15, <1>16 DEF ProjectSettingsNext

\* Whatever the panel, the modal, the picker and the command are asked, in any
\* overlap and whatever becomes of the project meanwhile, the model that is
\* stored for a provider is the one the owner asked for last, until the panel
\* stores a model of OpenCode's as Codex's and where it has not done so since.
THEOREM ChoicesAreStored == ProjectSettingsSpec => []ModelsAreTheChosen
  <1>1. ChoicesKept => ModelsAreTheChosen
    BY DEF ChoicesKept
  <1> QED
    BY <1>1, ChoicesStart, ChoicesStep, PTL DEF ProjectSettingsSpec

-----------------------------------------------------------------------------
(* The PM chat: a proposal is with one message or line at a time, or was     *)
(* launched, and what may be launched next has been agreed to.               *)

AllProposals == [id : Nat, provider : ChatProviders \cup {Open}, portfolio : BOOLEAN, fast : BOOLEAN]
AllCapabilities == {NoCapability, "fast-forward", "github"}
LaunchRecords == [proposal : AllProposals, capability : AllCapabilities, provider : ChatProviders]

Granted(work, given) ==
    /\ work.capability \in AllCapabilities
    /\ [proposal |-> work.proposal, capability |-> work.capability] \in given
    /\ work.proposal.portfolio => work.capability \in CapabilitiesFor(work.proposal.fast)

\* A message or line that has a proposal.
Holding(work) == work.at \in {"offered", "authorizing", "confirming", "starting", "launching", "seeding"}

\* ... of those made so far, with what was given.
WorkOK(work, made, given) ==
    Holding(work) =>
        /\ work.proposal \in AllProposals /\ work.proposal.id <= made
        /\ work.at = "authorizing" => work.proposal.portfolio
        /\ work.at = "offered" => ~work.proposal.portfolio
        /\ work.at = "starting" => Granted(work, given)
        /\ work.at = "launching" => [proposal |-> work.proposal, capability |-> NoCapability] \in given
        /\ work.at = "seeding" =>
              /\ Granted(work, given) /\ work.provider \in ChatProviders
              /\ work.capability # NoCapability => work.provider = "claude"

LaunchOK(l, made, given) ==
    /\ l.proposal.id <= made
    /\ [proposal |-> l.proposal, capability |-> l.capability] \in given
    /\ l.capability # NoCapability => l.provider = "claude"
    /\ l.proposal.portfolio => l.capability \in CapabilitiesFor(l.proposal.fast)

Apart(work, proposal) == Holding(work) => work.proposal # proposal

ChatInv ==
    /\ chat = [m \in Messages |-> chat[m]]
    /\ proposed \in Nat /\ chatProject \in ChatProviders \cup {Gone}
    /\ launches \in Seq(LaunchRecords)
    /\ WorkOK(term, proposed, consent) /\ \A m \in Messages : WorkOK(chat[m], proposed, consent)
    /\ \A m, n \in Messages : m # n /\ Holding(chat[m]) => Apart(chat[n], chat[m].proposal)
    /\ \A m \in Messages : Holding(chat[m]) => Apart(term, chat[m].proposal)
    /\ \A i \in DOMAIN launches :
          /\ LaunchOK(launches[i], proposed, consent)
          /\ Apart(term, launches[i].proposal)
          /\ \A m \in Messages : Apart(chat[m], launches[i].proposal)
    /\ \A i, j \in DOMAIN launches : launches[i].proposal = launches[j].proposal => i = j

\* What is known of a proposal stays true as more are made and agreed to.
LEMMA OldOK ==
    ASSUME NEW made \in Nat, NEW more \in Nat, made <= more, NEW given, NEW now, given \subseteq now
    PROVE  /\ \A work : WorkOK(work, made, given) => WorkOK(work, more, now)
           /\ \A l \in LaunchRecords : LaunchOK(l, made, given) => LaunchOK(l, more, now)
  <1>1. \A id \in Nat : id <= made => id <= more
    OBVIOUS
  <1>2. \A work : Granted(work, given) => Granted(work, now)
    BY DEF Granted
  <1>3. ASSUME NEW work, WorkOK(work, made, given) PROVE WorkOK(work, more, now)
    <2>1. Holding(work) => work.proposal.id \in Nat
      BY <1>3 DEF WorkOK, AllProposals
    <2> QED
      BY <1>1, <1>2, <1>3, <2>1 DEF WorkOK
  <1>4. ASSUME NEW l \in LaunchRecords, LaunchOK(l, made, given) PROVE LaunchOK(l, more, now)
    <2>1. l.proposal.id \in Nat
      BY DEF LaunchRecords, AllProposals
    <2> QED
      BY <1>1, <1>4, <2>1 DEF LaunchOK
  <1> QED
    BY <1>3, <1>4

\* The work has the proposal its place had before, or a new one.
Continues(work, before) ==
    Holding(work) => (Holding(before) /\ work.proposal = before.proposal)
                     \/ (work.proposal.id \in Nat /\ work.proposal.id = proposed + 1)

LEMMA NewIsApart ==
    ASSUME ChatInv, NEW proposal, proposal.id \in Nat, proposal.id = proposed + 1
    PROVE  /\ Apart(term, proposal)
           /\ \A m \in Messages : Apart(chat[m], proposal)
           /\ \A i \in DOMAIN launches : launches[i].proposal # proposal
  <1>1. \A other : other.id \in Nat /\ other.id <= proposed => other # proposal
    BY DEF ChatInv
  <1>2. \A work : WorkOK(work, proposed, consent) => Apart(work, proposal)
    BY <1>1 DEF WorkOK, AllProposals, Apart
  <1>3. ASSUME NEW i \in DOMAIN launches PROVE launches[i].proposal # proposal
    <2>1. launches[i] \in LaunchRecords /\ LaunchOK(launches[i], proposed, consent)
      BY DEF ChatInv
    <2> QED
      BY <1>1, <2>1 DEF LaunchRecords, AllProposals, LaunchOK
  <1> QED
    BY <1>2, <1>3 DEF ChatInv

LEMMA LaunchesAre ==
    ASSUME ChatInv, NEW i \in DOMAIN launches
    PROVE  launches[i] \in LaunchRecords
  BY DEF ChatInv

LEMMA ChatChanges ==
    ASSUME ChatInv, NEW m \in Messages, NEW work, chat' = [chat EXCEPT ![m] = work],
           UNCHANGED <<term, launches>>, proposed' \in Nat, proposed <= proposed', consent \subseteq consent',
           chatProject' \in ChatProviders \cup {Gone}, WorkOK(work, proposed', consent'), Continues(work, chat[m])
    PROVE  ChatInv'
  <1>1. /\ chat' = [n \in Messages |-> chat'[n]] /\ chat'[m] = work
        /\ \A n \in Messages : n # m => chat'[n] = chat[n]
    BY DEF ChatInv
  <1>2. /\ WorkOK(term, proposed', consent') /\ \A n \in Messages : WorkOK(chat'[n], proposed', consent')
        /\ \A i \in DOMAIN launches : LaunchOK(launches[i], proposed', consent')
    <2>1. proposed \in Nat
      BY DEF ChatInv
    <2>2. /\ \A w : WorkOK(w, proposed, consent) => WorkOK(w, proposed', consent')
          /\ \A l \in LaunchRecords : LaunchOK(l, proposed, consent) => LaunchOK(l, proposed', consent')
      BY <2>1, OldOK
    <2>3. \A n \in Messages : n # m => WorkOK(chat'[n], proposed', consent')
      BY <1>1, <2>2 DEF ChatInv
    <2> QED
      BY <1>1, <2>2, <2>3, LaunchesAre DEF ChatInv
  <1>3. Holding(work) => /\ Apart(term, work.proposal)
                         /\ \A n \in Messages : n # m => Apart(chat[n], work.proposal)
                         /\ \A i \in DOMAIN launches : launches[i].proposal # work.proposal
    BY NewIsApart DEF Continues, ChatInv, Apart
  <1>4. \A n \in Messages : n # m /\ Holding(chat[n]) => Apart(work, chat[n].proposal)
    BY <1>3 DEF Apart
  <1>5. \A x, y \in Messages : x # y /\ Holding(chat'[x]) => Apart(chat'[y], chat'[x].proposal)
    BY <1>1, <1>3, <1>4 DEF ChatInv
  <1>6. \A n \in Messages : Holding(chat'[n]) => Apart(term, chat'[n].proposal)
    BY <1>1, <1>3 DEF ChatInv
  <1>7. \A i \in DOMAIN launches : \A n \in Messages : Apart(chat'[n], launches[i].proposal)
    BY <1>1, <1>3 DEF ChatInv, Apart
  <1> QED
    BY <1>1, <1>2, <1>5, <1>6, <1>7 DEF ChatInv, Holding, Apart

LEMMA TermChanges ==
    ASSUME ChatInv, UNCHANGED <<chat, launches>>, proposed' \in Nat, proposed <= proposed',
           consent \subseteq consent', chatProject' \in ChatProviders \cup {Gone}, WorkOK(term', proposed', consent'),
           Continues(term', term)
    PROVE  ChatInv'
  <1>1. /\ \A n \in Messages : WorkOK(chat[n], proposed', consent')
        /\ \A i \in DOMAIN launches : LaunchOK(launches[i], proposed', consent')
    <2>1. proposed \in Nat
      BY DEF ChatInv
    <2>2. /\ \A w : WorkOK(w, proposed, consent) => WorkOK(w, proposed', consent')
          /\ \A l \in LaunchRecords : LaunchOK(l, proposed, consent) => LaunchOK(l, proposed', consent')
      BY <2>1, OldOK
    <2> QED
      BY <2>2, LaunchesAre DEF ChatInv
  <1>2. Holding(term') => /\ \A n \in Messages : Apart(chat[n], term'.proposal)
                          /\ \A i \in DOMAIN launches : launches[i].proposal # term'.proposal
    BY NewIsApart DEF Continues, ChatInv, Apart
  <1>3. /\ \A n \in Messages : Holding(chat[n]) => Apart(term', chat[n].proposal)
        /\ \A i \in DOMAIN launches : Apart(term', launches[i].proposal)
    BY <1>2 DEF Apart
  <1> QED
    BY <1>1, <1>3 DEF ChatInv, Holding, Apart

LEMMA Released ==
    ASSUME ChatInv, NEW m \in Messages, NEW work, ~Holding(work), chat' = [chat EXCEPT ![m] = work],
           UNCHANGED <<chatProject, term, proposed, consent, launches>>
    PROVE  ChatInv'
  <1>1. proposed' \in Nat /\ proposed <= proposed' /\ consent \subseteq consent'
        /\ chatProject' \in ChatProviders \cup {Gone}
    BY DEF ChatInv
  <1>2. WorkOK(work, proposed', consent') /\ Continues(work, chat[m])
    BY DEF WorkOK, Continues
  <1> QED
    BY <1>1, <1>2, ChatChanges

LEMMA QuietHolds == ~Holding(Quiet)
  BY DEF Holding, Quiet

LEMMA ThinkingOK ==
    ASSUME ChatInv, NEW m \in Messages,
           \/ \E explicit \in BOOLEAN : Receive(m, explicit)
           \/ Replies(m) \/ AsksDecision(m) \/ (\E who \in Users : Decide(m, who)) \/ Lapses(m) \/ TaskFails(m)
    PROVE  ChatInv'
  <1>1. PICK work : chat' = [chat EXCEPT ![m] = work] /\ ~Holding(work)
    <2>1. ASSUME NEW explicit \in BOOLEAN, Receive(m, explicit)
          PROVE  \E work : chat' = [chat EXCEPT ![m] = work] /\ ~Holding(work)
      <3> DEFINE w == [at |-> "thinking", explicit |-> explicit, follows |-> FALSE]
      <3>1. chat' = [chat EXCEPT ![m] = w] /\ ~Holding(w)
        BY <2>1 DEF Receive, Holding
      <3> QED
        BY <3>1
    <2>2. ASSUME NEW who \in Users, Decide(m, who)
          PROVE  \E work : chat' = [chat EXCEPT ![m] = work] /\ ~Holding(work)
      <3> DEFINE w == [at |-> "thinking", explicit |-> FALSE, follows |-> TRUE]
      <3>1. chat' = [chat EXCEPT ![m] = w] /\ ~Holding(w)
        BY <2>2 DEF Decide, Holding
      <3> QED
        BY <3>1
    <2>3. CASE AsksDecision(m)
      <3> DEFINE w == [at |-> "deciding"]
      <3>1. chat' = [chat EXCEPT ![m] = w] /\ ~Holding(w)
        BY <2>3 DEF AsksDecision, Holding
      <3> QED
        BY <3>1
    <2>4. CASE Replies(m) \/ Lapses(m) \/ TaskFails(m)
      BY <2>4, QuietHolds DEF Replies, Lapses, TaskFails
    <2> QED
      BY <2>1, <2>2, <2>3, <2>4
  <1>2. UNCHANGED <<chatProject, term, proposed, consent, launches>>
    BY DEF Receive, Replies, AsksDecision, Decide, Lapses, TaskFails
  <1> QED
    BY <1>1, <1>2, Released

\* A proposal is one that was not made before.
LEMMA ProposalIsNew ==
    ASSUME ChatInv, NEW proposal \in Proposals, proposed' = proposal.id
    PROVE  /\ proposal \in AllProposals /\ proposal.id = proposed + 1 /\ proposal.id \in Nat
           /\ proposed' \in Nat /\ proposed <= proposed' /\ proposal.id <= proposed'
  <1>1. PICK n \in Nat : n = proposed
    BY DEF ChatInv
  <1>2. proposal.id = n + 1 /\ proposal.id \in Nat
    BY <1>1 DEF Proposals
  <1>3. n <= n + 1 /\ n + 1 <= n + 1
    BY <1>1
  <1>4. proposal \in AllProposals
    BY <1>2 DEF Proposals, AllProposals
  <1> QED
    BY <1>1, <1>2, <1>3, <1>4

LEMMA ProposesPortfolioOK ==
    ASSUME ChatInv, NEW m \in Messages, NEW proposal \in Proposals, ProposesPortfolio(m, proposal)
    PROVE  ChatInv'
  <1>1. PICK work \in {[at |-> "authorizing", proposal |-> proposal], Quiet} : chat' = [chat EXCEPT ![m] = work]
    BY DEF ProposesPortfolio
  <1>2. UNCHANGED <<chatProject, term, consent, launches>> /\ proposed' = proposal.id /\ proposal.portfolio
    BY DEF ProposesPortfolio
  <1>3. WorkOK(work, proposed', consent') /\ Continues(work, chat[m])
    BY <1>1, <1>2, ProposalIsNew, QuietHolds DEF WorkOK, Holding, Continues
  <1>4. chatProject' \in ChatProviders \cup {Gone}
    BY <1>2 DEF ChatInv
  <1> QED
    BY <1>1, <1>2, <1>3, <1>4, ProposalIsNew, ChatChanges

LEMMA ProposesOK ==
    ASSUME ChatInv, NEW m \in Messages, NEW proposal \in Proposals, Proposes(m, proposal)
    PROVE  ChatInv'
  <1>1. UNCHANGED <<chatProject, term, launches>> /\ proposed' = proposal.id /\ ~proposal.portfolio
        /\ consent \subseteq consent'
    BY DEF Proposes, Agrees
  <1>2. PICK work : chat' = [chat EXCEPT ![m] = work] /\ work.proposal = proposal
           /\ \/ work = [at |-> "offered", proposal |-> proposal]
              \/ /\ work = [at |-> "starting", proposal |-> proposal, capability |-> NoCapability]
                 /\ [proposal |-> proposal, capability |-> NoCapability] \in consent'
    <2>1. CASE chat[m].explicit
      BY <2>1 DEF Proposes, Agrees
    <2>2. CASE ~chat[m].explicit
      BY <2>2 DEF Proposes
    <2> QED
      BY <2>1, <2>2
  <1>3. WorkOK(work, proposed', consent') /\ Continues(work, chat[m])
    BY <1>1, <1>2, ProposalIsNew DEF WorkOK, Continues, Granted, Holding, AllCapabilities
  <1>4. chatProject' \in ChatProviders \cup {Gone}
    BY <1>1 DEF ChatInv
  <1> QED
    BY <1>1, <1>2, <1>3, <1>4, ProposalIsNew, ChatChanges

\* The owner's click.
LEMMA ClicksOK ==
    ASSUME ChatInv, NEW m \in Messages, NEW who \in Users, ClickStart(m, who) \/ SelectCapability(m, who)
    PROVE  ChatInv'
  <1>1. UNCHANGED <<chatProject, term, launches, proposed>> /\ who = Owner
        /\ Holding(chat[m]) /\ WorkOK(chat[m], proposed, consent)
    BY DEF ClickStart, SelectCapability, TakesClick, ChatInv, Holding
  <1>2. PICK capability \in AllCapabilities :
           /\ chat' = [chat EXCEPT ![m] = [at |-> "starting", proposal |-> chat[m].proposal, capability |-> capability]]
           /\ consent' = consent \cup {[proposal |-> chat[m].proposal, capability |-> capability]}
           /\ chat[m].proposal.portfolio => capability \in CapabilitiesFor(chat[m].proposal.fast)
    <2>1. CASE ClickStart(m, who)
      <3>1. ~chat[m].proposal.portfolio
        BY <1>1, <2>1 DEF ClickStart, WorkOK
      <3> QED
        BY <1>1, <2>1, <3>1 DEF ClickStart, Agrees, AllCapabilities
    <2>2. CASE SelectCapability(m, who)
      BY <1>1, <2>2 DEF SelectCapability, Agrees, AllCapabilities, CapabilitiesFor
    <2> QED
      BY <2>1, <2>2
  <1>3. PICK work : work = [at |-> "starting", proposal |-> chat[m].proposal, capability |-> capability]
    OBVIOUS
  <1>4. proposed' \in Nat /\ proposed <= proposed' /\ chatProject' \in ChatProviders \cup {Gone}
    BY <1>1 DEF ChatInv
  <1>5. WorkOK(work, proposed', consent')
    BY <1>1, <1>2, <1>3 DEF WorkOK, Granted, Holding
  <1>6. Continues(work, chat[m])
    BY <1>1, <1>3 DEF Continues
  <1>7. chat' = [chat EXCEPT ![m] = work] /\ consent \subseteq consent'
    BY <1>2, <1>3
  <1> QED
    BY <1>1, <1>4, <1>5, <1>6, <1>7, ChatChanges

LEMMA ProviderIsOne ==
    ASSUME ChatInv, NEW proposal \in AllProposals, chatProject # Gone
    PROVE  ProviderOf(proposal) \in ChatProviders
  BY DEF ChatInv, ProviderOf, AllProposals

LEMMA LaunchKeeps ==
    ASSUME ChatInv, NEW m \in Messages, Launch(m)
    PROVE  ChatInv'
  <1>1. UNCHANGED <<chatProject, term, proposed, consent, launches>> /\ chat[m].at = "starting"
    BY DEF Launch
  <1>2. CASE ~(chatProject # Gone /\ MayLaunch(chat[m].proposal, chat[m].capability))
    <2>1. chat' = [chat EXCEPT ![m] = Quiet]
      BY <1>2 DEF Launch
    <2> QED
      BY <1>1, <2>1, QuietHolds, Released
  <1>3. CASE chatProject # Gone /\ MayLaunch(chat[m].proposal, chat[m].capability)
    <2>1. PICK work : work = Seeding(chat[m].proposal, chat[m].capability)
      OBVIOUS
    <2>2. chat' = [chat EXCEPT ![m] = work]
      BY <1>3, <2>1 DEF Launch
    <2>3. Holding(chat[m]) /\ WorkOK(chat[m], proposed, consent)
      BY <1>1 DEF Holding, ChatInv
    <2>4. /\ work.at = "seeding" /\ work.proposal = chat[m].proposal /\ work.capability = chat[m].capability
          /\ work.provider = ProviderOf(chat[m].proposal)
      BY <2>1 DEF Seeding
    <2>5. chat[m].capability # NoCapability => work.provider = "claude"
      BY <1>3, <2>4 DEF MayLaunch
    <2>6. work.provider \in ChatProviders
      BY <1>3, <2>3, <2>4, ProviderIsOne DEF WorkOK
    <2>7. WorkOK(work, proposed', consent') /\ Continues(work, chat[m])
      BY <1>1, <2>3, <2>4, <2>5, <2>6 DEF WorkOK, Granted, Holding, Continues
    <2>8. proposed' \in Nat /\ proposed <= proposed' /\ chatProject' \in ChatProviders \cup {Gone}
          /\ consent \subseteq consent'
      BY <1>1 DEF ChatInv
    <2> QED
      BY <1>1, <2>2, <2>7, <2>8, ChatChanges
  <1> QED
    BY <1>2, <1>3

LEMMA LaunchAdded ==
    ASSUME NEW S, NEW ls \in Seq(S), NEW l \in S
    PROVE  \E k : /\ k \notin DOMAIN ls /\ DOMAIN Append(ls, l) = DOMAIN ls \cup {k}
                  /\ Append(ls, l) \in Seq(S) /\ Append(ls, l)[k] = l
                  /\ \A i \in DOMAIN ls : Append(ls, l)[i] = ls[i]
  <1>1. PICK n \in Nat : n = Len(ls) /\ DOMAIN ls = 1..n
    OBVIOUS
  <1>2. n + 1 \notin 1..n /\ 1..(n + 1) = 1..n \cup {n + 1}
    BY <1>1
  <1> QED
    BY <1>1, <1>2

\* A task that is started: what was held is held no more.
LEMMA StartedOK ==
    ASSUME ChatInv, NEW work, Holding(work), work.at = "seeding", WorkOK(work, proposed, consent), chatProject # Gone,
           Starts(work), UNCHANGED <<chatProject, proposed, consent>>,
           chat' = [m \in Messages |-> chat'[m]],
           \A m \in Messages : ~Holding(chat'[m]) \/ (chat'[m] = chat[m] /\ Apart(chat[m], work.proposal)),
           ~Holding(term') \/ (term' = term /\ Apart(term, work.proposal)),
           \A i \in DOMAIN launches : launches[i].proposal # work.proposal
    PROVE  ChatInv'
  <1> DEFINE l == [proposal |-> work.proposal, capability |-> work.capability, provider |-> work.provider]
  <1>1. l \in LaunchRecords /\ LaunchOK(l, proposed, consent) /\ l.proposal = work.proposal
    BY DEF WorkOK, Granted, LaunchRecords, LaunchOK
  <1>2. launches' = Append(launches, l) /\ launches \in Seq(LaunchRecords)
    BY DEF Starts, ChatInv
  <1> HIDE DEF l
  <1>3. PICK k : /\ k \notin DOMAIN launches /\ DOMAIN launches' = DOMAIN launches \cup {k}
                 /\ launches' \in Seq(LaunchRecords) /\ launches'[k] = l
                 /\ \A i \in DOMAIN launches : launches'[i] = launches[i]
    BY <1>1, <1>2, LaunchAdded
  <1>4. \A i \in DOMAIN launches' :
           /\ LaunchOK(launches'[i], proposed, consent)
           /\ Apart(term', launches'[i].proposal)
           /\ \A m \in Messages : Apart(chat'[m], launches'[i].proposal)
    BY <1>1, <1>3 DEF ChatInv, Apart
  <1>5. \A i, j \in DOMAIN launches' : launches'[i].proposal = launches'[j].proposal => i = j
    BY <1>1, <1>3 DEF ChatInv
  <1>6. WorkOK(term', proposed, consent) /\ \A m \in Messages : WorkOK(chat'[m], proposed, consent)
    BY DEF ChatInv, WorkOK
  <1>7. /\ \A m, n \in Messages : m # n /\ Holding(chat'[m]) => Apart(chat'[n], chat'[m].proposal)
        /\ \A m \in Messages : Holding(chat'[m]) => Apart(term', chat'[m].proposal)
    BY DEF ChatInv, Apart
  <1> QED
    BY <1>3, <1>4, <1>5, <1>6, <1>7 DEF ChatInv

LEMMA TaskStartsOK ==
    ASSUME ChatInv, NEW m \in Messages, TaskStarts(m)
    PROVE  ChatInv'
  <1>1. UNCHANGED <<chatProject, term, proposed, consent>> /\ Holding(chat[m]) /\ chat[m].at = "seeding"
        /\ Starts(chat[m]) /\ chat' = [chat EXCEPT ![m] = Quiet]
    BY DEF TaskStarts, Holding
  <1>2. CASE chatProject = Gone
    BY <1>1, <1>2, QuietHolds, Released DEF Starts
  <1>3. CASE chatProject # Gone
    <2>1. /\ chat' = [n \in Messages |-> chat'[n]] /\ chat'[m] = Quiet
          /\ \A n \in Messages : n # m => chat'[n] = chat[n]
      BY <1>1 DEF ChatInv
    <2>2. PICK work : work = chat[m]
      OBVIOUS
    <2>3. /\ \A n \in Messages : n # m => Apart(chat[n], work.proposal)
          /\ Apart(term, work.proposal)
          /\ \A i \in DOMAIN launches : launches[i].proposal # work.proposal
          /\ WorkOK(work, proposed, consent) /\ Holding(work) /\ work.at = "seeding" /\ Starts(work)
      BY <1>1, <2>2 DEF ChatInv, Apart
    <2>4. \A n \in Messages : ~Holding(chat'[n]) \/ (chat'[n] = chat[n] /\ Apart(chat[n], work.proposal))
      BY <2>1, <2>3, QuietHolds
    <2> QED
      BY <1>1, <1>3, <2>1, <2>3, <2>4, StartedOK
  <1> QED
    BY <1>2, <1>3

-----------------------------------------------------------------------------

LEMMA TermReleased ==
    ASSUME ChatInv, UNCHANGED <<chat, launches, proposed, consent>>, chatProject' \in ChatProviders \cup {Gone},
           ~Holding(term') \/ term' = term
    PROVE  ChatInv'
  <1>1. proposed' \in Nat /\ proposed <= proposed' /\ consent \subseteq consent'
    BY DEF ChatInv
  <1>2. WorkOK(term', proposed', consent') /\ Continues(term', term)
    BY DEF WorkOK, Continues, ChatInv
  <1> QED
    BY <1>1, <1>2, TermChanges

LEMMA LinesOK ==
    ASSUME ChatInv,
           (\E line \in Lines : Type(line)) \/ TakeText \/ TakeDecision \/ TerminalReplies \/ TerminalStops \/ ProjectChanges
    PROVE  ChatInv'
  <1>1. UNCHANGED <<chat, launches, proposed, consent>> /\ chatProject' \in ChatProviders \cup {Gone}
    BY DEF Type, TakeText, TakeDecision, Takes, TerminalReplies, TerminalStops, ProjectChanges, ChatInv
  <1>2. ~Holding(term') \/ term' = term
    BY DEF Type, TakeText, TakeDecision, Takes, TerminalReplies, TerminalStops, ProjectChanges, Holding, Quiet
  <1> QED
    BY <1>1, <1>2, TermReleased

LEMMA TakeChoiceOK == ChatInv /\ TakeChoice => ChatInv'
  <1> SUFFICES ASSUME ChatInv, TakeChoice PROVE ChatInv'
    OBVIOUS
  <1>1. UNCHANGED <<chat, launches, proposed, chatProject>> /\ term.at = "confirming"
        /\ chatProject' \in ChatProviders \cup {Gone}
    BY DEF TakeChoice, Takes, ChatInv
  <1>2. CASE UNCHANGED consent /\ (term' = Quiet \/ term' = term)
    BY <1>1, <1>2, QuietHolds, TermReleased
  <1>3. CASE term' = [at |-> "launching", proposal |-> term.proposal] /\ Agrees(term.proposal, NoCapability)
    <2>1. Holding(term) /\ WorkOK(term, proposed, consent)
      BY <1>1 DEF Holding, ChatInv
    <2>2. WorkOK(term', proposed', consent') /\ Continues(term', term)
      BY <1>1, <1>3, <2>1 DEF WorkOK, Continues, Holding, Agrees
    <2>3. consent \subseteq consent' /\ proposed' \in Nat /\ proposed <= proposed'
      BY <1>1, <1>3 DEF Agrees, ChatInv
    <2> QED
      BY <1>1, <2>2, <2>3, TermChanges
  <1> QED
    BY <1>2, <1>3 DEF TakeChoice, Takes

LEMMA TerminalProposesOK ==
    ASSUME ChatInv, NEW proposal \in Proposals, TerminalProposes(proposal)
    PROVE  ChatInv'
  <1>1. UNCHANGED <<chat, launches, chatProject>> /\ proposed' = proposal.id
        /\ chatProject' \in ChatProviders \cup {Gone}
    BY DEF TerminalProposes, ChatInv
  <1>2. /\ consent \subseteq consent' /\ term'.proposal = proposal
        /\ \/ term' = [at |-> "confirming", proposal |-> proposal]
           \/ /\ term' = [at |-> "launching", proposal |-> proposal]
              /\ [proposal |-> proposal, capability |-> NoCapability] \in consent'
    <2>1. CASE term.explicit
      BY <2>1 DEF TerminalProposes, Agrees
    <2>2. CASE ~term.explicit
      BY <2>2 DEF TerminalProposes
    <2> QED
      BY <2>1, <2>2
  <1>3. WorkOK(term', proposed', consent') /\ Continues(term', term)
    BY <1>1, <1>2, ProposalIsNew DEF WorkOK, Continues, Holding
  <1> QED
    BY <1>1, <1>2, <1>3, ProposalIsNew, TermChanges

LEMMA TerminalLaunchesOK == ChatInv /\ TerminalLaunches => ChatInv'
  <1> SUFFICES ASSUME ChatInv, TerminalLaunches PROVE ChatInv'
    OBVIOUS
  <1>1. UNCHANGED <<chat, launches, proposed, consent, chatProject>> /\ term.at = "launching"
        /\ chatProject' \in ChatProviders \cup {Gone}
    BY DEF TerminalLaunches, ChatInv
  <1>2. CASE ~(chatProject # Gone /\ ~term.proposal.portfolio)
    <2>1. term' = Quiet
      BY <1>2 DEF TerminalLaunches
    <2> QED
      BY <1>1, <2>1, QuietHolds, TermReleased
  <1>3. CASE chatProject # Gone /\ ~term.proposal.portfolio
    <2>1. /\ term'.at = "seeding" /\ term'.proposal = term.proposal /\ term'.capability = NoCapability
          /\ term'.provider = ProviderOf(term.proposal)
      BY <1>3 DEF TerminalLaunches, Seeding
    <2>2. Holding(term) /\ WorkOK(term, proposed, consent)
      BY <1>1 DEF Holding, ChatInv
    <2>3. term'.provider \in ChatProviders
      BY <1>3, <2>1, <2>2, ProviderIsOne DEF WorkOK
    <2>4. WorkOK(term', proposed', consent') /\ Continues(term', term)
      BY <1>1, <1>3, <2>1, <2>2, <2>3 DEF WorkOK, Granted, Holding, Continues, AllCapabilities
    <2>5. consent \subseteq consent' /\ proposed' \in Nat /\ proposed <= proposed'
      BY <1>1 DEF ChatInv
    <2> QED
      BY <1>1, <2>4, <2>5, TermChanges
  <1> QED
    BY <1>2, <1>3

LEMMA TerminalStartsOK == ChatInv /\ TerminalStarts => ChatInv'
  <1> SUFFICES ASSUME ChatInv, TerminalStarts PROVE ChatInv'
    OBVIOUS
  <1>1. UNCHANGED <<chatProject, chat, proposed, consent>> /\ Holding(term) /\ term.at = "seeding" /\ term' = Quiet
        /\ chatProject' \in ChatProviders \cup {Gone}
    BY DEF TerminalStarts, Holding, ChatInv
  <1>2. CASE UNCHANGED launches
    BY <1>1, <1>2, QuietHolds, TermReleased
  <1>3. CASE Starts(term) /\ chatProject # Gone
    <2>1. PICK work : work = term
      OBVIOUS
    <2>2. /\ \A n \in Messages : Apart(chat[n], work.proposal)
          /\ \A i \in DOMAIN launches : launches[i].proposal # work.proposal
          /\ WorkOK(work, proposed, consent) /\ Holding(work) /\ work.at = "seeding" /\ Starts(work)
          /\ chat' = [m \in Messages |-> chat'[m]]
      BY <1>1, <1>3, <2>1 DEF ChatInv, Apart
    <2>3. ~Holding(term')
      BY <1>1, QuietHolds
    <2>4. \A n \in Messages : ~Holding(chat'[n]) \/ (chat'[n] = chat[n] /\ Apart(chat[n], work.proposal))
      BY <1>1, <2>2
    <2> QED
      BY <1>1, <1>3, <2>2, <2>3, <2>4, StartedOK
  <1> QED
    BY <1>2, <1>3 DEF TerminalStarts, Starts

LEMMA ChatStep == ChatInv /\ [ChatNext]_chatVars => ChatInv'
  <1>1. ChatInv /\ UNCHANGED chatVars => ChatInv'
    BY DEF ChatInv, chatVars, Holding, Apart
  <1>2. ASSUME ChatInv, ChatNext PROVE ChatInv'
    <2>1. ASSUME NEW m \in Messages,
                 \/ \E explicit \in BOOLEAN : Receive(m, explicit)
                 \/ Replies(m) \/ AsksDecision(m)
                 \/ \E proposal \in Proposals : ProposesPortfolio(m, proposal) \/ Proposes(m, proposal)
                 \/ \E who \in Users : ClickStart(m, who) \/ SelectCapability(m, who) \/ Decide(m, who)
                 \/ Lapses(m) \/ Launch(m) \/ TaskStarts(m) \/ TaskFails(m)
          PROVE  ChatInv'
      <3>1. CASE \/ \E explicit \in BOOLEAN : Receive(m, explicit)
                 \/ Replies(m) \/ AsksDecision(m) \/ (\E who \in Users : Decide(m, who)) \/ Lapses(m) \/ TaskFails(m)
        BY <1>2, <3>1, ThinkingOK
      <3>2. CASE \E proposal \in Proposals : ProposesPortfolio(m, proposal) \/ Proposes(m, proposal)
        BY <1>2, <3>2, ProposesPortfolioOK, ProposesOK
      <3>3. CASE \E who \in Users : ClickStart(m, who) \/ SelectCapability(m, who)
        BY <1>2, <3>3, ClicksOK
      <3>4. CASE Launch(m) \/ TaskStarts(m)
        BY <1>2, <3>4, LaunchKeeps, TaskStartsOK
      <3> QED
        BY <2>1, <3>1, <3>2, <3>3, <3>4
    <2>2. CASE (\E line \in Lines : Type(line)) \/ TakeText \/ TakeDecision \/ TerminalReplies \/ TerminalStops
               \/ ProjectChanges
      BY <1>2, <2>2, LinesOK
    <2>3. CASE \E proposal \in Proposals : TerminalProposes(proposal)
      BY <1>2, <2>3, TerminalProposesOK
    <2>4. CASE TakeChoice \/ TerminalLaunches \/ TerminalStarts
      BY <1>2, <2>4, TakeChoiceOK, TerminalLaunchesOK, TerminalStartsOK
    <2> QED
      BY <1>2, <2>1, <2>2, <2>3, <2>4 DEF ChatNext
  <1> QED
    BY <1>1, <1>2

LEMMA ChatStart == ChatInit => ChatInv
  <1> SUFFICES ASSUME ChatInit PROVE ChatInv
    OBVIOUS
  <1>1. launches = <<>> /\ launches \in Seq(LaunchRecords) /\ DOMAIN launches = {}
    BY DEF ChatInit
  <1>2. chat = [m \in Messages |-> Quiet] /\ term = Quiet /\ proposed = 0 /\ chatProject \in ChatProviders
    BY DEF ChatInit
  <1>3. \A m \in Messages : chat[m] = Quiet
    BY <1>2
  <1>4. ~Holding(term) /\ \A m \in Messages : ~Holding(chat[m])
    BY <1>2, <1>3, QuietHolds
  <1> QED
    BY <1>1, <1>2, <1>4 DEF ChatInv, WorkOK, Apart

LEMMA AgreedTo == ChatInv => LaunchIsAuthorized
  BY DEF ChatInv, LaunchIsAuthorized, LaunchOK

(* primaryAgentService.ts and repl.ts: for any messages, users, providers and *)
(* number of proposals, a task is started once for a proposal and with what   *)
(* the owner agreed to for it.                                                *)
THEOREM LaunchAuthorized == ChatSpec => []LaunchIsAuthorized
  BY ChatStart, ChatStep, AgreedTo, PTL DEF ChatSpec
=============================================================================
