------------------------- MODULE ActivityLaunchProofs -------------------------
(***************************************************************************)
(* Theorems about the launch of Activities, for any number of interactions,*)
(* requests under way, projects, surfaces and runs, any lifetimes and any  *)
(* number of restarts.                                                     *)
(*                                                                         *)
(* OneSessionPerLaunch is not inductive: that a launch has joined must     *)
(* still be known when its row has been cleaned up, and that is what       *)
(* JoinedIsOver keeps: the row of a joined launch is consumed, or gone     *)
(* with the process its interaction was delivered to.                      *)
(***************************************************************************)
EXTENDS ActivityLaunch, FactoryFloorBindingsProofs

USE DEF launches, attempts, handlers

\* A launch that has joined is not pending any more and cannot be again.
JoinedIsOver ==
    \A i \in Instances : joins[i] > 0
        => launch[i] = "consumed" \/ (launch[i] = "absent" /\ delivered[i] = "before")

\* A row is stored for an interaction that was delivered, and stays for as
\* long as the process that it was delivered to.
LaunchIsDelivered ==
    \A i \in Instances : launch[i] # "absent" => delivered[i] # "no"

\* A handler under way knows what it is about.
HandlerKnows == \A q \in Requests : pc[q] # "idle" => about[q] \in Instances

\* The parts of the invariant that do not speak of the bindings.
RowsInv == OneSessionPerLaunch /\ AttemptOfLaunch /\ JoinedIsOver /\ LaunchIsDelivered

IInv == TypeOK /\ BindingsInv /\ HandlerKnows /\ RowsInv

\* The variables RowsInv speaks of.
rows == <<delivered, launch, launchExpires, oauth, oauthExpires, joins>>

\* Steps that leave the rows alone.
LEMMA RowsStutter == RowsInv /\ UNCHANGED rows => RowsInv'
  BY DEF RowsInv, rows, OneSessionPerLaunch, AttemptOfLaunch, JoinedIsOver, LaunchIsDelivered

\* What the parts of the invariant together make of the next state.
LEMMA Together == BindingsInv /\ HandlerKnows /\ RowsInv /\ TypeOK => IInv
  BY DEF IInv

\* The initial states satisfy the invariant.
LEMMA InitCorrect == Init => IInv
<1> SUFFICES ASSUME Init PROVE IInv
  OBVIOUS
<1>1. BindingsInv
  BY BindingsInitCorrect DEF Init
<1>2. TypeOK
  BY <1>1, TtlAssumption DEF Init, TypeOK, BindingsInv, Times
<1>3. HandlerKnows
  BY DEF Init, HandlerKnows
<1>4. RowsInv
  BY DEF Init, RowsInv, OneSessionPerLaunch, AttemptOfLaunch, JoinedIsOver, LaunchIsDelivered
<1>5. QED  BY <1>1, <1>2, <1>3, <1>4 DEF IInv

-----------------------------------------------------------------------------
(* The steps of the requests.                                               *)

\* The beginning and the end of a handler keep the types of its variables.
LEMMA ReceiveTypes ==
  ASSUME TypeOK, HandlerKnows, NEW q \in Requests, NEW i \in Instances,
         NEW c \in Challenges \cup {None}, NEW time \in Times,
         NEW point \in {"acknowledging", "starting", "exchanging"},
         Receive(q, i, c, time, point)
  PROVE  /\ pc' \in [Requests -> {"idle", "acknowledging", "starting", "exchanging"}]
         /\ about' \in [Requests -> Instances \cup {None}]
         /\ challenge' \in [Requests -> Challenges \cup {None}]
         /\ at' \in [Requests -> Times]
         /\ HandlerKnows'
  BY DEF TypeOK, Receive, HandlerKnows

LEMMA EndTypes ==
  ASSUME TypeOK, HandlerKnows, NEW q \in Requests, Goto(q, "idle")
  PROVE  /\ pc' \in [Requests -> {"idle", "acknowledging", "starting", "exchanging"}]
         /\ about' \in [Requests -> Instances \cup {None}]
         /\ challenge' \in [Requests -> Challenges \cup {None}]
         /\ at' \in [Requests -> Times]
         /\ HandlerKnows'
<1>1. 0 \in Times
  BY TtlAssumption DEF Times
<1>2. QED  BY <1>1 DEF TypeOK, Goto, HandlerKnows

\* The interaction: a row is made only for one that has none and was not
\* delivered to an earlier process, so it has not joined.
LEMMA LaunchActivityCorrect ==
  ASSUME IInv, NEW q \in Requests, NEW i \in Instances, NEW run \in Runs \cup {None},
         LaunchActivity(q, i, run)
  PROVE  IInv'
<1>1. BindingsInv'
  BY BindingsStutter DEF LaunchActivity, IInv
<1>2. Receive(q, i, None, 0, "acknowledging") /\ 0 \in Times
  BY TtlAssumption DEF LaunchActivity, Times
<1>3. HandlerKnows'
  BY <1>2, ReceiveTypes DEF IInv
<1>4. now + LaunchTtl \in Nat
  BY TtlAssumption DEF IInv, TypeOK, Times
<1>5. TypeOK'
  <2>1. /\ launch' \in [Instances -> {"absent", "pending", "consumed", "invalidated"}]
        /\ launchRun' \in [Instances -> Runs \cup {None}]
        /\ launchExpires' \in [Instances -> Nat]
        /\ delivered' \in [Instances -> {"no", "now", "before"}]
    BY <1>4 DEF IInv, TypeOK, LaunchActivity, CreateLaunch
  <2>2. UNCHANGED <<now, attempts, joins>>
    BY DEF LaunchActivity
  <2>3. BindingsTypeOK'
    BY <1>1 DEF BindingsInv
  <2>4. QED  BY <1>2, <2>1, <2>2, <2>3, ReceiveTypes DEF IInv, TypeOK
<1>6. RowsInv'
  <2>1. CASE launch[i] = "absent"
    BY <2>1, <1>4 DEF LaunchActivity, CreateLaunch, IInv, TypeOK, RowsInv, OneSessionPerLaunch,
                      AttemptOfLaunch, JoinedIsOver, LaunchIsDelivered
  <2>2. CASE launch[i] # "absent"
    BY <2>2 DEF LaunchActivity, CreateLaunch, IInv, TypeOK, RowsInv, OneSessionPerLaunch,
                AttemptOfLaunch, JoinedIsOver, LaunchIsDelivered
  <2>3. QED  BY <2>1, <2>2
<1>7. QED  BY <1>1, <1>3, <1>5, <1>6 DEF IInv

LEMMA AcknowledgeCorrect ==
  ASSUME IInv, NEW q \in Requests, NEW success \in BOOLEAN, Acknowledge(q, success)
  PROVE  IInv'
<1>1. BindingsInv'
  BY BindingsStutter DEF Acknowledge, IInv
<1>2. Goto(q, "idle")
  BY DEF Acknowledge
<1>3. HandlerKnows'
  BY <1>2, EndTypes DEF IInv
<1>4. about[q] \in Instances
  BY DEF Acknowledge, IInv, HandlerKnows
<1>5. \/ launch' = launch
      \/ /\ launch[about[q]] = "pending"
         /\ launch' = [launch EXCEPT ![about[q]] = "invalidated"]
  BY DEF Acknowledge, Invalidated
<1>6. TypeOK'
  <2>1. launch' \in [Instances -> {"absent", "pending", "consumed", "invalidated"}]
    BY <1>4, <1>5 DEF IInv, TypeOK
  <2>2. UNCHANGED <<now, delivered, launchRun, launchExpires, attempts, joins>>
    BY DEF Acknowledge
  <2>3. BindingsTypeOK'
    BY <1>1 DEF BindingsInv
  <2>4. QED  BY <1>2, <2>1, <2>2, <2>3, EndTypes DEF IInv, TypeOK
<1>7. RowsInv'
  <2>1. UNCHANGED <<delivered, oauth, launchExpires, oauthExpires, joins>>
    BY DEF Acknowledge
  <2>2. \A i \in Instances : \/ launch'[i] = launch[i]
                             \/ launch[i] = "pending" /\ launch'[i] = "invalidated"
    BY <1>4, <1>5 DEF IInv, TypeOK
  <2>3. OneSessionPerLaunch' /\ JoinedIsOver' /\ LaunchIsDelivered'
    BY <2>1, <2>2 DEF IInv, RowsInv, OneSessionPerLaunch, JoinedIsOver, LaunchIsDelivered
  <2>4. AttemptOfLaunch'
    BY <2>1, <2>2 DEF IInv, RowsInv, AttemptOfLaunch
  <2>5. QED  BY <2>3, <2>4 DEF RowsInv
<1>8. QED  BY <1>1, <1>3, <1>6, <1>7 DEF IInv

LEMMA StartOAuthCorrect ==
  ASSUME IInv, NEW q \in Requests, NEW i \in Instances, NEW c \in Challenges,
         StartOAuth(q, i, c) \/ Bootstrap(q, i, c)
  PROVE  IInv'
<1>1. /\ Receive(q, i, c, now, "starting") \/ Receive(q, i, c, now, "exchanging")
      /\ UNCHANGED <<bindings, now, delivered, launches, attempts, joins>>
  BY DEF StartOAuth, Bootstrap
<1>2. BindingsInv'
  BY <1>1, BindingsStutter DEF IInv
<1>3. now \in Times
  BY DEF IInv, TypeOK
<1>4. HandlerKnows'
  BY <1>1, <1>3, ReceiveTypes DEF IInv
<1>5. TypeOK'
  BY <1>1, <1>2, <1>3, ReceiveTypes DEF IInv, TypeOK, BindingsInv
<1>6. RowsInv'
  BY <1>1, RowsStutter DEF IInv, rows
<1>7. QED  BY <1>2, <1>4, <1>5, <1>6 DEF IInv

LEMMA BeginAttemptCorrect ==
  ASSUME IInv, NEW q \in Requests, BeginAttempt(q)
  PROVE  IInv'
<1> DEFINE i == about[q]
<1>1. BindingsInv'
  BY BindingsStutter DEF BeginAttempt, IInv
<1>2. Goto(q, "idle")
  BY DEF BeginAttempt
<1>3. HandlerKnows'
  BY <1>2, EndTypes DEF IInv
<1>4. i \in Instances
  BY DEF BeginAttempt, IInv, HandlerKnows
<1>5. /\ at[q] + OauthTtl \in Nat
      /\ challenge[q] \in Challenges \cup {None}
      /\ launchExpires[i] \in Nat
  BY <1>4, TtlAssumption DEF IInv, TypeOK, Times
<1>6. \/ UNCHANGED attempts
      \/ /\ launch[i] = "pending"
         /\ oauth' = [oauth EXCEPT ![i] = "pending"]
         /\ oauthChallenge' = [oauthChallenge EXCEPT ![i] = challenge[q]]
         /\ \E expires \in Nat : /\ expires <= launchExpires[i]
                                 /\ oauthExpires' = [oauthExpires EXCEPT ![i] = expires]
  <2>1. CASE CurrentLaunch(i, at[q]) /\ oauth[i] = "absent"
    <3> DEFINE expires == IF launchExpires[i] < at[q] + OauthTtl THEN launchExpires[i]
                          ELSE at[q] + OauthTtl
    <3>1. expires \in Nat /\ expires <= launchExpires[i]
      BY <1>5
    <3>2. oauthExpires' = [oauthExpires EXCEPT ![i] = expires]
      BY <2>1 DEF BeginAttempt
    <3>3. QED  BY <2>1, <3>1, <3>2 DEF BeginAttempt, CurrentLaunch
  <2>2. CASE ~(CurrentLaunch(i, at[q]) /\ oauth[i] = "absent")
    BY <2>2 DEF BeginAttempt
  <2>3. QED  BY <2>1, <2>2
<1>7. TypeOK'
  <2>1. /\ oauth' \in [Instances -> {"absent", "pending", "consumed"}]
        /\ oauthChallenge' \in [Instances -> Challenges \cup {None}]
        /\ oauthExpires' \in [Instances -> Nat]
    BY <1>5, <1>6 DEF IInv, TypeOK
  <2>2. UNCHANGED <<now, delivered, launch, launchRun, launchExpires, joins>>
    BY DEF BeginAttempt
  <2>3. BindingsTypeOK'
    BY <1>1 DEF BindingsInv
  <2>4. QED  BY <1>2, <2>1, <2>2, <2>3, EndTypes DEF IInv, TypeOK
<1>8. RowsInv'
  BY <1>4, <1>6 DEF BeginAttempt, IInv, TypeOK, RowsInv, OneSessionPerLaunch, AttemptOfLaunch,
                    JoinedIsOver, LaunchIsDelivered
<1>9. QED  BY <1>1, <1>3, <1>7, <1>8 DEF IInv

\* The stretch of a bootstrap that writes: the launch must still be pending to
\* be consumed, and a pending launch has not joined.
LEMMA ConsumeAndJoinCorrect ==
  ASSUME IInv, NEW q \in Requests, ConsumeAndJoin(q)
  PROVE  /\ IInv'
         /\ \A s \in Surfaces : activityInstance[s] # None
                => activityInstance'[s] = activityInstance[s]
<1> DEFINE i == about[q]
           first  == CanConsumeAttempt(q)
           second == first /\ CanConsumeLaunch(q)
           third  == second /\ CanJoin(i)
<1>1. Goto(q, "idle") /\ i \in Instances
  BY DEF ConsumeAndJoin, IInv, HandlerKnows
<1>2. HandlerKnows'
  BY <1>1, EndTypes DEF IInv
<1>3. /\ oauth' = IF first THEN [oauth EXCEPT ![i] = "consumed"] ELSE oauth
      /\ launch' = IF second THEN [launch EXCEPT ![i] = "consumed"] ELSE launch
      /\ activityInstance' = IF third THEN Attached(i) ELSE activityInstance
      /\ joins' = IF third THEN [joins EXCEPT ![i] = @ + 1] ELSE joins
      /\ UNCHANGED <<archived, projectBinding, surfaceBinding, surfaceProject, runs,
                     now, delivered, launchRun, launchExpires, oauthChallenge, oauthExpires>>
  BY DEF ConsumeAndJoin, ConsumedAttempt, ConsumedLaunch
<1>4. first => oauth[i] = "pending" /\ launch[i] = "pending"
  BY DEF CanConsumeAttempt, PendingAttempt, CurrentLaunch
<1>5. /\ BindingsInv'
      /\ \A s \in Surfaces : activityInstance[s] # None
             => activityInstance'[s] = activityInstance[s]
  <2>1. CASE third /\ launchRun[i] # None
    <3> DEFINE s == runSurface[launchRun[i]]
    <3>1. FindRun(launchRun[i]) /\ Attachable(s, i)
      BY <2>1 DEF CanJoin, CanAttach
    <3>2. launchRun[i] \in Runs /\ runBinding[launchRun[i]] = "active"
      BY <1>1, <2>1, <3>1 DEF IInv, TypeOK, FindRun
    <3>3. s \in Surfaces
      BY <3>2 DEF IInv, BindingsInv, ActiveChain
    <3>4. activityInstance' = [activityInstance EXCEPT ![s] = i]
      BY <1>3, <2>1 DEF Attached
    <3> HIDE DEF s
    <3>5. UNCHANGED <<archived, projectBinding, surfaceBinding, surfaceProject, runs>>
      BY <1>3
    <3>6. QED  BY <1>1, <3>1, <3>3, <3>4, <3>5, AttachCorrect DEF IInv
  <2>2. CASE ~(third /\ launchRun[i] # None)
    <3>1. UNCHANGED bindings
      BY <1>3, <2>2 DEF bindings, surfaces, Attached
    <3>2. QED  BY <3>1, BindingsStutter DEF IInv, bindings, surfaces
  <2>3. QED  BY <2>1, <2>2
<1> HIDE DEF first, second, third, i
<1>6. second => first
  BY DEF second
<1>7. third => second
  BY DEF third
<1>8. RowsInv'
  BY <1>1, <1>3, <1>4, <1>6, <1>7 DEF IInv, TypeOK, RowsInv, OneSessionPerLaunch,
     AttemptOfLaunch, JoinedIsOver, LaunchIsDelivered
<1>9. TypeOK'
  <2>1. /\ launch' \in [Instances -> {"absent", "pending", "consumed", "invalidated"}]
        /\ oauth' \in [Instances -> {"absent", "pending", "consumed"}]
        /\ joins' \in [Instances -> Nat]
    BY <1>1, <1>3 DEF IInv, TypeOK
  <2>2. BindingsTypeOK'
    BY <1>5 DEF BindingsInv
  <2>3. QED  BY <1>1, <1>3, <2>1, <2>2, EndTypes DEF IInv, TypeOK
<1>10. QED  BY <1>2, <1>5, <1>8, <1>9 DEF IInv

LEMMA RefuseCorrect ==
  ASSUME IInv, NEW q \in Requests, Refuse(q)
  PROVE  IInv'
<1>1. Goto(q, "idle") /\ UNCHANGED <<bindings, now, delivered, launches, attempts, joins>>
  BY DEF Refuse
<1>2. BindingsInv'
  BY <1>1, BindingsStutter DEF IInv
<1>3. HandlerKnows'
  BY <1>1, EndTypes DEF IInv
<1>4. TypeOK'
  BY <1>1, <1>2, EndTypes DEF IInv, TypeOK, BindingsInv
<1>5. RowsInv'
  BY <1>1, RowsStutter DEF IInv, rows
<1>6. QED  BY <1>2, <1>3, <1>4, <1>5 DEF IInv

-----------------------------------------------------------------------------
(* The steps of the process.                                                *)

\* A start of the process keeps only pending rows, of interactions that were
\* delivered to the process before; what has joined is not pending.
LEMMA CleanUpCorrect ==
  ASSUME IInv,
         NEW launchRow \in [Instances -> {"absent", "pending", "consumed", "invalidated"}],
         NEW oauthRow \in [Instances -> {"absent", "pending", "consumed"}],
         \A i \in Instances : launchRow[i] = "pending" => launch[i] = "pending",
         \A i \in Instances : oauthRow[i] = "pending" => oauth[i] = "pending",
         CleanUp(launchRow, oauthRow)
  PROVE  IInv'
<1>1. BindingsInv'
  BY BindingsStutter DEF CleanUp, IInv
<1>2. HandlerKnows'
  BY DEF CleanUp, HandlerKnows
<1>3. TypeOK'
  <2>1. /\ launch' \in [Instances -> {"absent", "pending", "consumed", "invalidated"}]
        /\ oauth' \in [Instances -> {"absent", "pending", "consumed"}]
    BY DEF CleanUp, Spent
  <2>2. /\ launchExpires' \in [Instances -> Nat]
        /\ oauthExpires' \in [Instances -> Nat]
        /\ launchRun' \in [Instances -> Runs \cup {None}]
        /\ oauthChallenge' \in [Instances -> Challenges \cup {None}]
        /\ delivered' \in [Instances -> {"no", "now", "before"}]
    BY DEF CleanUp, IInv, TypeOK
  <2>3. /\ pc' \in [Requests -> {"idle", "acknowledging", "starting", "exchanging"}]
        /\ about' \in [Requests -> Instances \cup {None}]
        /\ challenge' \in [Requests -> Challenges \cup {None}]
        /\ at' \in [Requests -> Times]
    BY TtlAssumption DEF CleanUp, Times
  <2>4. UNCHANGED <<now, joins>>
    BY DEF CleanUp
  <2>5. BindingsTypeOK'
    BY <1>1 DEF BindingsInv
  <2>6. QED  BY <2>1, <2>2, <2>3, <2>4, <2>5 DEF IInv, TypeOK
<1>4. \A i \in Instances : launch'[i] # "absent"
         => launch'[i] = "pending" /\ launch[i] = "pending"
            /\ launchExpires'[i] = launchExpires[i]
  BY DEF CleanUp, Spent
<1>5. \A i \in Instances : oauth'[i] # "absent"
         => launch'[i] # "absent" /\ oauth[i] = "pending" /\ oauthExpires'[i] = oauthExpires[i]
  BY DEF CleanUp, Spent
<1>6. /\ joins' = joins
      /\ \A i \in Instances : delivered'[i] = IF delivered[i] = "no" THEN "no" ELSE "before"
  BY DEF CleanUp
<1>7. RowsInv'
  BY <1>4, <1>5, <1>6 DEF IInv, TypeOK, RowsInv, OneSessionPerLaunch, AttemptOfLaunch,
                          JoinedIsOver, LaunchIsDelivered
<1>8. QED  BY <1>1, <1>2, <1>3, <1>7 DEF IInv

LEMMA RestartCorrect == IInv /\ Restart => IInv'
  BY CleanUpCorrect DEF Restart, IInv, TypeOK

LEMMA RestartInBootstrapCorrect ==
  ASSUME IInv, NEW q \in Requests, RestartInBootstrap(q)
  PROVE  IInv'
<1>1. PICK launchRow \in {launch, ConsumedLaunch(about[q])} :
         CleanUp(launchRow, ConsumedAttempt(about[q]))
  BY DEF RestartInBootstrap
<1>2. launchRow \in [Instances -> {"absent", "pending", "consumed", "invalidated"}]
  BY DEF ConsumedLaunch, IInv, TypeOK
<1>3. ConsumedAttempt(about[q]) \in [Instances -> {"absent", "pending", "consumed"}]
  BY DEF ConsumedAttempt, IInv, TypeOK
<1>4. \A i \in Instances : launchRow[i] = "pending" => launch[i] = "pending"
  BY DEF ConsumedLaunch, IInv, TypeOK
<1>5. \A i \in Instances : ConsumedAttempt(about[q])[i] = "pending" => oauth[i] = "pending"
  BY DEF ConsumedAttempt, IInv, TypeOK
<1>6. QED  BY <1>1, <1>2, <1>3, <1>4, <1>5, CleanUpCorrect

\* Administration and the clock leave the rows and the handlers alone.
LEMMA AdministrationCorrect == IInv /\ AdministrationStep => IInv'
<1> SUFFICES ASSUME IInv, AdministrationStep PROVE IInv'
  OBVIOUS
<1>1. BindingsInv'
  BY BindingStepCorrect DEF AdministrationStep, IInv
<1>2. TypeOK' /\ HandlerKnows'
  BY <1>1 DEF AdministrationStep, IInv, TypeOK, BindingsInv, HandlerKnows
<1>3. RowsInv'
  BY RowsStutter DEF AdministrationStep, IInv, rows
<1>4. QED  BY <1>1, <1>2, <1>3 DEF IInv

LEMMA TickCorrect == IInv /\ Tick => IInv'
<1> SUFFICES ASSUME IInv, Tick PROVE IInv'
  OBVIOUS
<1>1. BindingsInv'
  BY BindingsStutter DEF Tick, IInv
<1>2. now' \in Times
  BY TtlAssumption DEF Tick, IInv, TypeOK, Times
<1>3. TypeOK' /\ HandlerKnows'
  BY <1>1, <1>2 DEF Tick, IInv, TypeOK, BindingsInv, HandlerKnows
<1>4. RowsInv'
  BY RowsStutter DEF Tick, IInv, rows
<1>5. QED  BY <1>1, <1>3, <1>4 DEF IInv

LEMMA StutterCorrect == IInv /\ UNCHANGED vars => IInv'
<1> SUFFICES ASSUME IInv, UNCHANGED vars PROVE IInv'
  OBVIOUS
<1>1. BindingsInv'
  BY BindingsStutter DEF vars, IInv
<1>2. TypeOK' /\ HandlerKnows'
  BY <1>1 DEF vars, IInv, TypeOK, BindingsInv, HandlerKnows
<1>3. RowsInv'
  BY RowsStutter DEF vars, IInv, rows
<1>4. QED  BY <1>1, <1>2, <1>3 DEF IInv

-----------------------------------------------------------------------------
(* The theorems.                                                            *)

\* Every step keeps the invariant, one step of the proof per action.
LEMMA NextCorrect == IInv /\ [Next]_vars => IInv'
<1> SUFFICES ASSUME IInv, [Next]_vars PROVE IInv'
  OBVIOUS
<1>1. ASSUME NEW q \in Requests, RequestStep(q) PROVE IInv'
  BY <1>1, LaunchActivityCorrect, AcknowledgeCorrect, StartOAuthCorrect, BeginAttemptCorrect,
     ConsumeAndJoinCorrect, RefuseCorrect DEF RequestStep
<1>2. ASSUME NEW q \in Requests, RestartInBootstrap(q) PROVE IInv'
  BY <1>2, RestartInBootstrapCorrect
<1>3. QED
  BY <1>1, <1>2, AdministrationCorrect, RestartCorrect, TickCorrect, StutterCorrect DEF Next

\* The invariant holds in every reachable state.
THEOREM Invariance == Spec => []IInv
  BY InitCorrect, NextCorrect, PTL DEF Spec

\* The launches, the attempts, the handlers and the bindings have their types.
THEOREM TypeCorrect == Spec => []TypeOK
<1>1. IInv => TypeOK
  BY DEF IInv
<1>2. QED  BY <1>1, Invariance, PTL

\* No order of administration, archiving and bootstraps leaves a run active on
\* a retired surface, or a surface active in a retired or archived project.
THEOREM ChainCorrect == Spec => []ActiveChain
<1>1. IInv => ActiveChain
  BY DEF IInv, BindingsInv
<1>2. QED  BY <1>1, Invariance, PTL

\* A launch joins one session at the most, whatever is delivered again, races
\* or dies.
THEOREM SessionCorrect == Spec => []OneSessionPerLaunch
<1>1. IInv => OneSessionPerLaunch
  BY DEF IInv, RowsInv
<1>2. QED  BY <1>1, Invariance, PTL

\* An attempt belongs to a launch, ends with it, and was used when it was.
THEOREM AttemptCorrect == Spec => []AttemptOfLaunch
<1>1. IInv => AttemptOfLaunch
  BY DEF IInv, RowsInv
<1>2. QED  BY <1>1, Invariance, PTL

\* What LaunchEndsOnce allows of one step.
EndedStays ==
    \A i \in Instances : launch[i] \in {"consumed", "invalidated"}
        => launch'[i] \in {launch[i], "absent"}

\* A step that leaves the launches alone ends none.
LEMMA EndedStaysUnchanged == launch' = launch => EndedStays
  BY DEF EndedStays

\* A row of which a start of the process knows that it is pending may be
\* written by the bootstrap that died; every other row that it keeps is pending.
LEMMA CleanUpEnds ==
  ASSUME NEW launchRow, NEW oauthRow, CleanUp(launchRow, oauthRow),
         \A i \in Instances : launchRow[i] = "pending" => launch[i] = "pending"
  PROVE  EndedStays
  BY DEF CleanUp, Spent, EndedStays

\* A launch that is over is never changed again but deleted: by no callback, no
\* bootstrap and no restart.
THEOREM EndCorrect == Spec => LaunchEndsOnce
<1>1. ASSUME IInv, [Next]_vars PROVE EndedStays
  <2>1. ASSUME NEW q \in Requests, RequestStep(q) PROVE EndedStays
    <3>1. ASSUME NEW i \in Instances, NEW run \in Runs \cup {None}, LaunchActivity(q, i, run)
          PROVE  EndedStays
      BY <3>1, <1>1 DEF LaunchActivity, CreateLaunch, EndedStays, IInv, TypeOK
    <3>2. ASSUME NEW success \in BOOLEAN, Acknowledge(q, success) PROVE EndedStays
      BY <3>2, <1>1 DEF Acknowledge, Invalidated, EndedStays, IInv, TypeOK
    <3>3. ASSUME ConsumeAndJoin(q) PROVE EndedStays
      BY <3>3, <1>1 DEF ConsumeAndJoin, ConsumedLaunch, CanConsumeLaunch, CurrentLaunch,
                        EndedStays, IInv, TypeOK
    <3>4. ASSUME NEW i \in Instances, NEW c \in Challenges,
                 StartOAuth(q, i, c) \/ Bootstrap(q, i, c)
          PROVE  EndedStays
      BY <3>4, EndedStaysUnchanged DEF StartOAuth, Bootstrap
    <3>5. BeginAttempt(q) \/ Refuse(q) => EndedStays
      BY EndedStaysUnchanged DEF BeginAttempt, Refuse
    <3>6. QED  BY <2>1, <3>1, <3>2, <3>3, <3>4, <3>5 DEF RequestStep
  <2>2. ASSUME NEW q \in Requests, RestartInBootstrap(q) PROVE EndedStays
    <3>1. PICK launchRow \in {launch, ConsumedLaunch(about[q])} :
             CleanUp(launchRow, ConsumedAttempt(about[q]))
      BY <2>2 DEF RestartInBootstrap
    <3>2. \A i \in Instances : launchRow[i] = "pending" => launch[i] = "pending"
      BY <1>1 DEF ConsumedLaunch, IInv, TypeOK
    <3>3. QED  BY <3>1, <3>2, CleanUpEnds
  <2>3. Restart => EndedStays
    BY CleanUpEnds DEF Restart
  <2>4. AdministrationStep \/ Tick \/ UNCHANGED vars => EndedStays
    BY EndedStaysUnchanged DEF AdministrationStep, Tick, vars
  <2>5. QED  BY <1>1, <2>1, <2>2, <2>3, <2>4 DEF Next
<1>2. QED
  BY <1>1, Invariance, PTL DEF Spec, LaunchEndsOnce, EndedStays

\* An Activity instance never leaves its surface, nor a surface its instance.
THEOREM InstanceCorrect == Spec => InstanceStays
<1>1. ASSUME IInv, [Next]_vars
      PROVE  \A s \in Surfaces : activityInstance[s] # None
                 => activityInstance'[s] = activityInstance[s]
  <2>1. ASSUME NEW q \in Requests, ConsumeAndJoin(q)
        PROVE  \A s \in Surfaces : activityInstance[s] # None
                   => activityInstance'[s] = activityInstance[s]
    BY <1>1, <2>1, ConsumeAndJoinCorrect
  <2>2. AdministrationStep => activityInstance' = activityInstance
    BY BindingStepInstances DEF AdministrationStep
  <2>3. ASSUME NEW q \in Requests, RequestStep(q), ~ConsumeAndJoin(q)
        PROVE  activityInstance' = activityInstance
    BY <2>3 DEF RequestStep, LaunchActivity, Acknowledge, StartOAuth, Bootstrap, BeginAttempt,
                Refuse, bindings, surfaces
  <2>4. ASSUME NEW q \in Requests, RestartInBootstrap(q)
        PROVE  activityInstance' = activityInstance
    BY <2>4 DEF RestartInBootstrap, CleanUp, bindings, surfaces
  <2>5. Restart \/ Tick \/ UNCHANGED vars => activityInstance' = activityInstance
    BY DEF Restart, CleanUp, Tick, vars, bindings, surfaces
  <2>6. QED  BY <1>1, <2>1, <2>2, <2>3, <2>4, <2>5 DEF Next
<1>2. QED
  BY <1>1, Invariance, PTL DEF Spec, InstanceStays

=============================================================================
