--------------------------- MODULE ActivityLaunch ---------------------------
(***************************************************************************)
(* The way from a /factory-floor interaction to a Factory Floor session:   *)
(*   - src/factoryFloor/activityLaunchHandler.ts and                       *)
(*     activityLaunchService.ts register a one-time launch and answer      *)
(*     Discord;                                                            *)
(*   - activityBootstrapService.ts starts an OAuth attempt for the launch  *)
(*     of an Activity instance, and later consumes both and joins a        *)
(*     session (activityBootstrapSessionClient.ts);                        *)
(* over factoryFloorLaunchRepository.ts and factoryFloorOAuthRepository.ts, *)
(* with the cleanup of src/factoryFloor/runtime.ts at every start.         *)
(*                                                                         *)
(* A request is one of three: the interaction, POST .../oauth/start or     *)
(* POST .../bootstrap.  A request reads the clock once, when it comes in.  *)
(* Between two awaits nothing interrupts it.  Checks of what Discord says  *)
(* of instances, members, tokens and users pass or fail nondeterministically. *)
(***************************************************************************)
EXTENDS FactoryFloorBindings

CONSTANTS
    Requests,       \* places for requests under way, of any kind
    Challenges,     \* S256 challenges, each also standing for its verifier
    ChannelOf,      \* the project whose channel an interaction came from
    ThreadOf,       \* the thread in it, if any
    LaunchTtl, OauthTtl,
    MaxTime         \* bound on the clock

ASSUME OriginAssumption ==
    /\ ChannelOf \in [Instances -> Projects]
    /\ ThreadOf \in [Instances -> Surfaces \cup {None}]

ASSUME TtlAssumption ==
    LaunchTtl \in Nat \ {0} /\ OauthTtl \in Nat \ {0} /\ MaxTime \in Nat

VARIABLES
    now,
    delivered,      \* interactions: not yet, in this process, in an earlier one
    launch, launchRun, launchExpires,           \* factory_floor_launch_states
    oauth, oauthChallenge, oauthExpires,        \* factory_floor_oauth_attempts
    pc, about, challenge, at,                   \* the requests' handlers
    joins           \* history: how often a session was asked for, by instance

launches == <<launch, launchRun, launchExpires>>
attempts == <<oauth, oauthChallenge, oauthExpires>>
handlers == <<pc, about, challenge, at>>
vars == <<bindings, now, delivered, launches, attempts, handlers, joins>>

Times == 0..MaxTime

TypeOK ==
    /\ BindingsTypeOK
    /\ now \in Times
    /\ delivered \in [Instances -> {"no", "now", "before"}]
    /\ launch \in [Instances -> {"absent", "pending", "consumed", "invalidated"}]
    /\ launchRun \in [Instances -> Runs \cup {None}]
    /\ launchExpires \in [Instances -> Nat]
    /\ oauth \in [Instances -> {"absent", "pending", "consumed"}]
    /\ oauthChallenge \in [Instances -> Challenges \cup {None}]
    /\ oauthExpires \in [Instances -> Nat]
    /\ pc \in [Requests -> {"idle", "acknowledging", "starting", "exchanging"}]
    /\ about \in [Requests -> Instances \cup {None}]
    /\ challenge \in [Requests -> Challenges \cup {None}]
    /\ at \in [Requests -> Times]
    /\ joins \in [Instances -> Nat]

Init ==
    /\ BindingsInit
    /\ now = 0
    /\ delivered = [i \in Instances |-> "no"]
    /\ launch = [i \in Instances |-> "absent"]
    /\ launchRun = [i \in Instances |-> None]
    /\ launchExpires = [i \in Instances |-> 0]
    /\ oauth = [i \in Instances |-> "absent"]
    /\ oauthChallenge = [i \in Instances |-> None]
    /\ oauthExpires = [i \in Instances |-> 0]
    /\ pc = [q \in Requests |-> "idle"]
    /\ about = [q \in Requests |-> None]
    /\ challenge = [q \in Requests |-> None]
    /\ at = [q \in Requests |-> 0]
    /\ joins = [i \in Instances |-> 0]

-----------------------------------------------------------------------------

Receive(q, i, c, time, point) ==
    /\ pc[q] = "idle"
    /\ pc' = [pc EXCEPT ![q] = point]
    /\ about' = [about EXCEPT ![q] = i]
    /\ challenge' = [challenge EXCEPT ![q] = c]
    /\ at' = [at EXCEPT ![q] = time]

\* A handler that ends forgets what it knew.
Goto(q, point) ==
    /\ pc' = [pc EXCEPT ![q] = point]
    /\ about' = IF point = "idle" THEN [about EXCEPT ![q] = None] ELSE about
    /\ challenge' = IF point = "idle" THEN [challenge EXCEPT ![q] = None] ELSE challenge
    /\ at' = IF point = "idle" THEN [at EXCEPT ![q] = 0] ELSE at

\* A launch that currentLaunch, begin, verifyAndConsume and consume accept at
\* a time.
CurrentLaunch(i, time) == launch[i] = "pending" /\ launchExpires[i] > time

-----------------------------------------------------------------------------
(* The interaction.                                                         *)

\* prepare: the run an interaction is for.  In a thread it is the active run of
\* the thread's surface; in the channel, the project's only active run if any.
ActiveRunsOf(p) == UNION {ActiveRunsOn(s) : s \in {s \in Surfaces :
                             surfaceBinding[s] = "active" /\ surfaceProject[s] = p}}

Candidates(i) ==
    LET p == ChannelOf[i]
        thread == ThreadOf[i]
    IN  IF thread = None
        THEN IF ActiveRunsOf(p) = {} THEN {None} ELSE ActiveRunsOf(p)
        ELSE IF FindSurface(thread) /\ surfaceProject[thread] = p
             THEN ActiveRunsOn(thread) ELSE {}

\* The launch is stored, or found stored for the same context, in whatever state
\* it is in by now.
CreateLaunch(i, run) ==
    \/ /\ launch[i] = "absent"
       /\ launch' = [launch EXCEPT ![i] = "pending"]
       /\ launchRun' = [launchRun EXCEPT ![i] = run]
       /\ launchExpires' = [launchExpires EXCEPT ![i] = now + LaunchTtl]
    \/ /\ launch[i] # "absent"
       /\ launchRun[i] = run
       /\ UNCHANGED launches

\* Then LAUNCH_ACTIVITY is sent.  Refusals change nothing.
LaunchActivity(q, i, run) ==
    /\ delivered[i] # "before"
    /\ ActiveProject(ChannelOf[i])
    /\ Candidates(i) = {run}
    /\ CreateLaunch(i, run)
    /\ delivered' = [delivered EXCEPT ![i] = "now"]
    /\ Receive(q, i, None, 0, "acknowledging")
    /\ UNCHANGED <<bindings, now, attempts, joins>>

\* A slip: whatever became of the launch meanwhile, it is invalidated.
InvalidatedAnyway(i) == [launch EXCEPT ![i] = "invalidated"]

Invalidated(i) ==
    IF launch[i] = "pending" THEN [launch EXCEPT ![i] = "invalidated"] ELSE launch

\* Discord's answer to LAUNCH_ACTIVITY: success, or a failure that invalidates
\* the launch (though the Activity may well have opened).
Acknowledge(q, success) ==
    /\ pc[q] = "acknowledging"
    /\ launch' = IF success THEN launch ELSE Invalidated(about[q])
    /\ Goto(q, "idle")
    /\ UNCHANGED <<bindings, now, delivered, launchRun, launchExpires, attempts, joins>>

-----------------------------------------------------------------------------
(* POST .../oauth/start.                                                    *)

StartOAuth(q, i, c) ==
    /\ delivered[i] # "no"
    /\ Receive(q, i, c, now, "starting")
    /\ UNCHANGED <<bindings, now, delivered, launches, attempts, joins>>

\* After the instance and the member were fetched: begin stores an attempt
\* unless the launch has one (which only the same challenge may use again).
BeginAttempt(q) ==
    LET i == about[q] IN
    /\ pc[q] = "starting"
    /\ IF CurrentLaunch(i, at[q]) /\ oauth[i] = "absent"
       THEN /\ oauth' = [oauth EXCEPT ![i] = "pending"]
            /\ oauthChallenge' = [oauthChallenge EXCEPT ![i] = challenge[q]]
            /\ oauthExpires' = [oauthExpires EXCEPT ![i] =
                   IF launchExpires[i] < at[q] + OauthTtl THEN launchExpires[i]
                   ELSE at[q] + OauthTtl]
       ELSE UNCHANGED attempts
    /\ Goto(q, "idle")
    /\ UNCHANGED <<bindings, now, delivered, launches, joins>>

-----------------------------------------------------------------------------
(* POST .../bootstrap.                                                      *)

PendingAttempt(i, c, time) ==
    /\ oauth[i] = "pending"
    /\ oauthChallenge[i] = c
    /\ oauthExpires[i] > time

Bootstrap(q, i, c) ==
    /\ CurrentLaunch(i, now)
    /\ PendingAttempt(i, c, now)
    /\ Receive(q, i, c, now, "exchanging")
    /\ UNCHANGED <<bindings, now, delivered, launches, attempts, joins>>

\* The attempt is consumed, in a transaction of its own,
CanConsumeAttempt(q) ==
    PendingAttempt(about[q], challenge[q], at[q]) /\ CurrentLaunch(about[q], at[q])

ConsumedAttempt(i) == [oauth EXCEPT ![i] = "consumed"]

\* then the launch, whose project must not be archived,
CanConsumeLaunch(q) ==
    CurrentLaunch(about[q], at[q]) /\ ChannelOf[about[q]] \notin archived

\* A slip: the launch stays pending.
LeftPending(i) == launch

ConsumedLaunch(i) == [launch EXCEPT ![i] = "consumed"]

\* then, for a launch with a run, the instance is attached to its surface.
CanJoin(i) ==
    \/ launchRun[i] = None
    \/ FindRun(launchRun[i]) /\ CanAttach(runSurface[launchRun[i]], i)

Attached(i) ==
    IF launchRun[i] = None THEN activityInstance
    ELSE [activityInstance EXCEPT ![runSurface[launchRun[i]]] = i]

\* The stretch after the OAuth user is known: each of the three writes is made
\* only if the ones before it were, and none is undone.  Factory Floor is then
\* asked for the session, and whatever it answers changes nothing here.
ConsumeAndJoin(q) ==
    LET i == about[q]
        first  == CanConsumeAttempt(q)
        second == first /\ CanConsumeLaunch(q)
        third  == second /\ CanJoin(i)
    IN  /\ pc[q] = "exchanging"
        /\ oauth' = IF first THEN ConsumedAttempt(i) ELSE oauth
        /\ launch' = IF second THEN ConsumedLaunch(i) ELSE launch
        /\ activityInstance' = IF third THEN Attached(i) ELSE activityInstance
        /\ joins' = IF third THEN [joins EXCEPT ![i] = @ + 1] ELSE joins
        /\ Goto(q, "idle")
        /\ UNCHANGED <<archived, projectBinding, surfaceBinding, surfaceProject, runs,
                       now, delivered, launchRun, launchExpires, oauthChallenge,
                       oauthExpires>>

\* Discord fails, or what it says does not pass a check.
Refuse(q) ==
    /\ pc[q] \in {"starting", "exchanging"}
    /\ Goto(q, "idle")
    /\ UNCHANGED <<bindings, now, delivered, launches, attempts, joins>>

-----------------------------------------------------------------------------
(* The process.                                                             *)

\* All handlers die, and initializeFactoryFloorRuntime deletes what is spent:
\* first attempts, then launches, each with its attempt.  The rows may have
\* been written last by a bootstrap that died between two of its writes.
Spent(row, expires) == row # "pending" \/ expires <= now

CleanUp(launchRow, oauthRow) ==
    LET keptLaunch(i)  == ~Spent(launchRow[i], launchExpires[i])
        keptAttempt(i) == keptLaunch(i) /\ ~Spent(oauthRow[i], oauthExpires[i])
    IN  /\ pc' = [q \in Requests |-> "idle"]
        /\ about' = [q \in Requests |-> None]
        /\ challenge' = [q \in Requests |-> None]
        /\ at' = [q \in Requests |-> 0]
        /\ delivered' = [i \in Instances |->
               IF delivered[i] = "no" THEN "no" ELSE "before"]
        /\ launch' = [i \in Instances |-> IF keptLaunch(i) THEN launchRow[i] ELSE "absent"]
        /\ launchRun' = [i \in Instances |-> IF keptLaunch(i) THEN launchRun[i] ELSE None]
        /\ launchExpires' = [i \in Instances |-> IF keptLaunch(i) THEN launchExpires[i] ELSE 0]
        /\ oauth' = [i \in Instances |-> IF keptAttempt(i) THEN oauthRow[i] ELSE "absent"]
        /\ oauthChallenge' = [i \in Instances |->
               IF keptAttempt(i) THEN oauthChallenge[i] ELSE None]
        /\ oauthExpires' = [i \in Instances |-> IF keptAttempt(i) THEN oauthExpires[i] ELSE 0]
        /\ UNCHANGED <<bindings, now, joins>>

Restart == CleanUp(launch, oauth)

RestartInBootstrap(q) ==
    /\ pc[q] = "exchanging"
    /\ CanConsumeAttempt(q)
    /\ \/ CleanUp(launch, ConsumedAttempt(about[q]))
       \/ /\ CanConsumeLaunch(q)
          /\ CleanUp(ConsumedLaunch(about[q]), ConsumedAttempt(about[q]))

Tick ==
    /\ now < MaxTime
    /\ now' = now + 1
    /\ UNCHANGED <<bindings, delivered, launches, attempts, handlers, joins>>

-----------------------------------------------------------------------------

RequestStep(q) ==
    \/ \E i \in Instances, run \in Runs \cup {None} : LaunchActivity(q, i, run)
    \/ \E success \in BOOLEAN : Acknowledge(q, success)
    \/ \E i \in Instances, c \in Challenges : StartOAuth(q, i, c) \/ Bootstrap(q, i, c)
    \/ BeginAttempt(q)
    \/ ConsumeAndJoin(q)
    \/ Refuse(q)

AdministrationStep ==
    /\ BindingStep
    /\ UNCHANGED <<now, delivered, launches, attempts, handlers, joins>>

Next ==
    \/ \E q \in Requests : RequestStep(q) \/ RestartInBootstrap(q)
    \/ AdministrationStep
    \/ Restart
    \/ Tick

Spec == Init /\ [][Next]_vars

-----------------------------------------------------------------------------
(* Properties.                                                              *)

\* "Consume state once": an Activity instance is joined to one session at the
\* most, however often the interaction was delivered, OAuth started and the
\* bootstrap sent, and wherever the process died in between.
OneSessionPerLaunch == \A i \in Instances : joins[i] <= 1

\* A launch has ended, once consumed or invalidated, for good: a callback that
\* fails late does not touch a launch whose Activity has joined already, nor
\* does a bootstrap revive a launch that was cancelled while it waited.
LaunchEndsOnce ==
    [][\A i \in Instances : launch[i] \in {"consumed", "invalidated"}
          => launch'[i] \in {launch[i], "absent"}]_vars

\* An attempt is stored for a launch that is, does not outlast it, and is
\* itself spent when the launch is consumed, though the two tables are written
\* in separate transactions and cleaned up one after the other.
AttemptOfLaunch ==
    \A i \in Instances :
        /\ oauth[i] # "absent" => launch[i] # "absent" /\ oauthExpires[i] <= launchExpires[i]
        /\ launch[i] = "consumed" => oauth[i] = "consumed"

=============================================================================
