------------------------ MODULE ActivityRevalidation ------------------------
(***************************************************************************)
(* POST .../revalidate: Factory Floor asks whether a principal may still   *)
(* approve or cancel a run from an Activity instance.                      *)
(*   - src/factoryFloor/serviceAuth.ts checks the signed request's age and *)
(*     uses up its nonce, kept in factory_floor_service_nonces;            *)
(*   - activityRevalidationService.ts limits the rate of a principal and   *)
(*     action, asks Discord for the instance, looks at the bindings, asks  *)
(*     Discord for the member and answers.                                 *)
(*                                                                         *)
(* A message is a signed request.  The network may deliver it any number   *)
(* of times, at any time.  Both questions to Discord are cut off by a      *)
(* timer, which refuses like any other bad answer.  The bindings change    *)
(* under the handlers, by administration and by bootstraps.                *)
(***************************************************************************)
EXTENDS FactoryFloorBindings, Functions

CONSTANTS
    Messages,
    Keys,           \* pairs of a principal and an action
    KeyOf, InstanceOf, RunOf,
    ThreadOf,       \* the thread a message names, None for the channel
    MaxSkew, NonceTtl,
    MaxRequests, Window,
    MaxTime         \* bound on the clock

ASSUME MessageAssumption ==
    /\ KeyOf \in [Messages -> Keys]
    /\ InstanceOf \in [Messages -> Instances]
    /\ RunOf \in [Messages -> Runs]
    /\ ThreadOf \in [Messages -> Surfaces \cup {None}]

\* 30 seconds, 5 minutes; 30 requests, a minute.
ASSUME LimitAssumption ==
    /\ MaxSkew \in Nat /\ NonceTtl \in Nat /\ MaxTime \in Nat
    /\ MaxRequests \in Nat \ {0} /\ Window \in Nat \ {0}
    /\ NonceTtl > 2 * MaxSkew

VARIABLES
    now,
    stamp,                  \* when Factory Floor signed a message, by its clock
    nonceExpires,           \* the nonce's row, 0 for none
    windowStart, count,     \* a key's rate window, in memory, with count 0 for none
    pc,                     \* the handler of a message, "allowed" once it said so
    accepted,               \* history: how often a message passed the signature check,
    passed                  \* and how many requests of a key passed the limit, by time

windows == <<windowStart, count>>
vars == <<bindings, now, stamp, nonceExpires, windows, pc, accepted, passed>>

Times == 0..MaxTime

TypeOK ==
    /\ BindingsTypeOK
    /\ now \in Times
    /\ stamp \in [Messages -> Times]
    /\ nonceExpires \in [Messages -> Nat]
    /\ windowStart \in [Keys -> Times]
    /\ count \in [Keys -> 0..MaxRequests]
    /\ pc \in [Messages -> {"idle", "fetching", "resolving", "allowed"}]
    /\ accepted \in [Messages -> Nat]
    /\ passed \in [Keys -> [Times -> Nat]]

NoneYet == [k \in Keys |-> [t \in Times |-> 0]]

Init ==
    /\ BindingsInit
    /\ now = 0
    /\ stamp \in [Messages -> Times]
    /\ nonceExpires = [m \in Messages |-> 0]
    /\ windowStart = [k \in Keys |-> 0]
    /\ count = [k \in Keys |-> 0]
    /\ pc = [m \in Messages |-> "idle"]
    /\ accepted = [m \in Messages |-> 0]
    /\ passed = NoneYet

-----------------------------------------------------------------------------
(* The signature and the rate.                                              *)

\* A slip: a message may be signed any time ahead.
NotTooOld(m) == now - stamp[m] <= MaxSkew

InTime(m) == now - stamp[m] <= MaxSkew /\ stamp[m] - now <= MaxSkew

\* consumeNonce deletes the rows that have expired first.
NonceLeft(m) == IF nonceExpires[m] <= now THEN 0 ELSE nonceExpires[m]

\* A slip: a window ends one tick early.
NewWindowEarly(k) == count[k] = 0 \/ now - windowStart[k] >= Window - 1

NewWindow(k) == count[k] = 0 \/ now - windowStart[k] >= Window

UnderLimit(k) == NewWindow(k) \/ count[k] < MaxRequests

CountRequest(k) ==
    /\ windowStart' = IF NewWindow(k) THEN [windowStart EXCEPT ![k] = now] ELSE windowStart
    /\ count' = [count EXCEPT ![k] = IF NewWindow(k) THEN 1 ELSE @ + 1]
    /\ passed' = [passed EXCEPT ![k][now] = @ + 1]

Pass(m) ==
    /\ UnderLimit(KeyOf[m])
    /\ CountRequest(KeyOf[m])
    /\ pc' = [pc EXCEPT ![m] = "fetching"]

LimitRate(m) ==
    /\ ~UnderLimit(KeyOf[m])
    /\ UNCHANGED <<windows, passed, pc>>

\* A delivery that is not in time changes nothing.
Accept(m) ==
    /\ InTime(m)
    /\ NonceLeft(m) = 0
    /\ nonceExpires' = [n \in Messages |-> IF n = m THEN now + NonceTtl ELSE NonceLeft(n)]
    /\ accepted' = [accepted EXCEPT ![m] = @ + 1]
    /\ Pass(m) \/ LimitRate(m)
    /\ UNCHANGED <<bindings, now, stamp>>

RefuseReplay(m) ==
    /\ InTime(m)
    /\ NonceLeft(m) # 0
    /\ nonceExpires' = [n \in Messages |-> NonceLeft(n)]
    /\ UNCHANGED <<bindings, now, stamp, windows, pc, accepted, passed>>

-----------------------------------------------------------------------------
(* The decision.                                                            *)

\* bindingMatches, on what findProjectByFactoryFloorId,
\* findSurfaceByActivityInstance and findRun return.
Bound(instance, run, thread) ==
    \E s \in Surfaces :
        /\ activityInstance[s] = instance
        /\ FindSurface(s)
        /\ ActiveProject(surfaceProject[s])
        /\ s = thread
        /\ FindRun(run)
        /\ runSurface[run] = s

Answer(m, point) ==
    /\ pc' = [pc EXCEPT ![m] = point]
    /\ UNCHANGED <<bindings, now, stamp, nonceExpires, windows, accepted, passed>>

\* Discord knows the instance, at the place and with the user of the request.
CheckBindings(m) ==
    /\ pc[m] = "fetching"
    /\ Bound(InstanceOf[m], RunOf[m], ThreadOf[m])
    /\ pc' = [pc EXCEPT ![m] = "resolving"]
    /\ UNCHANGED <<bindings, now, stamp, nonceExpires, windows, accepted, passed>>

\* The member may do it.
Allow(m) ==
    /\ pc[m] = "resolving"
    /\ Answer(m, "allowed")

\* Discord says no, does not answer in time, or the bindings do not match.
Deny(m) ==
    /\ pc[m] \in {"fetching", "resolving"}
    /\ Answer(m, "idle")

-----------------------------------------------------------------------------

\* The rate windows and the handlers die with the process, the nonces do not.
Restart ==
    /\ windowStart' = [k \in Keys |-> 0]
    /\ count' = [k \in Keys |-> 0]
    /\ passed' = NoneYet
    /\ pc' = [m \in Messages |-> "idle"]
    /\ UNCHANGED <<bindings, now, stamp, nonceExpires, accepted>>

Tick ==
    /\ now < MaxTime
    /\ now' = now + 1
    /\ UNCHANGED <<bindings, stamp, nonceExpires, windows, pc, accepted, passed>>

MessageStep(m) ==
    \/ Accept(m)
    \/ RefuseReplay(m)
    \/ CheckBindings(m)
    \/ Allow(m)
    \/ Deny(m)

EnvironmentStep ==
    /\ BindingStep \/ \E s \in Surfaces, i \in Instances : AttachInstance(s, i)
    /\ UNCHANGED <<now, stamp, nonceExpires, windows, pc, accepted, passed>>

Next ==
    \/ \E m \in Messages : MessageStep(m)
    \/ EnvironmentStep
    \/ Restart
    \/ Tick

Spec == Init /\ [][Next]_vars

-----------------------------------------------------------------------------
(* Properties.                                                              *)

\* "Nonce replay prevention": no message passes the signature check twice,
\* though its nonce is forgotten after NonceTtl and the process may restart.
AcceptedOnce == \A m \in Messages : accepted[m] <= 1

\* Windows are fixed, so two of them may meet in any stretch of the length of
\* one: of a key, fewer than twice the limit pass in it.
PassedBetween(k, first, last) ==
    FoldFunctionOnSet(LAMBDA a, b : a + b, 0, passed[k], {t \in Times : first <= t /\ t <= last})

WithinRate ==
    \A k \in Keys, t \in Times :
        PassedBetween(k, t, t + Window - 1) < 2 * MaxRequests

\* Of one instance, only one run may be acted on at a time: the tables decide
\* which, not the request.
OneRunPerInstance ==
    \A i \in Instances, a, b \in Runs, s, t \in Surfaces \cup {None} :
        Bound(i, a, s) /\ Bound(i, b, t) => a = b

\* "6. resolves the current guild member [...] 7. verifies the local Factory
\* Floor project, Activity-instance surface, and active run bindings": what is
\* allowed is bound when it is allowed.  REFUTED, and checked by no run: the
\* bindings are looked up before the member is awaited.
AllowedIsBound ==
    [][\A m \in Messages : pc'[m] = "allowed" /\ pc[m] # "allowed"
          => Bound(InstanceOf[m], RunOf[m], ThreadOf[m])]_vars

=============================================================================
