------------------------- MODULE InteractionBroker -------------------------
(***************************************************************************)
(* Decisions asked of the members of a task's thread:                      *)
(* src/discord/interactionBroker.ts.                                       *)
(*                                                                         *)
(* A request shows a message with its controls and collects one            *)
(* interaction at a time until the deadline; whoever acts is looked up and *)
(* checked first.  While that is awaited nothing is collected: what other  *)
(* members do then is lost.  Several requests may wait in one thread, a    *)
(* cancelled turn's among them, and roles change at any time.              *)
(***************************************************************************)
EXTENDS Naturals

CONSTANTS
    Requests,
    KindOf,         \* "approval", "options", "select" or "text", by request
    Members

ASSUME RequestKinds ==
    KindOf \in [Requests -> {"approval", "options", "select", "text"}]

VARIABLES
    asked,      \* where each request's handler stands
    expired,    \* requests whose deadline has passed
    actor,      \* who is being checked, and what they chose
    answer,     \* what the request resolved to
    live,       \* requests whose controls are enabled in the thread
    authorized, \* members with the role (external)
    acted       \* history: <<request, member, choice>> collected and authorized

brokerVars == <<asked, expired, actor, answer, live, authorized, acted>>

\* What a control stands for: "stale" is a control of no use to the request
\* (a foreign custom id, an option that is not offered).
Controls(r) ==
    CASE KindOf[r] = "approval" -> {"allow", "deny", "stale"}
      [] KindOf[r] = "text" -> {"reply"}
      [] OTHER -> {"option", "stale"}

NoAnswer == "none"
GivenUp(r) == IF KindOf[r] = "approval" THEN "timeout" ELSE "skipped"

Nobody == [member |-> "nobody", choice |-> "none"]

BrokerInit ==
    /\ asked = [r \in Requests |-> "idle"]
    /\ expired = {}
    /\ actor = [r \in Requests |-> Nobody]
    /\ answer = [r \in Requests |-> NoAnswer]
    /\ live = {}
    /\ authorized \in SUBSET Members
    /\ acted = {}

Goes(r, to) == asked' = [asked EXCEPT ![r] = to]

\* requestApproval and requestUserInput: the message is sent, or the request
\* is rejected.
AskRequest(r) ==
    /\ asked[r] = "idle"
    /\ \/ /\ Goes(r, "collecting")
          /\ live' = live \cup {r}
          /\ UNCHANGED answer
       \/ /\ Goes(r, "resolved")
          /\ answer' = [answer EXCEPT ![r] = "rejected"]
          /\ UNCHANGED live
    /\ UNCHANGED <<expired, actor, authorized, acted>>

\* awaitMessageComponent, awaitMessages: one interaction of one member.  A
\* reply in the thread reaches every request that waits for one.
Interact(m, r, c) ==
    /\ r \in live /\ c \in Controls(r)
    /\ LET heard == {q \in Requests :
                        /\ asked[q] = "collecting" /\ q \notin expired
                        /\ IF KindOf[r] = "text" THEN KindOf[q] = "text" ELSE q = r} IN
       /\ heard # {}
       /\ asked' = [q \in Requests |-> IF q \in heard THEN "checking" ELSE asked[q]]
       /\ actor' = [q \in Requests |-> IF q \in heard THEN [member |-> m, choice |-> c]
                                       ELSE actor[q]]
    /\ UNCHANGED <<expired, answer, live, authorized, acted>>

\* Slip: who may decide is not looked at.
MemberNotChecked(r) ==
    /\ asked[r] = "checking"
    /\ IF actor[r].member \in authorized
       THEN acted' = acted \cup {<<r, actor[r].member, actor[r].choice>>}
       ELSE UNCHANGED acted
    /\ Goes(r, IF actor[r].choice = "stale" THEN "collecting" ELSE "deferring")
    /\ UNCHANGED <<expired, actor, answer, live, authorized>>

\* The member was fetched and checked.  One without the role, or who could not
\* be fetched, is told so (but for a reply), and the collector starts again for
\* the time that is left.
MemberChecked(r) ==
    /\ asked[r] = "checking"
    /\ LET m == actor[r].member  c == actor[r].choice IN
       \/ /\ m \in authorized
          /\ acted' = acted \cup {<<r, m, c>>}
          /\ Goes(r, IF c = "stale" THEN "collecting" ELSE "deferring")
       \/ Goes(r, "collecting") /\ UNCHANGED acted
    /\ UNCHANGED <<expired, actor, answer, live, authorized>>

\* deferUpdate was answered or not; the decision stands.
Decided(r) ==
    /\ asked[r] = "deferring"
    /\ answer' = [answer EXCEPT ![r] = actor[r].choice]
    /\ Goes(r, "disabling")
    /\ UNCHANGED <<expired, actor, live, authorized, acted>>

\* The deadline: the collector ends, and no other is started.
DeadlinePasses(r) ==
    /\ asked[r] \notin {"idle", "resolved"} /\ r \notin expired
    /\ expired' = expired \cup {r}
    /\ UNCHANGED <<asked, actor, answer, live, authorized, acted>>

\* Slip: every member who is turned away gives the request a new deadline.
CollectorRestarts(r) ==
    /\ asked[r] = "collecting" /\ r \in expired
    /\ IF actor[r] = Nobody
       THEN answer' = [answer EXCEPT ![r] = GivenUp(r)] /\ Goes(r, "disabling")
            /\ UNCHANGED <<expired, actor>>
       ELSE expired' = expired \ {r} /\ actor' = [actor EXCEPT ![r] = Nobody]
            /\ UNCHANGED <<asked, answer>>
    /\ UNCHANGED <<live, authorized, acted>>

CollectorEnds(r) ==
    /\ asked[r] = "collecting" /\ r \in expired
    /\ answer' = [answer EXCEPT ![r] = GivenUp(r)]
    /\ Goes(r, "disabling")
    /\ UNCHANGED <<expired, actor, live, authorized, acted>>

\* disableButtons, disableSelect (a failed edit leaves the controls as they
\* are); a request for text has none.  The request resolves.
Resolve(r) ==
    /\ asked[r] = "disabling"
    /\ live' \in {live, live \ {r}}
    /\ Goes(r, "resolved")
    /\ UNCHANGED <<expired, actor, answer, authorized, acted>>

RolesChange ==
    /\ authorized' \in SUBSET Members
    /\ UNCHANGED <<asked, expired, actor, answer, live, acted>>

BrokerNext ==
    \/ \E r \in Requests :
          \/ AskRequest(r) \/ MemberChecked(r) \/ Decided(r) \/ DeadlinePasses(r)
          \/ CollectorEnds(r) \/ Resolve(r)
          \/ \E m \in Members, c \in Controls(r) : Interact(m, r, c)
    \/ RolesChange

BrokerSpec == BrokerInit /\ [][BrokerNext]_brokerVars

\* discord.js answers or gives up, and timers fire.
BrokerFairness ==
    \A r \in Requests :
        /\ WF_brokerVars(MemberChecked(r))
        /\ WF_brokerVars(Decided(r))
        /\ WF_brokerVars(DeadlinePasses(r))
        /\ WF_brokerVars(CollectorEnds(r))
        /\ WF_brokerVars(Resolve(r))

-----------------------------------------------------------------------------
\* A decision is one that a member chose on a control of this request while
\* holding the role - whoever else acted in between.
DecisionIsAuthorized ==
    \A r \in Requests : answer[r] \in {"allow", "deny", "option", "reply"} =>
        \E m \in Members : <<r, m, answer[r]>> \in acted

\* Every request comes to an end, also when members without the role keep
\* acting on it: the turn that waits for it is never stuck.
RequestEnds ==
    \A r \in Requests : (asked[r] = "collecting") ~> (asked[r] = "resolved")
=============================================================================
