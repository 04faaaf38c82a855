---------------------------- MODULE PrimaryChat ----------------------------
(***************************************************************************)
(* The PM chat and the tasks it launches: primary/primaryAgentService.ts   *)
(* in the owner's channel, terminal/repl.ts in the terminal, over          *)
(* primary/primaryConversationService.ts.                                  *)
(*                                                                         *)
(* The messages of the channel are handled at the same time, the lines of  *)
(* the terminal one after the other.  The model proposes a task or asks    *)
(* for a decision; the owner answers within two minutes.  What a task may  *)
(* use is granted for that task, and only Claude isolates it.              *)
(***************************************************************************)
EXTENDS Naturals, Sequences

CONSTANTS
    ChatProviders,
    Users, Owner,
    Messages,       \* messages of the channel that may be handled at once
    MaxProposals,   \* bound on what the model proposes
    MaxLines        \* bound on the lines of the terminal that wait

ASSUME ChatAssumption == Owner \in Users /\ MaxProposals \in Nat /\ MaxLines \in Nat

VARIABLES
    chatProject,    \* the project of the proposals: its default provider, or Gone
    chat,           \* the messages being handled
    term,           \* the line being handled, and what the terminal waits for
    typed,          \* the lines that wait
    proposed,       \* number of proposals
    consent,        \* what the owner agreed to: [proposal, capability]
    launches        \* the tasks that were started, in order

chatVars == <<chatProject, chat, term, typed, proposed, consent, launches>>

Gone == "gone"
NoCapability == "no capability"
Open == "project's"     \* a proposal that leaves the provider to the project
Quiet == [at |-> "quiet"]

CapabilitiesFor(fast) == IF fast THEN {"fast-forward"} ELSE {"github"}

ChatInit ==
    /\ chatProject \in ChatProviders
    /\ chat = [m \in Messages |-> Quiet]
    /\ term = Quiet /\ typed = <<>>
    /\ proposed = 0 /\ consent = {} /\ launches = <<>>

\* A proposal of the model; what the flags say is the model's choice.
Proposals == [id : {proposed + 1}, provider : ChatProviders \cup {Open}, portfolio : BOOLEAN, fast : BOOLEAN]

ProviderOf(proposal) == IF proposal.provider = Open THEN chatProject ELSE proposal.provider

Agrees(proposal, capability) ==
    consent' = consent \cup {[proposal |-> proposal, capability |-> capability]}

-----------------------------------------------------------------------------
(* The channel.                                                             *)

\* handleMessage: the messages of others are ignored.
Receive(m, explicit) ==
    /\ chat[m] = Quiet
    /\ chat' = [chat EXCEPT ![m] = [at |-> "thinking", explicit |-> explicit, follows |-> FALSE]]
    /\ UNCHANGED <<chatProject, term, typed, proposed, consent, launches>>

\* The model replies, fails, or its poll is sent; the answer to a decision may
\* not ask for another.
Replies(m) ==
    /\ chat[m].at = "thinking"
    /\ chat' = [chat EXCEPT ![m] = Quiet]
    /\ UNCHANGED <<chatProject, term, typed, proposed, consent, launches>>

AsksDecision(m) ==
    /\ chat[m].at = "thinking" /\ ~chat[m].follows
    /\ chat' = [chat EXCEPT ![m] = [at |-> "deciding"]]
    /\ UNCHANGED <<chatProject, term, typed, proposed, consent, launches>>

\* A portfolio task is offered when its provider is Claude, and only with the
\* menu of capabilities.
ProposesPortfolio(m, proposal) ==
    /\ chat[m].at = "thinking" /\ proposed < MaxProposals /\ proposal.portfolio
    /\ proposed' = proposal.id
    /\ chat' = [chat EXCEPT ![m] =
                  IF chatProject # Gone /\ ProviderOf(proposal) = "claude"
                  THEN [at |-> "authorizing", proposal |-> proposal] ELSE Quiet]
    /\ UNCHANGED <<chatProject, term, typed, consent, launches>>

\* Another is started when the message said so, or offered.
Proposes(m, proposal) ==
    /\ chat[m].at = "thinking" /\ proposed < MaxProposals /\ ~proposal.portfolio
    /\ proposed' = proposal.id
    /\ IF chat[m].explicit
       THEN /\ Agrees(proposal, NoCapability)
            /\ chat' = [chat EXCEPT ![m] = [at |-> "starting", proposal |-> proposal, capability |-> NoCapability]]
       ELSE /\ chat' = [chat EXCEPT ![m] = [at |-> "offered", proposal |-> proposal]]
            /\ UNCHANGED consent
    /\ UNCHANGED <<chatProject, term, typed, launches>>

\* The filter of awaitMessageComponent.
TakesClick(who) == who = Owner

ClickStart(m, who) ==
    /\ chat[m].at = "offered" /\ TakesClick(who)
    /\ chat' = [chat EXCEPT ![m] = [at |-> "starting", proposal |-> chat[m].proposal, capability |-> NoCapability]]
    /\ IF who = Owner THEN Agrees(chat[m].proposal, NoCapability) ELSE UNCHANGED consent
    /\ UNCHANGED <<chatProject, term, typed, proposed, launches>>

SelectCapability(m, who) ==
    /\ chat[m].at = "authorizing" /\ TakesClick(who)
    /\ \E capability \in CapabilitiesFor(chat[m].proposal.fast) :
          /\ chat' = [chat EXCEPT ![m] = [at |-> "starting", proposal |-> chat[m].proposal, capability |-> capability]]
          /\ IF who = Owner THEN Agrees(chat[m].proposal, capability) ELSE UNCHANGED consent
    /\ UNCHANGED <<chatProject, term, typed, proposed, launches>>

Decide(m, who) ==
    /\ chat[m].at = "deciding" /\ TakesClick(who)
    /\ chat' = [chat EXCEPT ![m] = [at |-> "thinking", explicit |-> FALSE, follows |-> TRUE]]
    /\ UNCHANGED <<chatProject, term, typed, proposed, consent, launches>>

\* The owner cancels, or two minutes pass.
Lapses(m) ==
    /\ chat[m].at \in {"offered", "authorizing", "deciding"}
    /\ chat' = [chat EXCEPT ![m] = Quiet]
    /\ UNCHANGED <<chatProject, term, typed, proposed, consent, launches>>

-----------------------------------------------------------------------------
(* Launching.                                                               *)

\* Slip: the provider was looked at when the task was offered.
CheckedWhenOffered(proposal, capability) ==
    proposal.fast => capability = "fast-forward"

\* launch looks at the project as it is now.
MayLaunch(proposal, capability) ==
    /\ capability # NoCapability => ProviderOf(proposal) = "claude"
    /\ proposal.fast => capability = "fast-forward"

Seeding(proposal, capability) ==
    [at |-> "seeding", proposal |-> proposal, capability |-> capability, provider |-> ProviderOf(proposal)]

\* The provider is fixed before the seed message is sent.
Launch(m) ==
    /\ chat[m].at = "starting"
    /\ chat' = [chat EXCEPT ![m] = IF chatProject # Gone /\ MayLaunch(chat[m].proposal, chat[m].capability)
                                   THEN Seeding(chat[m].proposal, chat[m].capability) ELSE Quiet]
    /\ UNCHANGED <<chatProject, term, typed, proposed, consent, launches>>

\* startFromMessage; the task gets the capability with its settings.
Starts(work) ==
    IF chatProject # Gone
    THEN launches' = Append(launches, [proposal |-> work.proposal, capability |-> work.capability,
                                       provider |-> work.provider])
    ELSE UNCHANGED launches

TaskStarts(m) ==
    /\ chat[m].at = "seeding"
    /\ Starts(chat[m])
    /\ chat' = [chat EXCEPT ![m] = Quiet]
    /\ UNCHANGED <<chatProject, term, typed, proposed, consent>>

\* The channel is gone, Discord fails, or the coordinator refuses.
TaskFails(m) ==
    /\ chat[m].at = "seeding"
    /\ chat' = [chat EXCEPT ![m] = Quiet]
    /\ UNCHANGED <<chatProject, term, typed, proposed, consent, launches>>

-----------------------------------------------------------------------------
(* The terminal: drainQueue handles one line after the other.               *)

Lines == {"start", "1", "2"}

Type(line) ==
    /\ term.at # "stopped" /\ Len(typed) < MaxLines
    /\ typed' = Append(typed, line)
    /\ UNCHANGED <<chatProject, chat, term, proposed, consent, launches>>

Takes(next) ==
    /\ typed # <<>>
    /\ typed' = Tail(typed)
    /\ term' = next
    /\ UNCHANGED <<chatProject, chat, proposed, launches>>

TakeText ==
    /\ term = Quiet
    /\ Takes([at |-> "thinking", explicit |-> Head(typed) = "start"])
    /\ UNCHANGED consent

TakeChoice ==
    /\ term.at = "confirming" /\ typed # <<>>
    /\ \/ /\ Head(typed) = "1"
          /\ Takes([at |-> "launching", proposal |-> term.proposal])
          /\ Agrees(term.proposal, NoCapability)
       \/ /\ Head(typed) = "2"
          /\ Takes(Quiet) /\ UNCHANGED consent
       \/ /\ Head(typed) \notin {"1", "2"}
          /\ Takes(Quiet) \/ Takes(term)
          /\ UNCHANGED consent

\* A number chooses an option of the decision and asks the model again; any
\* other line cancels or is refused.
TakeDecision ==
    /\ term.at = "deciding" /\ typed # <<>>
    /\ IF Head(typed) \in {"1", "2"}
       THEN Takes([at |-> "thinking", explicit |-> FALSE])
       ELSE Takes(Quiet) \/ Takes(term)
    /\ UNCHANGED consent

TerminalReplies ==
    /\ term.at = "thinking"
    /\ term' \in {Quiet, [at |-> "deciding"]}
    /\ UNCHANGED <<chatProject, chat, typed, proposed, consent, launches>>

TerminalProposes(proposal) ==
    /\ term.at = "thinking" /\ proposed < MaxProposals
    /\ proposed' = proposal.id
    /\ IF term.explicit
       THEN term' = [at |-> "launching", proposal |-> proposal] /\ Agrees(proposal, NoCapability)
       ELSE term' = [at |-> "confirming", proposal |-> proposal] /\ UNCHANGED consent
    /\ UNCHANGED <<chatProject, chat, typed, launches>>

\* sharedLaunchTask: portfolio work is refused.
TerminalLaunches ==
    /\ term.at = "launching"
    /\ term' = IF chatProject # Gone /\ ~term.proposal.portfolio
               THEN Seeding(term.proposal, NoCapability) ELSE Quiet
    /\ UNCHANGED <<chatProject, chat, typed, proposed, consent, launches>>

\* ... or fails, as in the channel.
TerminalStarts ==
    /\ term.at = "seeding"
    /\ Starts(term) \/ UNCHANGED launches
    /\ term' = Quiet
    /\ UNCHANGED <<chatProject, chat, typed, proposed, consent>>

\* /exit is handled between lines.
TerminalStops ==
    /\ term = Quiet
    /\ term' = [at |-> "stopped"] /\ typed' = <<>>
    /\ UNCHANGED <<chatProject, chat, proposed, consent, launches>>

-----------------------------------------------------------------------------
\* /provider of the project; the project is archived or registered again.
ProjectChanges ==
    /\ chatProject' \in (ChatProviders \cup {Gone}) \ {chatProject}
    /\ UNCHANGED <<chat, term, typed, proposed, consent, launches>>

ChatNext ==
    \/ \E m \in Messages :
          \/ \E explicit \in BOOLEAN : Receive(m, explicit)
          \/ Replies(m) \/ AsksDecision(m)
          \/ \E proposal \in Proposals : ProposesPortfolio(m, proposal) \/ Proposes(m, proposal)
          \/ \E who \in Users : ClickStart(m, who) \/ SelectCapability(m, who) \/ Decide(m, who)
          \/ Lapses(m) \/ Launch(m) \/ TaskStarts(m) \/ TaskFails(m)
    \/ \E line \in Lines : Type(line)
    \/ TakeText \/ TakeChoice \/ TakeDecision
    \/ TerminalReplies \/ TerminalLaunches \/ TerminalStarts \/ TerminalStops
    \/ \E proposal \in Proposals : TerminalProposes(proposal)
    \/ ProjectChanges

ChatSpec == ChatInit /\ [][ChatNext]_chatVars

-----------------------------------------------------------------------------
\* Whatever messages, lines, clicks and changes of the project overlap, a task
\* is started once for a proposal, with the owner's consent for that proposal
\* and that capability; a portfolio task runs with one that fits it, and a
\* capability is given to Claude only.
LaunchIsAuthorized ==
    /\ \A i \in DOMAIN launches :
          /\ [proposal |-> launches[i].proposal, capability |-> launches[i].capability] \in consent
          /\ launches[i].capability # NoCapability => launches[i].provider = "claude"
          /\ launches[i].proposal.portfolio =>
                launches[i].capability \in CapabilitiesFor(launches[i].proposal.fast)
    /\ \A i, j \in DOMAIN launches : launches[i].proposal = launches[j].proposal => i = j
=============================================================================
