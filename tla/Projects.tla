------------------------------ MODULE Projects ------------------------------
(***************************************************************************)
(* Registration of projects: commands/addProject.ts, removeProject.ts and  *)
(* roborev.ts over services/channelManager.ts and the projects table.      *)
(*                                                                         *)
(* A command makes or deletes Discord channels one call at a time, and     *)
(* reads or writes the table in between; commands overlap.  A call that    *)
(* fails leaves the channel as it was, a write that fails the row, and the *)
(* process may die between any two of them.                                *)
(***************************************************************************)
EXTENDS Naturals, Sequences

CONSTANTS
    Names,
    Commands    \* bound: the commands that are given, in their order

ASSUME ProjectsAssumption == Commands \subseteq Nat \ {0}

VARIABLES
    projects,   \* the active row of each name: [category, agent, roborev]
    channels,   \* the channels of the guild
    command,    \* where each command stands
    told,       \* flips with each notifyRoborevConfigurationChanged
    discarded   \* history: the channels that a /roborev disable has deleted

projectVars == <<projects, channels, command, told, discarded>>

\* The channels that command c makes.
Channel(c, kind) == <<c, kind>>
NoChannel == <<0, "none">>

NoRow == [category |-> NoChannel, agent |-> NoChannel, roborev |-> NoChannel]
NotGiven == [at |-> "not given"]
Finished == [at |-> "finished"]

ProjectsInit ==
    /\ projects = [n \in Names |-> NoRow]
    /\ channels = {}
    /\ command = [c \in Commands |-> NotGiven]
    /\ told = FALSE
    /\ discarded = {}

Registered(n) == projects[n] # NoRow

AnyProjectHasRoborev == \E n \in Names : projects[n].roborev # NoChannel

Give(c, record) ==
    /\ command[c] = NotGiven
    /\ \A d \in Commands : d < c => command[d] # NotGiven
    /\ command' = [command EXCEPT ![c] = record]

Proceed(c, record) == command' = [command EXCEPT ![c] = record]

At(c, place) == command[c].at = place

\* The project's row changes; the review source hears of it.
Notify == told' = ~told

\* The channels still to be deleted, one after the other.
Deleting(doomed) == IF doomed = <<>> THEN Finished ELSE [at |-> "deleting", doomed |-> doomed]

-----------------------------------------------------------------------------
(* /add-project                                                             *)

AddProject(c, n, includeRoborev) ==
    /\ ~Registered(n)
    /\ Give(c, [at |-> "creating", name |-> n, made |-> NoRow, includeRoborev |-> includeRoborev])
    /\ UNCHANGED <<projects, channels, told, discarded>>

\* The category comes first, then its channels.
NextKind(made) ==
    IF made.category = NoChannel THEN "category" ELSE IF made.agent = NoChannel THEN "agent" ELSE "roborev"

CreateChannel(c) ==
    LET n == command[c].name
        kind == NextKind(command[c].made)
        made == [command[c].made EXCEPT ![kind] = Channel(c, kind)]
        includeRoborev == command[c].includeRoborev
    IN
    /\ At(c, "creating")
    /\ channels' = channels \cup {Channel(c, kind)}
    /\ Proceed(c, IF kind = "category" \/ (kind = "agent" /\ includeRoborev)
                  THEN [at |-> "creating", name |-> n, made |-> made, includeRoborev |-> includeRoborev]
                  ELSE [at |-> "registering", name |-> n, made |-> made])
    /\ UNCHANGED <<projects, told, discarded>>

\* createProjectChannels deletes what it made, the category first.
CreateChannelFails(c) ==
    LET made == command[c].made IN
    /\ At(c, "creating")
    /\ Proceed(c, Deleting(<<made.category, made.agent, made.roborev>>))
    /\ UNCHANGED <<projects, channels, told, discarded>>

ChannelsOf(row) == <<row.agent, row.roborev, row.category>>

\* Slip: whoever fails deletes the channels.
AlwaysCompensates(c) == Proceed(c, Deleting(ChannelsOf(command[c].made)))

\* The channels of a project that is registered are kept.
Compensate(c) ==
    Proceed(c, IF Registered(command[c].name) THEN Finished ELSE Deleting(ChannelsOf(command[c].made)))

Register(c) ==
    LET n == command[c].name  made == command[c].made IN
    /\ At(c, "registering")
    /\ ~Registered(n)
    /\ projects' = [projects EXCEPT ![n] = made]
    /\ IF made.roborev # NoChannel THEN Notify ELSE UNCHANGED told
    /\ Proceed(c, [at |-> "answering", name |-> n, made |-> made])
    /\ UNCHANGED <<channels, discarded>>

\* The name was taken meanwhile, or the database fails.
RegisterFails(c) ==
    /\ At(c, "registering")
    /\ Compensate(c)
    /\ UNCHANGED <<projects, channels, told, discarded>>

Answer(c) ==
    /\ At(c, "answering")
    /\ \/ Proceed(c, Finished)
       \/ Compensate(c)
    /\ UNCHANGED <<projects, channels, told, discarded>>

DeleteChannel(c) ==
    LET doomed == command[c].doomed IN
    /\ At(c, "deleting")
    /\ channels' \in {channels, channels \ {Head(doomed)}}
    /\ Proceed(c, Deleting(Tail(doomed)))
    /\ UNCHANGED <<projects, told, discarded>>

-----------------------------------------------------------------------------
(* /remove-project                                                          *)

RemoveProject(c, n) ==
    /\ Registered(n)
    /\ Give(c, [at |-> "archiving", name |-> n])
    /\ UNCHANGED <<projects, channels, told, discarded>>

Archive(c) ==
    LET n == command[c].name IN
    /\ At(c, "archiving")
    /\ projects' = [projects EXCEPT ![n] = NoRow]
    /\ IF projects[n].roborev # NoChannel THEN Notify ELSE UNCHANGED told
    /\ Proceed(c, Deleting(ChannelsOf(projects[n])))
    /\ UNCHANGED <<channels, discarded>>

-----------------------------------------------------------------------------
(* /roborev                                                                 *)

EnableReviews(c, n) ==
    /\ Registered(n) /\ projects[n].roborev = NoChannel
    /\ Give(c, [at |-> "checking", name |-> n, category |-> projects[n].category])
    /\ UNCHANGED <<projects, channels, told, discarded>>

\* The category is the one that was read before the CLI was asked.
CreateReviewChannel(c) ==
    /\ At(c, "checking")
    /\ command[c].category \in channels
    /\ channels' = channels \cup {Channel(c, "roborev")}
    /\ Proceed(c, [at |-> "storing", name |-> command[c].name])
    /\ UNCHANGED <<projects, told, discarded>>

StoreReviewChannel(c) ==
    LET n == command[c].name IN
    /\ At(c, "storing")
    /\ Registered(n)
    /\ projects' = [projects EXCEPT ![n].roborev = Channel(c, "roborev")]
    /\ Notify /\ Proceed(c, Finished)
    /\ UNCHANGED <<channels, discarded>>

DisableReviews(c, n) ==
    /\ projects[n].roborev # NoChannel
    /\ Give(c, [at |-> "discarding", name |-> n, channel |-> projects[n].roborev])
    /\ UNCHANGED <<projects, channels, told, discarded>>

\* A channel that cannot be fetched counts as deleted.
DeleteReviewChannel(c) ==
    /\ At(c, "discarding")
    /\ channels' \in {channels, channels \ {command[c].channel}}
    /\ discarded' = discarded \cup {command[c].channel}
    /\ Proceed(c, [at |-> "clearing", name |-> command[c].name])
    /\ UNCHANGED <<projects, told>>

ClearReviewChannel(c) ==
    LET n == command[c].name IN
    /\ At(c, "clearing")
    /\ Registered(n)
    /\ projects' = [projects EXCEPT ![n].roborev = NoChannel]
    /\ Notify /\ Proceed(c, Finished)
    /\ UNCHANGED <<channels, discarded>>

\* A reply, the CLI, Discord or a write of the row fails, or there is no such
\* project any more.  What was created or deleted before stays so.
GiveUp(c) ==
    /\ command[c].at \in {"archiving", "checking", "storing", "discarding", "clearing"}
    /\ Proceed(c, Finished)
    /\ UNCHANGED <<projects, channels, told, discarded>>

\* The commands that were given end where they stand.
ProcessDies ==
    /\ command' = [c \in Commands |-> IF command[c] = NotGiven THEN NotGiven ELSE Finished]
    /\ UNCHANGED <<projects, channels, told, discarded>>

ProjectsNext ==
    \E c \in Commands :
        \/ CreateChannel(c) \/ CreateChannelFails(c) \/ Register(c) \/ RegisterFails(c)
        \/ Answer(c) \/ DeleteChannel(c) \/ Archive(c)
        \/ CreateReviewChannel(c) \/ StoreReviewChannel(c)
        \/ DeleteReviewChannel(c) \/ ClearReviewChannel(c) \/ GiveUp(c)
        \/ \E n \in Names :
              \/ RemoveProject(c, n) \/ EnableReviews(c, n) \/ DisableReviews(c, n)
              \/ \E includeRoborev \in BOOLEAN : AddProject(c, n, includeRoborev)

-----------------------------------------------------------------------------
(* A registered project has its channels: whatever fails, wherever the      *)
(* process dies and however commands overlap, no channel that a row names   *)
(* is deleted, but for the review channel by a /roborev disable of that     *)
(* very project.  (When its write then fails, or the process dies before    *)
(* it, the row names the deleted channel until the command is given again.) *)
ChannelsOfProjectsExist ==
    \A n \in Names : Registered(n) =>
        /\ {projects[n].category, projects[n].agent} \subseteq channels
        /\ projects[n].roborev \in channels \cup {NoChannel} \cup discarded
=============================================================================
