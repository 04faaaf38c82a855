-------------------------- MODULE OperationsProofs --------------------------
(***************************************************************************)
(* What the program does around its tasks, for any number of names,        *)
(* commands, processes, repositories, databases and backups: the channels  *)
(* of the registered projects and the process that streams their reviews,  *)
(* the branches of concurrent tasks, the database and its backups, and the *)
(* start and the end of the process.                                       *)
(***************************************************************************)
EXTENDS MCOperations, WellFoundedInduction, FiniteSetTheorems, SequenceTheorems, TLAPS

-----------------------------------------------------------------------------
(* Projects and reviews.                                                    *)
(*                                                                          *)
(* A channel is its maker's until it is released: stored in the row of a    *)
(* project, or given up.  No row has what is about to be deleted, because   *)
(* only what no row has is given up, and what is released is never stored   *)
(* again.                                                                   *)

Kinds == {"category", "agent", "roborev"}
Made == Commands \X Kinds
OfKind(kind) == (Commands \X {kind}) \cup {NoChannel}

Rows == [category : OfKind("category"), agent : OfKind("agent"), roborev : OfKind("roborev")]

\* The rows that command c can make.
Optional(ch) == {ch, NoChannel}
OwnRows(c) ==
    [category : Optional(Channel(c, "category")),
     agent : Optional(Channel(c, "agent")),
     roborev : Optional(Channel(c, "roborev"))]

\* The stages of a command before its channels are some row's.
Private == {"not given", "creating", "registering", "checking", "storing"}

Released(ch) == ch \in Made /\ command[ch[1]].at \notin Private

InRow(n, ch) == ch \in {projects[n].category, projects[n].agent, projects[n].roborev}
InNoRow(ch) == \A n \in Names : ~InRow(n, ch)

-----------------------------------------------------------------------------
(* The inductive invariant: the rows, then what each command holds.         *)

RowsOK ==
    /\ projects \in [Names -> Rows]
    /\ \A n \in Names : Registered(n) => (projects[n].category # NoChannel /\ projects[n].agent # NoChannel)
    /\ \A n \in Names, ch \in Made : InRow(n, ch) => Released(ch)
    /\ \A n, m \in Names, ch \in Made : (InRow(n, ch) /\ InRow(m, ch)) => n = m

\* What a command has made and not given up exists.
HasMade(c, r) ==
    /\ r.made \in OwnRows(c)
    /\ {r.made.category, r.made.agent, r.made.roborev} \subseteq channels \cup {NoChannel}

CreatingOK(c, r) ==
    /\ HasMade(c, r)
    /\ r.made.roborev = NoChannel
    /\ r.made.category = NoChannel => r.made.agent = NoChannel

RegisteringOK(c, r) ==
    HasMade(c, r) /\ r.made.category # NoChannel /\ r.made.agent # NoChannel

\* Only the project that was registered has the channels.
AnsweringOK(c, r) ==
    /\ r.made \in OwnRows(c)
    /\ \A n \in Names, ch \in Made : (InRow(n, ch) /\ ch[1] = c) => n = r.name

DeletingOK(c, r) ==
    /\ r.doomed \in Seq(Made \cup {NoChannel}) /\ r.doomed # <<>>
    /\ \A i \in 1 .. Len(r.doomed) : r.doomed[i] # NoChannel => (Released(r.doomed[i]) /\ InNoRow(r.doomed[i]))

DiscardingOK(c, r) ==
    /\ Released(r.channel) /\ r.channel[2] = "roborev"
    /\ \A n \in Names : InRow(n, r.channel) => n = r.name

Named == {"creating", "registering", "answering", "archiving", "storing", "checking", "discarding", "clearing"}

CommandOK(c, r) ==
    /\ r.at \in Named => r.name \in Names
    /\ r.at = "creating" => CreatingOK(c, r)
    /\ r.at = "registering" => RegisteringOK(c, r)
    /\ r.at = "answering" => AnsweringOK(c, r)
    /\ r.at = "storing" => Channel(c, "roborev") \in channels
    /\ r.at = "deleting" => DeletingOK(c, r)
    /\ r.at = "discarding" => DiscardingOK(c, r)

CommandsOK == DOMAIN command = Commands /\ \A c \in Commands : CommandOK(c, command[c])

ProjectsInv == RowsOK /\ CommandsOK /\ ChannelsOfProjectsExist

-----------------------------------------------------------------------------

LEMMA Channels ==
    /\ \A c \in Commands, k \in Kinds :
          Channel(c, k) \in Made /\ Channel(c, k)[1] = c /\ Channel(c, k)[2] = k
    /\ \A ch \in Made : ch[1] \in Commands /\ ch[2] \in Kinds
    /\ NoChannel \notin Made
    /\ \A k \in Kinds : \A ch \in OfKind(k) : ch # NoChannel => (ch \in Made /\ ch[2] = k)
    /\ \A k \in Kinds, c \in Commands : Channel(c, k) \in OfKind(k) /\ NoChannel \in OfKind(k)
  BY ProjectsAssumption DEF Made, Kinds, Channel, NoChannel, OfKind

LEMMA UnregisteredHasNone ==
    \A n \in Names, ch \in Made : InRow(n, ch) => Registered(n)
  <1>1. NoRow.category = NoChannel /\ NoRow.agent = NoChannel /\ NoRow.roborev = NoChannel
    BY DEF NoRow
  <1> QED
    BY <1>1, Channels DEF Registered, InRow

LEMMA Proceeds ==
    ASSUME CommandsOK, NEW c \in Commands, NEW r, Proceed(c, r)
    PROVE  /\ DOMAIN command' = Commands
           /\ command'[c] = r
           /\ \A d \in Commands \ {c} : command'[d] = command[d]
  BY DEF Proceed, CommandsOK

\* A command that has released its channels never takes them back.
LEMMA ReleasedStays ==
    ASSUME CommandsOK, NEW c \in Commands, NEW r, Proceed(c, r),
           command[c].at \in Private \/ r.at \notin Private
    PROVE  \A ch : Released(ch) => Released(ch)'
  BY Proceeds, Channels DEF Released

\* The other commands keep what they hold, as long as the rows gain channels
\* of this command only, that were not released, and only released channels
\* are deleted.
LEMMA OthersKeep ==
    ASSUME CommandsOK, NEW c \in Commands, NEW r, Proceed(c, r),
           \A ch : Released(ch) => Released(ch)',
           \A n \in Names, ch \in Made : InRow(n, ch)' => (InRow(n, ch) \/ (ch[1] = c /\ ~Released(ch))),
           \A ch \in channels : ch \in channels' \/ Released(ch) \/ ch = NoChannel,
           NEW d \in Commands \ {c}
    PROVE  CommandOK(d, command[d])'
  <1>1. command'[d] = command[d] /\ CommandOK(d, command[d])
    BY Proceeds DEF CommandsOK
  <1>2. ASSUME command[d].at \in Private, NEW k \in Kinds, Channel(d, k) \in channels
        PROVE  Channel(d, k) \in channels'
    BY <1>2, Channels DEF Released
  <1>3. HasMade(d, command[d]) /\ command[d].at \in Private => HasMade(d, command[d])'
    BY <1>1, <1>2 DEF HasMade, OwnRows, Optional, Kinds
  <1>4. command[d].at = "creating" => CreatingOK(d, command[d])'
    BY <1>1, <1>3 DEF CommandOK, CreatingOK, Private
  <1>5. command[d].at = "registering" => RegisteringOK(d, command[d])'
    BY <1>1, <1>3 DEF CommandOK, RegisteringOK, Private
  <1>6. command[d].at = "answering" => AnsweringOK(d, command[d])'
    BY <1>1 DEF CommandOK, AnsweringOK, OwnRows
  <1>7. command[d].at = "storing" => Channel(d, "roborev") \in channels'
    BY <1>1, <1>2 DEF CommandOK, Private, Kinds
  <1>8. command[d].at = "deleting" => DeletingOK(d, command[d])'
    <2> SUFFICES ASSUME command[d].at = "deleting" PROVE DeletingOK(d, command[d])'
      OBVIOUS
    <2> DEFINE doomed == command[d].doomed
    <2>1. DeletingOK(d, command[d]) /\ doomed' = doomed
      BY <1>1 DEF CommandOK
    <2>2. ASSUME NEW i \in 1 .. Len(doomed), doomed[i] # NoChannel
          PROVE  Released(doomed[i])' /\ InNoRow(doomed[i])'
      BY <1>1, <2>1, <2>2 DEF DeletingOK, InNoRow, Released
    <2> QED
      BY <2>1, <2>2 DEF DeletingOK
  <1>9. command[d].at = "discarding" => DiscardingOK(d, command[d])'
    BY <1>1 DEF CommandOK, DiscardingOK, Released
  <1> QED
    BY <1>1, <1>4, <1>5, <1>6, <1>7, <1>8, <1>9 DEF CommandOK

\* A step that leaves the rows alone and deletes no channel keeps the
\* invariant if the command's new record is in order.
LEMMA RowsStay ==
    ASSUME ProjectsInv, NEW c \in Commands, NEW r, Proceed(c, r),
           projects' = projects,
           channels \subseteq channels', discarded' = discarded,
           command[c].at \in Private \/ r.at \notin Private,
           CommandOK(c, command[c])'
    PROVE  ProjectsInv'
  <1>1. \A ch : Released(ch) => Released(ch)'
    BY ReleasedStays DEF ProjectsInv
  <1>2. RowsOK'
    BY <1>1 DEF ProjectsInv, RowsOK, Registered, InRow, NoRow
  <1>3. CommandsOK'
    BY <1>1, Proceeds, OthersKeep DEF ProjectsInv, CommandsOK, InRow
  <1>4. ChannelsOfProjectsExist'
    BY DEF ProjectsInv, ChannelsOfProjectsExist, Registered, NoRow
  <1> QED
    BY <1>2, <1>3, <1>4 DEF ProjectsInv

-----------------------------------------------------------------------------
(* The commands that only give, make and give up.                           *)

LEMMA Gives ==
    ASSUME NEW c \in Commands, NEW r, Give(c, r)
    PROVE  Proceed(c, r) /\ command[c].at = "not given"
  <1>1. command[c] = NotGiven /\ Proceed(c, r)
    BY DEF Give, Proceed
  <1>2. NotGiven.at = "not given"
    BY DEF NotGiven
  <1> QED
    BY <1>1, <1>2

LEMMA AddProjectOK ==
    ASSUME ProjectsInv, NEW c \in Commands, NEW n \in Names, NEW b \in BOOLEAN, AddProject(c, n, b)
    PROVE  ProjectsInv'
  <1> DEFINE r == [at |-> "creating", name |-> n, made |-> NoRow, includeRoborev |-> b]
  <1>1. Proceed(c, r) /\ command[c].at = "not given" /\ UNCHANGED <<projects, channels, discarded>>
    BY Gives DEF AddProject
  <1>2. command'[c] = r
    BY <1>1, Proceeds DEF ProjectsInv
  <1>3. CommandOK(c, command[c])'
    BY <1>2 DEF CommandOK, Named, CreatingOK, HasMade, OwnRows, Optional, NoRow
  <1> QED
    BY <1>1, <1>3, RowsStay DEF Private

LEMMA GivenOK ==
    ASSUME ProjectsInv, NEW c \in Commands, NEW n \in Names,
           RemoveProject(c, n) \/ EnableReviews(c, n) \/ DisableReviews(c, n)
    PROVE  ProjectsInv'
  <1>1. command[c].at = "not given" /\ UNCHANGED <<projects, channels, discarded>>
    BY Gives DEF RemoveProject, EnableReviews, DisableReviews
  <1>2. CASE RemoveProject(c, n)
    <2> DEFINE r == [at |-> "archiving", name |-> n]
    <2>1. Proceed(c, r)
      BY <1>2, Gives DEF RemoveProject
    <2>2. CommandOK(c, command[c])'
      BY <2>1, Proceeds DEF ProjectsInv, CommandOK
    <2> QED
      BY <1>1, <2>1, <2>2, RowsStay DEF Private
  <1>3. CASE EnableReviews(c, n)
    <2> DEFINE r == [at |-> "checking", name |-> n, category |-> projects[n].category]
    <2>1. Proceed(c, r)
      BY <1>3, Gives DEF EnableReviews
    <2>2. CommandOK(c, command[c])'
      BY <2>1, Proceeds DEF ProjectsInv, CommandOK
    <2> QED
      BY <1>1, <2>1, <2>2, RowsStay DEF Private
  <1>4. CASE DisableReviews(c, n)
    <2> DEFINE r == [at |-> "discarding", name |-> n, channel |-> projects[n].roborev]
    <2>1. Proceed(c, r) /\ projects[n].roborev # NoChannel
      BY <1>4, Gives DEF DisableReviews
    <2>2. PICK ch : ch = projects[n].roborev
      OBVIOUS
    <2>3. ch \in Made /\ ch[2] = "roborev"
      BY <2>1, <2>2, Channels DEF ProjectsInv, RowsOK, Rows, Kinds
    <2>4. Released(ch) /\ \A m \in Names : InRow(m, ch) => m = n
      BY <2>2, <2>3 DEF ProjectsInv, RowsOK, InRow
    <2>5. command'[c] = r /\ Released(ch)'
      BY <1>1, <2>1, <2>4, Proceeds, ReleasedStays DEF ProjectsInv, Private
    <2>6. DiscardingOK(c, command[c])'
      <3>1. command'[c].channel = ch /\ command'[c].name = n
        BY <2>2, <2>5
      <3>2. \A m \in Names : InRow(m, ch)' => m = n
        BY <1>1, <2>4 DEF InRow
      <3>3. Released(command[c].channel)'
        BY <2>5, <3>1 DEF Released
      <3>4. \A m \in Names : InRow(m, command[c].channel)' => m = n
        BY <3>1, <3>2 DEF InRow
      <3> QED
        BY <2>3, <3>1, <3>3, <3>4 DEF DiscardingOK
    <2>7. CommandOK(c, command[c])'
      BY <2>5, <2>6 DEF CommandOK
    <2> QED
      BY <1>1, <2>1, <2>7, RowsStay DEF Private
  <1> QED
    BY <1>2, <1>3, <1>4

\* A command that gives channels up is in order when no row has them.
LEMMA Dooms ==
    ASSUME CommandsOK, NEW c \in Commands, NEW s \in Seq(Made \cup {NoChannel}), Proceed(c, Deleting(s)),
           \A i \in 1 .. Len(s) :
              s[i] # NoChannel => ((s[i][1] = c \/ Released(s[i])) /\ InNoRow(s[i])')
    PROVE  /\ CommandOK(c, command[c])'
           /\ Deleting(s).at \notin Private
           /\ \A ch : Released(ch) => Released(ch)'
  <1>1. Deleting(s).at \in {"deleting", "finished"}
    BY DEF Deleting, Finished
  <1>2. command'[c] = Deleting(s)
    BY Proceeds
  <1>3. \A ch : Released(ch) => Released(ch)'
    BY <1>1, ReleasedStays DEF Private
  <1>4. ASSUME s = <<>> PROVE CommandOK(c, command[c])'
    <2>1. command'[c].at = "finished"
      BY <1>2, <1>4 DEF Deleting, Finished
    <2> QED
      BY <2>1 DEF CommandOK, Named
  <1>5. ASSUME s # <<>> PROVE CommandOK(c, command[c])'
    <2>1. command'[c].at = "deleting" /\ command'[c].doomed = s
      BY <1>2, <1>5 DEF Deleting
    <2>2. ASSUME NEW i \in 1 .. Len(s), s[i] # NoChannel PROVE Released(s[i])'
      <3>1. s[i] \in Made /\ (s[i][1] = c \/ Released(s[i]))
        BY <2>2
      <3>2. command'[c].at \notin Private
        BY <2>1 DEF Private
      <3> QED
        BY <1>3, <3>1, <3>2 DEF Released
    <2>3. DeletingOK(c, command[c])'
      BY <1>5, <2>1, <2>2 DEF DeletingOK
    <2> QED
      BY <2>1, <2>3 DEF CommandOK, Named
  <1> QED
    BY <1>1, <1>2, <1>3, <1>4, <1>5 DEF Private

\* What a command has made and not stored is in no row.
LEMMA OwnAreFree ==
    ASSUME ProjectsInv, NEW c \in Commands, command[c].at \in Private, NEW ch \in Made, ch[1] = c
    PROVE  InNoRow(ch)
  BY DEF ProjectsInv, RowsOK, Released, InNoRow

LEMMA OwnRowsAreMade ==
    ASSUME NEW c \in Commands, NEW made \in OwnRows(c)
    PROVE  /\ made.category = Channel(c, "category") \/ made.category = NoChannel
           /\ made.agent = Channel(c, "agent") \/ made.agent = NoChannel
           /\ made.roborev = Channel(c, "roborev") \/ made.roborev = NoChannel
           /\ \A ch \in {made.category, made.agent, made.roborev} :
                 ch # NoChannel => (ch \in Made /\ ch[1] = c)
           /\ {made.category, made.agent, made.roborev} \subseteq Made \cup {NoChannel}
  BY Channels DEF OwnRows, Optional, Kinds

\* Giving up the channels of a row that the command has made.
LEMMA GivesUpRow ==
    ASSUME ProjectsInv, NEW c \in Commands, NEW made \in OwnRows(c), NEW s,
           s \in {<<made.category, made.agent, made.roborev>>, ChannelsOf(made)},
           Proceed(c, Deleting(s)), UNCHANGED <<projects, channels, discarded>>,
           \A ch \in Made : ch[1] = c => InNoRow(ch)
    PROVE  ProjectsInv'
  <1>1. s \in Seq(Made \cup {NoChannel}) /\ Len(s) = 3
    <2>1. /\ made.category \in Made \cup {NoChannel}
          /\ made.agent \in Made \cup {NoChannel}
          /\ made.roborev \in Made \cup {NoChannel}
      BY OwnRowsAreMade
    <2>2. PICK x, y, z \in Made \cup {NoChannel} : s = <<x, y, z>>
      BY <2>1 DEF ChannelsOf
    <2> QED
      BY <2>2
  <1>2. ASSUME NEW i \in 1 .. Len(s) PROVE s[i] \in {made.category, made.agent, made.roborev}
    BY <1>1 DEF ChannelsOf
  <1>3. ASSUME NEW i \in 1 .. Len(s), s[i] # NoChannel PROVE s[i][1] = c /\ InNoRow(s[i])'
    BY <1>2, <1>3, OwnRowsAreMade DEF InNoRow, InRow
  <1>4. CommandOK(c, command[c])' /\ Deleting(s).at \notin Private
    BY <1>1, <1>3, Dooms DEF ProjectsInv
  <1> QED
    BY <1>4, RowsStay

LEMMA CreateChannelOK ==
    ASSUME ProjectsInv, NEW c \in Commands, CreateChannel(c)
    PROVE  ProjectsInv'
  <1>1. command[c].at = "creating" /\ CreatingOK(c, command[c]) /\ command[c].name \in Names
    BY DEF CreateChannel, At, ProjectsInv, CommandsOK, CommandOK, Named
  <1>2. PICK before : before = command[c].made
    OBVIOUS
  <1>3. PICK kind : kind = NextKind(before)
    OBVIOUS
  <1>4. PICK made : made = [before EXCEPT ![kind] = Channel(c, kind)]
    OBVIOUS
  <1>5. before \in OwnRows(c) /\ kind \in Kinds
    BY <1>1, <1>2, <1>3 DEF CreatingOK, HasMade, NextKind, Kinds
  <1>6. made \in OwnRows(c)
    BY <1>4, <1>5 DEF OwnRows, Optional, Kinds
  <1>7. /\ channels' = channels \cup {Channel(c, kind)} /\ discarded' = discarded
        /\ {made.category, made.agent, made.roborev} \subseteq channels' \cup {NoChannel}
    <2>1. channels' = channels \cup {Channel(c, kind)} /\ discarded' = discarded
      BY <1>2, <1>3 DEF CreateChannel
    <2>2. {before.category, before.agent, before.roborev} \subseteq channels \cup {NoChannel}
      BY <1>1, <1>2 DEF CreatingOK, HasMade
    <2> QED
      BY <2>1, <2>2, <1>4, <1>5 DEF OwnRows, Kinds
  <1>8. PICK r : /\ Proceed(c, r)
                 /\ \/ /\ kind = "category" \/ kind = "agent"
                       /\ r = [at |-> "creating", name |-> command[c].name, made |-> made,
                               includeRoborev |-> command[c].includeRoborev]
                    \/ /\ kind # "category"
                       /\ r = [at |-> "registering", name |-> command[c].name, made |-> made]
    BY <1>2, <1>3, <1>4 DEF CreateChannel
  <1>9. command'[c] = r
    BY <1>8, Proceeds DEF ProjectsInv
  <1>10. CommandOK(c, command[c])'
    <2>1. CASE r.at = "creating"
      <3>1. made.roborev = NoChannel /\ (made.category = NoChannel => made.agent = NoChannel)
        <4>1. kind = "category" \/ kind = "agent"
          BY <1>8, <2>1
        <4>2. CASE kind = "category"
          BY <1>1, <1>2, <1>3, <1>4, <1>5, <4>2, Channels DEF CreatingOK, OwnRows, Kinds
        <4>3. CASE kind = "agent"
          BY <1>1, <1>2, <1>3, <1>4, <1>5, <4>3, Channels DEF CreatingOK, NextKind, OwnRows, Kinds
        <4> QED
          BY <4>1, <4>2, <4>3
      <3>2. r.made = made /\ r.name \in Names
        BY <1>1, <1>8, <2>1
      <3>3. CreatingOK(c, command[c])'
        BY <1>6, <1>7, <1>9, <3>1, <3>2 DEF CreatingOK, HasMade, OwnRows, Optional
      <3> QED
        BY <2>1, <1>9, <3>2, <3>3 DEF CommandOK
    <2>2. CASE r.at = "registering"
      <3>1. made.category # NoChannel /\ made.agent # NoChannel
        BY <1>3, <1>4, <1>5, <1>8, <2>2, Channels DEF NextKind, OwnRows, Kinds
      <3>2. r.made = made /\ r.name \in Names
        BY <1>1, <1>8, <2>2
      <3>3. RegisteringOK(c, command[c])'
        BY <1>6, <1>7, <1>9, <3>1, <3>2 DEF RegisteringOK, HasMade, OwnRows, Optional
      <3> QED
        BY <2>2, <1>9, <3>2, <3>3 DEF CommandOK
    <2> QED
      BY <1>8, <2>1, <2>2
  <1>11. projects' = projects
    BY DEF CreateChannel
  <1> QED
    BY <1>1, <1>7, <1>8, <1>10, <1>11, RowsStay DEF Private

LEMMA GivesUpOK ==
    ASSUME ProjectsInv, NEW c \in Commands, CreateChannelFails(c) \/ RegisterFails(c) \/ Answer(c)
    PROVE  ProjectsInv'
  <1>1. PICK made : made = command[c].made
    OBVIOUS
  <1>2. UNCHANGED <<projects, channels, discarded>>
    BY DEF CreateChannelFails, RegisterFails, Answer
  <1>3. made \in OwnRows(c) /\ command[c].at \in {"creating", "registering", "answering"}
    BY <1>1 DEF CreateChannelFails, RegisterFails, Answer, At, ProjectsInv, CommandsOK, CommandOK,
             CreatingOK, RegisteringOK, HasMade, AnsweringOK
  <1>4. \/ Proceed(c, Finished)
        \/ /\ \/ Proceed(c, Deleting(<<made.category, made.agent, made.roborev>>))
              \/ Proceed(c, Deleting(ChannelsOf(made)))
           /\ command[c].at \in Private \/ ~Registered(command[c].name)
    BY <1>1 DEF CreateChannelFails, RegisterFails, Answer, Compensate, At, Private
  <1>5. CASE Proceed(c, Finished)
    <2>1. command'[c].at = "finished" /\ Finished.at = "finished"
      BY <1>5, Proceeds DEF ProjectsInv, Finished
    <2>2. CommandOK(c, command[c])'
      BY <2>1 DEF CommandOK, Named
    <2> QED
      BY <1>2, <1>3, <1>5, <2>1, <2>2, RowsStay DEF Private
  <1>6. CASE ~Proceed(c, Finished)
    <2>1. ASSUME NEW ch \in Made, ch[1] = c PROVE InNoRow(ch)
      <3>1. CASE command[c].at \in Private
        BY <2>1, <3>1, OwnAreFree
      <3>2. CASE command[c].at = "answering"
        <4>1. \A n \in Names : InRow(n, ch) => n = command[c].name
          BY <2>1, <3>2 DEF ProjectsInv, CommandsOK, CommandOK, AnsweringOK
        <4>2. ~Registered(command[c].name)
          BY <1>4, <1>6, <3>2 DEF Private
        <4> QED
          BY <4>1, <4>2, UnregisteredHasNone DEF InNoRow
      <3> QED
        BY <1>3, <3>1, <3>2 DEF Private
    <2> QED
      BY <1>2, <1>3, <1>4, <1>6, <2>1, GivesUpRow
  <1> QED
    BY <1>5, <1>6

LEMMA OtherQuietOK ==
    ASSUME ProjectsInv, NEW c \in Commands, CreateReviewChannel(c) \/ GiveUp(c)
    PROVE  ProjectsInv'
  <1>1. CASE CreateReviewChannel(c)
    <2>1. PICK r : r = [at |-> "storing", name |-> command[c].name]
      OBVIOUS
    <2>2. /\ Proceed(c, r) /\ projects' = projects /\ channels' = channels \cup {Channel(c, "roborev")}
          /\ discarded' = discarded
          /\ command[c].at = "checking"
      BY <1>1, <2>1 DEF CreateReviewChannel, At
    <2>3. r.name \in Names /\ r.at = "storing"
      BY <2>1, <2>2 DEF ProjectsInv, CommandsOK, CommandOK, Named
    <2>4. command'[c] = r
      BY <2>2, Proceeds DEF ProjectsInv
    <2>5. CommandOK(c, command[c])'
      BY <2>2, <2>3, <2>4 DEF CommandOK
    <2> QED
      BY <2>2, <2>3, <2>5, RowsStay DEF Private
  <1>2. CASE GiveUp(c)
    <2>1. Proceed(c, Finished) /\ UNCHANGED <<projects, channels, discarded>>
      BY <1>2 DEF GiveUp
    <2>2. command'[c].at = "finished" /\ Finished.at = "finished"
      BY <2>1, Proceeds DEF ProjectsInv, Finished
    <2>3. CommandOK(c, command[c])'
      BY <2>2 DEF CommandOK, Named
    <2> QED
      BY <2>1, <2>2, <2>3, RowsStay DEF Private
  <1> QED
    BY <1>1, <1>2

-----------------------------------------------------------------------------
(* The steps that change a row.                                             *)

LEMMA RegisterOK ==
    ASSUME ProjectsInv, NEW c \in Commands, Register(c)
    PROVE  ProjectsInv'
  <1>1. PICK n, made : n = command[c].name /\ made = command[c].made
    OBVIOUS
  <1>2. PICK r : r = [at |-> "answering", name |-> n, made |-> made]
    OBVIOUS
  <1>3. /\ command[c].at = "registering" /\ Proceed(c, r) /\ ~Registered(n)
        /\ projects' = [projects EXCEPT ![n] = made] /\ channels' = channels /\ discarded' = discarded
    BY <1>1, <1>2 DEF Register, At
  <1>4. /\ n \in Names /\ made \in OwnRows(c) /\ made \in Rows
        /\ {made.category, made.agent, made.roborev} \subseteq channels \cup {NoChannel}
        /\ made.category # NoChannel /\ made.agent # NoChannel
    <2>1. n \in Names /\ RegisteringOK(c, command[c])
      BY <1>1, <1>3 DEF ProjectsInv, CommandsOK, CommandOK, Named
    <2>2. made \in OwnRows(c)
      BY <1>1, <2>1 DEF RegisteringOK, HasMade
    <2>3. made \in Rows
      BY <2>2, Channels DEF OwnRows, Optional, Rows, Kinds
    <2> QED
      BY <1>1, <2>1, <2>2, <2>3 DEF RegisteringOK, HasMade
  <1>5. command'[c] = r /\ r.at = "answering" /\ r.name = n /\ r.made = made
    BY <1>2, <1>3, Proceeds DEF ProjectsInv
  <1>6. \A ch : Released(ch) => Released(ch)'
    BY <1>3, ReleasedStays DEF ProjectsInv, Private
  <1>7. \A ch \in Made : ch[1] = c => (InNoRow(ch) /\ Released(ch)' /\ ~Released(ch))
    BY <1>3, <1>5, OwnAreFree DEF Private, Released
  <1>8. \A ch \in Made :
            /\ InRow(n, ch)' => ch[1] = c
            /\ \A m \in Names \ {n} : InRow(m, ch)' <=> InRow(m, ch)
    <2>1. \A m \in Names \ {n} : projects'[m] = projects[m]
      BY <1>3 DEF ProjectsInv, RowsOK
    <2>2. projects'[n] = made
      BY <1>3, <1>4 DEF ProjectsInv, RowsOK
    <2> QED
      BY <1>4, <2>1, <2>2, OwnRowsAreMade, Channels DEF InRow
  <1>9. RowsOK'
    <2>1. projects' \in [Names -> Rows]
      BY <1>3, <1>4 DEF ProjectsInv, RowsOK
    <2>2. \A m \in Names : Registered(m)' => (projects[m].category # NoChannel /\ projects[m].agent # NoChannel)'
      BY <1>3, <1>4 DEF ProjectsInv, RowsOK, Registered
    <2>3. \A m \in Names, ch \in Made : InRow(m, ch)' => Released(ch)'
      BY <1>6, <1>7, <1>8 DEF ProjectsInv, RowsOK
    <2>4. \A m, l \in Names, ch \in Made : (InRow(m, ch)' /\ InRow(l, ch)') => m = l
      BY <1>7, <1>8 DEF ProjectsInv, RowsOK, InNoRow
    <2> QED
      BY <2>1, <2>2, <2>3, <2>4 DEF RowsOK
  <1>10. CommandsOK'
    <2>1. AnsweringOK(c, command[c])'
      <3>1. \A m \in Names, ch \in Made : (InRow(m, ch)' /\ ch[1] = c) => m = n
        BY <1>7, <1>8 DEF InNoRow
      <3> QED
        BY <1>4, <1>5, <3>1 DEF AnsweringOK, OwnRows
    <2>2. CommandOK(c, command[c])'
      BY <1>4, <1>5, <2>1 DEF CommandOK
    <2>3. \A m \in Names, ch \in Made : InRow(m, ch)' => (InRow(m, ch) \/ (ch[1] = c /\ ~Released(ch)))
      BY <1>7, <1>8
    <2>4. \A d \in Commands \ {c} : CommandOK(d, command[d])'
      BY <1>3, <1>6, <2>3, OthersKeep DEF ProjectsInv
    <2> QED
      BY <1>3, <2>2, <2>4, Proceeds DEF ProjectsInv, CommandsOK
  <1>11. ChannelsOfProjectsExist'
    <2> SUFFICES ASSUME NEW m \in Names, Registered(m)'
                 PROVE  /\ {projects'[m].category, projects'[m].agent} \subseteq channels
                        /\ projects'[m].roborev \in channels \cup {NoChannel} \cup discarded
      BY <1>3 DEF ChannelsOfProjectsExist
    <2>1. CASE m = n
      BY <1>3, <1>4, <2>1 DEF ProjectsInv, RowsOK
    <2>2. CASE m # n
      <3>1. projects'[m] = projects[m] /\ Registered(m)
        BY <1>3, <2>2 DEF Registered
      <3> QED
        BY <3>1 DEF ProjectsInv, ChannelsOfProjectsExist
    <2> QED
      BY <2>1, <2>2
  <1> QED
    BY <1>9, <1>10, <1>11 DEF ProjectsInv

LEMMA StoreReviewChannelOK ==
    ASSUME ProjectsInv, NEW c \in Commands, StoreReviewChannel(c)
    PROVE  ProjectsInv'
  <1>1. PICK n, own : n = command[c].name /\ own = Channel(c, "roborev")
    OBVIOUS
  <1>2. /\ command[c].at = "storing" /\ Proceed(c, Finished) /\ Registered(n)
        /\ projects' = [projects EXCEPT ![n].roborev = own] /\ channels' = channels /\ discarded' = discarded
    BY <1>1 DEF StoreReviewChannel, At
  <1>3. n \in Names /\ own \in channels /\ own \in OfKind("roborev") /\ own \in Made /\ own[1] = c
    BY <1>1, <1>2, Channels DEF ProjectsInv, CommandsOK, CommandOK, Named, Kinds
  <1>4. command'[c].at = "finished" /\ Finished.at = "finished"
    BY <1>2, Proceeds DEF ProjectsInv, Finished
  <1>5. \A ch : Released(ch) => Released(ch)'
    BY <1>2, <1>4, ReleasedStays DEF ProjectsInv, Private
  <1>6. InNoRow(own) /\ Released(own)' /\ ~Released(own)
    BY <1>2, <1>3, <1>4, OwnAreFree DEF Private, Released
  <1>7. /\ \A m \in Names \ {n} : projects'[m] = projects[m]
        /\ projects'[n] = [projects[n] EXCEPT !.roborev = own]
        /\ projects'[n] \in Rows
        /\ projects'[n].category = projects[n].category /\ projects'[n].agent = projects[n].agent
        /\ projects'[n].roborev = own
    BY <1>2, <1>3 DEF ProjectsInv, RowsOK, Rows
  <1>8. \A m \in Names, ch \in Made : InRow(m, ch)' => (InRow(m, ch) \/ (m = n /\ ch = own))
    BY <1>7 DEF InRow
  <1>9. RowsOK'
    <2>1. projects' \in [Names -> Rows]
      BY <1>2, <1>3, <1>7 DEF ProjectsInv, RowsOK
    <2>2. \A m \in Names : Registered(m)' => (projects[m].category # NoChannel /\ projects[m].agent # NoChannel)'
      BY <1>2, <1>7 DEF ProjectsInv, RowsOK, Registered
    <2>3. \A m \in Names, ch \in Made : InRow(m, ch)' => Released(ch)'
      BY <1>5, <1>6, <1>8 DEF ProjectsInv, RowsOK
    <2>4. \A m, l \in Names, ch \in Made : (InRow(m, ch)' /\ InRow(l, ch)') => m = l
      BY <1>6, <1>8 DEF ProjectsInv, RowsOK, InNoRow
    <2> QED
      BY <2>1, <2>2, <2>3, <2>4 DEF RowsOK
  <1>10. CommandsOK'
    <2>1. CommandOK(c, command[c])'
      BY <1>4 DEF CommandOK, Named
    <2>2. \A m \in Names, ch \in Made : InRow(m, ch)' => (InRow(m, ch) \/ (ch[1] = c /\ ~Released(ch)))
      BY <1>3, <1>6, <1>8
    <2>3. \A d \in Commands \ {c} : CommandOK(d, command[d])'
      BY <1>2, <1>5, <2>2, OthersKeep DEF ProjectsInv
    <2> QED
      BY <1>2, <2>1, <2>3, Proceeds DEF ProjectsInv, CommandsOK
  <1>11. ChannelsOfProjectsExist'
    <2> SUFFICES ASSUME NEW m \in Names, Registered(m)'
                 PROVE  /\ {projects'[m].category, projects'[m].agent} \subseteq channels
                        /\ projects'[m].roborev \in channels \cup {NoChannel} \cup discarded
      BY <1>2 DEF ChannelsOfProjectsExist
    <2>1. CASE m = n
      BY <1>2, <1>3, <1>7, <2>1 DEF ProjectsInv, ChannelsOfProjectsExist
    <2>2. CASE m # n
      <3>1. projects'[m] = projects[m] /\ Registered(m)
        BY <1>7, <2>2 DEF Registered
      <3> QED
        BY <3>1 DEF ProjectsInv, ChannelsOfProjectsExist
    <2> QED
      BY <2>1, <2>2
  <1> QED
    BY <1>9, <1>10, <1>11 DEF ProjectsInv

\* A step by which no row gains a channel.
LEMMA RowsShrink ==
    ASSUME ProjectsInv, NEW c \in Commands, NEW r, Proceed(c, r),
           \A ch : Released(ch) => Released(ch)',
           projects' \in [Names -> Rows],
           \A n \in Names : Registered(n)' => (projects'[n].category # NoChannel /\ projects'[n].agent # NoChannel),
           \A n \in Names, ch \in Made : InRow(n, ch)' => InRow(n, ch),
           \A ch \in channels : ch \in channels' \/ Released(ch) \/ ch = NoChannel,
           CommandOK(c, command[c])'
    PROVE  RowsOK' /\ CommandsOK'
  <1>1. RowsOK'
    BY DEF ProjectsInv, RowsOK
  <1>2. \A d \in Commands \ {c} : CommandOK(d, command[d])'
    BY OthersKeep DEF ProjectsInv
  <1> QED
    BY <1>1, <1>2, Proceeds DEF ProjectsInv, CommandsOK

LEMMA ArchiveOK ==
    ASSUME ProjectsInv, NEW c \in Commands, Archive(c)
    PROVE  ProjectsInv'
  <1>1. PICK n, s : n = command[c].name /\ s = ChannelsOf(projects[n])
    OBVIOUS
  <1>2. /\ command[c].at = "archiving" /\ Proceed(c, Deleting(s))
        /\ projects' = [projects EXCEPT ![n] = NoRow] /\ channels' = channels /\ discarded' = discarded
    BY <1>1 DEF Archive, At
  <1>3. n \in Names
    BY <1>1, <1>2 DEF ProjectsInv, CommandsOK, CommandOK, Named
  <1>4. /\ projects[n].category \in Made \cup {NoChannel}
        /\ projects[n].agent \in Made \cup {NoChannel}
        /\ projects[n].roborev \in Made \cup {NoChannel}
    BY <1>3, Channels DEF ProjectsInv, RowsOK, Rows, Kinds
  <1>5. s \in Seq(Made \cup {NoChannel}) /\ Len(s) = 3
    BY <1>1, <1>4 DEF ChannelsOf
  <1>6. \A m \in Names, ch \in Made : InRow(m, ch)' => (InRow(m, ch) /\ m # n)
    <2>1. NoRow.category = NoChannel /\ NoRow.agent = NoChannel /\ NoRow.roborev = NoChannel
      BY DEF NoRow
    <2>2. projects'[n] = NoRow /\ \A m \in Names \ {n} : projects'[m] = projects[m]
      BY <1>2, <1>3 DEF ProjectsInv, RowsOK
    <2> QED
      BY <2>1, <2>2, Channels DEF InRow
  <1>7. ASSUME NEW i \in 1 .. Len(s), s[i] # NoChannel PROVE Released(s[i]) /\ InNoRow(s[i])'
    <2>1. s[i] \in Made /\ InRow(n, s[i])
      BY <1>1, <1>4, <1>5, <1>7 DEF ChannelsOf, InRow
    <2> QED
      BY <1>3, <1>6, <2>1 DEF ProjectsInv, RowsOK, InNoRow
  <1>8. /\ CommandOK(c, command[c])' /\ Deleting(s).at \notin Private
        /\ \A ch : Released(ch) => Released(ch)'
    BY <1>2, <1>5, <1>7, Dooms DEF ProjectsInv
  <1>9. projects' \in [Names -> Rows]
    BY <1>2, Channels DEF ProjectsInv, RowsOK, NoRow, Rows, Kinds
  <1>10. RowsOK' /\ CommandsOK'
    <2>1. \A m \in Names : Registered(m)' => (projects'[m].category # NoChannel /\ projects'[m].agent # NoChannel)
      BY <1>2, <1>3 DEF ProjectsInv, RowsOK, Registered
    <2> QED
      BY <1>2, <1>6, <1>8, <1>9, <2>1, RowsShrink DEF Private
  <1>11. ChannelsOfProjectsExist'
    <2> SUFFICES ASSUME NEW m \in Names, Registered(m)'
                 PROVE  /\ {projects'[m].category, projects'[m].agent} \subseteq channels
                        /\ projects'[m].roborev \in channels \cup {NoChannel} \cup discarded
      BY <1>2 DEF ChannelsOfProjectsExist
    <2>1. projects'[m] = projects[m] /\ Registered(m)
      BY <1>2, <1>3 DEF Registered, ProjectsInv, RowsOK
    <2> QED
      BY <2>1 DEF ProjectsInv, ChannelsOfProjectsExist
  <1> QED
    BY <1>10, <1>11 DEF ProjectsInv

LEMMA ClearReviewChannelOK ==
    ASSUME ProjectsInv, NEW c \in Commands, ClearReviewChannel(c)
    PROVE  ProjectsInv'
  <1>1. PICK n : n = command[c].name
    OBVIOUS
  <1>2. /\ command[c].at = "clearing" /\ Proceed(c, Finished) /\ Registered(n)
        /\ projects' = [projects EXCEPT ![n].roborev = NoChannel] /\ channels' = channels /\ discarded' = discarded
    BY <1>1 DEF ClearReviewChannel, At
  <1>3. n \in Names
    BY <1>1, <1>2 DEF ProjectsInv, CommandsOK, CommandOK, Named
  <1>4. command'[c].at = "finished" /\ Finished.at = "finished"
    BY <1>2, Proceeds DEF ProjectsInv, Finished
  <1>5. /\ \A m \in Names \ {n} : projects'[m] = projects[m]
        /\ projects'[n] \in Rows
        /\ projects'[n].category = projects[n].category /\ projects'[n].agent = projects[n].agent
        /\ projects'[n].roborev = NoChannel
    BY <1>2, <1>3, Channels DEF ProjectsInv, RowsOK, Rows, Kinds
  <1>6. \A m \in Names, ch \in Made : InRow(m, ch)' => InRow(m, ch)
    BY <1>5, Channels DEF InRow
  <1>7. RowsOK' /\ CommandsOK'
    <2>1. CommandOK(c, command[c])'
      BY <1>4 DEF CommandOK, Named
    <2>2. projects' \in [Names -> Rows]
      BY <1>2, <1>5 DEF ProjectsInv, RowsOK
    <2>3. \A m \in Names : Registered(m)' => (projects'[m].category # NoChannel /\ projects'[m].agent # NoChannel)
      BY <1>2, <1>5 DEF ProjectsInv, RowsOK, Registered
    <2>4. \A ch : Released(ch) => Released(ch)'
      BY <1>2, <1>4, ReleasedStays DEF ProjectsInv, Private
    <2> QED
      BY <1>2, <1>6, <2>1, <2>2, <2>3, <2>4, RowsShrink DEF Private
  <1>8. ChannelsOfProjectsExist'
    <2> SUFFICES ASSUME NEW m \in Names, Registered(m)'
                 PROVE  /\ {projects'[m].category, projects'[m].agent} \subseteq channels
                        /\ projects'[m].roborev \in channels \cup {NoChannel} \cup discarded
      BY <1>2 DEF ChannelsOfProjectsExist
    <2>1. CASE m = n
      BY <1>2, <1>5, <2>1 DEF ProjectsInv, ChannelsOfProjectsExist
    <2>2. CASE m # n
      <3>1. projects'[m] = projects[m] /\ Registered(m)
        BY <1>5, <2>2 DEF Registered
      <3> QED
        BY <3>1 DEF ProjectsInv, ChannelsOfProjectsExist
    <2> QED
      BY <2>1, <2>2
  <1> QED
    BY <1>7, <1>8 DEF ProjectsInv

-----------------------------------------------------------------------------
(* The steps that delete a channel.                                         *)

LEMMA DeleteChannelOK ==
    ASSUME ProjectsInv, NEW c \in Commands, DeleteChannel(c)
    PROVE  ProjectsInv'
  <1>1. PICK doomed, rest : doomed = command[c].doomed /\ rest = Tail(doomed)
    OBVIOUS
  <1>2. /\ command[c].at = "deleting" /\ Proceed(c, Deleting(rest))
        /\ UNCHANGED <<projects, discarded>>
        /\ channels' \in {channels, channels \ {Head(doomed)}}
    BY <1>1 DEF DeleteChannel, At
  <1>3. DeletingOK(c, command[c])
    BY <1>2 DEF ProjectsInv, CommandsOK, CommandOK
  <1>4. /\ rest \in Seq(Made \cup {NoChannel})
        /\ Head(doomed) = doomed[1] /\ 1 \in 1 .. Len(doomed)
        /\ \A i \in 1 .. Len(rest) : i + 1 \in 1 .. Len(doomed) /\ rest[i] = doomed[i + 1]
    BY <1>1, <1>3 DEF DeletingOK
  <1>5. \A i \in 1 .. Len(rest) : rest[i] # NoChannel => (Released(rest[i]) /\ InNoRow(rest[i])')
    BY <1>1, <1>2, <1>3, <1>4 DEF DeletingOK, InNoRow, InRow
  <1>6. /\ CommandOK(c, command[c])' /\ Deleting(rest).at \notin Private
        /\ \A ch : Released(ch) => Released(ch)'
    BY <1>2, <1>4, <1>5, Dooms DEF ProjectsInv
  <1>7. Head(doomed) # NoChannel => (Released(Head(doomed)) /\ InNoRow(Head(doomed)))
    BY <1>1, <1>3, <1>4 DEF DeletingOK
  <1>8. RowsOK' /\ CommandsOK'
    <2>1. \A ch \in channels : ch \in channels' \/ Released(ch) \/ ch = NoChannel
      BY <1>2, <1>7
    <2>2. projects' \in [Names -> Rows]
      BY <1>2 DEF ProjectsInv, RowsOK
    <2>3. \A n \in Names : Registered(n)' => (projects'[n].category # NoChannel /\ projects'[n].agent # NoChannel)
      BY <1>2 DEF ProjectsInv, RowsOK, Registered
    <2>4. \A n \in Names, ch \in Made : InRow(n, ch)' => InRow(n, ch)
      BY <1>2 DEF InRow
    <2> QED
      BY <1>2, <1>6, <2>1, <2>2, <2>3, <2>4, RowsShrink
  <1>9. ChannelsOfProjectsExist'
    <2> SUFFICES ASSUME NEW n \in Names, Registered(n)
                 PROVE  /\ {projects[n].category, projects[n].agent} \subseteq channels'
                        /\ projects[n].roborev \in channels' \cup {NoChannel} \cup discarded
      BY <1>2 DEF ChannelsOfProjectsExist, Registered
    <2>1. projects[n].category # NoChannel /\ projects[n].agent # NoChannel
      BY DEF ProjectsInv, RowsOK
    <2>2. \A ch \in channels : (InRow(n, ch) /\ ch # NoChannel) => ch \in channels'
      BY <1>2, <1>7 DEF InNoRow
    <2> QED
      BY <2>1, <2>2 DEF ProjectsInv, ChannelsOfProjectsExist, InRow
  <1> QED
    BY <1>8, <1>9 DEF ProjectsInv

LEMMA DeleteReviewChannelOK ==
    ASSUME ProjectsInv, NEW c \in Commands, DeleteReviewChannel(c)
    PROVE  ProjectsInv'
  <1>1. PICK n, gone : n = command[c].name /\ gone = command[c].channel
    OBVIOUS
  <1>2. PICK r : r = [at |-> "clearing", name |-> n]
    OBVIOUS
  <1>3. /\ command[c].at = "discarding" /\ Proceed(c, r) /\ projects' = projects
        /\ channels' \in {channels, channels \ {gone}} /\ discarded' = discarded \cup {gone}
    BY <1>1, <1>2 DEF DeleteReviewChannel, At
  <1>4. n \in Names /\ Released(gone) /\ gone[2] = "roborev" /\ \A m \in Names : InRow(m, gone) => m = n
    BY <1>1, <1>3 DEF ProjectsInv, CommandsOK, CommandOK, DiscardingOK, Named
  <1>5. command'[c] = r /\ r.at = "clearing" /\ r.name = n
    BY <1>2, <1>3, Proceeds DEF ProjectsInv
  <1>6. \A ch : Released(ch) => Released(ch)'
    BY <1>3, <1>5, ReleasedStays DEF ProjectsInv, Private
  <1>7. CommandOK(c, command[c])'
    BY <1>4, <1>5 DEF CommandOK
  <1>8. RowsOK' /\ CommandsOK'
    <2>1. \A ch \in channels : ch \in channels' \/ Released(ch) \/ ch = NoChannel
      BY <1>3, <1>4
    <2>2. projects' \in [Names -> Rows]
      BY <1>3 DEF ProjectsInv, RowsOK
    <2>3. \A m \in Names : Registered(m)' => (projects'[m].category # NoChannel /\ projects'[m].agent # NoChannel)
      BY <1>3 DEF ProjectsInv, RowsOK, Registered
    <2>4. \A m \in Names, ch \in Made : InRow(m, ch)' => InRow(m, ch)
      BY <1>3 DEF InRow
    <2> QED
      BY <1>3, <1>6, <1>7, <2>1, <2>2, <2>3, <2>4, RowsShrink
  <1>9. ChannelsOfProjectsExist'
    <2> SUFFICES ASSUME NEW m \in Names, Registered(m)
                 PROVE  /\ {projects[m].category, projects[m].agent} \subseteq channels'
                        /\ projects[m].roborev \in channels' \cup {NoChannel} \cup discarded'
      BY <1>3 DEF ChannelsOfProjectsExist, Registered
    <2>1. projects[m].category # gone /\ projects[m].agent # gone
      BY <1>4, Channels DEF ProjectsInv, RowsOK, Rows, Kinds
    <2> QED
      BY <1>3, <2>1 DEF ProjectsInv, ChannelsOfProjectsExist
  <1> QED
    BY <1>8, <1>9 DEF ProjectsInv

-----------------------------------------------------------------------------

LEMMA ProcessDiesOK == ProjectsInv /\ ProcessDies => ProjectsInv'
  <1> SUFFICES ASSUME ProjectsInv, ProcessDies PROVE ProjectsInv'
    OBVIOUS
  <1>1. /\ UNCHANGED <<projects, channels, discarded>>
        /\ DOMAIN command' = Commands
        /\ \A c \in Commands : command'[c] = IF command[c] = NotGiven THEN NotGiven ELSE Finished
    BY DEF ProcessDies
  <1>2. NotGiven.at = "not given" /\ Finished.at = "finished"
    BY DEF NotGiven, Finished
  <1>3. \A ch : Released(ch) => Released(ch)'
    BY <1>1, <1>2, Channels DEF Released, Private
  <1>4. RowsOK'
    BY <1>1, <1>3 DEF ProjectsInv, RowsOK, Registered, InRow, NoRow
  <1>5. CommandsOK'
    <2>1. \A c \in Commands : command'[c].at \in {"not given", "finished"}
      BY <1>1, <1>2
    <2> QED
      BY <1>1, <2>1 DEF CommandsOK, CommandOK, Named
  <1>6. ChannelsOfProjectsExist'
    BY <1>1 DEF ProjectsInv, ChannelsOfProjectsExist, Registered, NoRow
  <1> QED
    BY <1>4, <1>5, <1>6 DEF ProjectsInv

LEMMA ProjectsStep == ProjectsInv /\ ProjectsNext => ProjectsInv'
  BY AddProjectOK, GivenOK, CreateChannelOK, GivesUpOK, OtherQuietOK, RegisterOK, ArchiveOK,
     StoreReviewChannelOK, ClearReviewChannelOK, DeleteChannelOK, DeleteReviewChannelOK
  DEF ProjectsNext

LEMMA ProjectsStutter == ProjectsInv /\ UNCHANGED projectVars => ProjectsInv'
  <1> SUFFICES ASSUME ProjectsInv, UNCHANGED projectVars PROVE ProjectsInv'
    OBVIOUS
  <1>1. UNCHANGED <<projects, channels, command, discarded>>
    BY DEF projectVars
  <1>2. RowsOK'
    BY <1>1 DEF ProjectsInv, RowsOK, Registered, InRow, Released
  <1>3. ASSUME NEW c \in Commands PROVE CommandOK(c, command[c])'
    BY <1>1 DEF ProjectsInv, CommandsOK, CommandOK, CreatingOK, RegisteringOK, AnsweringOK, DeletingOK,
             DiscardingOK, HasMade, Released, InNoRow, InRow
  <1>4. ChannelsOfProjectsExist'
    BY <1>1 DEF ProjectsInv, ChannelsOfProjectsExist, Registered
  <1> QED
    BY <1>1, <1>2, <1>3, <1>4 DEF ProjectsInv, CommandsOK

LEMMA ProjectsStart == ProjectsInit => ProjectsInv
  <1> SUFFICES ASSUME ProjectsInit PROVE ProjectsInv
    OBVIOUS
  <1>1. NoRow \in Rows /\ NoRow.category = NoChannel /\ NoRow.agent = NoChannel /\ NoRow.roborev = NoChannel
    BY DEF NoRow, Rows, OfKind
  <1>2. RowsOK
    BY <1>1, Channels DEF ProjectsInit, RowsOK, Registered, InRow
  <1>3. NotGiven.at = "not given"
    BY DEF NotGiven
  <1>4. CommandsOK
    BY <1>3 DEF ProjectsInit, CommandsOK, CommandOK, Named
  <1>5. ChannelsOfProjectsExist
    BY DEF ProjectsInit, ChannelsOfProjectsExist, Registered
  <1> QED
    BY <1>2, <1>4, <1>5 DEF ProjectsInv

(* A registered project has its channels, but for a review channel that was *)
(* deleted to disable its reviews: whatever calls and writes fail, wherever *)
(* the process dies, and however the commands of addProject.ts,             *)
(* removeProject.ts and roborev.ts overlap.                                 *)
THEOREM ProjectsHaveChannels == WatcherSpec => []ChannelsOfProjectsExist
  <1>1. ProjectsInit /\ WatcherInit => ProjectsInv
    BY ProjectsStart
  <1>2. ProjectsInv /\ [WatcherNext]_<<projectVars, watcherVars>> => ProjectsInv'
    <2>1. WatcherNext => (ProjectsNext \/ ProcessDies \/ UNCHANGED projectVars)
      BY DEF WatcherNext, CommandStep, Restart, StartSource, CliAnswers, RetryFires, Stable, Dispose, ProcessEnds
    <2> QED
      BY <2>1, ProjectsStep, ProcessDiesOK, ProjectsStutter
  <1>3. ProjectsInv => ChannelsOfProjectsExist
    BY DEF ProjectsInv
  <1> QED
    BY <1>1, <1>2, <1>3, PTL DEF WatcherSpec

-----------------------------------------------------------------------------
(* The watcher: a process that runs is the one the source knows, and a      *)
(* source that is not started has none.                                     *)
WatcherInv ==
    /\ child \in Processes \cup {NoProcess}
    /\ running \subseteq {child} \ {NoProcess}
    /\ ~Active => running = {}

LEMMA WatcherStep == WatcherInv /\ [WatcherNext]_<<projectVars, watcherVars>> => WatcherInv'
  <1> SUFFICES ASSUME WatcherInv, [WatcherNext]_<<projectVars, watcherVars>> PROVE WatcherInv'
    OBVIOUS
  <1> USE WatcherAssumption DEF WatcherInv, NoProcess
  <1>1. ASSUME NEW any, NEW timer, Reconcile(any, timer)
        PROVE  /\ child' \in Processes \cup {NoProcess}
               /\ running' \subseteq {child'} \ {NoProcess}
               /\ running = {} => running' = {}
    BY <1>1 DEF Reconcile, StopActiveProcess
  <1>2. CASE CommandStep
    BY <1>1, <1>2 DEF CommandStep, ConfigurationChanged, Active, watcherVars
  <1>3. CASE StartSource
    BY <1>1, <1>3 DEF StartSource, Active
  <1>4. CASE CliAnswers
    BY <1>4 DEF CliAnswers, DoStart, NotNeeded, ScheduleRestart, Active
  <1>5. CASE RetryFires
    BY <1>1, <1>5 DEF RetryFires, Active
  <1>6. CASE Stable
    BY <1>6 DEF Stable, Active
  <1>7. CASE Dispose
    BY <1>7 DEF Dispose, StopActiveProcess, Active
  <1>8. CASE \E p \in Processes : ProcessEnds(p)
    BY <1>8 DEF ProcessEnds, Active
  <1>9. CASE Restart
    BY <1>9 DEF Restart, Active
  <1>10. CASE UNCHANGED <<projectVars, watcherVars>>
    BY <1>10 DEF watcherVars, Active
  <1> QED
    BY <1>2, <1>3, <1>4, <1>5, <1>6, <1>7, <1>8, <1>9, <1>10 DEF WatcherNext

(* At most one process streams the reviews, the source knows it, and none   *)
(* is left when roborevReviewSource.ts has disposed of the source.          *)
THEOREM OneWatcherRuns == WatcherSpec => []OneWatcher
  <1>1. ProjectsInit /\ WatcherInit => WatcherInv
    BY DEF WatcherInit, WatcherInv, NoProcess
  <1>2. WatcherInv => OneWatcher
    BY DEF WatcherInv, OneWatcher, Active
  <1> QED
    BY <1>1, <1>2, WatcherStep, PTL DEF WatcherSpec

-----------------------------------------------------------------------------
(* Worktrees.                                                               *)
(*                                                                          *)
(* The chain of promises of a repository is a queue: there is a sequence of *)
(* the creates that have joined and not left, in which each waits for the   *)
(* one before it.  Only the first works, so what it has read of the         *)
(* branches holds until it has added its own.                               *)

Joined(c, r) == create[c].at \in {"waiting"} \cup Working /\ create[c].repository = r

QueueOf(r, s) ==
    /\ s \in Seq(Creates)
    /\ \A i, j \in 1 .. Len(s) : s[i] = s[j] => i = j
    /\ \A c \in Creates : Joined(c, r) <=> \E i \in 1 .. Len(s) : s[i] = c
    /\ repositoryQueues[r] = IF s = <<>> THEN Nobody ELSE s[Len(s)]
    /\ \A i \in 2 .. Len(s) : create[s[i]].at = "waiting" /\ create[s[i]].previous = s[i - 1]

Queues == \A r \in Repositories : \E s : QueueOf(r, s)

Shapes ==
    /\ DOMAIN create = Creates
    /\ DOMAIN repositoryQueues = Repositories
    /\ DOMAIN branches = Repositories
    /\ \A c \in Creates : create[c].at # "none" => create[c].repository \in Repositories

WorktreeInv == Shapes /\ Queues /\ BranchIsFree

\* Of a queue, only the first works.
LEMMA OnlyFirstWorks ==
    ASSUME NEW r \in Repositories, NEW s, QueueOf(r, s), NEW c \in Creates, Joined(c, r),
           create[c].at \in Working
    PROVE  s # <<>> /\ s[1] = c
  <1>1. PICK i \in 1 .. Len(s) : s[i] = c
    BY DEF QueueOf
  <1>2. create[c].at # "waiting"
    BY DEF Working
  <1>3. Len(s) \in Nat
    BY DEF QueueOf
  <1>4. i = 1
    BY <1>1, <1>2, <1>3 DEF QueueOf
  <1> QED
    BY <1>1, <1>3, <1>4

LEMMA OneWorks ==
    ASSUME Queues, NEW c \in Creates, NEW d \in Creates, NEW r \in Repositories,
           Joined(c, r), Joined(d, r), create[c].at \in Working, create[d].at \in Working
    PROVE  c = d
  BY OnlyFirstWorks DEF Queues

\* What a create does in one repository leaves the queues of the others.
LEMMA OtherQueue ==
    ASSUME NEW q \in Repositories, NEW s, QueueOf(q, s), NEW c \in Creates,
           ~Joined(c, q), ~Joined(c, q)',
           \A d \in Creates \ {c} : create'[d] = create[d],
           repositoryQueues'[q] = repositoryQueues[q]
    PROVE  QueueOf(q, s)'
  <1>1. \A i \in 1 .. Len(s) : s[i] \in Creates \ {c}
    BY DEF QueueOf
  <1>2. \A d \in Creates : Joined(d, q)' <=> Joined(d, q)
    BY DEF Joined
  <1>3. \A i \in 2 .. Len(s) : create'[s[i]].at = "waiting" /\ create'[s[i]].previous = s[i - 1]
    <2> SUFFICES ASSUME NEW i \in 2 .. Len(s)
                 PROVE  create'[s[i]].at = "waiting" /\ create'[s[i]].previous = s[i - 1]
      OBVIOUS
    <2>1. i \in 1 .. Len(s)
      BY DEF QueueOf
    <2> QED
      BY <1>1, <2>1 DEF QueueOf
  <1> QED
    BY <1>2, <1>3 DEF QueueOf

\* A create that only moves on stays where it is in the queue.
LEMMA QueueStays ==
    ASSUME Queues, NEW c \in Creates, NEW r \in Repositories, Joined(c, r), Joined(c, r)',
           create'[c].previous = create[c].previous,
           create[c].at = "waiting" /\ create'[c].at # "waiting" =>
               \A s : QueueOf(r, s) => s[1] = c,
           \A d \in Creates \ {c} : create'[d] = create[d],
           repositoryQueues' = repositoryQueues
    PROVE  Queues'
  <1> SUFFICES ASSUME NEW q \in Repositories PROVE \E s : QueueOf(q, s)'
    BY DEF Queues
  <1>1. PICK s : QueueOf(q, s)
    BY DEF Queues
  <1>2. CASE q # r
    <2>1. ~Joined(c, q) /\ ~Joined(c, q)'
      BY <1>2 DEF Joined
    <2> QED
      BY <1>1, <2>1, OtherQueue
  <1>3. CASE q = r
    <2>1. \A d \in Creates : Joined(d, q)' <=> Joined(d, q)
      BY <1>3 DEF Joined
    <2>2. ASSUME NEW i \in 2 .. Len(s)
          PROVE  create'[s[i]].at = "waiting" /\ create'[s[i]].previous = s[i - 1]
      <3>1. i \in 1 .. Len(s) /\ 1 \in 1 .. Len(s) /\ i # 1 /\ s[i] \in Creates
        BY <1>1 DEF QueueOf
      <3>2. create[s[i]].at = "waiting" /\ create[s[i]].previous = s[i - 1]
        BY <1>1 DEF QueueOf
      <3>3. CASE s[i] = c
        <4>1. s[1] # c
          BY <1>1, <3>1, <3>3 DEF QueueOf
        <4> QED
          BY <1>1, <1>3, <3>2, <3>3, <4>1
      <3>4. CASE s[i] # c
        BY <3>1, <3>2, <3>4
      <3> QED
        BY <3>3, <3>4
    <2> QED
      BY <1>1, <2>1, <2>2 DEF QueueOf
  <1> QED
    BY <1>2, <1>3

\* The first of the queue leaves it.
LEMMA QueueLeft ==
    ASSUME Shapes, Queues, NEW c \in Creates, NEW r \in Repositories, Joined(c, r),
           create[c].at \in Working,
           create'[c].at \notin {"waiting"} \cup Working,
           \A d \in Creates \ {c} : create'[d] = create[d],
           LeaveQueue(r, c)
    PROVE  Queues'
  <1> SUFFICES ASSUME NEW q \in Repositories PROVE \E s : QueueOf(q, s)'
    BY DEF Queues
  <1>1. PICK s : QueueOf(q, s)
    BY DEF Queues
  <1>2. ~Joined(c, q)'
    BY DEF Joined
  <1>3. CASE q # r
    <2>1. ~Joined(c, q) /\ repositoryQueues'[q] = repositoryQueues[q]
      BY <1>3 DEF Joined, LeaveQueue, Shapes
    <2> QED
      BY <1>1, <1>2, <2>1, OtherQueue
  <1>4. CASE q = r
    <2>1. s # <<>> /\ s[1] = c /\ s \in Seq(Creates)
      <3>1. s # <<>> /\ s[1] = c
        BY <1>1, <1>4, OnlyFirstWorks
      <3> QED
        BY <1>1, <3>1 DEF QueueOf
    <2>2. PICK rest : rest = Tail(s)
      OBVIOUS
    <2>3. /\ rest \in Seq(Creates) /\ Len(s) \in Nat /\ Len(rest) = Len(s) - 1 /\ Len(s) > 0
          /\ \A i \in 1 .. Len(rest) : rest[i] = s[i + 1] /\ i + 1 \in 2 .. Len(s)
      BY <2>1, <2>2
    <2>4. ASSUME NEW i \in 1 .. Len(rest) PROVE rest[i] # c /\ rest[i] \in Creates
      <3>1. rest[i] = s[i + 1] /\ i + 1 \in 1 .. Len(s) /\ 1 \in 1 .. Len(s) /\ i + 1 # 1
        BY <2>3
      <3>2. s[i + 1] # s[1]
        BY <1>1, <3>1 DEF QueueOf
      <3> QED
        BY <2>1, <3>1, <3>2
    <2>5. ASSUME NEW i \in 1 .. Len(rest), NEW j \in 1 .. Len(rest), rest[i] = rest[j] PROVE i = j
      <3>1. i + 1 \in 1 .. Len(s) /\ j + 1 \in 1 .. Len(s) /\ s[i + 1] = s[j + 1]
        BY <2>3, <2>5
      <3> QED
        BY <1>1, <3>1 DEF QueueOf
    <2>6. ASSUME NEW d \in Creates PROVE Joined(d, q)' <=> \E i \in 1 .. Len(rest) : rest[i] = d
      <3>1. CASE d = c
        BY <1>2, <2>4, <3>1
      <3>2. CASE d # c
        <4>1. Joined(d, q)' <=> Joined(d, q)
          BY <3>2 DEF Joined
        <4>2. Joined(d, q) <=> \E i \in 1 .. Len(s) : s[i] = d
          BY <1>1 DEF QueueOf
        <4>3. ASSUME NEW i \in 1 .. Len(s), s[i] = d PROVE \E j \in 1 .. Len(rest) : rest[j] = d
          <5>1. i # 1 /\ i - 1 \in 1 .. Len(rest)
            BY <2>1, <2>3, <3>2, <4>3
          <5>2. rest[i - 1] = s[(i - 1) + 1] /\ (i - 1) + 1 = i
            BY <2>3, <5>1
          <5> QED
            BY <4>3, <5>1, <5>2
        <4>4. ASSUME NEW j \in 1 .. Len(rest), rest[j] = d PROVE \E i \in 1 .. Len(s) : s[i] = d
          BY <2>3, <4>4
        <4> QED
          BY <4>1, <4>2, <4>3, <4>4
      <3> QED
        BY <3>1, <3>2
    <2>7. repositoryQueues'[q] = IF rest = <<>> THEN Nobody ELSE rest[Len(rest)]
      <3>1. repositoryQueues'[q] = IF repositoryQueues[q] = c THEN Nobody ELSE repositoryQueues[q]
        BY <1>4 DEF LeaveQueue, Shapes
      <3>2. repositoryQueues[q] = s[Len(s)]
        BY <1>1, <2>1 DEF QueueOf
      <3>3. CASE rest = <<>>
        <4>1. Len(rest) = 0
          BY <3>3
        <4>2. Len(s) = 1
          BY <2>3, <4>1
        <4> QED
          BY <2>1, <3>1, <3>2, <3>3, <4>2
      <3>4. CASE rest # <<>>
        <4>1. Len(rest) \in 1 .. Len(rest) /\ rest[Len(rest)] = s[Len(s)]
          BY <2>3, <3>4
        <4> QED
          BY <2>4, <3>1, <3>2, <3>4, <4>1
      <3> QED
        BY <3>3, <3>4
    <2>8. ASSUME NEW i \in 2 .. Len(rest)
          PROVE  create'[rest[i]].at = "waiting" /\ create'[rest[i]].previous = rest[i - 1]
      <3>1. i \in 1 .. Len(rest) /\ i - 1 \in 1 .. Len(rest) /\ i + 1 \in 2 .. Len(s)
        BY <2>3
      <3>2. rest[i] = s[i + 1] /\ rest[i - 1] = s[i]
        BY <2>3, <3>1
      <3>3. create[s[i + 1]].at = "waiting" /\ create[s[i + 1]].previous = s[i]
        BY <1>1, <3>1 DEF QueueOf
      <3> QED
        BY <2>4, <3>1, <3>2, <3>3
    <2> QED
      BY <2>3, <2>5, <2>6, <2>7, <2>8 DEF QueueOf
  <1> QED
    BY <1>3, <1>4

\* A new create joins at the end.
LEMMA QueueJoined ==
    ASSUME Shapes, Queues, NEW c \in Creates, NEW r \in Repositories, CreateWorktree(c, r)
    PROVE  Queues'
  <1> SUFFICES ASSUME NEW q \in Repositories PROVE \E s : QueueOf(q, s)'
    BY DEF Queues
  <1>1. PICK s : QueueOf(q, s)
    BY DEF Queues
  <1>2. /\ create[c].at = "none"
        /\ create'[c].at = "waiting" /\ create'[c].repository = r
        /\ create'[c].previous = repositoryQueues[r]
        /\ \A d \in Creates \ {c} : create'[d] = create[d]
        /\ repositoryQueues' = [repositoryQueues EXCEPT ![r] = c]
    BY DEF CreateWorktree, Shapes
  <1>3. ~Joined(c, q)
    BY <1>2 DEF Joined, Working
  <1>4. CASE q # r
    <2>1. ~Joined(c, q)' /\ repositoryQueues'[q] = repositoryQueues[q]
      BY <1>2, <1>4 DEF Joined, Shapes
    <2> QED
      BY <1>1, <1>2, <1>3, <2>1, OtherQueue
  <1>5. CASE q = r
    <2>1. PICK longer : longer = Append(s, c)
      OBVIOUS
    <2>2. /\ s \in Seq(Creates) /\ Len(s) \in Nat
          /\ longer \in Seq(Creates) /\ Len(longer) = Len(s) + 1 /\ longer # <<>>
          /\ longer[Len(s) + 1] = c
          /\ \A i \in 1 .. Len(s) : longer[i] = s[i]
      BY <1>1, <2>1 DEF QueueOf
    <2>3. \A i \in 1 .. Len(s) : s[i] # c /\ s[i] \in Creates
      BY <1>1, <1>3 DEF QueueOf
    <2>4. ASSUME NEW i \in 1 .. Len(longer), NEW j \in 1 .. Len(longer), longer[i] = longer[j] PROVE i = j
      <3>1. i \in 1 .. Len(s) \/ i = Len(s) + 1
        BY <2>2
      <3>2. j \in 1 .. Len(s) \/ j = Len(s) + 1
        BY <2>2
      <3> QED
        BY <1>1, <2>2, <2>3, <2>4, <3>1, <3>2 DEF QueueOf
    <2>5. ASSUME NEW d \in Creates PROVE Joined(d, q)' <=> \E i \in 1 .. Len(longer) : longer[i] = d
      <3>1. CASE d = c
        <4>1. Joined(d, q)' /\ Len(s) + 1 \in 1 .. Len(longer)
          BY <1>2, <1>5, <2>2, <3>1 DEF Joined
        <4> QED
          BY <2>2, <3>1, <4>1
      <3>2. CASE d # c
        <4>1. Joined(d, q)' <=> Joined(d, q)
          BY <1>2, <3>2 DEF Joined
        <4>2. Joined(d, q) <=> \E i \in 1 .. Len(s) : s[i] = d
          BY <1>1 DEF QueueOf
        <4>3. ASSUME NEW i \in 1 .. Len(longer), longer[i] = d PROVE \E j \in 1 .. Len(s) : s[j] = d
          <5>1. i \in 1 .. Len(s)
            BY <2>2, <3>2, <4>3
          <5> QED
            BY <2>2, <4>3, <5>1
        <4>4. ASSUME NEW j \in 1 .. Len(s), s[j] = d PROVE \E i \in 1 .. Len(longer) : longer[i] = d
          <5>1. j \in 1 .. Len(longer)
            BY <2>2
          <5> QED
            BY <2>2, <4>4, <5>1
        <4> QED
          BY <4>1, <4>2, <4>3, <4>4
      <3> QED
        BY <3>1, <3>2
    <2>6. repositoryQueues'[q] = longer[Len(longer)]
      BY <1>2, <1>5, <2>2 DEF Shapes
    <2>7. ASSUME NEW i \in 2 .. Len(longer)
          PROVE  create'[longer[i]].at = "waiting" /\ create'[longer[i]].previous = longer[i - 1]
      <3>1. CASE i = Len(s) + 1
        <4>1. s # <<>> /\ i - 1 = Len(s) /\ Len(s) \in 1 .. Len(s)
          BY <2>2, <3>1
        <4>2. repositoryQueues[r] = s[Len(s)]
          BY <1>1, <1>5, <4>1 DEF QueueOf
        <4> QED
          BY <1>2, <2>2, <3>1, <4>1, <4>2
      <3>2. CASE i # Len(s) + 1
        <4>1. i \in 2 .. Len(s) /\ i \in 1 .. Len(s) /\ i - 1 \in 1 .. Len(s)
          BY <2>2, <3>2
        <4>2. create[s[i]].at = "waiting" /\ create[s[i]].previous = s[i - 1]
          BY <1>1, <4>1 DEF QueueOf
        <4> QED
          BY <1>2, <2>2, <2>3, <4>1, <4>2
      <3> QED
        BY <3>1, <3>2
    <2> QED
      BY <2>2, <2>4, <2>5, <2>6, <2>7 DEF QueueOf
  <1> QED
    BY <1>4, <1>5

-----------------------------------------------------------------------------
(* One lemma for each action, or group of actions of one shape.             *)

\* A step of one create after which it is not about to add a branch, and by
\* which no branch is added.
LEMMA StillFree ==
    ASSUME BranchIsFree, NEW c \in Creates, create'[c].at # "adding",
           \A d \in Creates \ {c} : create'[d] = create[d],
           \A r : branches'[r] \subseteq branches[r]
    PROVE  BranchIsFree'
  BY DEF BranchIsFree, BranchName

\* A create moves to another place.
LEMMA MovesOnly ==
    ASSUME Shapes, NEW c \in Creates, NEW place, Moves(c, place), create[c].at # "none"
    PROVE  /\ \A d \in Creates \ {c} : create'[d] = create[d]
           /\ DOMAIN create' = Creates
           /\ create'[c] = [create[c] EXCEPT !.at = place]
  BY DEF Moves, Shapes

LEMMA CreateOK ==
    ASSUME WorktreeInv, NEW c \in Creates, NEW r \in Repositories, CreateWorktree(c, r)
    PROVE  WorktreeInv'
  <1>1. /\ create'[c].at = "waiting" /\ create'[c].repository = r
        /\ \A d \in Creates \ {c} : create'[d] = create[d]
        /\ branches' = branches
    BY DEF CreateWorktree, WorktreeInv, Shapes
  <1>2. Shapes'
    BY <1>1 DEF CreateWorktree, WorktreeInv, Shapes
  <1>3. Queues'
    BY QueueJoined DEF WorktreeInv
  <1>4. BranchIsFree'
    BY <1>1, StillFree DEF WorktreeInv
  <1> QED
    BY <1>2, <1>3, <1>4 DEF WorktreeInv

LEMMA EnterOK ==
    ASSUME WorktreeInv, NEW c \in Creates, Enter(c) \/ Checked(c)
    PROVE  WorktreeInv'
  <1>1. PICK r \in Repositories : r = create[c].repository /\ Joined(c, r) /\ create[c].at \in {"waiting", "checking"}
    BY DEF Enter, Checked, WorktreeInv, Shapes, Joined, Working
  <1>2. PICK place \in {"checking", "listing"} : Moves(c, place)
    BY DEF Enter, Checked
  <1>3. UNCHANGED <<repositoryQueues, branches>>
    BY DEF Enter, Checked
  <1>4. /\ \A d \in Creates \ {c} : create'[d] = create[d]
        /\ DOMAIN create' = Creates
        /\ create'[c].at = place /\ create'[c].repository = r /\ create'[c].previous = create[c].previous
    <2>1. create[c].at # "none"
      BY <1>1
    <2>2. create'[c] = [create[c] EXCEPT !.at = place]
      BY <1>2, <2>1, MovesOnly DEF WorktreeInv
    <2> QED
      BY <1>1, <1>2, <2>1, <2>2, MovesOnly DEF WorktreeInv
  <1>5. Joined(c, r)'
    BY <1>4 DEF Joined, Working
  <1>6. ASSUME create[c].at = "waiting", NEW s, QueueOf(r, s) PROVE s[1] = c
    <2>1. PICK i \in 1 .. Len(s) : s[i] = c
      BY <1>1, <1>6 DEF QueueOf
    <2>2. CASE i = 1
      BY <2>1, <2>2
    <2>3. CASE i # 1
      <3>1. i \in 2 .. Len(s) /\ i - 1 \in 1 .. Len(s) /\ s[i - 1] \in Creates
        BY <1>6, <2>1, <2>3 DEF QueueOf
      <3>2. create[c].previous = s[i - 1] /\ Joined(s[i - 1], r)
        BY <1>6, <2>1, <3>1 DEF QueueOf
      <3>3. create[s[i - 1]].at \notin {"waiting"} \cup Working
        BY <1>6, <3>1, <3>2 DEF Enter, Checked
      <3> QED
        BY <3>2, <3>3 DEF Joined
    <2> QED
      BY <2>2, <2>3
  <1>7. Shapes'
    BY <1>3, <1>4 DEF WorktreeInv, Shapes
  <1>8. Queues'
    BY <1>1, <1>3, <1>4, <1>5, <1>6, QueueStays DEF WorktreeInv
  <1>9. BranchIsFree'
    BY <1>3, <1>4, StillFree DEF WorktreeInv
  <1> QED
    BY <1>7, <1>8, <1>9 DEF WorktreeInv

LEMMA BranchListedOK ==
    ASSUME WorktreeInv, NEW c \in Creates, BranchListed(c)
    PROVE  WorktreeInv'
  <1>1. PICK r \in Repositories : r = create[c].repository /\ Joined(c, r) /\ create[c].at = "listing"
    BY DEF BranchListed, WorktreeInv, Shapes, Joined, Working
  <1>2. /\ UNCHANGED <<repositoryQueues, branches>>
        /\ \A d \in Creates \ {c} : create'[d] = create[d]
        /\ DOMAIN create' = Creates
        /\ create'[c].repository = r /\ create'[c].previous = create[c].previous
        /\ \/ create'[c].at = "listing"
           \/ /\ create'[c].at = "adding" /\ create'[c].tried = create[c].tried
              /\ BranchName(c, create[c].tried) \notin branches[r]
    <2>1. CASE BranchName(c, create[c].tried) \in branches[r]
      <3>1. create' = [create EXCEPT ![c].tried = @ + 1] /\ UNCHANGED <<repositoryQueues, branches>>
        BY <1>1, <2>1 DEF BranchListed
      <3> QED
        BY <1>1, <3>1 DEF WorktreeInv, Shapes
    <2>2. CASE BranchName(c, create[c].tried) \notin branches[r]
      <3>1. PICK path : create' = [create EXCEPT ![c].at = "adding", ![c].path = path]
        BY <1>1, <2>2 DEF BranchListed
      <3> QED
        BY <1>1, <2>2, <3>1 DEF WorktreeInv, Shapes, BranchListed
    <2> QED
      BY <2>1, <2>2
  <1>3. Joined(c, r)'
    BY <1>2 DEF Joined, Working
  <1>4. Shapes'
    BY <1>2 DEF WorktreeInv, Shapes
  <1>5. Queues'
    BY <1>1, <1>2, <1>3, QueueStays DEF WorktreeInv
  <1>6. BranchIsFree'
    BY <1>2 DEF WorktreeInv, BranchIsFree, BranchName
  <1> QED
    BY <1>4, <1>5, <1>6 DEF WorktreeInv

LEMMA LeavesOK ==
    ASSUME WorktreeInv, NEW c \in Creates, WorktreeAdded(c) \/ CreateFails(c)
    PROVE  WorktreeInv'
  <1>1. PICK r \in Repositories : r = create[c].repository /\ Joined(c, r) /\ create[c].at \in Working
    BY DEF WorktreeAdded, CreateFails, WorktreeInv, Shapes, Joined, Working
  <1>2. PICK place \in {"created", "failed"} : Moves(c, place)
    BY DEF WorktreeAdded, CreateFails
  <1>3. LeaveQueue(r, c)
    BY <1>1 DEF WorktreeAdded, CreateFails
  <1>4. /\ \A d \in Creates \ {c} : create'[d] = create[d]
        /\ DOMAIN create' = Creates
        /\ create'[c].at = place /\ create'[c].repository = r
    <2>1. create[c].at # "none"
      BY <1>1 DEF Working
    <2>2. create'[c] = [create[c] EXCEPT !.at = place]
      BY <1>2, <2>1, MovesOnly DEF WorktreeInv
    <2> QED
      BY <1>1, <1>2, <2>1, <2>2, MovesOnly DEF WorktreeInv
  <1>5. DOMAIN branches' = Repositories /\ \A q \in Repositories \ {r} : branches'[q] = branches[q]
    BY <1>1 DEF WorktreeAdded, CreateFails, WorktreeInv, Shapes
  <1>6. Shapes'
    BY <1>3, <1>4, <1>5 DEF WorktreeInv, Shapes, LeaveQueue
  <1>7. Queues'
    <2>1. create'[c].at \notin {"waiting"} \cup Working
      BY <1>4 DEF Working
    <2> QED
      BY <1>1, <1>3, <1>4, <2>1, QueueLeft DEF WorktreeInv
  <1>8. BranchIsFree'
    <2> SUFFICES ASSUME NEW d \in Creates, create'[d].at = "adding"
                 PROVE  BranchName(d, create'[d].tried) \notin branches'[create'[d].repository]
      BY DEF BranchIsFree, BranchName
    <2>1. d # c /\ create'[d] = create[d]
      BY <1>4
    <2>2. create[d].repository \in Repositories /\ create[d].at \in Working
      BY <2>1 DEF WorktreeInv, Shapes, Working
    <2>3. create[d].repository # r
      BY <1>1, <2>1, <2>2, OneWorks DEF WorktreeInv, Joined
    <2> QED
      BY <1>5, <2>1, <2>2, <2>3 DEF WorktreeInv, BranchIsFree
  <1> QED
    BY <1>6, <1>7, <1>8 DEF WorktreeInv

LEMMA RemoveOK ==
    ASSUME WorktreeInv, NEW c \in Creates, RemoveWorktree(c) \/ WorktreeRemoved(c) \/ BranchRemoved(c)
    PROVE  WorktreeInv'
  <1>1. create[c].at \in {"created", "removing", "removed"}
    BY DEF RemoveWorktree, WorktreeRemoved, BranchRemoved
  <1>2. PICK place \in {"removing", "removed", "gone"} : Moves(c, place)
    BY DEF RemoveWorktree, WorktreeRemoved, BranchRemoved
  <1>3. /\ repositoryQueues' = repositoryQueues
        /\ DOMAIN branches' = Repositories
        /\ \A r \in Repositories : branches'[r] \subseteq branches[r]
    BY DEF RemoveWorktree, WorktreeRemoved, BranchRemoved, WorktreeInv, Shapes
  <1>4. /\ \A d \in Creates \ {c} : create'[d] = create[d]
        /\ DOMAIN create' = Creates
        /\ create'[c].at = place /\ create'[c].repository = create[c].repository
    <2>1. create[c].at # "none"
      BY <1>1
    <2>2. create'[c] = [create[c] EXCEPT !.at = place]
      BY <1>2, <2>1, MovesOnly DEF WorktreeInv
    <2> QED
      BY <1>1, <1>2, <2>1, <2>2, MovesOnly DEF WorktreeInv
  <1>5. Shapes'
    BY <1>1, <1>3, <1>4 DEF WorktreeInv, Shapes
  <1>6. Queues'
    <2> SUFFICES ASSUME NEW q \in Repositories PROVE \E s : QueueOf(q, s)'
      BY DEF Queues
    <2>1. PICK s : QueueOf(q, s)
      BY DEF WorktreeInv, Queues
    <2>2. ~Joined(c, q) /\ ~Joined(c, q)'
      BY <1>1, <1>4 DEF Joined, Working
    <2> QED
      BY <1>3, <1>4, <2>1, <2>2, OtherQueue
  <1>7. BranchIsFree'
    <2> SUFFICES ASSUME NEW d \in Creates, create'[d].at = "adding"
                 PROVE  BranchName(d, create'[d].tried) \notin branches'[create'[d].repository]
      BY DEF BranchIsFree, BranchName
    <2>1. create'[d] = create[d] /\ create[d].repository \in Repositories
      BY <1>4 DEF WorktreeInv, Shapes
    <2> QED
      BY <1>3, <2>1 DEF WorktreeInv, BranchIsFree
  <1> QED
    BY <1>5, <1>6, <1>7 DEF WorktreeInv

LEMMA WorktreeStart == WorktreeInit => WorktreeInv
  <1> SUFFICES ASSUME WorktreeInit PROVE WorktreeInv
    OBVIOUS
  <1>1. \A c \in Creates : create[c].at = "none"
    BY DEF WorktreeInit
  <1>2. Shapes
    BY <1>1 DEF WorktreeInit, Shapes
  <1>3. ASSUME NEW r \in Repositories PROVE QueueOf(r, <<>>)
    <2>1. \A c \in Creates : ~Joined(c, r)
      BY <1>1 DEF Joined, Working
    <2> QED
      BY <2>1 DEF WorktreeInit, QueueOf
  <1>4. BranchIsFree
    BY <1>1 DEF BranchIsFree
  <1> QED
    BY <1>2, <1>3, <1>4 DEF WorktreeInv, Queues

LEMMA WorktreeStutter == WorktreeInv /\ UNCHANGED worktreeVars => WorktreeInv'
  <1> SUFFICES ASSUME WorktreeInv, UNCHANGED worktreeVars PROVE WorktreeInv'
    OBVIOUS
  <1>1. UNCHANGED <<repositoryQueues, create, branches>>
    BY DEF worktreeVars
  <1>2. Shapes' /\ BranchIsFree'
    BY <1>1 DEF WorktreeInv, Shapes, BranchIsFree, BranchName
  <1>3. \A r \in Repositories : \A s : QueueOf(r, s) => QueueOf(r, s)'
    BY <1>1 DEF QueueOf, Joined
  <1> QED
    BY <1>2, <1>3 DEF WorktreeInv, Queues

(* The branch that worktreeManager.ts found free is free when it is added,  *)
(* for any number of repositories and of tasks that start, fail and are     *)
(* removed meanwhile.                                                       *)
THEOREM BranchesAreFree == WorktreeSpec => []BranchIsFree
  <1>1. WorktreeInv /\ WorktreeNext => WorktreeInv'
    BY CreateOK, EnterOK, BranchListedOK, LeavesOK, RemoveOK DEF WorktreeNext
  <1>2. WorktreeInv => BranchIsFree
    BY DEF WorktreeInv
  <1> QED
    BY <1>1, <1>2, WorktreeStart, WorktreeStutter, PTL DEF WorktreeSpec

-----------------------------------------------------------------------------
(* Retention: once the deletable artifacts are fixed, Keep newer ones that   *)
(* were found good are not among them, and nothing else deletes an artifact. *)

BackupTypes ==
    /\ making \subseteq Backups /\ verified \subseteq Backups /\ deletable \subseteq Backups
    /\ directory \in [Backups -> {"none", "staging", "complete"}]
    /\ pruning \in {"no", "verifying", "deleting"}

\* What was damaged when the prune began still is, and is not found good.
SpoiledOK ==
    /\ \A b \in damaged : directory[b] = "complete" /\ b \in Backups
    /\ spoiled \subseteq damaged
    /\ verified \cap spoiled = {} /\ deletable \subseteq verified

Kept(good) ==
    /\ good \subseteq verified /\ Cardinality(good) >= Keep
    /\ \A a \in good : directory[a] = "complete"
    /\ \A a \in good, b \in deletable : a > b

BackupInv ==
    /\ BackupTypes /\ SpoiledOK
    /\ \A b \in making : directory[b] = "staging"
    /\ pruning # "deleting" => deletable = {}
    /\ \A b \in deletable : directory[b] = "complete"
    /\ pruning = "verifying" => \A b \in verified : directory[b] = "complete"
    /\ deletable # {} => \E good : Kept(good)

LEMMA FiniteBackups == ASSUME NEW bs \in SUBSET Backups PROVE IsFiniteSet(bs)
  BY BackupAssumption, FS_Subset

LEMMA NewestExists ==
    ASSUME NEW bs \in SUBSET Backups, bs # {}
    PROVE  Max(bs) \in bs /\ \A b \in bs : Max(bs) >= b
  <1> DEFINE Above(b) == {a \in bs : a > b}
             All == {Above(b) : b \in bs}
             R == StrictSubsetOrdering(Backups)
  <1>0. bs \subseteq Nat
    BY BackupAssumption
  <1>1. All \subseteq FiniteSubsetsOf(Backups) /\ All # {}
    BY FiniteBackups DEF FiniteSubsetsOf
  <1>2. IsWellFoundedOn(R, FiniteSubsetsOf(Backups))
    BY FS_StrictSubsetOrderingWellFounded
  <1> HIDE DEF R
  <1>3. PICK least \in All : \A other \in All : ~(<<other, least>> \in R)
    BY <1>1, <1>2, WFMin, Zenon
  <1>4. PICK b \in bs : least = Above(b)
    OBVIOUS
  <1>5. \A a \in bs : ~(a > b)
    <2> SUFFICES ASSUME NEW a \in bs, a > b PROVE FALSE
      OBVIOUS
    <2>1. Above(a) \subseteq Above(b) /\ a \in Above(b) /\ a \notin Above(a)
      <3>1. a \in Nat /\ b \in Nat
        BY <1>0
      <3>2. \A c \in bs : c > a => c > b
        BY <1>0, <3>1
      <3>3. ~(a > a)
        BY <3>1
      <3>4. Above(a) \subseteq Above(b)
        BY <3>2
      <3>5. a \in Above(b)
        OBVIOUS
      <3>6. a \notin Above(a)
        BY <3>3
      <3> QED
        BY <3>4, <3>5, <3>6
    <2>2. Above(a) \subseteq Backups /\ Above(b) \subseteq Backups /\ Above(a) # Above(b)
      BY <2>1
    <2>3. <<Above(a), Above(b)>> \in R
      BY <2>1, <2>2 DEF R, StrictSubsetOrdering
    <2> QED
      BY <2>3, <1>3, <1>4
  <1>6. \A a \in bs : b >= a
    BY <1>5, BackupAssumption
  <1> QED
    BY <1>6 DEF Max

\* A newest surplus artifact has its Keep newer ones outside of the surplus.
LEMMA SurplusLeaves ==
    ASSUME BackupTypes, \A b \in verified : directory[b] = "complete", Surplus(verified) # {}
    PROVE  \E good : /\ good \subseteq verified /\ Cardinality(good) >= Keep
                     /\ \A a \in good : directory[a] = "complete"
                     /\ \A a \in good, b \in Surplus(verified) : a > b
  <1>1. Surplus(verified) \in SUBSET Backups
    BY DEF Surplus, BackupTypes
  <1>2. PICK m \in Surplus(verified) : \A b \in Surplus(verified) : m >= b
    BY <1>1, NewestExists
  <1> DEFINE good == {a \in verified : a > m}
  <1>3. Cardinality(good) >= Keep /\ m \in Nat
    BY <1>1, <1>2, BackupAssumption DEF Surplus
  <1>4. \A a \in good, b \in Surplus(verified) : a > b
    BY <1>1, <1>2, <1>3, BackupAssumption DEF BackupTypes
  <1> QED
    BY <1>3, <1>4

LEMMA BackupStep == BackupInv /\ [BackupNext]_backupVars => BackupInv'
  <1> SUFFICES ASSUME BackupInv, [BackupNext]_backupVars PROVE BackupInv'
    OBVIOUS
  <1> USE DEF BackupInv, BackupTypes, SpoiledOK, Kept
  <1>1. ASSUME NEW b \in Backups, BackupStarts(b) \/ BackupCompletes(b) \/ BackupFails(b)
        PROVE  BackupInv'
    <2>1. UNCHANGED pruneVars /\ (directory[b] # "complete" \/ directory' = directory)
      BY <1>1 DEF BackupStarts, BackupCompletes, BackupFails
    <2>2. \A a \in Backups : directory[a] = "complete" => directory'[a] = "complete"
      BY <1>1, <2>1 DEF BackupStarts, BackupCompletes, BackupFails
    <2>3. BackupTypes' /\ \A a \in making' : directory'[a] = "staging"
      BY <1>1, <2>1 DEF BackupStarts, BackupCompletes, BackupFails, pruneVars
    <2>4. \A good : Kept(good) => Kept(good)'
      BY <2>1, <2>2 DEF pruneVars
    <2>5. SpoiledOK'
      <3>1. damaged' = damaged
        BY <1>1 DEF BackupStarts, BackupCompletes, BackupFails
      <3> QED
        BY <2>1, <2>2, <3>1 DEF pruneVars
    <2>6. /\ pruning' # "deleting" => deletable' = {}
          /\ \A a \in deletable' : directory'[a] = "complete"
          /\ pruning' = "verifying" => \A a \in verified' : directory'[a] = "complete"
      BY <2>1, <2>2 DEF pruneVars
    <2>7. deletable' # {} => \E good : Kept(good)'
      BY <2>1, <2>4 DEF pruneVars
    <2> QED
      BY <2>3, <2>5, <2>6, <2>7
  <1>2. ASSUME NEW b \in Backups, BackupKilled(b) \/ Damage(b) PROVE BackupInv'
    BY <1>2 DEF BackupKilled, Damage, pruneVars
  <1>3. ASSUME NEW b \in Backups, VerifyEntry(b) PROVE BackupInv'
    BY <1>3 DEF VerifyEntry, Verifies
  <1>4. CASE Prune \/ PruneEnds
    BY <1>4 DEF Prune, PruneEnds
  <1>5. CASE AllVerified
    <2>1. deletable' # {} => (\E good : Kept(good))'
      BY <1>5, SurplusLeaves DEF AllVerified
    <2>2. Surplus(verified) \subseteq verified
      BY DEF Surplus
    <2>3. UNCHANGED <<directory, making, verified, damaged, spoiled>> /\ deletable' = Surplus(verified) /\ pruning' = "deleting"
          /\ \A b \in verified : directory[b] = "complete"
      BY <1>5 DEF AllVerified
    <2> QED
      BY <2>1, <2>2, <2>3
  <1>6. CASE DeleteArtifact
    <2>1. Max(deletable) \in deletable /\ deletable \subseteq Backups
      BY <1>6, NewestExists DEF DeleteArtifact
    <2>2. PICK good : Kept(good)
      BY <1>6 DEF DeleteArtifact
    <2>3. Max(deletable) \notin good
      <3>1. PICK b \in deletable : b = Max(deletable)
        BY <2>1
      <3>2. b \in Nat /\ \A a \in good : a > b
        BY <2>1, <2>2, <3>1, BackupAssumption
      <3>3. ~(b > b)
        BY <3>2
      <3> QED
        BY <3>1, <3>2, <3>3
    <2>4. \A a \in Backups \ {Max(deletable)} : directory'[a] = directory[a]
      BY <1>6 DEF DeleteArtifact
    <2>5. Kept(good)'
      BY <1>6, <2>2, <2>3, <2>4 DEF DeleteArtifact
    <2>6. \A b \in making : directory'[b] = "staging"
      <3>1. making \cap deletable = {}
        BY <2>1
      <3> QED
        BY <2>1, <2>4, <3>1
    <2> QED
      BY <1>6, <2>1, <2>4, <2>5, <2>6 DEF DeleteArtifact
  <1>7. CASE UNCHANGED backupVars
    BY <1>7 DEF backupVars
  <1> QED
    BY <1>1, <1>2, <1>3, <1>4, <1>5, <1>6, <1>7 DEF BackupNext

(* databaseBackupRetention.ts: for any number of artifacts, what a prune     *)
(* deletes is complete and was not damaged when it began, and Keep newer     *)
(* ones of that kind that it found good are there.                           *)
THEOREM RetentionCorrect == BackupSpec => RetentionIsSafe
  <1> DEFINE newer(b) == {a \in Backups : /\ a > b /\ directory[a] = "complete"
                                          /\ a \in verified /\ a \notin spoiled}
  <1>1. BackupInit => BackupInv
    BY DEF BackupInit, BackupInv, BackupTypes, SpoiledOK
  <1>2. BackupInv /\ [BackupNext]_backupVars =>
          [\A b \in Backups : directory[b] # "none" /\ directory'[b] = "none" =>
             \/ b \in making /\ b \notin making'
             \/ /\ directory[b] = "complete" /\ b \notin spoiled
                /\ Cardinality(newer(b)) >= Keep]_backupVars
    <2> SUFFICES ASSUME BackupInv, BackupNext, NEW b \in Backups,
                        directory[b] # "none", directory'[b] = "none",
                        ~(b \in making /\ b \notin making')
                 PROVE  directory[b] = "complete" /\ b \notin spoiled /\ Cardinality(newer(b)) >= Keep
      OBVIOUS
    <2> USE DEF BackupInv, BackupTypes, SpoiledOK
    <2>1. ASSUME NEW c \in Backups, BackupStarts(c) \/ BackupCompletes(c) \/ BackupFails(c) PROVE FALSE
      BY <2>1 DEF BackupStarts, BackupCompletes, BackupFails
    <2>2. DeleteArtifact
      BY <2>1 DEF BackupNext, BackupKilled, Damage, VerifyEntry, Prune, PruneEnds, AllVerified
    <2>3. b \in deletable /\ deletable # {}
      BY <2>2, NewestExists DEF DeleteArtifact
    <2>4. PICK good : Kept(good)
      BY <2>3
    <2>5. good \subseteq newer(b) /\ IsFiniteSet(newer(b))
      BY <2>3, <2>4, FiniteBackups DEF Kept
    <2>6. Cardinality(good) <= Cardinality(newer(b)) /\ Cardinality(newer(b)) \in Nat /\ Cardinality(good) \in Nat
      BY <2>5, FS_Subset, FS_CardinalityType
    <2>7. directory[b] = "complete" /\ b \notin spoiled
      BY <2>3
    <2>8. Cardinality(newer(b)) >= Keep
      BY <2>4, <2>6, BackupAssumption DEF Kept
    <2> QED
      BY <2>7, <2>8
  <1> QED
    BY <1>1, <1>2, BackupStep, PTL DEF BackupSpec, RetentionIsSafe

-----------------------------------------------------------------------------
(* The start and the end of the process.                                    *)
(*                                                                          *)
(* Each lifecycle has at most one walk, whoever asked for it first, and     *)
(* nothing is acquired once it has begun: what is above its cursor is       *)
(* released and what is below has not been touched.                         *)

Owners ==
    {"project store", "task renderers", "provider bootstrap", "task coordinator",
     "registries", "primary agent", "usage monitoring", "recovery rendering",
     "Codex transport", "Codex auth service", "Codex provider"}

\* The order of acquisition, of the runtime's owners and of the providers'.
Place(owner) ==
    CASE owner = "project store" -> 1
      [] owner = "task renderers" -> 2
      [] owner = "provider bootstrap" -> 3
      [] owner = "task coordinator" -> 4
      [] owner = "registries" -> 5
      [] owner = "primary agent" -> 6
      [] owner = "usage monitoring" -> 7
      [] owner = "recovery rendering" -> 8
      [] owner = "Codex transport" -> 11
      [] owner = "Codex auth service" -> 12
      [] owner = "Codex provider" -> 13
      [] OTHER -> 0

Height(l) == IF l = "runtime" THEN 8 ELSE 3
Below(l) == IF l = "runtime" THEN 0 ELSE 10

\* The providers are being started.
Bootstrapping == {"claude", "codex", "codex fails", "opencode", "bootstrap fails"}
Started == {"reconcile", "commands", "broker", "review", "up"}
Failed == {"start fails", "exit"}

Positions == {"login", "primary", "usage", "recovery"} \cup Bootstrapping \cup Started \cup Failed

ProcessTypes ==
    /\ startup \in Positions
    /\ deferred \in [Lifecycles -> Seq(Owners)]
    /\ stopPromise \in [Lifecycles -> Callers \cup {NoCaller}]
    /\ promise \in [Lifecycles -> [Callers -> Callers \cup {NoCaller}]]
    /\ cursor \in [Lifecycles -> [Callers -> Nat]]
    /\ stopping \in [Lifecycles -> [Callers -> Owners \cup {NoCaller}]]
    /\ runtime \in BOOLEAN
    /\ released \subseteq begun

StackOK(l) ==
    /\ Len(deferred[l]) <= Height(l)
    /\ \A i \in 1..Len(deferred[l]) : Place(deferred[l][i]) = Below(l) + i

\* Where the start stands tells what is acquired, and that nobody stops it yet.
StartOK ==
    /\ startup = "login" => Len(deferred["runtime"]) = 0
    /\ startup \in Bootstrapping => Len(deferred["runtime"]) = 2
    /\ startup = "primary" => Len(deferred["runtime"]) = 5
    /\ startup = "usage" => Len(deferred["runtime"]) = 6
    /\ startup = "recovery" => Len(deferred["runtime"]) = 7
    /\ startup \in Started => Len(deferred["runtime"]) = 8
    /\ startup \in {"login", "claude"} => Len(deferred["providers"]) = 0
    /\ startup = "codex" => Len(deferred["providers"]) = 1
    /\ startup \in {"login", "claude", "codex"} => stopPromise["providers"] = NoCaller
    /\ startup \notin Started \cup Failed => stopPromise["runtime"] = NoCaller /\ ~runtime
    /\ runtime => Len(deferred["runtime"]) = 8
    /\ startup \in Failed =>
          /\ stopPromise["runtime"] # NoCaller
          /\ Len(deferred["runtime"]) < 3 => Entries("providers") \subseteq released

\* Entries the walk w of lifecycle l has behind it, and ahead of it.
WalkOK(l, w) ==
    /\ promise[l][w] = w
    /\ cursor[l][w] <= Len(deferred[l])
    /\ \A i \in 1..Len(deferred[l]) : i > cursor[l][w] => deferred[l][i] \in released
    /\ \A i \in 1..Len(deferred[l]) : i < cursor[l][w] => deferred[l][i] \notin begun
    /\ stopping[l][w] = NoCaller /\ cursor[l][w] > 0 => deferred[l][cursor[l][w]] \notin begun
    /\ stopping[l][w] # NoCaller =>
          /\ cursor[l][w] > 0 /\ deferred[l][cursor[l][w]] = stopping[l][w]
          /\ stopping[l][w] \in begun \ released

StopOK(l) ==
    LET w == stopPromise[l] IN
    /\ \A c \in Callers : promise[l][c] \in {w, NoCaller}
    /\ \A c \in Callers : c # w => cursor[l][c] = 0 /\ stopping[l][c] = NoCaller
    /\ w = NoCaller => \A i \in 1..Len(deferred[l]) : deferred[l][i] \notin begun
    /\ w # NoCaller => WalkOK(l, w)

BootstrapOK == "provider bootstrap" \in released => Entries("providers") \subseteq released

ExitOK ==
    exited = "start failed" \/ (exited = "shut down" /\ runtime) =>
        \A l \in Lifecycles : Entries(l) \subseteq released

ProcessInv ==
    /\ ProcessTypes /\ StartOK /\ BootstrapOK /\ ExitOK
    /\ begun \subseteq Entries("runtime") \cup Entries("providers")
    /\ \A l \in Lifecycles : StackOK(l) /\ StopOK(l)

LEMMA EntriesAre ==
    ASSUME ProcessTypes
    PROVE  \A l \in Lifecycles : /\ Len(deferred[l]) \in Nat
                                 /\ \A o : o \in Entries(l) <=> \E i \in 1..Len(deferred[l]) : o = deferred[l][i]
  <1> SUFFICES ASSUME NEW l \in Lifecycles
               PROVE  /\ Len(deferred[l]) \in Nat
                      /\ \A o : o \in Entries(l) <=> \E i \in 1..Len(deferred[l]) : o = deferred[l][i]
    OBVIOUS
  <1>1. deferred[l] \in Seq(Owners)
    BY DEF ProcessTypes
  <1>2. Len(deferred[l]) \in Nat /\ DOMAIN deferred[l] = 1..Len(deferred[l])
    BY <1>1
  <1> QED
    BY <1>2, Zenon DEF Entries

LEMMA ThirdPlace ==
    ASSUME NEW l \in {"runtime", "providers"}, NEW k \in Nat, NEW i \in 1..k, 3 = Below(l) + i
    PROVE  l = "runtime" /\ i = 3 /\ k # 2
  BY DEF Below

LEMMA EntriesDistinct ==
    ASSUME ProcessInv, NEW l \in Lifecycles, NEW m \in Lifecycles,
           NEW i \in 1..Len(deferred[l]), NEW j \in 1..Len(deferred[m]),
           deferred[l][i] = deferred[m][j]
    PROVE  l = m /\ i = j
  <1>1. /\ l = "runtime" \/ l = "providers"
        /\ m = "runtime" \/ m = "providers"
    BY DEF Lifecycles
  <1>2. StackOK(l) /\ StackOK(m) /\ Len(deferred[l]) \in Nat /\ Len(deferred[m]) \in Nat
    BY DEF ProcessInv, ProcessTypes
  <1>3. Below(l) + i = Below(m) + j
    BY <1>2 DEF StackOK
  <1> QED
    BY <1>1, <1>2, <1>3 DEF StackOK, Height, Below

\* A call of stop() begins a walk over all entries, or joins the one under way.
LEMMA StopCalledOK ==
    ASSUME ProcessInv, NEW l \in Lifecycles, NEW c \in Callers, StopCalled(l, c),
           UNCHANGED <<deferred, released>>, stopping'[l] = stopping[l],
           \A i \in 1..Len(deferred[l]) : deferred[l][i] \in begun' <=> deferred[l][i] \in begun
    PROVE  /\ StopOK(l)'
           /\ stopPromise'[l] # NoCaller
           /\ stopPromise' \in [Lifecycles -> Callers \cup {NoCaller}]
           /\ promise' \in [Lifecycles -> [Callers -> Callers \cup {NoCaller}]]
           /\ cursor' \in [Lifecycles -> [Callers -> Nat]]
           /\ \A m \in Lifecycles \ {l} :
                 stopPromise'[m] = stopPromise[m] /\ promise'[m] = promise[m] /\ cursor'[m] = cursor[m]
  <1> USE DEF ProcessTypes
  <1>0. ProcessTypes /\ StopOK(l) /\ NoCaller \notin Callers
    BY DEF ProcessInv, NoCaller, Callers
  <1>w. PICK w \in Callers : w = SharedWalk(l, c)
    BY <1>0 DEF SharedWalk
  <1>1. stopPromise'[l] = w
    BY <1>0, <1>w DEF StopCalled, SharedWalk
  <1>2. /\ stopPromise' \in [Lifecycles -> Callers \cup {NoCaller}]
        /\ promise' \in [Lifecycles -> [Callers -> Callers \cup {NoCaller}]]
    BY <1>0, <1>w, <1>1 DEF StopCalled
  <1>3. cursor' \in [Lifecycles -> [Callers -> Nat]]
    BY <1>0, <1>w, <1>1 DEF StopCalled
  <1>4. \A m \in Lifecycles \ {l} :
           stopPromise'[m] = stopPromise[m] /\ promise'[m] = promise[m] /\ cursor'[m] = cursor[m]
    BY <1>0 DEF StopCalled
  <1>5. /\ promise'[l][c] = w
        /\ \A d \in Callers \ {c} : promise'[l][d] = promise[l][d]
        /\ \A d \in Callers \ {w} : cursor'[l][d] = cursor[l][d]
    BY <1>0, <1>w, <1>1 DEF StopCalled
  <1>6. CASE stopPromise[l] = NoCaller
    <2>1. w = c /\ cursor'[l][w] = Len(deferred[l])
      BY <1>0, <1>w, <1>6 DEF StopCalled, SharedWalk, StopOK
    <2>2. stopping[l][c] = NoCaller
      BY <1>0, <1>6 DEF StopOK
    <2>0. /\ Len(deferred[l]) \in Nat /\ deferred'[l] = deferred[l]
          /\ \A i \in 1..Len(deferred[l]) : deferred[l][i] \notin begun'
          /\ stopping'[l][c] = NoCaller
          /\ \A d \in Callers : promise[l][d] = NoCaller /\ cursor[l][d] = 0 /\ stopping'[l][d] = NoCaller
      BY <1>0, <1>6, <2>2 DEF StopOK
    <2>3. WalkOK(l, w)'
      BY <1>5, <2>0, <2>1 DEF WalkOK
    <2>4. StopOK(l)'
      BY <1>0, <1>1, <1>5, <1>w, <2>0, <2>1, <2>3 DEF StopOK
    <2> QED
      BY <2>4, <1>0, <1>1, <1>2, <1>3, <1>4
  <1>7. CASE stopPromise[l] # NoCaller
    <2>1. w = stopPromise[l] /\ promise[l][w] = w
      BY <1>0, <1>w, <1>7 DEF SharedWalk, StopOK, WalkOK
    <2>2. cursor'[l][w] = cursor[l][w]
      BY <1>0, <1>w, <2>1 DEF StopCalled
    <2>3. promise'[l][w] = w
      BY <1>5, <2>1, <1>1
    <2>4. WalkOK(l, w)'
      BY <1>0, <1>1, <1>7, <2>1, <2>2, <2>3 DEF WalkOK, StopOK
    <2>5. StopOK(l)'
      BY <1>0, <1>1, <1>5, <1>7, <2>1, <2>2, <2>4 DEF StopOK
    <2> QED
      BY <2>5, <1>0, <1>1, <1>2, <1>3, <1>4
  <1> QED
    BY <1>6, <1>7

\* A lifecycle another one's walk leaves alone.
LEMMA StopKept ==
    ASSUME ProcessTypes, NEW m \in Lifecycles, StopOK(m), deferred'[m] = deferred[m],
           stopPromise'[m] = stopPromise[m], promise'[m] = promise[m], cursor'[m] = cursor[m],
           stopping'[m] = stopping[m],
           \A i \in 1..Len(deferred[m]) : deferred[m][i] \in begun' <=> deferred[m][i] \in begun,
           \A i \in 1..Len(deferred[m]) : deferred[m][i] \in released' <=> deferred[m][i] \in released
    PROVE  StopOK(m)'
  <1>1. \A w \in Callers : WalkOK(m, w) => WalkOK(m, w)'
    BY DEF WalkOK, ProcessTypes
  <1>2. stopPromise[m] # NoCaller => stopPromise[m] \in Callers
    BY DEF ProcessTypes
  <1> QED
    BY <1>1, <1>2 DEF StopOK

LEMMA WhoWalks ==
    ASSUME ProcessInv, NEW l \in Lifecycles, NEW c \in Callers,
           (cursor[l][c] > 0) \/ (stopping[l][c] # NoCaller)
    PROVE  c = stopPromise[l] /\ WalkOK(l, c) /\ c # NoCaller
  <1>1. StopOK(l) /\ cursor[l][c] \in Nat /\ c # NoCaller
    BY DEF ProcessInv, ProcessTypes, Callers, NoCaller
  <1> QED
    BY <1>1 DEF StopOK

LEMMA StopEntryOK ==
    ASSUME ProcessInv, exited = "no", NEW l \in Lifecycles, NEW c \in Callers, StopEntry(l, c)
    PROVE  ProcessInv'
  <1>1. c = stopPromise[l] /\ WalkOK(l, c) /\ c # NoCaller
    BY WhoWalks DEF StopEntry
  <1>2. ProcessTypes /\ StartOK /\ Len(deferred[l]) \in Nat
    BY EntriesAre DEF ProcessInv
  <1>n. PICK n \in 1..Len(deferred[l]) : n = cursor[l][c]
    <2>1. cursor[l][c] \in Nat /\ cursor[l][c] > 0
      BY <1>2, ZenonT(30) DEF StopEntry, ProcessTypes
    <2> QED
      BY <1>1, <1>2, <2>1 DEF WalkOK
  <1>o. PICK owner \in Owners : owner = deferred[l][n]
    <2>1. deferred[l] \in Seq(Owners)
      BY <1>2 DEF ProcessTypes
    <2>2. deferred[l][n] \in Owners
      BY <2>1
    <2> QED
      BY <2>2
  <1>3. owner \notin begun
    BY <1>1, <1>2, <1>n, <1>o DEF WalkOK, StopEntry
  <1>4. /\ begun' = begun \cup {owner}
        /\ stopping' = [stopping EXCEPT ![l][c] = owner]
        /\ IF owner = "provider bootstrap" THEN StopCalled("providers", c)
           ELSE UNCHANGED <<stopPromise, promise, cursor>>
        /\ UNCHANGED <<startup, shutdown, deferred, released, runtime, serving, exited>>
    BY <1>n, <1>o, <1>3 DEF StopEntry
  <1>5. \A m \in Lifecycles : \A i \in 1..Len(deferred[m]) :
           m # l \/ i # n => deferred[m][i] # owner
    BY <1>n, <1>o, <1>3, EntriesDistinct
  <1>6. owner \in Owners /\ owner \in Entries(l) /\ l \in {"runtime", "providers"}
    BY <1>2, <1>o, EntriesAre DEF Lifecycles
  <1>7. owner = "provider bootstrap" => l = "runtime" /\ Len(deferred["runtime"]) >= 3
    <2>1. Place(owner) = Below(l) + n
      BY <1>o DEF ProcessInv, StackOK
    <2>2. owner = "provider bootstrap" => Place(owner) = 3
      BY DEF Place
    <2>3. 3 = Below(l) + n => l = "runtime" /\ n = 3
      BY <1>2, <1>6, ThirdPlace
    <2>4. l = "runtime" /\ n = 3 => Len(deferred["runtime"]) >= 3
      BY <1>2
    <2> QED
      BY <2>1, <2>2, <2>3, <2>4
  <1>8. /\ stopPromise' \in [Lifecycles -> Callers \cup {NoCaller}]
        /\ promise' \in [Lifecycles -> [Callers -> Callers \cup {NoCaller}]]
        /\ cursor' \in [Lifecycles -> [Callers -> Nat]]
        /\ \A m \in Lifecycles : m # "providers" \/ owner # "provider bootstrap" =>
              stopPromise'[m] = stopPromise[m] /\ promise'[m] = promise[m] /\ cursor'[m] = cursor[m]
        /\ owner = "provider bootstrap" => StopOK("providers")'
    <2>1. CASE owner # "provider bootstrap"
      BY <2>1, <1>2, <1>4 DEF ProcessTypes
    <2>2. CASE owner = "provider bootstrap"
      <3>1. "providers" \in Lifecycles /\ stopping'["providers"] = stopping["providers"]
        BY <1>2, <1>4, <1>7, <2>2 DEF Lifecycles, ProcessTypes
      <3>2. \A i \in 1..Len(deferred["providers"]) :
               deferred["providers"][i] \in begun' <=> deferred["providers"][i] \in begun
        BY <1>4, <1>5, <1>7, <2>2, <3>1
      <3>3. StopCalled("providers", c) /\ UNCHANGED <<deferred, released>>
        BY <1>4, <2>2
      <3> QED
        BY <3>1, <3>2, <3>3, <2>2, StopCalledOK
    <2> QED
      BY <2>1, <2>2
  <1>9. stopping' \in [Lifecycles -> [Callers -> Owners \cup {NoCaller}]]
    BY <1>2, <1>4, <1>6 DEF ProcessTypes
  <1>10. ProcessTypes'
    BY <1>2, <1>4, <1>8, <1>9 DEF ProcessTypes
  <1>11. StopOK(l)'
    <2>1. l # "providers" \/ owner # "provider bootstrap"
      BY <1>7
    <2>2. /\ stopPromise'[l] = c /\ promise'[l] = promise[l] /\ cursor'[l] = cursor[l]
          /\ stopping'[l][c] = owner /\ \A d \in Callers \ {c} : stopping'[l][d] = stopping[l][d]
      BY <1>1, <1>2, <1>4, <1>8, <2>1 DEF ProcessTypes
    <2>3. owner # NoCaller
      <3>1. Place(owner) = Below(l) + n
        BY <1>n, <1>o, <1>3 DEF ProcessInv, StackOK
      <3>2. Below(l) + n > 0
        BY <1>2, <1>n, <1>o, <1>3 DEF Below
      <3>3. Place("nobody") = 0
        BY DEF Place
      <3> QED
        BY <3>1, <3>2, <3>3 DEF NoCaller
    <2>4. begun' = begun \cup {owner} /\ deferred' = deferred /\ released' = released
      BY <1>4
    <2>5. \A i \in 1..Len(deferred[l]) : i < n => deferred[l][i] \notin begun'
      <3>1. \A i \in 1..Len(deferred[l]) : i < n => deferred[l][i] \notin begun
        BY <1>1, <1>n DEF WalkOK
      <3>2. \A i \in 1..Len(deferred[l]) : i < n => deferred[l][i] # owner
        BY <1>5, <1>2
      <3> QED
        BY <3>1, <3>2, <2>4
    <2>6. owner \in begun' \ released
      BY <1>2, <1>3, <2>4 DEF ProcessTypes
    <2>7. WalkOK(l, c)'
      <3>1. promise'[l][c] = c /\ cursor'[l][c] = n /\ n <= Len(deferred'[l])
        BY <1>1, <1>2, <1>n, <2>2, <2>4 DEF WalkOK
      <3>2. \A i \in 1..Len(deferred'[l]) : i > cursor'[l][c] => deferred'[l][i] \in released'
        <4>1. \A i \in 1..Len(deferred[l]) : i > n => deferred[l][i] \in released
          BY <1>1, <1>n DEF WalkOK
        <4> QED
          BY <3>1, <4>1, <2>4
      <3>3. \A i \in 1..Len(deferred'[l]) : i < cursor'[l][c] => deferred'[l][i] \notin begun'
        BY <3>1, <2>4, <2>5
      <3>4. /\ stopping'[l][c] # NoCaller /\ cursor'[l][c] > 0
            /\ deferred'[l][cursor'[l][c]] = stopping'[l][c]
            /\ stopping'[l][c] \in begun' \ released'
        BY <3>1, <1>n, <1>o, <2>2, <2>3, <2>4, <2>6
      <3> QED
        BY <3>1, <3>2, <3>3, <3>4 DEF WalkOK
    <2> QED
      BY <1>1, <2>2, <2>7 DEF ProcessInv, StopOK
  <1>12. ASSUME NEW m \in Lifecycles, m # l PROVE StopOK(m)'
    <2>1. CASE m = "providers" /\ owner = "provider bootstrap"
      BY <2>1, <1>8
    <2>2. CASE m # "providers" \/ owner # "provider bootstrap"
      <3>1. /\ stopping'[m] = stopping[m] /\ StopOK(m) /\ deferred'[m] = deferred[m]
            /\ stopPromise'[m] = stopPromise[m] /\ promise'[m] = promise[m] /\ cursor'[m] = cursor[m]
        BY <1>2, <1>4, <1>8, <1>12, <2>2 DEF ProcessTypes, ProcessInv
      <3>2. /\ \A i \in 1..Len(deferred[m]) : deferred[m][i] \in begun' <=> deferred[m][i] \in begun
            /\ \A i \in 1..Len(deferred[m]) : deferred[m][i] \in released' <=> deferred[m][i] \in released
        BY <1>4, <1>5, <1>12
      <3> QED
        BY <3>1, <3>2, <1>2, StopKept
    <2> QED
      BY <2>1, <2>2
  <1>13. StartOK'
    <2>1. owner = "provider bootstrap" => startup \notin {"login", "claude", "codex"}
      <3>1. startup \in {"login", "claude", "codex"} =>
               Len(deferred["runtime"]) = 0 \/ Len(deferred["runtime"]) = 2
        BY <1>2 DEF StartOK, Bootstrapping
      <3>2. PICK h \in Nat : h = Len(deferred["runtime"])
        BY <1>2, EntriesAre DEF Lifecycles
      <3>3. startup \in {"login", "claude", "codex"} => h = 0 \/ h = 2
        BY <3>1, <3>2
      <3>4. owner = "provider bootstrap" => h >= 3
        BY <1>7, <3>2
      <3>5. (h = 0 \/ h = 2) => ~(h >= 3)
        OBVIOUS
      <3> QED
        BY <3>3, <3>4, <3>5
    <2>2. stopPromise'["runtime"] = stopPromise["runtime"]
      BY <1>8 DEF Lifecycles
    <2>3. startup \in {"login", "claude", "codex"} => stopPromise'["providers"] = stopPromise["providers"]
      BY <1>8, <2>1 DEF Lifecycles
    <2>4. Entries("providers")' = Entries("providers")
      BY <1>4 DEF Entries
    <2> QED
      BY <1>2, <1>4, <2>2, <2>3, <2>4, ZenonT(30) DEF StartOK
  <1>14. BootstrapOK' /\ ExitOK'
    BY <1>4 DEF ProcessInv, BootstrapOK, ExitOK, Entries
  <1>15. (begun \subseteq Entries("runtime") \cup Entries("providers"))'
    BY <1>4, <1>6 DEF ProcessInv, Entries
  <1>16. \A m \in Lifecycles : StackOK(m)'
    BY <1>4 DEF ProcessInv, StackOK
  <1> QED
    BY <1>10, <1>11, <1>12, <1>13, <1>14, <1>15, <1>16 DEF ProcessInv

LEMMA EntryStoppedOK ==
    ASSUME ProcessInv, exited = "no", NEW l \in Lifecycles, NEW c \in Callers, EntryStopped(l, c)
    PROVE  ProcessInv'
  <1>1. c = stopPromise[l] /\ WalkOK(l, c) /\ c # NoCaller
    BY WhoWalks DEF EntryStopped
  <1>2. ProcessTypes /\ StartOK /\ Len(deferred[l]) \in Nat
    BY EntriesAre DEF ProcessInv
  <1>n. PICK n \in 1..Len(deferred[l]) : n = cursor[l][c]
    <2>1. cursor[l][c] \in Nat /\ cursor[l][c] > 0
      BY <1>1, <1>2 DEF EntryStopped, WalkOK, ProcessTypes
    <2> QED
      BY <1>1, <1>2, <2>1 DEF WalkOK
  <1>o. PICK owner \in Owners : owner = deferred[l][n]
    <2>1. deferred[l] \in Seq(Owners)
      BY <1>2 DEF ProcessTypes
    <2>2. deferred[l][n] \in Owners
      BY <2>1
    <2> QED
      BY <2>2
  <1>3. stopping[l][c] = owner /\ owner \in begun \ released
    BY <1>1, <1>n, <1>o DEF WalkOK, EntryStopped
  <1>4. /\ released' = released \cup {owner}
        /\ stopping' = [stopping EXCEPT ![l][c] = NoCaller]
        /\ cursor' = [cursor EXCEPT ![l][c] = @ - 1]
        /\ UNCHANGED <<startup, shutdown, deferred, begun, stopPromise, promise,
                       runtime, serving, exited>>
    BY <1>3 DEF EntryStopped
  <1>5. \A m \in Lifecycles : \A i \in 1..Len(deferred[m]) :
           m # l \/ i # n => deferred[m][i] # owner
    BY <1>o, EntriesDistinct
  <1>6. ProcessTypes'
    <2>1. cursor' \in [Lifecycles -> [Callers -> Nat]]
      BY <1>2, <1>4, <1>n DEF ProcessTypes
    <2>2. stopping' \in [Lifecycles -> [Callers -> Owners \cup {NoCaller}]]
      BY <1>2, <1>4 DEF ProcessTypes
    <2> QED
      BY <1>2, <1>3, <1>4, <2>1, <2>2 DEF ProcessTypes
  <1>7. StopOK(l)'
    <2>1. /\ stopPromise'[l] = c /\ promise'[l] = promise[l] /\ cursor'[l][c] = n - 1
          /\ \A d \in Callers \ {c} : cursor'[l][d] = cursor[l][d]
          /\ stopping'[l][c] = NoCaller /\ \A d \in Callers \ {c} : stopping'[l][d] = stopping[l][d]
          /\ deferred' = deferred /\ begun' = begun
      BY <1>1, <1>2, <1>4, <1>n DEF ProcessTypes
    <2>2. \A i \in 1..Len(deferred[l]) : i > n - 1 => deferred[l][i] \in released'
      <3>1. \A i \in 1..Len(deferred[l]) : i > n => deferred[l][i] \in released
        BY <1>1, <1>n DEF WalkOK
      <3>2. deferred[l][n] \in released' /\ released \subseteq released'
        BY <1>4, <1>o
      <3>3. \A i \in 1..Len(deferred[l]) : i > n - 1 => i = n \/ i > n
        BY <1>2
      <3> QED
        BY <3>1, <3>2, <3>3
    <2>3. \A i \in 1..Len(deferred[l]) : i <= n - 1 => deferred[l][i] \notin begun
      BY <1>1, <1>2, <1>n DEF WalkOK
    <2>4. WalkOK(l, c)'
      BY <1>1, <1>2, <1>n, <2>1, <2>2, <2>3 DEF WalkOK
    <2> QED
      BY <1>1, <2>1, <2>4 DEF ProcessInv, StopOK
  <1>8. ASSUME NEW m \in Lifecycles, m # l PROVE StopOK(m)'
    <2>1. /\ stopping'[m] = stopping[m] /\ StopOK(m) /\ deferred'[m] = deferred[m]
          /\ stopPromise'[m] = stopPromise[m] /\ promise'[m] = promise[m] /\ cursor'[m] = cursor[m]
      BY <1>2, <1>4, <1>8 DEF ProcessTypes, ProcessInv
    <2>2. /\ \A i \in 1..Len(deferred[m]) : deferred[m][i] \in begun' <=> deferred[m][i] \in begun
          /\ \A i \in 1..Len(deferred[m]) : deferred[m][i] \in released' <=> deferred[m][i] \in released
      BY <1>4, <1>5, <1>8
    <2> QED
      BY <2>1, <2>2, <1>2, StopKept
  <1>9. Entries("providers")' = Entries("providers") /\ released \subseteq released'
    BY <1>4 DEF Entries
  <1>10. StartOK'
    BY <1>2, <1>4, <1>9 DEF StartOK
  <1>11. BootstrapOK'
    <2>1. CASE owner = "provider bootstrap"
      <3>1. Stopped("providers", c)
        BY <1>3, <2>1 DEF EntryStopped
      <3>2. Entries("providers") \subseteq released
        <4>1. "providers" \in Lifecycles /\ StopOK("providers") /\ promise["providers"][c] # NoCaller
          BY <3>1 DEF ProcessInv, Lifecycles, Stopped
        <4>2. PICK w \in Callers : w = stopPromise["providers"] /\ promise["providers"][c] = w
          BY <4>1, <1>2 DEF StopOK, ProcessTypes
        <4>3. WalkOK("providers", w) /\ cursor["providers"][w] = 0
          BY <4>1, <4>2, <3>1 DEF StopOK, Stopped
        <4> QED
          BY <4>1, <4>3, <1>2, EntriesAre DEF WalkOK
      <3> QED
        BY <3>2, <1>9 DEF BootstrapOK
    <2>2. CASE owner # "provider bootstrap"
      BY <2>2, <1>4, <1>9 DEF ProcessInv, BootstrapOK
    <2> QED
      BY <2>1, <2>2
  <1>12. ExitOK'
    BY <1>4 DEF ExitOK
  <1>13. (begun \subseteq Entries("runtime") \cup Entries("providers"))'
    BY <1>4 DEF ProcessInv, Entries
  <1>14. \A m \in Lifecycles : StackOK(m)'
    BY <1>4 DEF ProcessInv, StackOK
  <1> QED
    BY <1>6, <1>7, <1>8, <1>10, <1>11, <1>12, <1>13, <1>14 DEF ProcessInv

LEMMA QuietOK ==
    ASSUME ProcessInv, UNCHANGED <<deferred, stopVars>>, ProcessTypes', StartOK', ExitOK'
    PROVE  ProcessInv'
  <1>1. UNCHANGED <<deferred, begun, released, stopPromise, promise, cursor, stopping>>
    BY DEF stopVars
  <1>2. \A l \in Lifecycles : StopOK(l)' /\ StackOK(l)'
    BY <1>1, StopKept DEF ProcessInv, StackOK
  <1> QED
    BY <1>1, <1>2 DEF ProcessInv, BootstrapOK, Entries

\* Nothing is acquired by a lifecycle somebody stops.
LEMMA DeferOK ==
    ASSUME ProcessInv, NEW l \in Lifecycles, NEW owners \in Seq(Owners), NEW k \in Nat, NEW h \in Nat,
           k = Len(owners), Defer(l, owners), UNCHANGED stopVars,
           stopPromise[l] = NoCaller, Len(deferred[l]) = h, h + k <= Height(l),
           \A i \in 1..k : Place(owners[i]) = (Below(l) + h) + i,
           l = "runtime" \/ Len(deferred["runtime"]) = 2
    PROVE  /\ Len(deferred'[l]) = h + k
           /\ \A m \in Lifecycles \ {l} : deferred'[m] = deferred[m]
           /\ startup' \in Positions /\ runtime' \in BOOLEAN /\ StartOK' /\ ExitOK' => ProcessInv'
  <1>1. UNCHANGED <<begun, released, stopPromise, promise, cursor, stopping>>
    BY DEF stopVars
  <1>2. ProcessTypes /\ l \in {"runtime", "providers"}
    BY DEF ProcessInv, Lifecycles
  <1>3. /\ deferred' = [deferred EXCEPT ![l] = deferred[l] \o owners]
        /\ deferred'[l] = deferred[l] \o owners
        /\ \A m \in Lifecycles \ {l} : deferred'[m] = deferred[m]
    BY <1>2 DEF Defer, ProcessTypes
  <1>4. /\ deferred[l] \in Seq(Owners) /\ Len(deferred[l]) \in Nat
        /\ Len(deferred'[l]) = Len(deferred[l]) + k
        /\ \A i \in 1..Len(deferred[l]) : deferred'[l][i] = deferred[l][i]
        /\ \A i \in 1..k : deferred'[l][Len(deferred[l]) + i] = owners[i]
        /\ deferred'[l] \in Seq(Owners)
    <2>1. deferred[l] \in Seq(Owners) /\ Len(deferred[l]) \in Nat
      BY <1>2 DEF ProcessTypes
    <2>2. deferred'[l] \in Seq(Owners) /\ Len(deferred'[l]) = Len(deferred[l]) + k
      <3>1. PICK s \in Seq(Owners) : s = deferred[l]
        BY <2>1
      <3>2. s \o owners \in Seq(Owners)
        OBVIOUS
      <3>3. Len(s \o owners) = Len(s) + Len(owners)
        OBVIOUS
      <3> QED
        BY <1>3, <3>1, <3>2, <3>3
    <2>3. \A i \in 1..Len(deferred[l]) : deferred'[l][i] = deferred[l][i]
      BY <1>3, <2>1
    <2>4. \A i \in 1..k : deferred'[l][Len(deferred[l]) + i] = owners[i]
      BY <1>3, <2>1
    <2> QED
      BY <2>1, <2>2, <2>3, <2>4
  <1>5. startup' \in Positions /\ runtime' \in BOOLEAN => ProcessTypes'
    BY <1>1, <1>2, <1>3, <1>4 DEF ProcessTypes
  <1>6. \A i \in 1..Len(deferred[l]) + k :
           i \in 1..Len(deferred[l]) \/ \E j \in 1..k : i = Len(deferred[l]) + j
    <2> SUFFICES ASSUME NEW i \in 1..Len(deferred[l]) + k, i \notin 1..Len(deferred[l])
                 PROVE  \E j \in 1..k : i = Len(deferred[l]) + j
      OBVIOUS
    <2>1. i - Len(deferred[l]) \in 1..k /\ i = Len(deferred[l]) + (i - Len(deferred[l]))
      BY <1>4
    <2> QED
      BY <2>1
  <1>7. StackOK(l)'
    <2>1. Len(deferred'[l]) <= Height(l)
      <3>1. Len(deferred'[l]) = h + k
        BY <1>4
      <3> QED
        BY <3>1
    <2>2. \A i \in 1..Len(deferred'[l]) : Place(deferred'[l][i]) = Below(l) + i
      <3> SUFFICES ASSUME NEW i \in 1..Len(deferred'[l]) PROVE Place(deferred'[l][i]) = Below(l) + i
        OBVIOUS
      <3>1. CASE i \in 1..Len(deferred[l])
        BY <3>1, <1>4 DEF ProcessInv, StackOK
      <3>2. ASSUME NEW j \in 1..k, i = Len(deferred[l]) + j PROVE Place(deferred'[l][i]) = Below(l) + i
        <4>1. deferred'[l][i] = owners[j] /\ i = h + j
          BY <3>2, <1>4
        <4>2. Below(l) \in Nat
          BY DEF Below
        <4>3. (Below(l) + h) + j = Below(l) + i
          BY <4>1, <4>2
        <4> QED
          BY <4>1, <4>3
      <3> QED
        BY <3>1, <3>2, <1>4, <1>6
    <2> QED
      BY <2>1, <2>2 DEF StackOK
  <1>8. \A m \in Lifecycles \ {l} : StackOK(m)'
    BY <1>3 DEF ProcessInv, StackOK
  <1>9. \A j \in 1..k : owners[j] \notin begun
    <2> SUFFICES ASSUME NEW j \in 1..k, owners[j] \in begun PROVE FALSE
      OBVIOUS
    <2>1. PICK m \in Lifecycles : owners[j] \in Entries(m)
      BY DEF ProcessInv, Lifecycles
    <2>2. Len(deferred[m]) \in Nat
      BY <1>2, EntriesAre
    <2>3. PICK i \in 1..Len(deferred[m]) : owners[j] = deferred[m][i]
      BY <1>2, <2>1, EntriesAre
    <2>4. Below(m) + i = (Below(l) + h) + j
      BY <2>3 DEF ProcessInv, StackOK
    <2>5. Len(deferred[m]) <= Height(m) /\ m \in {"runtime", "providers"}
      BY DEF ProcessInv, StackOK, Lifecycles
    <2>6. /\ l = "runtime" => Below(l) = 0 /\ Height(l) = 8
          /\ l = "providers" => Below(l) = 10 /\ Height(l) = 3
          /\ m = "runtime" => Below(m) = 0 /\ Height(m) = 8
          /\ m = "providers" => Below(m) = 10 /\ Height(m) = 3
      BY DEF Below, Height
    <2>a. PICK g \in Nat : g = Len(deferred[m])
      BY <2>2
    <2>b. i \in 1..g /\ g <= Height(m) /\ h + k <= Height(l) /\ Below(m) + i = (Below(l) + h) + j /\ (m = l => g = h)
      BY <2>a, <2>4, <2>5
    <2>7. CASE m = l
      <3>1. Below(l) \in Nat
        BY DEF Below
      <3> QED
        BY <2>7, <2>b, <3>1
    <2>8. CASE Below(m) = 0 /\ Below(l) = 10 /\ Height(m) = 8
      BY <2>b, <2>8
    <2>9. CASE Below(m) = 10 /\ Below(l) = 0 /\ Height(l) = 8
      BY <2>b, <2>9
    <2> QED
      BY <1>2, <2>5, <2>6, <2>7, <2>8, <2>9
  <1>10. StopOK(l)'
    <2>1. \A i \in 1..Len(deferred[l]) : deferred'[l][i] \notin begun
      BY <1>4 DEF ProcessInv, StopOK
    <2>2. \A j \in 1..k : deferred'[l][Len(deferred[l]) + j] \notin begun
      BY <1>4, <1>9
    <2>3. \A i \in 1..Len(deferred'[l]) : deferred'[l][i] \notin begun
      BY <1>4, <1>6, <2>1, <2>2
    <2> QED
      BY <1>1, <2>3 DEF ProcessInv, StopOK
  <1>11. ASSUME NEW m \in Lifecycles, m # l PROVE StopOK(m)'
    <2>1. StopOK(m) /\ deferred'[m] = deferred[m]
      BY <1>3, <1>11 DEF ProcessInv
    <2> QED
      BY <1>1, <1>2, <2>1, StopKept
  <1>12. \A m \in Lifecycles : Entries(m) \subseteq Entries(m)'
    <2> SUFFICES ASSUME NEW m \in Lifecycles, NEW o \in Entries(m) PROVE o \in Entries(m)'
      OBVIOUS
    <2>1. PICK i \in 1..Len(deferred[m]) : o = deferred[m][i]
      BY <1>2, EntriesAre
    <2>2. i \in 1..Len(deferred'[m]) /\ o = deferred'[m][i]
      BY <2>1, <1>2, <1>3, <1>4, EntriesAre
    <2>3. DOMAIN deferred'[m] = 1..Len(deferred'[m])
      BY <1>2, <1>3, <1>4 DEF ProcessTypes
    <2> QED
      BY <2>2, <2>3 DEF Entries
  <1>13. BootstrapOK'
    <2>1. CASE l = "providers"
      <3>1. "provider bootstrap" \notin begun
        <4> SUFFICES ASSUME "provider bootstrap" \in begun PROVE FALSE
          OBVIOUS
        <4>1. PICK m \in Lifecycles : "provider bootstrap" \in Entries(m)
          BY DEF ProcessInv, Lifecycles
        <4>2. PICK i \in 1..Len(deferred[m]) : "provider bootstrap" = deferred[m][i]
          BY <1>2, <4>1, EntriesAre, ZenonT(30)
        <4>3. Place("provider bootstrap") = 3
          BY DEF Place
        <4>4. 3 = Below(m) + i
          BY <4>2, <4>3 DEF ProcessInv, StackOK
        <4>5. Len(deferred[m]) \in Nat /\ m \in {"runtime", "providers"}
          BY <1>2, EntriesAre DEF Lifecycles
        <4>6. PICK held \in Nat : held = Len(deferred[m])
          BY <4>5
        <4>7. i \in 1..held
          BY <4>6
        <4>8. m = "runtime" /\ held # 2
          BY <4>4, <4>5, <4>7, ThirdPlace
        <4>9. Len(deferred["runtime"]) = 2
          BY <2>1
        <4> QED
          BY <4>6, <4>8, <4>9
      <3> QED
        BY <1>1, <1>2, <3>1 DEF BootstrapOK, ProcessTypes
    <2>2. CASE l # "providers"
      <3>1. Entries("providers")' = Entries("providers")
        BY <1>3, <2>2 DEF Entries, Lifecycles
      <3> QED
        BY <1>1, <3>1 DEF ProcessInv, BootstrapOK
    <2> QED
      BY <2>1, <2>2
  <1>14. (begun \subseteq Entries("runtime") \cup Entries("providers"))'
    BY <1>1, <1>12 DEF ProcessInv, Lifecycles
  <1>15. Len(deferred'[l]) = h + k
    BY <1>4
  <1> QED
    BY <1>3, <1>5, <1>7, <1>8, <1>10, <1>11, <1>13, <1>14, <1>15 DEF ProcessInv

\* What a call of stop() leaves as it is, and whose promise the caller has.
LEMMA StopsOK ==
    ASSUME ProcessInv, NEW l \in Lifecycles, NEW c \in Callers, StopCalled(l, c),
           UNCHANGED <<deferred, begun, released, stopping>>
    PROVE  /\ stopPromise'[l] # NoCaller
           /\ \A m \in Lifecycles \ {l} : stopPromise'[m] = stopPromise[m]
           /\ startup' \in Positions /\ runtime' \in BOOLEAN /\ StartOK' /\ ExitOK' => ProcessInv'
  <1>1. /\ StopOK(l)' /\ stopPromise'[l] # NoCaller
        /\ stopPromise' \in [Lifecycles -> Callers \cup {NoCaller}]
        /\ promise' \in [Lifecycles -> [Callers -> Callers \cup {NoCaller}]]
        /\ cursor' \in [Lifecycles -> [Callers -> Nat]]
        /\ \A m \in Lifecycles \ {l} :
              stopPromise'[m] = stopPromise[m] /\ promise'[m] = promise[m] /\ cursor'[m] = cursor[m]
    BY StopCalledOK
  <1>2. ASSUME NEW m \in Lifecycles, m # l PROVE StopOK(m)'
    <2>1. StopOK(m) /\ ProcessTypes
      BY DEF ProcessInv
    <2> QED
      BY <1>1, <1>2, <2>1, StopKept
  <1>3. startup' \in Positions /\ runtime' \in BOOLEAN => ProcessTypes'
    BY <1>1 DEF ProcessInv, ProcessTypes
  <1>4. BootstrapOK' /\ (begun \subseteq Entries("runtime") \cup Entries("providers"))'
    BY DEF ProcessInv, BootstrapOK, Entries
  <1>5. \A m \in Lifecycles : StackOK(m)'
    BY DEF ProcessInv, StackOK
  <1> QED
    BY <1>1, <1>2, <1>3, <1>4, <1>5 DEF ProcessInv

\* The caller's promise is resolved: its lifecycle's entries are released.
LEMMA StoppedIs ==
    ASSUME ProcessInv, NEW l \in Lifecycles, NEW c \in Callers, Stopped(l, c)
    PROVE  stopPromise[l] # NoCaller /\ Entries(l) \subseteq released
  <1>1. ProcessTypes /\ StopOK(l) /\ promise[l][c] # NoCaller
    BY DEF ProcessInv, Stopped
  <1>2. PICK w \in Callers : w = stopPromise[l] /\ promise[l][c] = w
    BY <1>1 DEF StopOK, ProcessTypes
  <1>3. WalkOK(l, w) /\ cursor[l][w] = 0 /\ w # NoCaller
    BY <1>1, <1>2 DEF StopOK, Stopped
  <1> QED
    BY <1>1, <1>2, <1>3, EntriesAre DEF WalkOK

LEMMA PlacesAre ==
    /\ Place("project store") = 1 /\ Place("task renderers") = 2 /\ Place("provider bootstrap") = 3
    /\ Place("task coordinator") = 4 /\ Place("registries") = 5 /\ Place("primary agent") = 6
    /\ Place("usage monitoring") = 7 /\ Place("recovery rendering") = 8
    /\ Place("Codex transport") = 11 /\ Place("Codex auth service") = 12 /\ Place("Codex provider") = 13
  BY DEF Place

LEMMA Lows ==
    /\ Below("runtime") = 0 /\ Height("runtime") = 8
    /\ Below("providers") = 10 /\ Height("providers") = 3
  BY DEF Below, Height

LEMMA OneAcquired ==
    ASSUME ProcessInv, NEW l \in Lifecycles, NEW a \in Owners, NEW h \in 0..10,
           Defer(l, <<a>>), UNCHANGED stopVars, stopPromise[l] = NoCaller, Len(deferred[l]) = h,
           h + 1 <= Height(l), Place(a) = (Below(l) + h) + 1,
           l = "runtime" \/ Len(deferred["runtime"]) = 2
    PROVE  /\ Len(deferred'[l]) = h + 1
           /\ \A m \in Lifecycles \ {l} : deferred'[m] = deferred[m]
           /\ startup' \in Positions /\ runtime' \in BOOLEAN /\ StartOK' /\ ExitOK' => ProcessInv'
  <1>1. <<a>> \in Seq(Owners) /\ Len(<<a>>) = 1 /\ <<a>>[1] = a
    OBVIOUS
  <1>2. \A i \in 1..1 : i = 1
    OBVIOUS
  <1>3. \A i \in 1..1 : Place(<<a>>[i]) = (Below(l) + h) + i
    BY <1>1, <1>2
  <1>4. PICK owners \in Seq(Owners), k \in Nat : owners = <<a>> /\ k = 1
    BY <1>1
  <1>5. k = Len(owners) /\ Defer(l, owners) /\ h \in Nat /\ h + k <= Height(l)
    BY <1>1, <1>4
  <1>6. \A i \in 1..k : Place(owners[i]) = (Below(l) + h) + i
    BY <1>3, <1>4
  <1>7. /\ Len(deferred'[l]) = h + k
        /\ \A m \in Lifecycles \ {l} : deferred'[m] = deferred[m]
        /\ startup' \in Positions /\ runtime' \in BOOLEAN /\ StartOK' /\ ExitOK' => ProcessInv'
    BY <1>5, <1>6, DeferOK
  <1> QED
    BY <1>4, <1>7

LEMMA TwoAcquired ==
    ASSUME ProcessInv, NEW l \in Lifecycles, NEW a \in Owners, NEW b \in Owners, NEW h \in 0..10,
           Defer(l, <<a, b>>), UNCHANGED stopVars, stopPromise[l] = NoCaller, Len(deferred[l]) = h,
           h + 2 <= Height(l), Place(a) = (Below(l) + h) + 1, Place(b) = (Below(l) + h) + 2,
           l = "runtime" \/ Len(deferred["runtime"]) = 2
    PROVE  /\ Len(deferred'[l]) = h + 2
           /\ \A m \in Lifecycles \ {l} : deferred'[m] = deferred[m]
           /\ startup' \in Positions /\ runtime' \in BOOLEAN /\ StartOK' /\ ExitOK' => ProcessInv'
  <1>1. <<a, b>> \in Seq(Owners) /\ Len(<<a, b>>) = 2 /\ <<a, b>>[1] = a /\ <<a, b>>[2] = b
    OBVIOUS
  <1>2. \A i \in 1..2 : i = 1 \/ i = 2
    OBVIOUS
  <1>3. \A i \in 1..2 : Place(<<a, b>>[i]) = (Below(l) + h) + i
    BY <1>1, <1>2
  <1>4. PICK owners \in Seq(Owners), k \in Nat : owners = <<a, b>> /\ k = 2
    BY <1>1
  <1>5. k = Len(owners) /\ Defer(l, owners) /\ h \in Nat /\ h + k <= Height(l)
    BY <1>1, <1>4
  <1>6. \A i \in 1..k : Place(owners[i]) = (Below(l) + h) + i
    BY <1>3, <1>4
  <1>7. /\ Len(deferred'[l]) = h + k
        /\ \A m \in Lifecycles \ {l} : deferred'[m] = deferred[m]
        /\ startup' \in Positions /\ runtime' \in BOOLEAN /\ StartOK' /\ ExitOK' => ProcessInv'
    BY <1>5, <1>6, DeferOK
  <1> QED
    BY <1>4, <1>7

LEMMA ThreeAcquired ==
    ASSUME ProcessInv, NEW l \in Lifecycles, NEW a \in Owners, NEW b \in Owners, NEW c \in Owners, NEW h \in 0..10,
           Defer(l, <<a, b, c>>), UNCHANGED stopVars, stopPromise[l] = NoCaller, Len(deferred[l]) = h,
           h + 3 <= Height(l), Place(a) = (Below(l) + h) + 1, Place(b) = (Below(l) + h) + 2,
           Place(c) = (Below(l) + h) + 3,
           l = "runtime" \/ Len(deferred["runtime"]) = 2
    PROVE  /\ Len(deferred'[l]) = h + 3
           /\ \A m \in Lifecycles \ {l} : deferred'[m] = deferred[m]
           /\ startup' \in Positions /\ runtime' \in BOOLEAN /\ StartOK' /\ ExitOK' => ProcessInv'
  <1>1. <<a, b, c>> \in Seq(Owners) /\ Len(<<a, b, c>>) = 3 /\ <<a, b, c>>[1] = a
        /\ <<a, b, c>>[2] = b /\ <<a, b, c>>[3] = c
    OBVIOUS
  <1>2. \A i \in 1..3 : i = 1 \/ i = 2 \/ i = 3
    OBVIOUS
  <1>3. \A i \in 1..3 : Place(<<a, b, c>>[i]) = (Below(l) + h) + i
    BY <1>1, <1>2
  <1>4. PICK owners \in Seq(Owners), k \in Nat : owners = <<a, b, c>> /\ k = 3
    BY <1>1
  <1>5. k = Len(owners) /\ Defer(l, owners) /\ h \in Nat /\ h + k <= Height(l)
    BY <1>1, <1>4
  <1>6. \A i \in 1..k : Place(owners[i]) = (Below(l) + h) + i
    BY <1>3, <1>4
  <1>7. /\ Len(deferred'[l]) = h + k
        /\ \A m \in Lifecycles \ {l} : deferred'[m] = deferred[m]
        /\ startup' \in Positions /\ runtime' \in BOOLEAN /\ StartOK' /\ ExitOK' => ProcessInv'
    BY <1>5, <1>6, DeferOK
  <1> QED
    BY <1>4, <1>7

LEMMA AcquiresOK ==
    ASSUME ProcessInv, exited = "no",
           Opens \/ CodexStarts \/ CodexInitialized \/ ProvidersStarted \/ PrimaryStarted
             \/ UsageStarted \/ Recovered
    PROVE  ProcessInv'
  <1>0. ProcessTypes /\ StartOK /\ "runtime" \in Lifecycles /\ "providers" \in Lifecycles
    BY DEF ProcessInv, Lifecycles
  <1>1. ASSUME exited' = exited PROVE ExitOK'
    BY <1>1 DEF ExitOK
  <1>2. ASSUME UNCHANGED stopVars PROVE stopPromise' = stopPromise /\ released' = released
    BY <1>2 DEF stopVars
  <1>3. ASSUME Opens PROVE ProcessInv'
    <2>1. startup = "login" /\ startup' = "claude" /\ Defer("runtime", <<"project store", "task renderers">>) /\ UNCHANGED stopVars
      BY <1>3 DEF Opens, Goes
    <2>2. runtime' = runtime /\ exited' = exited
      BY <1>3 DEF Opens
    <2>3. Len(deferred["runtime"]) = 0 /\ stopPromise["runtime"] = NoCaller /\ (("runtime" = "runtime") \/ Len(deferred["runtime"]) = 2)
      BY <1>0, <2>1 DEF StartOK, Bootstrapping, Started, Failed
    <2>4. "project store" \in Owners /\ "task renderers" \in Owners
      BY DEF Owners
    <2>5. 0 \in 0..10 /\ 0 + 2 <= Height("runtime") /\ Place("project store") = (Below("runtime") + 0) + 1 /\ Place("task renderers") = (Below("runtime") + 0) + 2
      <3>1. 0 \in 0..10 /\ 0 + 2 <= 8
        OBVIOUS
      <3>2. 1 = (0 + 0) + 1 /\ 2 = (0 + 0) + 2
        OBVIOUS
      <3>3. Below("runtime") = 0 /\ Height("runtime") = 8
        BY Lows
      <3>4. Place("project store") = 1 /\ Place("task renderers") = 2
        BY PlacesAre
      <3> QED
        BY <3>1, <3>2, <3>3, <3>4, Zenon
    <2>6. /\ Len(deferred'["runtime"]) = 0 + 2
          /\ \A m \in Lifecycles \ {"runtime"} : deferred'[m] = deferred[m]
          /\ startup' \in Positions /\ runtime' \in BOOLEAN /\ StartOK' /\ ExitOK' => ProcessInv'
      BY <1>0, <2>1, <2>3, <2>4, <2>5, TwoAcquired
    <2>7. Len(deferred'["runtime"]) = 2 /\ deferred'["providers"] = deferred["providers"]
      BY <1>0, <2>6
    <2>8. StartOK'
      BY <1>0, <1>2, <2>1, <2>2, <2>3, <2>7 DEF StartOK, Bootstrapping, Started, Failed
    <2>9. startup' \in Positions /\ runtime' \in BOOLEAN
      BY <1>0, <2>1, <2>2 DEF Positions, Bootstrapping, Started, ProcessTypes
    <2> QED
      BY <1>1, <2>2, <2>6, <2>8, <2>9
  <1>4. ASSUME CodexStarts, startup' = "codex" PROVE ProcessInv'
    <2>1. startup = "claude" /\ startup' = "codex" /\ Defer("providers", <<"Codex transport">>) /\ UNCHANGED stopVars
      BY <1>4 DEF CodexStarts, Goes
    <2>2. runtime' = runtime /\ exited' = exited
      BY <1>4 DEF CodexStarts
    <2>3. Len(deferred["providers"]) = 0 /\ stopPromise["providers"] = NoCaller /\ (("providers" = "runtime") \/ Len(deferred["runtime"]) = 2)
      BY <1>0, <2>1 DEF StartOK, Bootstrapping, Started, Failed
    <2>4. "Codex transport" \in Owners
      BY DEF Owners
    <2>5. 0 \in 0..10 /\ 0 + 1 <= Height("providers") /\ Place("Codex transport") = (Below("providers") + 0) + 1
      <3>1. 0 \in 0..10 /\ 0 + 1 <= 3
        OBVIOUS
      <3>2. 11 = (10 + 0) + 1
        OBVIOUS
      <3>3. Below("providers") = 10 /\ Height("providers") = 3
        BY Lows
      <3>4. Place("Codex transport") = 11
        BY PlacesAre
      <3> QED
        BY <3>1, <3>2, <3>3, <3>4, Zenon
    <2>6. /\ Len(deferred'["providers"]) = 0 + 1
          /\ \A m \in Lifecycles \ {"providers"} : deferred'[m] = deferred[m]
          /\ startup' \in Positions /\ runtime' \in BOOLEAN /\ StartOK' /\ ExitOK' => ProcessInv'
      BY <1>0, <2>1, <2>3, <2>4, <2>5, OneAcquired
    <2>7. Len(deferred'["providers"]) = 1 /\ deferred'["runtime"] = deferred["runtime"]
      BY <1>0, <2>6
    <2>8. StartOK'
      BY <1>0, <1>2, <2>1, <2>2, <2>3, <2>7 DEF StartOK, Bootstrapping, Started, Failed
    <2>9. startup' \in Positions /\ runtime' \in BOOLEAN
      BY <1>0, <2>1, <2>2 DEF Positions, Bootstrapping, Started, ProcessTypes
    <2> QED
      BY <1>1, <2>2, <2>6, <2>8, <2>9
  <1>5. ASSUME CodexInitialized PROVE ProcessInv'
    <2>1. startup = "codex" /\ startup' = "opencode" /\ Defer("providers", <<"Codex auth service", "Codex provider">>) /\ UNCHANGED stopVars
      BY <1>5 DEF CodexInitialized, Goes
    <2>2. runtime' = runtime /\ exited' = exited
      BY <1>5 DEF CodexInitialized
    <2>3. Len(deferred["providers"]) = 1 /\ stopPromise["providers"] = NoCaller /\ (("providers" = "runtime") \/ Len(deferred["runtime"]) = 2)
      BY <1>0, <2>1 DEF StartOK, Bootstrapping, Started, Failed
    <2>4. "Codex auth service" \in Owners /\ "Codex provider" \in Owners
      BY DEF Owners
    <2>5. 1 \in 0..10 /\ 1 + 2 <= Height("providers") /\ Place("Codex auth service") = (Below("providers") + 1) + 1 /\ Place("Codex provider") = (Below("providers") + 1) + 2
      <3>1. 1 \in 0..10 /\ 1 + 2 <= 3
        OBVIOUS
      <3>2. 12 = (10 + 1) + 1 /\ 13 = (10 + 1) + 2
        OBVIOUS
      <3>3. Below("providers") = 10 /\ Height("providers") = 3
        BY Lows
      <3>4. Place("Codex auth service") = 12 /\ Place("Codex provider") = 13
        BY PlacesAre
      <3> QED
        BY <3>1, <3>2, <3>3, <3>4, Zenon
    <2>6. /\ Len(deferred'["providers"]) = 1 + 2
          /\ \A m \in Lifecycles \ {"providers"} : deferred'[m] = deferred[m]
          /\ startup' \in Positions /\ runtime' \in BOOLEAN /\ StartOK' /\ ExitOK' => ProcessInv'
      BY <1>0, <2>1, <2>3, <2>4, <2>5, TwoAcquired
    <2>7. Len(deferred'["providers"]) = 3 /\ deferred'["runtime"] = deferred["runtime"]
      BY <1>0, <2>6
    <2>8. StartOK'
      BY <1>0, <1>2, <2>1, <2>2, <2>3, <2>7 DEF StartOK, Bootstrapping, Started, Failed
    <2>9. startup' \in Positions /\ runtime' \in BOOLEAN
      BY <1>0, <2>1, <2>2 DEF Positions, Bootstrapping, Started, ProcessTypes
    <2> QED
      BY <1>1, <2>2, <2>6, <2>8, <2>9
  <1>6. ASSUME ProvidersStarted PROVE ProcessInv'
    <2>1. startup = "opencode" /\ startup' = "primary" /\ Defer("runtime", <<"provider bootstrap", "task coordinator", "registries">>) /\ UNCHANGED stopVars
      BY <1>6 DEF ProvidersStarted, Goes
    <2>2. runtime' = runtime /\ exited' = exited
      BY <1>6 DEF ProvidersStarted
    <2>3. Len(deferred["runtime"]) = 2 /\ stopPromise["runtime"] = NoCaller /\ (("runtime" = "runtime") \/ Len(deferred["runtime"]) = 2)
      BY <1>0, <2>1 DEF StartOK, Bootstrapping, Started, Failed
    <2>4. "provider bootstrap" \in Owners /\ "task coordinator" \in Owners /\ "registries" \in Owners
      BY DEF Owners
    <2>5. 2 \in 0..10 /\ 2 + 3 <= Height("runtime") /\ Place("provider bootstrap") = (Below("runtime") + 2) + 1 /\ Place("task coordinator") = (Below("runtime") + 2) + 2 /\ Place("registries") = (Below("runtime") + 2) + 3
      <3>1. 2 \in 0..10 /\ 2 + 3 <= 8
        OBVIOUS
      <3>2. 3 = (0 + 2) + 1 /\ 4 = (0 + 2) + 2 /\ 5 = (0 + 2) + 3
        OBVIOUS
      <3>3. Below("runtime") = 0 /\ Height("runtime") = 8
        BY Lows
      <3>4. Place("provider bootstrap") = 3 /\ Place("task coordinator") = 4 /\ Place("registries") = 5
        BY PlacesAre
      <3> QED
        BY <3>1, <3>2, <3>3, <3>4, Zenon
    <2>6. /\ Len(deferred'["runtime"]) = 2 + 3
          /\ \A m \in Lifecycles \ {"runtime"} : deferred'[m] = deferred[m]
          /\ startup' \in Positions /\ runtime' \in BOOLEAN /\ StartOK' /\ ExitOK' => ProcessInv'
      BY <1>0, <2>1, <2>3, <2>4, <2>5, ThreeAcquired
    <2>7. Len(deferred'["runtime"]) = 5 /\ deferred'["providers"] = deferred["providers"]
      BY <1>0, <2>6
    <2>8. StartOK'
      BY <1>0, <1>2, <2>1, <2>2, <2>3, <2>7 DEF StartOK, Bootstrapping, Started, Failed
    <2>9. startup' \in Positions /\ runtime' \in BOOLEAN
      BY <1>0, <2>1, <2>2 DEF Positions, Bootstrapping, Started, ProcessTypes
    <2> QED
      BY <1>1, <2>2, <2>6, <2>8, <2>9
  <1>7. ASSUME PrimaryStarted PROVE ProcessInv'
    <2>1. startup = "primary" /\ startup' = "usage" /\ Defer("runtime", <<"primary agent">>) /\ UNCHANGED stopVars
      BY <1>7 DEF PrimaryStarted, Goes
    <2>2. runtime' = runtime /\ exited' = exited
      BY <1>7 DEF PrimaryStarted
    <2>3. Len(deferred["runtime"]) = 5 /\ stopPromise["runtime"] = NoCaller /\ (("runtime" = "runtime") \/ Len(deferred["runtime"]) = 2)
      BY <1>0, <2>1 DEF StartOK, Bootstrapping, Started, Failed
    <2>4. "primary agent" \in Owners
      BY DEF Owners
    <2>5. 5 \in 0..10 /\ 5 + 1 <= Height("runtime") /\ Place("primary agent") = (Below("runtime") + 5) + 1
      <3>1. 5 \in 0..10 /\ 5 + 1 <= 8
        OBVIOUS
      <3>2. 6 = (0 + 5) + 1
        OBVIOUS
      <3>3. Below("runtime") = 0 /\ Height("runtime") = 8
        BY Lows
      <3>4. Place("primary agent") = 6
        BY PlacesAre
      <3> QED
        BY <3>1, <3>2, <3>3, <3>4, Zenon
    <2>6. /\ Len(deferred'["runtime"]) = 5 + 1
          /\ \A m \in Lifecycles \ {"runtime"} : deferred'[m] = deferred[m]
          /\ startup' \in Positions /\ runtime' \in BOOLEAN /\ StartOK' /\ ExitOK' => ProcessInv'
      BY <1>0, <2>1, <2>3, <2>4, <2>5, OneAcquired
    <2>7. Len(deferred'["runtime"]) = 6 /\ deferred'["providers"] = deferred["providers"]
      BY <1>0, <2>6
    <2>8. StartOK'
      BY <1>0, <1>2, <2>1, <2>2, <2>3, <2>7 DEF StartOK, Bootstrapping, Started, Failed
    <2>9. startup' \in Positions /\ runtime' \in BOOLEAN
      BY <1>0, <2>1, <2>2 DEF Positions, Bootstrapping, Started, ProcessTypes
    <2> QED
      BY <1>1, <2>2, <2>6, <2>8, <2>9
  <1>8. ASSUME UsageStarted PROVE ProcessInv'
    <2>1. startup = "usage" /\ startup' = "recovery" /\ Defer("runtime", <<"usage monitoring">>) /\ UNCHANGED stopVars
      BY <1>8 DEF UsageStarted, Goes
    <2>2. runtime' = runtime /\ exited' = exited
      BY <1>8 DEF UsageStarted
    <2>3. Len(deferred["runtime"]) = 6 /\ stopPromise["runtime"] = NoCaller /\ (("runtime" = "runtime") \/ Len(deferred["runtime"]) = 2)
      BY <1>0, <2>1 DEF StartOK, Bootstrapping, Started, Failed
    <2>4. "usage monitoring" \in Owners
      BY DEF Owners
    <2>5. 6 \in 0..10 /\ 6 + 1 <= Height("runtime") /\ Place("usage monitoring") = (Below("runtime") + 6) + 1
      <3>1. 6 \in 0..10 /\ 6 + 1 <= 8
        OBVIOUS
      <3>2. 7 = (0 + 6) + 1
        OBVIOUS
      <3>3. Below("runtime") = 0 /\ Height("runtime") = 8
        BY Lows
      <3>4. Place("usage monitoring") = 7
        BY PlacesAre
      <3> QED
        BY <3>1, <3>2, <3>3, <3>4, Zenon
    <2>6. /\ Len(deferred'["runtime"]) = 6 + 1
          /\ \A m \in Lifecycles \ {"runtime"} : deferred'[m] = deferred[m]
          /\ startup' \in Positions /\ runtime' \in BOOLEAN /\ StartOK' /\ ExitOK' => ProcessInv'
      BY <1>0, <2>1, <2>3, <2>4, <2>5, OneAcquired
    <2>7. Len(deferred'["runtime"]) = 7 /\ deferred'["providers"] = deferred["providers"]
      BY <1>0, <2>6
    <2>8. StartOK'
      BY <1>0, <1>2, <2>1, <2>2, <2>3, <2>7 DEF StartOK, Bootstrapping, Started, Failed
    <2>9. startup' \in Positions /\ runtime' \in BOOLEAN
      BY <1>0, <2>1, <2>2 DEF Positions, Bootstrapping, Started, ProcessTypes
    <2> QED
      BY <1>1, <2>2, <2>6, <2>8, <2>9
  <1>9. ASSUME Recovered PROVE ProcessInv'
    <2>1. startup = "recovery" /\ startup' = "reconcile" /\ Defer("runtime", <<"recovery rendering">>) /\ UNCHANGED stopVars
      BY <1>9 DEF Recovered, Goes
    <2>2. runtime' = TRUE /\ exited' = exited
      BY <1>9 DEF Recovered
    <2>3. Len(deferred["runtime"]) = 7 /\ stopPromise["runtime"] = NoCaller /\ (("runtime" = "runtime") \/ Len(deferred["runtime"]) = 2)
      BY <1>0, <2>1 DEF StartOK, Bootstrapping, Started, Failed
    <2>4. "recovery rendering" \in Owners
      BY DEF Owners
    <2>5. 7 \in 0..10 /\ 7 + 1 <= Height("runtime") /\ Place("recovery rendering") = (Below("runtime") + 7) + 1
      <3>1. 7 \in 0..10 /\ 7 + 1 <= 8
        OBVIOUS
      <3>2. 8 = (0 + 7) + 1
        OBVIOUS
      <3>3. Below("runtime") = 0 /\ Height("runtime") = 8
        BY Lows
      <3>4. Place("recovery rendering") = 8
        BY PlacesAre
      <3> QED
        BY <3>1, <3>2, <3>3, <3>4, Zenon
    <2>6. /\ Len(deferred'["runtime"]) = 7 + 1
          /\ \A m \in Lifecycles \ {"runtime"} : deferred'[m] = deferred[m]
          /\ startup' \in Positions /\ runtime' \in BOOLEAN /\ StartOK' /\ ExitOK' => ProcessInv'
      BY <1>0, <2>1, <2>3, <2>4, <2>5, OneAcquired
    <2>7. Len(deferred'["runtime"]) = 8 /\ deferred'["providers"] = deferred["providers"]
      BY <1>0, <2>6
    <2>8. StartOK'
      BY <1>0, <1>2, <2>1, <2>2, <2>3, <2>7 DEF StartOK, Bootstrapping, Started, Failed
    <2>9. startup' \in Positions /\ runtime' \in BOOLEAN
      BY <1>0, <2>1, <2>2 DEF Positions, Bootstrapping, Started, ProcessTypes
    <2> QED
      BY <1>1, <2>2, <2>6, <2>8, <2>9
  <1>10. ASSUME CodexStarts, startup' # "codex" PROVE ProcessInv'
    <2>1. startup = "claude" /\ startup' = "opencode" /\ UNCHANGED <<deferred, stopVars, runtime, exited>>
      BY <1>10 DEF CodexStarts, Goes
    <2>2. StartOK'
      BY <1>0, <2>1 DEF StartOK, Bootstrapping, Started, Failed, stopVars
    <2>3. ProcessTypes'
      BY <1>0, <2>1 DEF ProcessTypes, Positions, Bootstrapping, stopVars
    <2> QED
      BY <1>1, <2>1, <2>2, <2>3, QuietOK
  <1> QED
    BY <1>3, <1>4, <1>5, <1>6, <1>7, <1>8, <1>9, <1>10

LEMMA OnlyThird == \A owner \in Owners : Place(owner) = 3 => owner = "provider bootstrap"
  <1>1. 3 \notin {1, 2, 4, 5, 6, 7, 8, 11, 12, 13}
    OBVIOUS
  <1> QED
    BY <1>1, PlacesAre, Zenon DEF Owners

LEMMA NoneBelow == 1..0 = {}
  OBVIOUS

LEMMA Late == \A h : h \in {5, 6, 7, 8} => ~(h < 3)
  OBVIOUS

\* What the bootstrap of the providers has acquired is released before it is.
LEMMA RuntimeReleased ==
    ASSUME ProcessInv, Entries("runtime") \subseteq released,
           ~(Len(deferred["runtime"]) < 3)
    PROVE  Entries("providers") \subseteq released
  <1>0. ProcessTypes /\ "runtime" \in Lifecycles
    BY DEF ProcessInv, Lifecycles
  <1>1. PICK h \in Nat : h = Len(deferred["runtime"])
    BY <1>0, EntriesAre
  <1>2. 3 \in 1..h
    BY <1>1
  <1>3. Place(deferred["runtime"][3]) = Below("runtime") + 3
    BY <1>0, <1>1, <1>2 DEF ProcessInv, StackOK
  <1>4. Below("runtime") + 3 = 3
    BY DEF Below
  <1>5. deferred["runtime"][3] = "provider bootstrap"
    <2>1. deferred["runtime"] \in Seq(Owners)
      BY <1>0 DEF ProcessTypes
    <2>2. deferred["runtime"][3] \in Owners
      BY <1>1, <1>2, <2>1
    <2> QED
      BY <1>3, <1>4, <2>2, OnlyThird
  <1>6. "provider bootstrap" \in Entries("runtime")
    BY <1>0, <1>1, <1>2, <1>5, EntriesAre
  <1> QED
    BY <1>6 DEF ProcessInv, BootstrapOK

LEMMA AllReleased ==
    ASSUME ProcessInv, Entries("runtime") \subseteq released, startup \in Failed
    PROVE  Entries("providers") \subseteq released
  BY RuntimeReleased DEF ProcessInv, StartOK

LEMMA LastToExit ==
    ASSUME runtime, NEW i \in DOMAIN StopOrder, NEW j \in DOMAIN StopOrder, NextStop(i, j),
           StopOrder[j] = "exit"
    PROVE  StopOrder[i] = "runtime"
  <1>1. DOMAIN StopOrder = 1..6
    BY DEF StopOrder
  <1>2. StopOrder[5] = "runtime" /\ StopOrder[1] = "no" /\ StopOrder[2] = "repl"
        /\ StopOrder[3] = "review" /\ StopOrder[4] = "broker"
    BY DEF StopOrder
  <1>3. j = 6
    <2>1. j \in 1..6 /\ (j = 1 \/ j = 2 \/ j = 3 \/ j = 4 \/ j = 5 \/ j = 6)
      BY <1>1
    <2> QED
      BY <1>2, <2>1
  <1>4. IsThere(StopOrder[5])
    BY <1>2 DEF IsThere
  <1>5. 5 \notin i + 1..5 /\ i \in 1..5
    BY <1>1, <1>3, <1>4 DEF NextStop
  <1>6. i = 5
    BY <1>5
  <1> QED
    BY <1>2, <1>6

LEMMA FailsAtOK ==
    ASSUME ProcessInv, exited = "no", NEW l, NEW here, NEW there, FailsAt(here, l, there),
           \/ here = "codex" /\ l = "providers" /\ there = "codex fails"
           \/ here \in {"claude", "opencode"} /\ l = "providers" /\ there = "bootstrap fails"
           \/ here \in {"login", "primary", "usage", "recovery"} /\ l = "runtime" /\ there = "start fails"
           \/ here = "bootstrap fails" /\ Stopped("providers", "startup") /\ l = "runtime" /\ there = "start fails"
    PROVE  ProcessInv'
  <1> USE DEF Bootstrapping, Started, Failed
  <1>0. ProcessTypes /\ StartOK /\ l \in Lifecycles /\ "startup" \in Callers
        /\ "runtime" \in Lifecycles /\ "providers" \in Lifecycles /\ "runtime" # "providers"
    BY DEF ProcessInv, Lifecycles, Callers
  <1>1. startup = here /\ startup' = there
        /\ UNCHANGED <<deferred, begun, released, stopping, runtime, exited>> /\ StopCalled(l, "startup")
    BY DEF FailsAt, Goes
  <1>2. /\ stopPromise'[l] # NoCaller
        /\ \A m \in Lifecycles \ {l} : stopPromise'[m] = stopPromise[m]
        /\ startup' \in Positions /\ runtime' \in BOOLEAN /\ StartOK' /\ ExitOK' => ProcessInv'
    BY <1>0, <1>1, StopsOK
  <1>3. ExitOK' /\ startup' \in Positions /\ runtime' \in BOOLEAN
    BY <1>0, <1>1 DEF ExitOK, Positions, ProcessTypes
  <1>4. Entries("providers")' = Entries("providers")
    BY <1>1 DEF Entries
  <1>5. CASE l = "providers"
    <2>1. startup \in Bootstrapping /\ startup' \in {"codex fails", "bootstrap fails"}
      BY <1>0, <1>1, <1>5
    <2>2. stopPromise'["runtime"] = stopPromise["runtime"]
      BY <1>0, <1>2, <1>5
    <2>3. StartOK'
      BY <1>0, <1>1, <2>1, <2>2 DEF StartOK
    <2> QED
      BY <1>2, <1>3, <2>3
  <1>6. CASE l = "runtime"
    <2>1. /\ startup' = "start fails" /\ stopPromise'["runtime"] # NoCaller
          /\ startup \in {"login", "primary", "usage", "recovery", "bootstrap fails"}
          /\ startup = "bootstrap fails" => Stopped("providers", "startup")
      BY <1>0, <1>1, <1>2, <1>6
    <2>2. Len(deferred["runtime"]) < 3 => Entries("providers") \subseteq released
      <3>1. CASE startup = "login"
        <4>1. Len(deferred["providers"]) = 0
          BY <1>0, <3>1 DEF StartOK
        <4>3. \A o : o \notin Entries("providers")
          BY <1>0, <4>1, NoneBelow, EntriesAre
        <4> QED
          BY <4>3
      <3>2. CASE startup = "bootstrap fails"
        BY <1>0, <2>1, <3>2, StoppedIs
      <3>3. CASE startup \in {"primary", "usage", "recovery"}
        <4>1. Len(deferred["runtime"]) \in {5, 6, 7, 8}
          BY <1>0, <3>3 DEF StartOK
        <4> QED
          BY <4>1, Late
      <3> QED
        BY <2>1, <3>1, <3>2, <3>3
    <2>3. ~runtime
      BY <1>0, <2>1 DEF StartOK
    <2>4. StartOK'
      BY <1>0, <1>1, <1>4, <2>1, <2>2, <2>3 DEF StartOK
    <2> QED
      BY <1>2, <1>3, <2>4
  <1> QED
    BY <1>5, <1>6

LEMMA HandlerOK ==
    ASSUME ProcessInv, exited = "no",
           CodexGivenUp \/ Reconciled \/ CommandsRegistered \/ BrokerListens \/ BrokerFails
             \/ ReviewsAndRepl \/ StartFails \/ ReconnectFails
    PROVE  ProcessInv'
  <1> USE DEF Bootstrapping, Started, Failed, Goes, Starts
  <1>0. ProcessTypes /\ StartOK
    BY DEF ProcessInv
  <1>1. UNCHANGED <<deferred, stopVars, runtime>>
    BY DEF CodexGivenUp, Reconciled, CommandsRegistered, BrokerListens, BrokerFails, ReviewsAndRepl,
           StartFails, ReconnectFails
  <1>2. Entries("providers")' = Entries("providers") /\ Entries("runtime")' = Entries("runtime")
        /\ released' = released /\ stopPromise' = stopPromise /\ deferred' = deferred
    BY <1>1 DEF Entries, stopVars
  <1>3. \/ startup = "codex fails" /\ startup' = "opencode"
        \/ startup \in Started /\ startup' \in Started
        \/ startup \in Failed /\ startup' \in Failed
        \/ startup' = startup
    BY DEF CodexGivenUp, Reconciled, CommandsRegistered, BrokerListens, BrokerFails, ReviewsAndRepl,
           StartFails, ReconnectFails
  <1>4. StartOK'
    <2>1. CASE startup = "codex fails" /\ startup' = "opencode"
      BY <1>0, <1>1, <1>2, <2>1 DEF StartOK
    <2>2. CASE startup \in Started /\ startup' \in Started
      BY <1>0, <1>1, <1>2, <2>2 DEF StartOK
    <2>3. CASE startup \in Failed /\ startup' \in Failed
      BY <1>0, <1>1, <1>2, <2>3 DEF StartOK
    <2>4. CASE startup' = startup
      BY <1>0, <1>1, <1>2, <2>4, ZenonT(30) DEF StartOK
    <2> QED
      BY <1>3, <2>1, <2>2, <2>3, <2>4
  <1>5. ProcessTypes'
    BY <1>0, <1>1, <1>3 DEF ProcessTypes, Positions, stopVars
  <1>6. ExitOK'
    <2>1. CASE StartFails
      <3>1. Stopped("runtime", "startup") /\ "runtime" \in Lifecycles /\ "startup" \in Callers
            /\ startup = "start fails"
        BY <2>1 DEF StartFails, Lifecycles, Callers
      <3>2. Entries("runtime") \subseteq released
        BY <3>1, StoppedIs
      <3>3. Entries("providers") \subseteq released
        BY <1>0, <3>1, <3>2, AllReleased
      <3> QED
        BY <1>2, <3>2, <3>3 DEF ExitOK, Lifecycles
    <2>2. CASE ReconnectFails
      BY <2>2 DEF ReconnectFails, ExitOK
    <2>3. CASE ~StartFails /\ ~ReconnectFails
      <3>1. exited' = exited
        BY <2>3 DEF CodexGivenUp, Reconciled, CommandsRegistered, BrokerListens, BrokerFails, ReviewsAndRepl
      <3> QED
        BY <3>1 DEF ExitOK
    <2> QED
      BY <2>1, <2>2, <2>3
  <1> QED
    BY <1>1, <1>4, <1>5, <1>6, QuietOK

LEMMA ReconcileFailsOK == ASSUME ProcessInv, exited = "no", ReconcileFails PROVE ProcessInv'
  <1> USE DEF Bootstrapping, Started, Failed
  <1>0. ProcessTypes /\ StartOK /\ "runtime" \in Lifecycles /\ "startup" \in Callers
    BY DEF ProcessInv, Lifecycles, Callers
  <1>1. startup = "reconcile" /\ startup' = "start fails" /\ StopCalled("runtime", "startup")
        /\ UNCHANGED <<deferred, begun, released, stopping, runtime, exited>>
    BY DEF ReconcileFails, Goes
  <1>2. /\ stopPromise'["runtime"] # NoCaller
        /\ startup' \in Positions /\ runtime' \in BOOLEAN /\ StartOK' /\ ExitOK' => ProcessInv'
    BY <1>0, <1>1, StopsOK
  <1>3. ExitOK' /\ startup' \in Positions /\ runtime' \in BOOLEAN
    BY <1>0, <1>1 DEF ExitOK, Positions, ProcessTypes
  <1>4. Len(deferred["runtime"]) = 8
    BY <1>0, <1>1 DEF StartOK
  <1>5. ~(Len(deferred["runtime"]) < 3)
    BY <1>4, Late
  <1>6. StartOK'
    BY <1>0, <1>1, <1>2, <1>4, <1>5 DEF StartOK
  <1> QED
    BY <1>2, <1>3, <1>6

LEMMA ShutdownOK == ASSUME ProcessInv, exited = "no", Shutdown PROVE ProcessInv'
  <1>0. ProcessTypes /\ StartOK /\ "runtime" \in Lifecycles /\ "shutdown" \in Callers
    BY DEF ProcessInv, Lifecycles, Callers
  <1>1. PICK i \in DOMAIN StopOrder, j \in DOMAIN StopOrder : ShutdownGoes(i, j)
    BY DEF Shutdown
  <1>2. UNCHANGED <<startup, deferred, begun, released, stopping, runtime>>
    BY <1>1 DEF ShutdownGoes
  <1>3. CASE StopOrder[j] = "runtime"
    <2>1. StopCalled("runtime", "shutdown") /\ exited' = exited /\ runtime
      BY <1>1, <1>3 DEF ShutdownGoes, NextStop, IsThere
    <2>2. /\ stopPromise'["runtime"] # NoCaller
          /\ \A m \in Lifecycles \ {"runtime"} : stopPromise'[m] = stopPromise[m]
          /\ startup' \in Positions /\ runtime' \in BOOLEAN /\ StartOK' /\ ExitOK' => ProcessInv'
      BY <1>0, <1>2, <2>1, StopsOK
    <2>3. stopPromise'["providers"] = stopPromise["providers"]
      BY <2>2 DEF Lifecycles
    <2>4. ExitOK' /\ startup' \in Positions /\ runtime' \in BOOLEAN
      BY <1>0, <1>2, <2>1 DEF ExitOK, ProcessTypes
    <2>5. startup \in Started \cup Failed /\ Entries("providers")' = Entries("providers")
      BY <1>0, <1>2, <2>1 DEF StartOK, Entries
    <2>6. StartOK'
      BY <1>0, <1>2, <2>1, <2>2, <2>3, <2>5 DEF StartOK, Started, Failed, Bootstrapping
    <2> QED
      BY <2>2, <2>4, <2>6
  <1>4. CASE StopOrder[j] # "runtime"
    <2>1. UNCHANGED <<stopPromise, promise, cursor>>
      BY <1>1, <1>4 DEF ShutdownGoes
    <2>2. UNCHANGED stopVars
      BY <1>2, <2>1 DEF stopVars
    <2>3. ProcessTypes'
      BY <1>0, <1>2, <2>1 DEF ProcessTypes
    <2>4. StartOK'
      BY <1>0, <1>2, <2>1 DEF StartOK, Entries
    <2>5. ExitOK'
      <3>1. CASE StopOrder[j] = "exit" /\ runtime
        <4>1. Entries("runtime") \subseteq released
          BY <1>0, <1>1, <3>1, StoppedIs, LastToExit DEF ShutdownGoes
        <4>3. Len(deferred["runtime"]) \in {5, 6, 7, 8}
          BY <1>0, <3>1 DEF StartOK
        <4>4. Entries("providers") \subseteq released
          BY <4>1, <4>3, Late, RuntimeReleased
        <4> QED
          BY <1>2, <4>1, <4>4 DEF ExitOK, Entries, Lifecycles
      <3>2. CASE StopOrder[j] = "exit" /\ ~runtime
        <4>1. exited' = "shut down"
          BY <1>1, <3>2 DEF ShutdownGoes
        <4>2. ~runtime'
          BY <1>2, <3>2, Zenon
        <4> QED
          BY <4>1, <4>2 DEF ExitOK
      <3>3. CASE StopOrder[j] # "exit"
        <4>1. exited' = "no"
          BY <1>1, <3>3 DEF ShutdownGoes
        <4> QED
          BY <4>1 DEF ExitOK
      <3> QED
        BY <3>1, <3>2, <3>3
    <2> QED
      BY <1>2, <2>2, <2>3, <2>4, <2>5, QuietOK
  <1> QED
    BY <1>3, <1>4

LEMMA ProcessStart == ProcessInit => ProcessInv
  <1> SUFFICES ASSUME ProcessInit PROVE ProcessInv
    OBVIOUS
  <1>1. ProcessTypes
    <2>1. deferred \in [Lifecycles -> Seq(Owners)]
      BY DEF ProcessInit
    <2>2. promise \in [Lifecycles -> [Callers -> Callers \cup {NoCaller}]]
          /\ stopping \in [Lifecycles -> [Callers -> Owners \cup {NoCaller}]]
          /\ stopPromise \in [Lifecycles -> Callers \cup {NoCaller}]
      BY DEF ProcessInit
    <2>3. cursor \in [Lifecycles -> [Callers -> Nat]]
      BY DEF ProcessInit
    <2>4. startup \in Positions /\ runtime \in BOOLEAN /\ released \subseteq begun
      BY DEF ProcessInit, Positions
    <2> QED
      BY <2>1, <2>2, <2>3, <2>4 DEF ProcessTypes
  <1>2. \A l \in Lifecycles : Len(deferred[l]) = 0 /\ 1..0 = {} /\ 0 <= Height(l)
    BY DEF ProcessInit, Height
  <1>3. StartOK
    BY <1>2 DEF ProcessInit, StartOK, Bootstrapping, Started, Failed, Lifecycles
  <1>4. \A l \in Lifecycles : StackOK(l) /\ StopOK(l)
    BY <1>2 DEF ProcessInit, StackOK, StopOK
  <1>5. BootstrapOK /\ ExitOK
    BY DEF ProcessInit, BootstrapOK, ExitOK
  <1> QED
    BY <1>1, <1>3, <1>4, <1>5 DEF ProcessInv, ProcessInit

LEMMA ProcessStep == ProcessInv /\ [ProcessNext]_processVars => ProcessInv'
  <1> SUFFICES ASSUME ProcessInv, [ProcessNext]_processVars PROVE ProcessInv'
    OBVIOUS
  <1>1. CASE ProcessNext
    <2>1. exited = "no"
      BY <1>1 DEF ProcessNext
    <2>2. CASE StartRuntime
      BY <2>1, <2>2, AcquiresOK, HandlerOK, FailsAtOK DEF StartRuntime
    <2>3. CASE ReconcileFails \/ StartFails \/ Reconciled \/ CommandsRegistered \/ BrokerListens
               \/ BrokerFails \/ ReviewsAndRepl \/ Shutdown \/ ReconnectFails
      BY <2>1, <2>3, HandlerOK, ReconcileFailsOK, ShutdownOK
    <2>4. CASE \E l \in Lifecycles, c \in Callers : StopEntry(l, c) \/ EntryStopped(l, c)
      BY <2>1, <2>4, StopEntryOK, EntryStoppedOK
    <2> QED
      BY <1>1, <2>2, <2>3, <2>4 DEF ProcessNext
  <1>2. CASE UNCHANGED processVars
    <2>1. UNCHANGED <<deferred, stopVars, startup, runtime, exited>>
      BY <1>2 DEF processVars
    <2>2. ProcessTypes'
      BY <2>1 DEF ProcessInv, ProcessTypes, stopVars
    <2>3. released' = released /\ stopPromise' = stopPromise
      BY <2>1 DEF stopVars
    <2>4. StartOK' /\ ExitOK'
      <3>1. /\ StartOK' = StartOK
            /\ \A l : Entries(l)' = Entries(l)
        BY <2>1, <2>3 DEF StartOK, Entries
      <3>2. ExitOK'
        BY <2>1, <2>3, <3>1 DEF ProcessInv, ExitOK
      <3> QED
        BY <3>1, <3>2 DEF ProcessInv
    <2> QED
      BY <2>1, <2>2, <2>4, QuietOK
  <1> QED
    BY <1>1, <1>2

LEMMA StackInOrder == ProcessInv => OrderlyExit
  <1> SUFFICES ASSUME ProcessInv PROVE OrderlyExit
    OBVIOUS
  <1>0. ProcessTypes
    BY DEF ProcessInv
  <1>1. ASSUME NEW l \in Lifecycles, NEW i \in DOMAIN deferred[l], NEW j \in DOMAIN deferred[l],
               i < j, deferred[l][i] \in released
        PROVE  deferred[l][j] \in released
    <2>1. i \in 1..Len(deferred[l]) /\ j \in 1..Len(deferred[l]) /\ StopOK(l) /\ deferred[l][i] \in begun
      BY <1>0, <1>1 DEF ProcessInv, ProcessTypes
    <2>2. PICK w \in Callers : w = stopPromise[l] /\ WalkOK(l, w)
      BY <1>0, <2>1 DEF StopOK, ProcessTypes
    <2>3. cursor[l][w] \in Nat /\ i \in Nat /\ j \in Nat
      BY <1>0, <2>1 DEF ProcessTypes
    <2>4. ~(i < cursor[l][w])
      BY <2>1, <2>2 DEF WalkOK
    <2>5. j > cursor[l][w]
      BY <1>1, <2>3, <2>4
    <2> QED
      BY <2>1, <2>2, <2>5 DEF WalkOK
  <1> QED
    BY <1>1 DEF ProcessInv, BootstrapOK, ExitOK, OrderlyExit

(* runtimeLifecycle.ts and index.ts: whoever stops the process, and          *)
(* whenever, nothing is released while something acquired later is held,    *)
(* and an exit that is not cut short leaves nothing held.                   *)
THEOREM ExitIsOrderly == ProcessSpec => []OrderlyExit
  BY ProcessStart, ProcessStep, StackInOrder, PTL DEF ProcessSpec

-----------------------------------------------------------------------------
(* Restoring: which files are where, by what is left to do.  A generation is *)
(* found by its main file; the one the activation began with is at the       *)
(* active or the rollback path through all of it, and its -wal with it or    *)
(* not yet moved.                                                            *)

ActiveMain == disk["active"].main
ActiveWal == disk["active"].wal
ActiveShm == disk["active"].shm
RollbackMain == disk["rollback"].main
RollbackWal == disk["rollback"].wal
RollbackShm == disk["rollback"].shm
StagedMain == disk["staging"].main
StagedWal == disk["staging"].wal
StagedShm == disk["staging"].shm

DiskParts == {"main", "wal", "shm"}
DiskOK == disk \in [Places -> [main : Generations \cup {None}, wal : Generations \cup {None},
                               shm : Generations \cup {None}]]
NoActive == ActiveMain = None /\ ActiveWal = None /\ ActiveShm = None
NoRollback == RollbackMain = None /\ RollbackWal = None /\ RollbackShm = None

\* Generations that have been on the disk: the next one staged is none of them.
UsedOnes == {g \in Generations : g = 1 \/ schema[g] # 0}

RestoreTypes ==
    /\ DiskOK
    /\ schema \in [Generations -> Nat]
    /\ dirty \subseteq UsedOnes
    /\ {ActiveMain, ActiveWal, ActiveShm, RollbackMain, RollbackWal, RollbackShm, StagedMain}
         \subseteq UsedOnes \cup {None}
    /\ torn \in BOOLEAN /\ hadActive \in BOOLEAN

StagedOK ==
    /\ StagedWal = None /\ StagedShm = None
    /\ StagedMain # None =>
         StagedMain \notin dirty \cup {ActiveMain, ActiveWal, ActiveShm, RollbackMain, RollbackWal, RollbackShm}

\* Where the -wal is of a generation that needs it.
DirtyOK ==
    /\ ActiveMain # None => ActiveMain # RollbackMain /\ (ActiveMain \in dirty => ActiveWal = ActiveMain)
    /\ ActiveMain # None /\ RollbackMain \in dirty => RollbackWal = RollbackMain
    /\ ActiveMain = None /\ RollbackMain \in dirty => ActiveWal = RollbackMain \/ RollbackWal = RollbackMain

\* Whose the sidecars are.
OwnOK ==
    ~torn =>
      /\ ActiveMain # None => ActiveWal \in {None, ActiveMain} /\ ActiveShm \in {None, ActiveMain}
      /\ RollbackMain # None => RollbackWal \in {None, RollbackMain} /\ RollbackShm \in {None, RollbackMain}
      /\ ActiveMain = None /\ RollbackMain # None =>
           ActiveWal \in {None, RollbackMain} /\ ActiveShm \in {None, RollbackMain}
      /\ ActiveMain # None /\ RollbackMain = None /\ phase # "clear" =>
           RollbackWal \in {None, ActiveMain} /\ RollbackShm \in {None, ActiveMain}

Back(kind) == Mv("rollback", "active", kind)
Away(kind) == Mv("active", "rollback", kind)

AtRest ==
    /\ phase = "idle" /\ holder \in {"nobody", "service"} /\ todo = <<>>
    /\ former # None => former \in {ActiveMain, RollbackMain}
    /\ holder = "service" => ActiveMain # None

Recovering ==
    /\ phase = "recover" /\ holder = "activation"
    /\ ActiveMain # None => former = ActiveMain
    /\ ActiveMain = None => former = RollbackMain
    /\ \/ todo = <<>> /\ (ActiveMain # None \/ (NoActive /\ NoRollback))
       \/ todo = <<Back("wal"), Back("shm")>> /\ ActiveMain # None /\ RollbackMain = None
       \/ todo = <<Back("shm")>> /\ ActiveMain # None /\ RollbackMain = None
       \/ todo = <<Back("wal"), Back("shm"), Back("main")>> /\ ActiveMain = None /\ RollbackMain # None
       \/ todo = <<Back("shm"), Back("main")>> /\ ActiveMain = None /\ RollbackMain # None /\ RollbackWal = None
       \/ todo = <<Back("main")>> /\ ActiveMain = None /\ RollbackMain # None /\ RollbackWal = None
          /\ RollbackShm = None

Clearing ==
    /\ phase = "clear" /\ holder = "activation" /\ hadActive
    /\ ActiveMain # None /\ former = ActiveMain
    /\ \/ todo = <<Rm("rollback", "main"), Rm("rollback", "wal"), Rm("rollback", "shm")>>
       \/ todo = <<Rm("rollback", "wal"), Rm("rollback", "shm")>> /\ RollbackMain = None
       \/ todo = <<Rm("rollback", "shm")>> /\ RollbackMain = None /\ RollbackWal = None
       \/ todo = <<>> /\ NoRollback

Moving ==
    /\ phase = "move" /\ holder = "activation" /\ hadActive /\ former # None
    /\ \/ todo = <<Away("main"), Away("wal"), Away("shm")>> /\ ActiveMain = former /\ NoRollback
       \/ todo = <<Away("wal"), Away("shm")>> /\ ActiveMain = None /\ RollbackMain = former
          /\ RollbackWal = None /\ RollbackShm = None
       \/ todo = <<Away("shm")>> /\ ActiveMain = None /\ ActiveWal = None /\ RollbackMain = former
          /\ RollbackShm = None
       \/ todo = <<>> /\ NoActive /\ RollbackMain = former

\* What was active is at the rollback path, all of it.
SetAside ==
    /\ holder = "activation"
    /\ ActiveWal = None /\ ActiveShm = None
    /\ hadActive => former # None /\ RollbackMain = former
    /\ ~hadActive => former = None /\ NoRollback

Replacing ==
    /\ phase = "replace" /\ SetAside
    /\ \/ todo = <<Mv("staging", "active", "main")>> /\ ActiveMain = None
       \/ todo = <<>>

Undoing ==
    /\ phase = "undo" /\ SetAside
    /\ \/ todo = <<Rm("active", "main"), Rm("active", "wal"), Rm("active", "shm")>>
       \/ todo = <<Rm("active", "wal"), Rm("active", "shm")>> /\ ActiveMain = None
       \/ todo = <<Rm("active", "shm")>> /\ ActiveMain = None
       \/ todo = <<>> /\ ActiveMain = None

PlanOK == AtRest \/ Recovering \/ Clearing \/ Moving \/ Replacing \/ Undoing

RestoreInv == RestoreTypes /\ StagedOK /\ DirtyOK /\ OwnOK /\ PlanOK

LEMMA FileRemoved ==
    ASSUME DiskOK, NEW place \in Places, NEW kind \in DiskParts,
           disk' = [disk EXCEPT ![place][kind] = None]
    PROVE  /\ DiskOK'
           /\ \A p \in Places, q \in DiskParts :
                 disk'[p][q] = IF p = place /\ q = kind THEN None ELSE disk[p][q]
  <1> USE DEF DiskOK, DiskParts, Places, None
  <1>1. CASE kind = "main"
    BY <1>1
  <1>2. CASE kind = "wal"
    BY <1>2
  <1>3. CASE kind = "shm"
    BY <1>3
  <1> QED
    BY <1>1, <1>2, <1>3

LEMMA FileMoved ==
    ASSUME DiskOK, NEW from \in Places, NEW to \in Places, from # to, NEW kind \in DiskParts,
           disk' = IF disk[from][kind] = None THEN disk
                   ELSE [disk EXCEPT ![from][kind] = None, ![to][kind] = disk[from][kind]]
    PROVE  /\ DiskOK'
           /\ \A p \in Places, q \in DiskParts :
                 disk'[p][q] = IF p = from /\ q = kind THEN None
                               ELSE IF p = to /\ q = kind /\ disk[from][kind] # None THEN disk[from][kind]
                               ELSE disk[p][q]
  <1> USE DEF DiskOK, DiskParts, Places, None
  <1>1. CASE kind = "main"
    BY <1>1
  <1>2. CASE kind = "wal"
    BY <1>2
  <1>3. CASE kind = "shm"
    BY <1>3
  <1> QED
    BY <1>1, <1>2, <1>3


\* What a step of the plan leaves as it is.
LEMMA StepKeeps ==
    ASSUME FileStep
    PROVE  UNCHANGED <<schema, dirty, holder, phase, failing, hadActive, outcome, former, torn>>
  BY DEF FileStep

LEMMA RemovalStep ==
    ASSUME DiskOK, FileStep, NEW place \in Places, NEW kind \in DiskParts, Head(todo) = Rm(place, kind)
    PROVE  /\ DiskOK'
           /\ \A p \in Places, q \in DiskParts :
                 disk'[p][q] = IF p = place /\ q = kind THEN None ELSE disk[p][q]
  <1>1. disk' = [disk EXCEPT ![place][kind] = None]
    BY DEF FileStep, Rm
  <1> QED
    BY <1>1, FileRemoved

LEMMA MoveStep ==
    ASSUME DiskOK, FileStep, NEW from \in Places, NEW to \in Places, from # to, NEW kind \in DiskParts,
           Head(todo) = Mv(from, to, kind)
    PROVE  /\ DiskOK'
           /\ kind # "main" => disk[from][kind] = None \/ disk[to][kind] = None
           /\ \A p \in Places, q \in DiskParts :
                 disk'[p][q] = IF p = from /\ q = kind THEN None
                               ELSE IF p = to /\ q = kind /\ disk[from][kind] # None THEN disk[from][kind]
                               ELSE disk[p][q]
  <1>1. disk' = IF disk[from][kind] = None THEN disk
                ELSE [disk EXCEPT ![from][kind] = None, ![to][kind] = disk[from][kind]]
    BY DEF FileStep, Mv
  <1>2. kind # "main" => disk[from][kind] = None \/ disk[to][kind] = None
    BY DEF FileStep, Mv, Blocked
  <1> QED
    BY <1>1, <1>2, FileMoved, ZenonT(30)

LEMMA RemoveRollbackMain ==
    ASSUME DiskOK, FileStep, Head(todo) = Rm("rollback", "main")
    PROVE  /\ DiskOK' /\ RollbackMain' = None
           /\ UNCHANGED <<ActiveMain, ActiveWal, ActiveShm, RollbackWal, RollbackShm, StagedMain, StagedWal, StagedShm>>
  <1>1. /\ "rollback" \in Places /\ {"active", "rollback", "staging"} \subseteq Places
        /\ "main" \in DiskParts /\ {"main", "wal", "shm"} \subseteq DiskParts
    BY DEF Places, DiskParts
  <1> QED
    BY <1>1, RemovalStep DEF ActiveMain, ActiveWal, ActiveShm, RollbackMain, RollbackWal, RollbackShm, StagedMain, StagedWal, StagedShm

LEMMA RemoveRollbackWal ==
    ASSUME DiskOK, FileStep, Head(todo) = Rm("rollback", "wal")
    PROVE  /\ DiskOK' /\ RollbackWal' = None
           /\ UNCHANGED <<ActiveMain, ActiveWal, ActiveShm, RollbackMain, RollbackShm, StagedMain, StagedWal, StagedShm>>
  <1>1. /\ "rollback" \in Places /\ {"active", "rollback", "staging"} \subseteq Places
        /\ "wal" \in DiskParts /\ {"main", "wal", "shm"} \subseteq DiskParts
    BY DEF Places, DiskParts
  <1> QED
    BY <1>1, RemovalStep DEF ActiveMain, ActiveWal, ActiveShm, RollbackMain, RollbackWal, RollbackShm, StagedMain, StagedWal, StagedShm

LEMMA RemoveRollbackShm ==
    ASSUME DiskOK, FileStep, Head(todo) = Rm("rollback", "shm")
    PROVE  /\ DiskOK' /\ RollbackShm' = None
           /\ UNCHANGED <<ActiveMain, ActiveWal, ActiveShm, RollbackMain, RollbackWal, StagedMain, StagedWal, StagedShm>>
  <1>1. /\ "rollback" \in Places /\ {"active", "rollback", "staging"} \subseteq Places
        /\ "shm" \in DiskParts /\ {"main", "wal", "shm"} \subseteq DiskParts
    BY DEF Places, DiskParts
  <1> QED
    BY <1>1, RemovalStep DEF ActiveMain, ActiveWal, ActiveShm, RollbackMain, RollbackWal, RollbackShm, StagedMain, StagedWal, StagedShm

LEMMA RemoveActiveMain ==
    ASSUME DiskOK, FileStep, Head(todo) = Rm("active", "main")
    PROVE  /\ DiskOK' /\ ActiveMain' = None
           /\ UNCHANGED <<ActiveWal, ActiveShm, RollbackMain, RollbackWal, RollbackShm, StagedMain, StagedWal, StagedShm>>
  <1>1. /\ "active" \in Places /\ {"active", "rollback", "staging"} \subseteq Places
        /\ "main" \in DiskParts /\ {"main", "wal", "shm"} \subseteq DiskParts
    BY DEF Places, DiskParts
  <1> QED
    BY <1>1, RemovalStep DEF ActiveMain, ActiveWal, ActiveShm, RollbackMain, RollbackWal, RollbackShm, StagedMain, StagedWal, StagedShm

LEMMA RemoveActiveWal ==
    ASSUME DiskOK, FileStep, Head(todo) = Rm("active", "wal")
    PROVE  /\ DiskOK' /\ ActiveWal' = None
           /\ UNCHANGED <<ActiveMain, ActiveShm, RollbackMain, RollbackWal, RollbackShm, StagedMain, StagedWal, StagedShm>>
  <1>1. /\ "active" \in Places /\ {"active", "rollback", "staging"} \subseteq Places
        /\ "wal" \in DiskParts /\ {"main", "wal", "shm"} \subseteq DiskParts
    BY DEF Places, DiskParts
  <1> QED
    BY <1>1, RemovalStep DEF ActiveMain, ActiveWal, ActiveShm, RollbackMain, RollbackWal, RollbackShm, StagedMain, StagedWal, StagedShm

LEMMA RemoveActiveShm ==
    ASSUME DiskOK, FileStep, Head(todo) = Rm("active", "shm")
    PROVE  /\ DiskOK' /\ ActiveShm' = None
           /\ UNCHANGED <<ActiveMain, ActiveWal, RollbackMain, RollbackWal, RollbackShm, StagedMain, StagedWal, StagedShm>>
  <1>1. /\ "active" \in Places /\ {"active", "rollback", "staging"} \subseteq Places
        /\ "shm" \in DiskParts /\ {"main", "wal", "shm"} \subseteq DiskParts
    BY DEF Places, DiskParts
  <1> QED
    BY <1>1, RemovalStep DEF ActiveMain, ActiveWal, ActiveShm, RollbackMain, RollbackWal, RollbackShm, StagedMain, StagedWal, StagedShm

LEMMA RollbackMainToActive ==
    ASSUME DiskOK, FileStep, Head(todo) = Back("main")
    PROVE  /\ DiskOK' /\ RollbackMain' = None /\ ActiveMain' = (IF RollbackMain = None THEN ActiveMain ELSE RollbackMain)
           /\ UNCHANGED <<ActiveWal, ActiveShm, RollbackWal, RollbackShm, StagedMain, StagedWal, StagedShm>>
  <1>1. /\ {"active", "rollback", "staging"} \subseteq Places
        /\ {"main", "wal", "shm"} \subseteq DiskParts
        /\ Head(todo) = Mv("rollback", "active", "main")
    BY DEF Places, DiskParts, Back, Away
  <1> QED
    BY <1>1, MoveStep DEF ActiveMain, ActiveWal, ActiveShm, RollbackMain, RollbackWal, RollbackShm, StagedMain, StagedWal, StagedShm

LEMMA RollbackWalToActive ==
    ASSUME DiskOK, FileStep, Head(todo) = Back("wal")
    PROVE  /\ DiskOK' /\ RollbackWal' = None /\ ActiveWal' = (IF RollbackWal = None THEN ActiveWal ELSE RollbackWal) /\ (RollbackWal = None \/ ActiveWal = None)
           /\ UNCHANGED <<ActiveMain, ActiveShm, RollbackMain, RollbackShm, StagedMain, StagedWal, StagedShm>>
  <1>1. /\ {"active", "rollback", "staging"} \subseteq Places
        /\ {"main", "wal", "shm"} \subseteq DiskParts
        /\ Head(todo) = Mv("rollback", "active", "wal")
    BY DEF Places, DiskParts, Back, Away
  <1> QED
    BY <1>1, MoveStep DEF ActiveMain, ActiveWal, ActiveShm, RollbackMain, RollbackWal, RollbackShm, StagedMain, StagedWal, StagedShm

LEMMA RollbackShmToActive ==
    ASSUME DiskOK, FileStep, Head(todo) = Back("shm")
    PROVE  /\ DiskOK' /\ RollbackShm' = None /\ ActiveShm' = (IF RollbackShm = None THEN ActiveShm ELSE RollbackShm) /\ (RollbackShm = None \/ ActiveShm = None)
           /\ UNCHANGED <<ActiveMain, ActiveWal, RollbackMain, RollbackWal, StagedMain, StagedWal, StagedShm>>
  <1>1. /\ {"active", "rollback", "staging"} \subseteq Places
        /\ {"main", "wal", "shm"} \subseteq DiskParts
        /\ Head(todo) = Mv("rollback", "active", "shm")
    BY DEF Places, DiskParts, Back, Away
  <1> QED
    BY <1>1, MoveStep DEF ActiveMain, ActiveWal, ActiveShm, RollbackMain, RollbackWal, RollbackShm, StagedMain, StagedWal, StagedShm

LEMMA ActiveMainToRollback ==
    ASSUME DiskOK, FileStep, Head(todo) = Away("main")
    PROVE  /\ DiskOK' /\ ActiveMain' = None /\ RollbackMain' = (IF ActiveMain = None THEN RollbackMain ELSE ActiveMain)
           /\ UNCHANGED <<ActiveWal, ActiveShm, RollbackWal, RollbackShm, StagedMain, StagedWal, StagedShm>>
  <1>1. /\ {"active", "rollback", "staging"} \subseteq Places
        /\ {"main", "wal", "shm"} \subseteq DiskParts
        /\ Head(todo) = Mv("active", "rollback", "main")
    BY DEF Places, DiskParts, Back, Away
  <1> QED
    BY <1>1, MoveStep DEF ActiveMain, ActiveWal, ActiveShm, RollbackMain, RollbackWal, RollbackShm, StagedMain, StagedWal, StagedShm

LEMMA ActiveWalToRollback ==
    ASSUME DiskOK, FileStep, Head(todo) = Away("wal")
    PROVE  /\ DiskOK' /\ ActiveWal' = None /\ RollbackWal' = (IF ActiveWal = None THEN RollbackWal ELSE ActiveWal) /\ (ActiveWal = None \/ RollbackWal = None)
           /\ UNCHANGED <<ActiveMain, ActiveShm, RollbackMain, RollbackShm, StagedMain, StagedWal, StagedShm>>
  <1>1. /\ {"active", "rollback", "staging"} \subseteq Places
        /\ {"main", "wal", "shm"} \subseteq DiskParts
        /\ Head(todo) = Mv("active", "rollback", "wal")
    BY DEF Places, DiskParts, Back, Away
  <1> QED
    BY <1>1, MoveStep DEF ActiveMain, ActiveWal, ActiveShm, RollbackMain, RollbackWal, RollbackShm, StagedMain, StagedWal, StagedShm

LEMMA ActiveShmToRollback ==
    ASSUME DiskOK, FileStep, Head(todo) = Away("shm")
    PROVE  /\ DiskOK' /\ ActiveShm' = None /\ RollbackShm' = (IF ActiveShm = None THEN RollbackShm ELSE ActiveShm) /\ (ActiveShm = None \/ RollbackShm = None)
           /\ UNCHANGED <<ActiveMain, ActiveWal, RollbackMain, RollbackWal, StagedMain, StagedWal, StagedShm>>
  <1>1. /\ {"active", "rollback", "staging"} \subseteq Places
        /\ {"main", "wal", "shm"} \subseteq DiskParts
        /\ Head(todo) = Mv("active", "rollback", "shm")
    BY DEF Places, DiskParts, Back, Away
  <1> QED
    BY <1>1, MoveStep DEF ActiveMain, ActiveWal, ActiveShm, RollbackMain, RollbackWal, RollbackShm, StagedMain, StagedWal, StagedShm

LEMMA StagedMainToActive ==
    ASSUME DiskOK, FileStep, Head(todo) = Mv("staging", "active", "main")
    PROVE  /\ DiskOK' /\ StagedMain' = None /\ ActiveMain' = (IF StagedMain = None THEN ActiveMain ELSE StagedMain)
           /\ UNCHANGED <<ActiveWal, ActiveShm, RollbackMain, RollbackWal, RollbackShm, StagedWal, StagedShm>>
  <1>1. /\ {"active", "rollback", "staging"} \subseteq Places
        /\ {"main", "wal", "shm"} \subseteq DiskParts
        /\ Head(todo) = Mv("staging", "active", "main")
    BY DEF Places, DiskParts, Back, Away
  <1> QED
    BY <1>1, MoveStep DEF ActiveMain, ActiveWal, ActiveShm, RollbackMain, RollbackWal, RollbackShm, StagedMain, StagedWal, StagedShm

LEMMA NoneIsUnused == None \notin UsedOnes
  BY RestoreAssumption DEF UsedOnes, None

LEMMA SameUsed ==
    ASSUME RestoreTypes, DiskOK', UNCHANGED <<schema, dirty, torn, hadActive>>,
           {ActiveMain', ActiveWal', ActiveShm', RollbackMain', RollbackWal', RollbackShm', StagedMain'}
             \subseteq {ActiveMain, ActiveWal, ActiveShm, RollbackMain, RollbackWal, RollbackShm, StagedMain, None}
    PROVE  RestoreTypes'
  BY DEF RestoreTypes, UsedOnes

LEMMA RecoveringSteps == RestoreInv /\ Recovering /\ FileStep => RestoreInv'
  <1> SUFFICES ASSUME RestoreInv, Recovering, FileStep PROVE RestoreInv'
    OBVIOUS
  <1>1. todo # <<>> /\ todo' = Tail(todo) /\ DiskOK /\ UNCHANGED <<schema, dirty, torn, holder, phase, hadActive, former>>
    BY StepKeeps DEF FileStep, RestoreInv, RestoreTypes
  <1>2. CASE todo = <<Back("wal"), Back("shm")>> /\ ActiveMain # None /\ RollbackMain = None
    <2>1. Head(todo) = Back("wal") /\ todo' = <<Back("shm")>>
      BY <1>1, <1>2
    <2>2. RestoreTypes' /\ StagedOK'
      BY <1>1, <2>1, RollbackWalToActive, SameUsed DEF RestoreInv, StagedOK
    <2>3. DirtyOK'
      BY <1>1, <1>2, <2>1, RollbackWalToActive, NoneIsUnused DEF RestoreInv, DirtyOK, StagedOK, RestoreTypes, Recovering
    <2>4. OwnOK'
      BY <1>1, <1>2, <2>1, RollbackWalToActive DEF RestoreInv, OwnOK, Recovering
    <2>5. Recovering'
      BY <1>1, <1>2, <2>1, RollbackWalToActive DEF Recovering
    <2> QED
      BY <2>2, <2>3, <2>4, <2>5 DEF RestoreInv, PlanOK
  <1>3. CASE todo = <<Back("shm")>> /\ ActiveMain # None /\ RollbackMain = None
    <2>1. Head(todo) = Back("shm") /\ todo' = <<>>
      BY <1>1, <1>3
    <2>2. RestoreTypes' /\ StagedOK'
      BY <1>1, <2>1, RollbackShmToActive, SameUsed DEF RestoreInv, StagedOK
    <2>3. DirtyOK'
      BY <1>1, <1>3, <2>1, RollbackShmToActive, NoneIsUnused DEF RestoreInv, DirtyOK, StagedOK, RestoreTypes, Recovering
    <2>4. OwnOK'
      BY <1>1, <1>3, <2>1, RollbackShmToActive DEF RestoreInv, OwnOK, Recovering
    <2>5. Recovering'
      BY <1>1, <1>3, <2>1, RollbackShmToActive DEF Recovering
    <2> QED
      BY <2>2, <2>3, <2>4, <2>5 DEF RestoreInv, PlanOK
  <1>4. CASE todo = <<Back("wal"), Back("shm"), Back("main")>> /\ ActiveMain = None /\ RollbackMain # None
    <2>1. Head(todo) = Back("wal") /\ todo' = <<Back("shm"), Back("main")>>
      BY <1>1, <1>4
    <2>2. RestoreTypes' /\ StagedOK'
      BY <1>1, <2>1, RollbackWalToActive, SameUsed DEF RestoreInv, StagedOK
    <2>3. DirtyOK'
      BY <1>1, <1>4, <2>1, RollbackWalToActive, NoneIsUnused DEF RestoreInv, DirtyOK, StagedOK, RestoreTypes, Recovering
    <2>4. OwnOK'
      BY <1>1, <1>4, <2>1, RollbackWalToActive DEF RestoreInv, OwnOK, Recovering
    <2>5. Recovering'
      BY <1>1, <1>4, <2>1, RollbackWalToActive DEF Recovering
    <2> QED
      BY <2>2, <2>3, <2>4, <2>5 DEF RestoreInv, PlanOK
  <1>5. CASE todo = <<Back("shm"), Back("main")>> /\ ActiveMain = None /\ RollbackMain # None /\ RollbackWal = None
    <2>1. Head(todo) = Back("shm") /\ todo' = <<Back("main")>>
      BY <1>1, <1>5
    <2>2. RestoreTypes' /\ StagedOK'
      BY <1>1, <2>1, RollbackShmToActive, SameUsed DEF RestoreInv, StagedOK
    <2>3. DirtyOK'
      BY <1>1, <1>5, <2>1, RollbackShmToActive, NoneIsUnused DEF RestoreInv, DirtyOK, StagedOK, RestoreTypes, Recovering
    <2>4. OwnOK'
      BY <1>1, <1>5, <2>1, RollbackShmToActive DEF RestoreInv, OwnOK, Recovering
    <2>5. Recovering'
      BY <1>1, <1>5, <2>1, RollbackShmToActive DEF Recovering
    <2> QED
      BY <2>2, <2>3, <2>4, <2>5 DEF RestoreInv, PlanOK
  <1>6. CASE todo = <<Back("main")>> /\ ActiveMain = None /\ RollbackMain # None /\ RollbackWal = None
              /\ RollbackShm = None
    <2>1. Head(todo) = Back("main") /\ todo' = <<>>
      BY <1>1, <1>6
    <2>2. RestoreTypes' /\ StagedOK'
      BY <1>1, <2>1, RollbackMainToActive, SameUsed DEF RestoreInv, StagedOK
    <2>3. DirtyOK'
      BY <1>1, <1>6, <2>1, RollbackMainToActive, NoneIsUnused DEF RestoreInv, DirtyOK, StagedOK, RestoreTypes, Recovering
    <2>4. OwnOK'
      BY <1>1, <1>6, <2>1, RollbackMainToActive DEF RestoreInv, OwnOK, Recovering
    <2>5. Recovering'
      BY <1>1, <1>6, <2>1, RollbackMainToActive DEF Recovering
    <2> QED
      BY <2>2, <2>3, <2>4, <2>5 DEF RestoreInv, PlanOK
  <1> QED
    BY <1>1, <1>2, <1>3, <1>4, <1>5, <1>6 DEF Recovering

LEMMA ClearingSteps == RestoreInv /\ Clearing /\ FileStep => RestoreInv'
  <1> SUFFICES ASSUME RestoreInv, Clearing, FileStep PROVE RestoreInv'
    OBVIOUS
  <1>1. todo # <<>> /\ todo' = Tail(todo) /\ DiskOK /\ UNCHANGED <<schema, dirty, torn, holder, phase, hadActive, former>>
    BY StepKeeps DEF FileStep, RestoreInv, RestoreTypes
  <1>2. CASE todo = <<Rm("rollback", "main"), Rm("rollback", "wal"), Rm("rollback", "shm")>>
    <2>1. Head(todo) = Rm("rollback", "main") /\ todo' = <<Rm("rollback", "wal"), Rm("rollback", "shm")>>
      BY <1>1, <1>2
    <2>2. RestoreTypes' /\ StagedOK'
      BY <1>1, <2>1, RemoveRollbackMain, SameUsed DEF RestoreInv, StagedOK
    <2>3. DirtyOK'
      BY <1>1, <1>2, <2>1, RemoveRollbackMain, NoneIsUnused DEF RestoreInv, DirtyOK, StagedOK, RestoreTypes, Clearing, NoRollback
    <2>4. OwnOK'
      BY <1>1, <1>2, <2>1, RemoveRollbackMain DEF RestoreInv, OwnOK, Clearing, NoRollback
    <2>5. Clearing'
      BY <1>1, <1>2, <2>1, RemoveRollbackMain DEF Clearing, NoRollback
    <2> QED
      BY <2>2, <2>3, <2>4, <2>5 DEF RestoreInv, PlanOK
  <1>3. CASE todo = <<Rm("rollback", "wal"), Rm("rollback", "shm")>> /\ RollbackMain = None
    <2>1. Head(todo) = Rm("rollback", "wal") /\ todo' = <<Rm("rollback", "shm")>>
      BY <1>1, <1>3
    <2>2. RestoreTypes' /\ StagedOK'
      BY <1>1, <2>1, RemoveRollbackWal, SameUsed DEF RestoreInv, StagedOK
    <2>3. DirtyOK'
      BY <1>1, <1>3, <2>1, RemoveRollbackWal, NoneIsUnused DEF RestoreInv, DirtyOK, StagedOK, RestoreTypes, Clearing, NoRollback
    <2>4. OwnOK'
      BY <1>1, <1>3, <2>1, RemoveRollbackWal DEF RestoreInv, OwnOK, Clearing, NoRollback
    <2>5. Clearing'
      BY <1>1, <1>3, <2>1, RemoveRollbackWal DEF Clearing, NoRollback
    <2> QED
      BY <2>2, <2>3, <2>4, <2>5 DEF RestoreInv, PlanOK
  <1>4. CASE todo = <<Rm("rollback", "shm")>> /\ RollbackMain = None /\ RollbackWal = None
    <2>1. Head(todo) = Rm("rollback", "shm") /\ todo' = <<>>
      BY <1>1, <1>4
    <2>2. RestoreTypes' /\ StagedOK'
      BY <1>1, <2>1, RemoveRollbackShm, SameUsed DEF RestoreInv, StagedOK
    <2>3. DirtyOK'
      BY <1>1, <1>4, <2>1, RemoveRollbackShm, NoneIsUnused DEF RestoreInv, DirtyOK, StagedOK, RestoreTypes, Clearing, NoRollback
    <2>4. OwnOK'
      BY <1>1, <1>4, <2>1, RemoveRollbackShm DEF RestoreInv, OwnOK, Clearing, NoRollback
    <2>5. Clearing'
      BY <1>1, <1>4, <2>1, RemoveRollbackShm DEF Clearing, NoRollback
    <2> QED
      BY <2>2, <2>3, <2>4, <2>5 DEF RestoreInv, PlanOK
  <1> QED
    BY <1>1, <1>2, <1>3, <1>4 DEF Clearing

LEMMA MovingSteps == RestoreInv /\ Moving /\ FileStep => RestoreInv'
  <1> SUFFICES ASSUME RestoreInv, Moving, FileStep PROVE RestoreInv'
    OBVIOUS
  <1>1. todo # <<>> /\ todo' = Tail(todo) /\ DiskOK /\ UNCHANGED <<schema, dirty, torn, holder, phase, hadActive, former>>
    BY StepKeeps DEF FileStep, RestoreInv, RestoreTypes
  <1>2. CASE todo = <<Away("main"), Away("wal"), Away("shm")>> /\ ActiveMain = former /\ NoRollback
    <2>1. Head(todo) = Away("main") /\ todo' = <<Away("wal"), Away("shm")>>
      BY <1>1, <1>2
    <2>2. RestoreTypes' /\ StagedOK'
      BY <1>1, <2>1, ActiveMainToRollback, SameUsed DEF RestoreInv, StagedOK
    <2>3. DirtyOK'
      BY <1>1, <1>2, <2>1, ActiveMainToRollback, NoneIsUnused DEF RestoreInv, DirtyOK, StagedOK, RestoreTypes, Moving, NoRollback, NoActive
    <2>4. OwnOK'
      BY <1>1, <1>2, <2>1, ActiveMainToRollback DEF RestoreInv, OwnOK, Moving, NoRollback, NoActive
    <2>5. Moving'
      BY <1>1, <1>2, <2>1, ActiveMainToRollback DEF Moving, NoRollback, NoActive
    <2> QED
      BY <2>2, <2>3, <2>4, <2>5 DEF RestoreInv, PlanOK
  <1>3. CASE todo = <<Away("wal"), Away("shm")>> /\ ActiveMain = None /\ RollbackMain = former
              /\ RollbackWal = None /\ RollbackShm = None
    <2>1. Head(todo) = Away("wal") /\ todo' = <<Away("shm")>>
      BY <1>1, <1>3
    <2>2. RestoreTypes' /\ StagedOK'
      BY <1>1, <2>1, ActiveWalToRollback, SameUsed DEF RestoreInv, StagedOK
    <2>3. DirtyOK'
      BY <1>1, <1>3, <2>1, ActiveWalToRollback, NoneIsUnused DEF RestoreInv, DirtyOK, StagedOK, RestoreTypes, Moving, NoRollback, NoActive
    <2>4. OwnOK'
      BY <1>1, <1>3, <2>1, ActiveWalToRollback DEF RestoreInv, OwnOK, Moving, NoRollback, NoActive
    <2>5. Moving'
      BY <1>1, <1>3, <2>1, ActiveWalToRollback DEF Moving, NoRollback, NoActive
    <2> QED
      BY <2>2, <2>3, <2>4, <2>5 DEF RestoreInv, PlanOK
  <1>4. CASE todo = <<Away("shm")>> /\ ActiveMain = None /\ ActiveWal = None /\ RollbackMain = former
              /\ RollbackShm = None
    <2>1. Head(todo) = Away("shm") /\ todo' = <<>>
      BY <1>1, <1>4
    <2>2. RestoreTypes' /\ StagedOK'
      BY <1>1, <2>1, ActiveShmToRollback, SameUsed DEF RestoreInv, StagedOK
    <2>3. DirtyOK'
      BY <1>1, <1>4, <2>1, ActiveShmToRollback, NoneIsUnused DEF RestoreInv, DirtyOK, StagedOK, RestoreTypes, Moving, NoRollback, NoActive
    <2>4. OwnOK'
      BY <1>1, <1>4, <2>1, ActiveShmToRollback DEF RestoreInv, OwnOK, Moving, NoRollback, NoActive
    <2>5. Moving'
      BY <1>1, <1>4, <2>1, ActiveShmToRollback DEF Moving, NoRollback, NoActive
    <2> QED
      BY <2>2, <2>3, <2>4, <2>5 DEF RestoreInv, PlanOK
  <1> QED
    BY <1>1, <1>2, <1>3, <1>4 DEF Moving

LEMMA ReplacingSteps == RestoreInv /\ Replacing /\ FileStep => RestoreInv'
  <1> SUFFICES ASSUME RestoreInv, Replacing, FileStep PROVE RestoreInv'
    OBVIOUS
  <1>1. todo # <<>> /\ todo' = Tail(todo) /\ DiskOK /\ UNCHANGED <<schema, dirty, torn, holder, phase, hadActive, former>>
    BY StepKeeps DEF FileStep, RestoreInv, RestoreTypes
  <1>2. CASE todo = <<Mv("staging", "active", "main")>> /\ ActiveMain = None
    <2>1. Head(todo) = Mv("staging", "active", "main") /\ todo' = <<>>
      BY <1>1, <1>2
    <2>2. RestoreTypes' /\ StagedOK'
      BY <1>1, <2>1, StagedMainToActive, SameUsed DEF RestoreInv, StagedOK
    <2>3. DirtyOK'
      BY <1>1, <1>2, <2>1, StagedMainToActive, NoneIsUnused DEF RestoreInv, DirtyOK, StagedOK, RestoreTypes, Replacing, SetAside, NoRollback
    <2>4. OwnOK'
      BY <1>1, <1>2, <2>1, StagedMainToActive DEF RestoreInv, OwnOK, Replacing, SetAside, NoRollback
    <2>5. Replacing'
      BY <1>1, <1>2, <2>1, StagedMainToActive DEF Replacing, SetAside, NoRollback
    <2> QED
      BY <2>2, <2>3, <2>4, <2>5 DEF RestoreInv, PlanOK
  <1> QED
    BY <1>1, <1>2 DEF Replacing

LEMMA UndoingSteps == RestoreInv /\ Undoing /\ FileStep => RestoreInv'
  <1> SUFFICES ASSUME RestoreInv, Undoing, FileStep PROVE RestoreInv'
    OBVIOUS
  <1>1. todo # <<>> /\ todo' = Tail(todo) /\ DiskOK /\ UNCHANGED <<schema, dirty, torn, holder, phase, hadActive, former>>
    BY StepKeeps DEF FileStep, RestoreInv, RestoreTypes
  <1>2. CASE todo = <<Rm("active", "main"), Rm("active", "wal"), Rm("active", "shm")>>
    <2>1. Head(todo) = Rm("active", "main") /\ todo' = <<Rm("active", "wal"), Rm("active", "shm")>>
      BY <1>1, <1>2
    <2>2. RestoreTypes' /\ StagedOK'
      BY <1>1, <2>1, RemoveActiveMain, SameUsed DEF RestoreInv, StagedOK
    <2>3. DirtyOK'
      BY <1>1, <1>2, <2>1, RemoveActiveMain, NoneIsUnused DEF RestoreInv, DirtyOK, StagedOK, RestoreTypes, Undoing, SetAside, NoRollback
    <2>4. OwnOK'
      BY <1>1, <1>2, <2>1, RemoveActiveMain DEF RestoreInv, OwnOK, Undoing, SetAside, NoRollback
    <2>5. Undoing'
      BY <1>1, <1>2, <2>1, RemoveActiveMain DEF Undoing, SetAside, NoRollback
    <2> QED
      BY <2>2, <2>3, <2>4, <2>5 DEF RestoreInv, PlanOK
  <1>3. CASE todo = <<Rm("active", "wal"), Rm("active", "shm")>> /\ ActiveMain = None
    <2>1. Head(todo) = Rm("active", "wal") /\ todo' = <<Rm("active", "shm")>>
      BY <1>1, <1>3
    <2>2. RestoreTypes' /\ StagedOK'
      BY <1>1, <2>1, RemoveActiveWal, SameUsed DEF RestoreInv, StagedOK
    <2>3. DirtyOK'
      BY <1>1, <1>3, <2>1, RemoveActiveWal, NoneIsUnused DEF RestoreInv, DirtyOK, StagedOK, RestoreTypes, Undoing, SetAside, NoRollback
    <2>4. OwnOK'
      BY <1>1, <1>3, <2>1, RemoveActiveWal DEF RestoreInv, OwnOK, Undoing, SetAside, NoRollback
    <2>5. Undoing'
      BY <1>1, <1>3, <2>1, RemoveActiveWal DEF Undoing, SetAside, NoRollback
    <2> QED
      BY <2>2, <2>3, <2>4, <2>5 DEF RestoreInv, PlanOK
  <1>4. CASE todo = <<Rm("active", "shm")>> /\ ActiveMain = None
    <2>1. Head(todo) = Rm("active", "shm") /\ todo' = <<>>
      BY <1>1, <1>4
    <2>2. RestoreTypes' /\ StagedOK'
      BY <1>1, <2>1, RemoveActiveShm, SameUsed DEF RestoreInv, StagedOK
    <2>3. DirtyOK'
      BY <1>1, <1>4, <2>1, RemoveActiveShm, NoneIsUnused DEF RestoreInv, DirtyOK, StagedOK, RestoreTypes, Undoing, SetAside, NoRollback
    <2>4. OwnOK'
      BY <1>1, <1>4, <2>1, RemoveActiveShm DEF RestoreInv, OwnOK, Undoing, SetAside, NoRollback
    <2>5. Undoing'
      BY <1>1, <1>4, <2>1, RemoveActiveShm DEF Undoing, SetAside, NoRollback
    <2> QED
      BY <2>2, <2>3, <2>4, <2>5 DEF RestoreInv, PlanOK
  <1> QED
    BY <1>1, <1>2, <1>3, <1>4 DEF Undoing

LEMMA FileStepOK == RestoreInv /\ FileStep => RestoreInv'
  <1>1. FileStep => ~AtRest
    BY DEF FileStep, AtRest
  <1> QED
    BY <1>1, RecoveringSteps, ClearingSteps, MovingSteps, ReplacingSteps, UndoingSteps DEF RestoreInv, PlanOK

LEMMA SameDisk ==
    ASSUME UNCHANGED disk
    PROVE  UNCHANGED <<ActiveMain, ActiveWal, ActiveShm, RollbackMain, RollbackWal, RollbackShm, StagedMain, StagedWal, StagedShm>> /\ (DiskOK => DiskOK')
  BY DEF DiskOK, ActiveMain, ActiveWal, ActiveShm, RollbackMain, RollbackWal, RollbackShm, StagedMain, StagedWal, StagedShm

LEMMA PlanOfRecovery ==
    /\ ActiveMain # None /\ RollbackMain = None => RecoveryPlan = <<Back("wal"), Back("shm")>>
    /\ ActiveMain = None /\ RollbackMain # None => RecoveryPlan = <<Back("wal"), Back("shm"), Back("main")>>
    /\ ((ActiveMain # None) <=> (RollbackMain # None)) => RecoveryPlan = <<>>
  <1> DEFINE sidecars == <<Back("wal"), Back("shm")>>
  <1>1. Append(sidecars, Back("main")) = <<Back("wal"), Back("shm"), Back("main")>>
    <2>1. ASSUME NEW a, NEW b, NEW c PROVE Append(<<a, b>>, c) = <<a, b, c>>
      <3>1. <<a, b>> \in Seq({a, b, c}) /\ <<a, b, c>> \in Seq({a, b, c})
        OBVIOUS
      <3>2. /\ Append(<<a, b>>, c) \in Seq({a, b, c}) /\ Len(Append(<<a, b>>, c)) = 3
            /\ Append(<<a, b>>, c)[1] = a /\ Append(<<a, b>>, c)[2] = b /\ Append(<<a, b>>, c)[3] = c
        BY <3>1, AppendProperties
      <3>3. \A i \in 1..3 : Append(<<a, b>>, c)[i] = <<a, b, c>>[i]
        BY <3>2
      <3> QED
        BY <3>1, <3>2, <3>3, SeqEqual
    <2> QED
      BY <2>1
  <1>2. RecoveryPlan = IF ActiveMain # None
                       THEN IF RollbackMain # None THEN <<>> ELSE sidecars
                       ELSE IF RollbackMain # None THEN Append(sidecars, Back("main")) ELSE <<>>
    BY DEF RecoveryPlan, Exists, ActiveMain, RollbackMain, Back
  <1> QED
    BY <1>1, <1>2

LEMMA OrphansAre ==
    Orphaned <=> ActiveMain = None /\ RollbackMain = None /\ ~(NoActive /\ NoRollback)
  BY DEF Orphaned, Exists, Sidecars, Suffixes, NoActive, NoRollback, ActiveMain, ActiveWal, ActiveShm, RollbackMain, RollbackWal, RollbackShm, StagedMain, StagedWal, StagedShm

LEMMA TornIs ==
    /\ RollbackMain = None /\ RollbackWal # None /\ RollbackWal \notin {ActiveMain, StagedMain} => Torn(disk)
    /\ RollbackMain = None /\ RollbackShm # None /\ RollbackShm \notin {ActiveMain, StagedMain} => Torn(disk)
  <1>1. /\ Places = {"active", "rollback", "staging"} /\ "wal" \in Suffixes /\ "shm" \in Suffixes
    BY DEF Places, Suffixes
  <1> QED
    BY <1>1 DEF Torn, ActiveMain, ActiveWal, ActiveShm, RollbackMain, RollbackWal, RollbackShm, StagedMain, StagedWal, StagedShm

LEMMA RestoreStarts == RestoreInit => RestoreInv
  <1> SUFFICES ASSUME RestoreInit PROVE RestoreInv
    OBVIOUS
  <1>1. ActiveMain = 1
    BY DEF RestoreInit, ActiveMain, Places, Alone
  <1>2. /\ ActiveWal = None /\ ActiveShm = None /\ NoRollback
        /\ StagedMain = None /\ StagedWal = None /\ StagedShm = None
    BY DEF RestoreInit, NoRollback, Places, Alone, Nothing, ActiveMain, ActiveWal, ActiveShm, RollbackMain, RollbackWal, RollbackShm, StagedMain, StagedWal, StagedShm
  <1>3. DiskOK
    BY RestoreAssumption DEF RestoreInit, DiskOK, Alone, Nothing, Places, None
  <1>4. 1 \in UsedOnes /\ schema \in [Generations -> Nat]
    BY RestoreAssumption DEF UsedOnes, RestoreInit
  <1>5. dirty = {} /\ torn = FALSE /\ hadActive = FALSE /\ phase = "idle" /\ todo = <<>> /\ former = None
        /\ holder = "nobody"
    BY DEF RestoreInit
  <1>6. RestoreTypes
    BY <1>1, <1>2, <1>3, <1>4, <1>5 DEF RestoreTypes, NoRollback
  <1>7. StagedOK /\ DirtyOK /\ OwnOK /\ AtRest
    BY <1>1, <1>2, <1>5 DEF StagedOK, DirtyOK, OwnOK, AtRest, NoRollback, None
  <1> QED
    BY <1>6, <1>7 DEF RestoreInv, PlanOK

\* Nothing moves, and the plan is another.
LEMMA PlanChanges ==
    ASSUME RestoreInv, UNCHANGED <<disk, schema, dirty>>, hadActive' \in BOOLEAN, torn' \in BOOLEAN,
           torn => torn', ~torn' /\ phase = "clear" /\ phase' # "clear" /\ RollbackMain = None =>
              RollbackWal \in {None, ActiveMain} /\ RollbackShm \in {None, ActiveMain}, PlanOK'
    PROVE  RestoreInv'
  <1>1. UNCHANGED <<ActiveMain, ActiveWal, ActiveShm, RollbackMain, RollbackWal, RollbackShm, StagedMain, StagedWal, StagedShm>> /\ DiskOK'
    BY SameDisk DEF RestoreInv, RestoreTypes
  <1>2. RestoreTypes'
    BY <1>1 DEF RestoreInv, RestoreTypes, UsedOnes
  <1>3. StagedOK' /\ DirtyOK'
    BY <1>1 DEF RestoreInv, StagedOK, DirtyOK
  <1>4. OwnOK'
    BY <1>1, Zenon DEF RestoreInv, OwnOK, RestoreTypes
  <1> QED
    BY <1>2, <1>3, <1>4 DEF RestoreInv

LEMMA StageOK == RestoreInv /\ Stage => RestoreInv'
  <1> SUFFICES ASSUME RestoreInv, Stage PROVE RestoreInv'
    OBVIOUS
  <1>1. UNCHANGED <<dirty, holder, phase, todo, failing, hadActive, outcome, former, torn>>
        /\ holder # "activation"
    BY DEF Stage, activation
  <1>2. AtRest
    BY <1>1 DEF RestoreInv, PlanOK, AtRest, Recovering, Clearing, Moving, Replacing, Undoing, SetAside
  <1>3. ASSUME NEW new \in Generations \cup {None}, new = None \/ new \notin UsedOnes,
               UsedOnes \subseteq UsedOnes', new = None \/ new \in UsedOnes', schema' \in [Generations -> Nat],
               disk' = [disk EXCEPT !["staging"] = Alone(new)]
        PROVE  RestoreInv'
    <2>1. /\ UNCHANGED <<ActiveMain, ActiveWal, ActiveShm, RollbackMain, RollbackWal, RollbackShm>>
          /\ StagedMain' = new /\ StagedWal' = None /\ StagedShm' = None
      BY <1>3 DEF RestoreInv, RestoreTypes, DiskOK, Places, Alone, ActiveMain, ActiveWal, ActiveShm, RollbackMain, RollbackWal, RollbackShm, StagedMain, StagedWal, StagedShm
    <2>2. DiskOK'
      BY <1>3 DEF RestoreInv, RestoreTypes, DiskOK, Alone
    <2>3. RestoreTypes'
      BY <1>1, <1>3, <2>1, <2>2 DEF RestoreInv, RestoreTypes
    <2>4. StagedOK'
      BY <1>1, <1>3, <2>1 DEF RestoreInv, StagedOK, RestoreTypes
    <2>5. DirtyOK' /\ OwnOK'
      BY <1>1, <2>1 DEF RestoreInv, DirtyOK, OwnOK
    <2>6. AtRest'
      BY <1>1, <1>2, <2>1 DEF AtRest
    <2> QED
      BY <2>3, <2>4, <2>5, <2>6 DEF RestoreInv, PlanOK
  <1>4. ASSUME NEW g \in Generations, NEW version \in 1..Latest, Fresh(g), schema' = [schema EXCEPT ![g] = version],
               disk' = [disk EXCEPT !["staging"] = Alone(g)]
        PROVE  RestoreInv'
    <2>1. g \notin UsedOnes
      BY <1>4, RestoreAssumption DEF Fresh, UsedOnes
    <2>2. schema' \in [Generations -> Nat] /\ UsedOnes \subseteq UsedOnes' /\ g \in UsedOnes'
      BY <1>4, RestoreAssumption DEF RestoreInv, RestoreTypes, UsedOnes
    <2> QED
      BY <1>3, <1>4, <2>1, <2>2
  <1>5. ASSUME disk' = [disk EXCEPT !["staging"] = Nothing], UNCHANGED schema
        PROVE  RestoreInv'
    <2>1. UsedOnes' = UsedOnes /\ schema' \in [Generations -> Nat] /\ disk' = [disk EXCEPT !["staging"] = Alone(None)]
      BY <1>5 DEF UsedOnes, RestoreInv, RestoreTypes, Nothing
    <2> QED
      BY <1>3, <2>1
  <1> QED
    BY <1>4, <1>5 DEF Stage

LEMMA ActivateOK == RestoreInv /\ Activate => RestoreInv'
  <1> SUFFICES ASSUME RestoreInv, Activate PROVE RestoreInv'
    OBVIOUS
  <1>1. UNCHANGED <<disk, schema, dirty, hadActive, torn>> /\ holder = "nobody"
        /\ former' = IF ActiveMain # None THEN ActiveMain ELSE RollbackMain
    BY DEF Activate, Exists, ActiveMain, RollbackMain
  <1>2. AtRest /\ torn \in BOOLEAN /\ hadActive \in BOOLEAN
    BY <1>1 DEF RestoreInv, RestoreTypes, PlanOK, AtRest, Recovering, Clearing, Moving, Replacing, Undoing, SetAside
  <1>3. UNCHANGED <<ActiveMain, ActiveWal, ActiveShm, RollbackMain, RollbackWal, RollbackShm, StagedMain, StagedWal, StagedShm>>
    BY <1>1, SameDisk
  <1>4. CASE Orphaned
    <2>1. UNCHANGED <<holder, phase, todo>>
      BY <1>4 DEF Activate
    <2>2. AtRest'
      BY <1>1, <1>2, <1>3, <2>1 DEF AtRest
    <2> QED
      BY <1>1, <1>2, <2>1, <2>2, PlanChanges DEF PlanOK, AtRest
  <1>5. CASE ~Orphaned
    <2>1. holder' = "activation" /\ phase' = "recover" /\ todo' = RecoveryPlan
      BY <1>5 DEF Activate, Does
    <2>2. Recovering'
      BY <1>1, <1>3, <1>5, <2>1, OrphansAre, PlanOfRecovery DEF Recovering, NoActive, NoRollback
    <2> QED
      BY <1>1, <1>2, <2>1, <2>2, PlanChanges DEF PlanOK, AtRest
  <1> QED
    BY <1>4, <1>5

LEMMA EndsOK ==
    ASSUME RestoreInv, NEW how, Ends(how), UNCHANGED <<disk, schema, dirty, hadActive, former>>,
           torn' \in BOOLEAN, torn => torn',
           ~torn' /\ phase = "clear" /\ RollbackMain = None =>
              RollbackWal \in {None, ActiveMain} /\ RollbackShm \in {None, ActiveMain}
    PROVE  RestoreInv'
  <1>1. phase' = "idle" /\ todo' = <<>> /\ holder' = "nobody" /\ hadActive \in BOOLEAN
    BY DEF Ends, Does, RestoreInv, RestoreTypes
  <1>2. UNCHANGED <<ActiveMain, ActiveWal, ActiveShm, RollbackMain, RollbackWal, RollbackShm, StagedMain, StagedWal, StagedShm>>
    BY SameDisk
  <1>3. former # None => former \in {ActiveMain, RollbackMain}
    BY DEF RestoreInv, PlanOK, AtRest, Recovering, Clearing, Moving, Replacing, Undoing, SetAside
  <1>4. AtRest'
    BY <1>1, <1>2, <1>3 DEF AtRest
  <1> QED
    BY <1>1, <1>4, PlanChanges DEF PlanOK

LEMMA PhaseDoneOK == RestoreInv /\ PhaseDone => RestoreInv'
  <1> SUFFICES ASSUME RestoreInv, PhaseDone PROVE RestoreInv'
    OBVIOUS
  <1>1. UNCHANGED <<disk, schema, dirty, former, torn>> /\ holder = "activation" /\ todo = <<>> /\ torn \in BOOLEAN
        /\ hadActive \in BOOLEAN
    BY DEF PhaseDone, RestoreInv, RestoreTypes
  <1>2. UNCHANGED <<ActiveMain, ActiveWal, ActiveShm, RollbackMain, RollbackWal, RollbackShm, StagedMain, StagedWal, StagedShm>>
    BY <1>1, SameDisk
  <1>3. CASE phase = "clear"
    <2>1. Clearing /\ NoRollback
      BY <1>1, <1>3 DEF RestoreInv, PlanOK, AtRest, Recovering, Clearing, Moving, Replacing, Undoing, Rm
    <2>2. phase' = "move" /\ todo' = <<Away("main"), Away("wal"), Away("shm")>> /\ UNCHANGED <<holder, hadActive>>
      BY <1>3 DEF PhaseDone, Does, Move, Away
    <2>3. Moving'
      BY <1>1, <1>2, <2>1, <2>2 DEF Moving, Clearing, NoRollback
    <2> QED
      BY <1>1, <2>1, <2>2, <2>3, PlanChanges DEF PlanOK, NoRollback
  <1>4. CASE phase = "move"
    <2>1. Moving /\ NoActive /\ RollbackMain = former
      BY <1>1, <1>4 DEF RestoreInv, PlanOK, AtRest, Recovering, Clearing, Moving, Replacing, Undoing
    <2>2. phase' = "replace" /\ todo' = <<Mv("staging", "active", "main")>> /\ UNCHANGED <<holder, hadActive>>
      BY <1>4 DEF PhaseDone, Does
    <2>3. Replacing'
      BY <1>1, <1>2, <2>1, <2>2 DEF Replacing, SetAside, Moving, NoActive
    <2> QED
      BY <1>1, <1>4, <2>2, <2>3, PlanChanges DEF PlanOK
  <1>5. CASE phase = "replace"
    <2>1. Ends("activated") /\ UNCHANGED hadActive
      BY <1>5 DEF PhaseDone
    <2> QED
      BY <1>1, <1>5, <2>1, EndsOK
  <1>6. CASE phase = "recover" /\ failing
    <2>1. Ends("refused") /\ UNCHANGED hadActive
      BY <1>6 DEF PhaseDone
    <2> QED
      BY <1>1, <1>6, <2>1, EndsOK
  <1>7. CASE phase = "recover" /\ ~failing
    <2>1. Recovering /\ (ActiveMain # None \/ (NoActive /\ NoRollback))
      BY <1>1, <1>7 DEF RestoreInv, PlanOK, AtRest, Recovering, Clearing, Moving, Replacing, Undoing
    <2>2. hadActive' = (ActiveMain # None) /\ UNCHANGED holder
      BY <1>7 DEF PhaseDone, Exists, ActiveMain
    <2>3. CASE ActiveMain # None
      <3>1. phase' = "clear" /\ todo' = <<Rm("rollback", "main"), Rm("rollback", "wal"), Rm("rollback", "shm")>>
        BY <1>7, <2>3 DEF PhaseDone, Exists, ActiveMain, Does, Removal
      <3>2. Clearing'
        BY <1>1, <1>2, <2>1, <2>2, <2>3, <3>1 DEF Clearing, Recovering
      <3> QED
        BY <1>1, <1>7, <2>2, <3>1, <3>2, PlanChanges DEF PlanOK
    <2>4. CASE ActiveMain = None
      <3>1. phase' = "replace" /\ todo' = <<Mv("staging", "active", "main")>>
        BY <1>7, <2>4 DEF PhaseDone, Exists, ActiveMain, Does
      <3>2. Replacing'
        BY <1>1, <1>2, <2>1, <2>2, <2>4, <3>1 DEF Replacing, SetAside, Recovering, NoActive, NoRollback
      <3> QED
        BY <1>1, <1>7, <2>2, <3>1, <3>2, PlanChanges DEF PlanOK
    <2> QED
      BY <2>3, <2>4
  <1>8. CASE phase = "undo"
    <2>1. Undoing /\ ActiveMain = None
      BY <1>1, <1>8 DEF RestoreInv, PlanOK, AtRest, Recovering, Clearing, Moving, Replacing, Undoing, Rm
    <2>2. CASE hadActive /\ ~Orphaned
      <3>1. phase' = "recover" /\ todo' = RecoveryPlan /\ UNCHANGED <<holder, hadActive>>
        BY <1>8, <2>2 DEF PhaseDone, Does
      <3>2. Recovering'
        BY <1>1, <1>2, <2>1, <2>2, <3>1, PlanOfRecovery DEF Recovering, Undoing, SetAside
      <3> QED
        BY <1>1, <1>8, <3>1, <3>2, PlanChanges DEF PlanOK
    <2>3. CASE ~(hadActive /\ ~Orphaned)
      <3>1. Ends("refused") /\ UNCHANGED hadActive
        BY <1>8, <2>3 DEF PhaseDone
      <3> QED
        BY <1>1, <1>8, <3>1, EndsOK
    <2> QED
      BY <2>2, <2>3
  <1>9. phase \in {"recover", "clear", "move", "replace", "undo"}
    BY <1>1 DEF RestoreInv, PlanOK, AtRest, Recovering, Clearing, Moving, Replacing, Undoing
  <1> QED
    BY <1>3, <1>4, <1>5, <1>6, <1>7, <1>8, <1>9

\* What a removal that was cut short leaves: only a torn generation is not
\* of the database that is active.
LEMMA CutShort ==
    ASSUME RestoreInv, ~Torn(disk), RollbackMain = None
    PROVE  RollbackWal \in {None, ActiveMain} /\ RollbackShm \in {None, ActiveMain}
  BY TornIs DEF RestoreInv, StagedOK

LEMMA FailsOK == RestoreInv /\ Fails => RestoreInv'
  <1> SUFFICES ASSUME RestoreInv, Fails PROVE RestoreInv'
    OBVIOUS
  <1>1. UNCHANGED <<disk, schema, dirty, former, hadActive>> /\ holder = "activation" /\ hadActive \in BOOLEAN
        /\ torn' = (torn \/ (phase \in {"clear", "undo"} /\ Torn(disk))) /\ torn \in BOOLEAN
    BY DEF Fails, RestoreInv, RestoreTypes
  <1>2. UNCHANGED <<ActiveMain, ActiveWal, ActiveShm, RollbackMain, RollbackWal, RollbackShm, StagedMain, StagedWal, StagedShm>>
    BY <1>1, SameDisk
  <1>3. torn' \in BOOLEAN /\ (torn => torn') /\ (~torn' /\ phase = "clear" => ~Torn(disk))
    <2>1. Torn(disk) \in BOOLEAN
      BY DEF Torn
    <2> QED
      BY <1>1, <2>1
  <1>4. ~torn' /\ phase = "clear" /\ RollbackMain = None =>
              RollbackWal \in {None, ActiveMain} /\ RollbackShm \in {None, ActiveMain}
    BY <1>3, CutShort
  <1>5. CASE \E how : Ends(how)
    BY <1>1, <1>3, <1>4, <1>5, EndsOK
  <1>6. CASE phase = "move" /\ ~Orphaned
    <2>1. phase' = "recover" /\ todo' = RecoveryPlan /\ UNCHANGED holder
      BY <1>6 DEF Fails, Does
    <2>2. Moving
      BY <1>6 DEF RestoreInv, PlanOK, AtRest, Recovering, Clearing, Moving, Replacing, Undoing
    <2>3. Recovering'
      BY <1>1, <1>2, <2>1, <2>2, PlanOfRecovery DEF Recovering, Moving, NoRollback, NoActive
    <2> QED
      BY <1>1, <1>3, <1>6, <2>1, <2>3, PlanChanges DEF PlanOK
  <1>7. CASE phase = "replace"
    <2>1. phase' = "undo" /\ UNCHANGED holder
          /\ todo' = <<Rm("active", "main"), Rm("active", "wal"), Rm("active", "shm")>>
      BY <1>7 DEF Fails, Does, Removal
    <2>2. SetAside
      BY <1>7 DEF RestoreInv, PlanOK, AtRest, Recovering, Clearing, Moving, Replacing, Undoing
    <2>3. Undoing'
      BY <1>1, <1>2, <2>1, <2>2 DEF Undoing, SetAside, NoRollback
    <2> QED
      BY <1>1, <1>3, <1>7, <2>1, <2>3, PlanChanges DEF PlanOK
  <1>8. phase \in {"recover", "clear", "move", "replace", "undo"}
    BY <1>1 DEF RestoreInv, PlanOK, AtRest, Recovering, Clearing, Moving, Replacing, Undoing
  <1>9. phase \notin {"replace"} /\ ~(phase = "move" /\ ~Orphaned) => Ends("refused")
    BY <1>8 DEF Fails
  <1> QED
    BY <1>5, <1>6, <1>7, <1>9

LEMMA DiesOK == RestoreInv /\ Dies => RestoreInv'
  <1> SUFFICES ASSUME RestoreInv, Dies PROVE RestoreInv'
    OBVIOUS
  <1>1. /\ UNCHANGED <<disk, schema, hadActive, outcome, former>> /\ hadActive \in BOOLEAN
        /\ phase' = "idle" /\ todo' = <<>> /\ holder' = "nobody" /\ torn \in BOOLEAN
        /\ torn' = (torn \/ (holder = "activation" /\ Torn(disk)))
    BY DEF Dies, Does, RestoreInv, RestoreTypes
  <1>2. UNCHANGED <<ActiveMain, ActiveWal, ActiveShm, RollbackMain, RollbackWal, RollbackShm, StagedMain, StagedWal, StagedShm>> /\ DiskOK'
    BY <1>1, SameDisk DEF RestoreInv, RestoreTypes
  <1>3. torn' \in BOOLEAN /\ (torn => torn') /\ (~torn' /\ phase = "clear" => ~Torn(disk))
    <2>1. Torn(disk) \in BOOLEAN
      BY DEF Torn
    <2>2. phase = "clear" => holder = "activation"
      BY DEF RestoreInv, PlanOK, AtRest, Recovering, Clearing, Moving, Replacing, Undoing
    <2> QED
      BY <1>1, <2>1, <2>2
  <1>4. ~torn' /\ phase = "clear" /\ RollbackMain = None =>
              RollbackWal \in {None, ActiveMain} /\ RollbackShm \in {None, ActiveMain}
    BY <1>3, CutShort
  <1>5. former # None => former \in {ActiveMain, RollbackMain}
    BY DEF RestoreInv, PlanOK, AtRest, Recovering, Clearing, Moving, Replacing, Undoing, SetAside
  <1>6. AtRest'
    BY <1>1, <1>2, <1>5 DEF AtRest
  <1>7. OwnOK'
    BY <1>1, <1>2, <1>3, <1>4, Zenon DEF RestoreInv, OwnOK
  <1>8. CASE dirty' = dirty
    BY <1>1, <1>2, <1>3, <1>6, <1>7, <1>8 DEF RestoreInv, RestoreTypes, UsedOnes, StagedOK, DirtyOK, PlanOK
  <1>9. CASE holder = "service" /\ ActiveWal = ActiveMain /\ dirty' = dirty \cup {ActiveMain}
    <2>1. ActiveMain # None
      BY <1>9 DEF RestoreInv, PlanOK, AtRest, Recovering, Clearing, Moving, Replacing, Undoing, SetAside
    <2>2. UsedOnes' = UsedOnes
      BY <1>1 DEF UsedOnes
    <2>3. RestoreTypes' /\ StagedOK'
      BY <1>1, <1>2, <1>3, <1>9, <2>1, <2>2 DEF RestoreInv, RestoreTypes, StagedOK
    <2>4. DirtyOK'
      BY <1>2, <1>9, <2>1 DEF RestoreInv, DirtyOK
    <2> QED
      BY <1>6, <1>7, <2>3, <2>4 DEF RestoreInv, PlanOK
  <1> QED
    BY <1>8, <1>9 DEF Dies, ActiveWal, ActiveMain

LEMMA InService ==
    ASSUME RestoreInv, holder = "service"
    PROVE  AtRest /\ ActiveMain # None
  BY DEF RestoreInv, PlanOK, AtRest, Recovering, Clearing, Moving, Replacing, Undoing, SetAside

LEMMA ServiceStartsOK == RestoreInv /\ ServiceStarts => RestoreInv'
  <1> SUFFICES ASSUME RestoreInv, ServiceStarts PROVE RestoreInv'
    OBVIOUS
  <1>1. /\ UNCHANGED <<schema, dirty, phase, todo, failing, hadActive, outcome, former, torn>>
        /\ holder = "nobody" /\ holder' = "service" /\ ActiveMain # None
    BY DEF ServiceStarts, activation, Exists, ActiveMain
  <1>2. AtRest
    BY <1>1 DEF RestoreInv, PlanOK, AtRest, Recovering, Clearing, Moving, Replacing, Undoing, SetAside
  <1>3. PICK files \in [main : Generations \cup {None}, wal : Generations \cup {None}, shm : Generations \cup {None}] :
          files = disk["active"]
    BY DEF RestoreInv, RestoreTypes, DiskOK, Places
  <1>4. disk' = [disk EXCEPT !["active"] = [f \in DOMAIN files |-> IF files[f] = None THEN files.main ELSE files[f]]]
    BY <1>3 DEF ServiceStarts
  <1>5. [f \in DOMAIN files |-> IF files[f] = None THEN files.main ELSE files[f]]
          = [main |-> files.main, wal |-> IF files.wal = None THEN files.main ELSE files.wal,
             shm |-> IF files.shm = None THEN files.main ELSE files.shm]
    OBVIOUS
  <1>6. /\ DiskOK'
        /\ UNCHANGED <<ActiveMain, RollbackMain, RollbackWal, RollbackShm, StagedMain, StagedWal, StagedShm>>
        /\ ActiveWal' = (IF ActiveWal = None THEN ActiveMain ELSE ActiveWal)
        /\ ActiveShm' = (IF ActiveShm = None THEN ActiveMain ELSE ActiveShm)
    BY <1>3, <1>4, <1>5 DEF RestoreInv, RestoreTypes, DiskOK, Places, ActiveMain, ActiveWal, ActiveShm, RollbackMain, RollbackWal, RollbackShm, StagedMain, StagedWal, StagedShm
  <1>7. RestoreTypes' /\ StagedOK'
    BY <1>1, <1>6 DEF RestoreInv, RestoreTypes, UsedOnes, StagedOK
  <1>8. DirtyOK' /\ OwnOK' /\ AtRest'
    BY <1>1, <1>2, <1>6 DEF RestoreInv, DirtyOK, OwnOK, AtRest
  <1> QED
    BY <1>7, <1>8 DEF RestoreInv, PlanOK

LEMMA MigratesOK == RestoreInv /\ Migrates => RestoreInv'
  <1> SUFFICES ASSUME RestoreInv, Migrates PROVE RestoreInv'
    OBVIOUS
  <1>1. UNCHANGED <<disk, dirty, holder, phase, todo, failing, hadActive, outcome, former, torn>> /\ holder = "service"
    BY DEF Migrates, activation
  <1>2. UNCHANGED <<ActiveMain, ActiveWal, ActiveShm, RollbackMain, RollbackWal, RollbackShm, StagedMain, StagedWal, StagedShm>> /\ DiskOK'
    BY <1>1, SameDisk DEF RestoreInv, RestoreTypes
  <1>3. UsedOnes \subseteq UsedOnes' /\ schema' \in [Generations -> Nat]
    <2>1. ActiveMain \in Generations
      BY <1>1, InService DEF RestoreInv, RestoreTypes, UsedOnes
    <2>2. schema' = [schema EXCEPT ![ActiveMain] = schema[ActiveMain] + 1] /\ schema \in [Generations -> Nat]
      BY DEF Migrates, ActiveMain, RestoreInv, RestoreTypes
    <2>3. schema' \in [Generations -> Nat] /\ \A g \in Generations : schema[g] # 0 => schema'[g] # 0
      BY <2>1, <2>2
    <2> QED
      BY <2>3 DEF UsedOnes
  <1>4. RestoreTypes' /\ StagedOK'
    BY <1>1, <1>2, <1>3 DEF RestoreInv, RestoreTypes, StagedOK
  <1>5. DirtyOK' /\ OwnOK' /\ AtRest'
    BY <1>1, <1>2, InService DEF RestoreInv, DirtyOK, OwnOK, AtRest
  <1> QED
    BY <1>4, <1>5 DEF RestoreInv, PlanOK

LEMMA ServiceStopsOK == RestoreInv /\ ServiceStops => RestoreInv'
  <1> SUFFICES ASSUME RestoreInv, ServiceStops PROVE RestoreInv'
    OBVIOUS
  <1>1. /\ UNCHANGED <<schema, phase, todo, failing, hadActive, outcome, former, torn>>
        /\ holder = "service" /\ holder' = "nobody" /\ dirty' = dirty \ {ActiveMain}
    BY DEF ServiceStops, activation, ActiveMain
  <1>2. AtRest /\ ActiveMain # None
    BY <1>1, InService
  <1>3. /\ DiskOK'
        /\ UNCHANGED <<ActiveMain, RollbackMain, RollbackWal, RollbackShm, StagedMain, StagedWal, StagedShm>>
        /\ ActiveWal' = None /\ ActiveShm' = None
    BY DEF ServiceStops, Alone, RestoreInv, RestoreTypes, DiskOK, Places, ActiveMain, ActiveWal, ActiveShm, RollbackMain, RollbackWal, RollbackShm, StagedMain, StagedWal, StagedShm
  <1>4. RestoreTypes' /\ StagedOK'
    BY <1>1, <1>3, ZenonT(30) DEF RestoreInv, RestoreTypes, UsedOnes, StagedOK
  <1>5. DirtyOK' /\ OwnOK' /\ AtRest'
    BY <1>1, <1>2, <1>3 DEF RestoreInv, DirtyOK, OwnOK, AtRest
  <1> QED
    BY <1>4, <1>5 DEF RestoreInv, PlanOK

LEMMA DeleteRollbackOK == RestoreInv /\ DeleteRollback => RestoreInv'
  <1> SUFFICES ASSUME RestoreInv, DeleteRollback PROVE RestoreInv'
    OBVIOUS
  <1>1. /\ UNCHANGED <<schema, dirty, holder, phase, todo, failing, hadActive, outcome>>
        /\ holder = "service" /\ former' = None
    BY DEF DeleteRollback
  <1>2. AtRest /\ ActiveMain # None
    BY <1>1, InService
  <1>3. /\ DiskOK'
        /\ UNCHANGED <<ActiveMain, ActiveWal, ActiveShm, StagedMain, StagedWal, StagedShm>>
        /\ RollbackMain' = None
        /\ (NoRollback' /\ torn' = torn) \/ (UNCHANGED <<RollbackWal, RollbackShm>> /\ torn' = TRUE)
    <2>1. PICK files \in {Nothing, [disk["rollback"] EXCEPT !.main = None]} :
            disk' = [disk EXCEPT !["rollback"] = files] /\ torn' = (torn \/ files # Nothing)
      BY DEF DeleteRollback
    <2>2. torn \in BOOLEAN /\ DiskOK
      BY DEF RestoreInv, RestoreTypes
    <2>3. CASE files = Nothing
      <3>1. torn' = torn
        BY <2>1, <2>2, <2>3
      <3> QED
        BY <2>1, <2>2, <2>3, <3>1 DEF DiskOK, Places, Nothing, Alone, NoRollback, ActiveMain, ActiveWal, ActiveShm, RollbackMain, RollbackWal, RollbackShm, StagedMain, StagedWal, StagedShm
    <2>4. CASE files # Nothing
      <3>1. torn' = TRUE
        BY <2>1, <2>4
      <3> QED
        BY <2>1, <2>2, <2>4, <3>1 DEF DiskOK, Places, ActiveMain, ActiveWal, ActiveShm, RollbackMain, RollbackWal, RollbackShm, StagedMain, StagedWal, StagedShm
    <2> QED
      BY <2>3, <2>4
  <1>4. torn' \in BOOLEAN /\ (torn => torn')
    <2>1. torn' = torn \/ torn' = TRUE
      BY <1>3
    <2>2. torn \in BOOLEAN
      BY DEF RestoreInv, RestoreTypes
    <2>3. CASE torn' = TRUE
      BY <2>3
    <2>4. CASE torn' = torn
      BY <2>2, <2>4
    <2> QED
      BY <2>1, <2>3, <2>4
  <1>5. RestoreTypes' /\ StagedOK'
    BY <1>1, <1>3, <1>4 DEF RestoreInv, RestoreTypes, UsedOnes, StagedOK, NoRollback
  <1>6. DirtyOK'
    BY <1>1, <1>2, <1>3, NoneIsUnused DEF RestoreInv, DirtyOK, RestoreTypes
  <1>7. OwnOK' /\ AtRest'
    BY <1>1, <1>2, <1>3, <1>4 DEF RestoreInv, OwnOK, AtRest, NoRollback
  <1> QED
    BY <1>5, <1>6, <1>7 DEF RestoreInv, PlanOK

LEMMA RestoreStep == RestoreInv /\ [RestoreNext]_restoreVars => RestoreInv'
  <1> SUFFICES ASSUME RestoreInv, UNCHANGED restoreVars PROVE RestoreInv'
    BY StageOK, ActivateOK, FileStepOK, PhaseDoneOK, FailsOK, DiesOK, ServiceStartsOK, MigratesOK,
       ServiceStopsOK, DeleteRollbackOK DEF RestoreNext
  <1>1. UNCHANGED <<disk, schema, dirty, holder, phase, todo, hadActive, former, torn>>
    BY DEF restoreVars
  <1>2. UNCHANGED <<ActiveMain, ActiveWal, ActiveShm, RollbackMain, RollbackWal, RollbackShm, StagedMain, StagedWal, StagedShm>>
    BY <1>1, SameDisk
  <1>3. PlanOK'
    BY <1>1, <1>2 DEF RestoreInv, PlanOK, AtRest, Recovering, Clearing, Moving, Replacing, Undoing, SetAside,
                      NoActive, NoRollback
  <1> QED
    BY <1>1, <1>3, PlanChanges DEF RestoreInv, RestoreTypes

LEMMA FormerStays == RestoreInv => FormerIsKept
  <1> SUFFICES ASSUME RestoreInv PROVE FormerIsKept
    OBVIOUS
  <1>1. former # None => former \in {ActiveMain, RollbackMain}
    BY DEF RestoreInv, PlanOK, AtRest, Recovering, Clearing, Moving, Replacing, Undoing, SetAside
  <1>2. former # None /\ former \in dirty => former \in {ActiveWal, RollbackWal}
    BY <1>1 DEF RestoreInv, DirtyOK
  <1>3. ASSUME ~torn, phase = "replace", todo = <<>>, hadActive PROVE Whole("rollback", former)
    <2>1. SetAside
      BY <1>3 DEF RestoreInv, PlanOK, AtRest, Recovering, Clearing, Moving, Replacing, Undoing
    <2>2. RollbackMain = former /\ RollbackWal \in {None, former} /\ RollbackShm \in {None, former}
      BY <1>3, <2>1 DEF RestoreInv, OwnOK, SetAside
    <2>3. former \in dirty => RollbackWal = former
      BY <1>3, <2>1 DEF RestoreInv, DirtyOK, SetAside
    <2> QED
      BY <2>2, <2>3 DEF Whole, Suffixes, RollbackMain, RollbackWal, RollbackShm
  <1> QED
    BY <1>1, <1>2, <1>3 DEF FormerIsKept, PriorIsRetained, ActiveMain, RollbackMain, ActiveWal, RollbackWal

LEMMA SidecarsOwn == RestoreInv => GenerationsStayApart
  <1> SUFFICES ASSUME RestoreInv, ~torn, holder # "activation", ActiveMain # None
               PROVE  Whole("active", disk["active"].main)
    BY DEF GenerationsStayApart, Exists, ActiveMain
  <1>1. ActiveWal \in {None, ActiveMain} /\ ActiveShm \in {None, ActiveMain}
    BY DEF RestoreInv, OwnOK
  <1>2. ActiveMain \in dirty => ActiveWal = ActiveMain
    BY DEF RestoreInv, DirtyOK
  <1> QED
    BY <1>1, <1>2 DEF Whole, Suffixes, ActiveMain, ActiveWal, ActiveShm

(* databaseBackup.ts, activateStagedRestore: whatever fails and wherever the *)
(* machine stops, for any number of generations and restores, the database   *)
(* that was active when an activation began is at its path or beside it with *)
(* the -wal it needs, and a successful activation has retained it whole, as  *)
(* long as no sidecar was left behind by a main file that was removed.       *)
THEOREM FormerKept == RestoreSpec => []FormerIsKept
  BY RestoreStarts, RestoreStep, FormerStays, PTL DEF RestoreSpec

(* The same: the service is never started on a database with the -wal of     *)
(* another, or without the one it needs, under the same exception.           *)
THEOREM ApartAlways == RestoreSpec => []GenerationsStayApart
  BY RestoreStarts, RestoreStep, SidecarsOwn, PTL DEF RestoreSpec
=============================================================================
