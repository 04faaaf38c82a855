-------------------------- MODULE DatabaseRestore --------------------------
(***************************************************************************)
(* Restoring the database (src/services/databaseBackup.ts, called by       *)
(* src/commands/databaseMaintenance.ts) and the service that uses it.      *)
(*                                                                         *)
(* A database is a generation of files: a main file and the -wal and -shm  *)
(* beside it, which an orderly close of SQLite removes and a crash leaves. *)
(* Activation renames and removes files one at a time; any of these can    *)
(* fail, and the process can die between any two.  What remains to be done *)
(* is a sequence of file operations.                                       *)
(*                                                                         *)
(* The operator runs one command at a time and starts the service only     *)
(* when there is an active database, as the manual asks.                   *)
(***************************************************************************)
EXTENDS Integers, Sequences

CONSTANTS
    Generations,    \* bound: 1..n; 1 is the database the service has
    Latest          \* version of the newest migration

ASSUME RestoreAssumption == Latest \in Nat /\ 1 \in Generations /\ Generations \subseteq Nat \ {0}

VARIABLES
    disk,       \* by place and part: the generation the file belongs to
    schema,     \* by generation: MAX(version) of schema_migrations
    dirty,      \* generations with transactions only their -wal has
    holder,     \* of the instance lock
    phase, todo,    \* of activateStagedRestore
    failing,        \* it will throw when the recovery is over
    hadActive,
    outcome,
    former,     \* history: the generation that was active when it began
    torn        \* history: a main file was removed, its sidecars were not

restoreVars == <<disk, schema, dirty, holder, phase, todo, failing, hadActive, outcome, former, torn>>
activation == <<phase, todo, failing, hadActive, outcome, former>>

None == 0
Places == {"active", "rollback", "staging"}
Suffixes == {"wal", "shm"}
Alone(g) == [main |-> g, wal |-> None, shm |-> None]
Nothing == Alone(None)

RestoreInit ==
    /\ disk = [place \in Places |-> IF place = "active" THEN Alone(1) ELSE Nothing]
    /\ schema = [g \in Generations |-> IF g = 1 THEN Latest ELSE 0]
    /\ dirty = {}
    /\ holder = "nobody"
    /\ phase = "idle" /\ todo = <<>>
    /\ failing = FALSE /\ hadActive = FALSE
    /\ outcome = "none"
    /\ former = None
    /\ torn = FALSE

Exists(place) == disk[place].main # None
Sidecars(place) == {s \in Suffixes : disk[place][s] # None}
Fresh(g) == \A h \in Generations : (h < g) <=> h = 1 \/ schema[h] # 0
Torn(files) == \E place \in {"active", "rollback"} :
    files[place].main = None /\ \E s \in Suffixes : files[place][s] # None
                             /\ \A other \in Places : files[other].main # files[place][s]

-----------------------------------------------------------------------------
(* stageVerifiedRestore, of an artifact with some earlier schema.  A copy   *)
(* that fails removes what it made.                                         *)

Stage ==
    /\ holder # "activation"
    /\ \/ \E g \in Generations, version \in 1..Latest :
             /\ Fresh(g)
             /\ schema' = [schema EXCEPT ![g] = version]
             /\ disk' = [disk EXCEPT !["staging"] = Alone(g)]
       \/ disk' = [disk EXCEPT !["staging"] = Nothing] /\ UNCHANGED schema
    /\ UNCHANGED <<dirty, holder, activation, torn>>

-----------------------------------------------------------------------------
(* The plans of activateStagedRestore: what is removed or moved, in order.  *)

Rm(place, part) == [do |-> "rm", from |-> place, to |-> place, part |-> part]
Mv(from, to, part) == [do |-> "mv", from |-> from, to |-> to, part |-> part]

\* removeDatabaseGeneration
Removal(place) == <<Rm(place, "main"), Rm(place, "wal"), Rm(place, "shm")>>

\* Slip: only the main file is moved.
MoveMain(from, to) == <<Mv(from, to, "main")>>

\* moveDatabaseGeneration
Move(from, to) == <<Mv(from, to, "main"), Mv(from, to, "wal"), Mv(from, to, "shm")>>

\* recoverInterruptedRestore, with restoreMissingSidecars
RecoveryPlan ==
    LET sidecars == <<Mv("rollback", "active", "wal"), Mv("rollback", "active", "shm")>> IN
    CASE Exists("active") /\ Exists("rollback") -> <<>>
      [] Exists("active") /\ ~Exists("rollback") -> sidecars
      [] ~Exists("active") /\ Exists("rollback") -> Append(sidecars, Mv("rollback", "active", "main"))
      [] OTHER -> <<>>

\* Sidecars without a main database.
Orphaned == ~Exists("active") /\ ~Exists("rollback") /\ (Sidecars("active") \cup Sidecars("rollback")) # {}

Does(to, plan) == phase' = to /\ todo' = plan

Ends(how) ==
    /\ Does("idle", <<>>)
    /\ holder' = "nobody"
    /\ outcome' = how
    /\ failing' = FALSE

\* Slip: an activation that was interrupted is not looked for.
ActivateUnrecovered ==
    /\ holder = "nobody"
    /\ Exists("staging") /\ Sidecars("staging") = {}
    /\ former' = IF Exists("active") THEN disk["active"].main ELSE disk["rollback"].main
    /\ failing' = FALSE
    /\ outcome' = "none" /\ holder' = "activation" /\ Does("clear", Removal("rollback"))
    /\ hadActive' = Exists("active")
    /\ UNCHANGED <<disk, schema, dirty, torn>>

\* The command has the instance lock, and what is staged is a whole database
\* of the expected schema.
Activate ==
    /\ holder = "nobody"
    /\ Exists("staging") /\ Sidecars("staging") = {}
    /\ former' = IF Exists("active") THEN disk["active"].main ELSE disk["rollback"].main
    /\ failing' = FALSE
    /\ IF Orphaned
       THEN outcome' = "refused" /\ UNCHANGED <<holder, phase, todo>>
       ELSE outcome' = "none" /\ holder' = "activation" /\ Does("recover", RecoveryPlan)
    /\ UNCHANGED <<disk, schema, dirty, hadActive, torn>>

\* The next operation.  A sidecar that is not there is skipped, and one that
\* would replace another is an error.
Blocked(op) == op.do = "mv" /\ op.part # "main" /\ disk[op.from][op.part] # None /\ disk[op.to][op.part] # None

FileStep ==
    /\ todo # <<>> /\ ~Blocked(Head(todo))
    /\ LET op == Head(todo)
           file == disk[op.from][op.part] IN
       IF op.do = "rm"
       THEN disk' = [disk EXCEPT ![op.from][op.part] = None]
       ELSE disk' = IF file = None THEN disk
                    ELSE [disk EXCEPT ![op.from][op.part] = None, ![op.to][op.part] = file]
    /\ todo' = Tail(todo)
    /\ UNCHANGED <<schema, dirty, holder, phase, failing, hadActive, outcome, former, torn>>

\* All of a phase is done.
PhaseDone ==
    /\ holder = "activation" /\ todo = <<>>
    /\ CASE phase = "recover" /\ failing -> Ends("refused") /\ UNCHANGED hadActive
         [] phase = "recover" /\ ~failing ->
              /\ hadActive' = Exists("active")
              /\ IF Exists("active") THEN Does("clear", Removal("rollback"))
                 ELSE Does("replace", <<Mv("staging", "active", "main")>>)
              /\ UNCHANGED <<holder, outcome, failing>>
         [] phase = "clear" -> /\ Does("move", Move("active", "rollback"))
                               /\ UNCHANGED <<holder, outcome, failing, hadActive>>
         [] phase = "move" -> /\ Does("replace", <<Mv("staging", "active", "main")>>)
                              /\ UNCHANGED <<holder, outcome, failing, hadActive>>
         [] phase = "replace" -> Ends("activated") /\ UNCHANGED hadActive
         [] phase = "undo" -> IF hadActive /\ ~Orphaned
                              THEN /\ Does("recover", RecoveryPlan)
                                   /\ failing' = TRUE
                                   /\ UNCHANGED <<holder, outcome, hadActive>>
                              ELSE Ends("refused") /\ UNCHANGED hadActive
    /\ UNCHANGED <<disk, schema, dirty, former, torn>>

\* An operation fails, or the database that was put in place is not valid.
Fails ==
    /\ holder = "activation"
    /\ todo # <<>> \/ phase = "replace"
    /\ CASE phase = "move" -> IF Orphaned THEN Ends("refused")
                              ELSE /\ Does("recover", RecoveryPlan)
                                   /\ failing' = TRUE
                                   /\ UNCHANGED <<holder, outcome>>
         [] phase = "replace" -> Does("undo", Removal("active")) /\ UNCHANGED <<holder, outcome, failing>>
         [] OTHER -> Ends("refused")
    /\ torn' = (torn \/ (phase \in {"clear", "undo"} /\ Torn(disk)))
    /\ UNCHANGED <<disk, schema, dirty, hadActive, former>>

-----------------------------------------------------------------------------
\* The machine stops.
Dies ==
    /\ holder # "nobody"
    /\ holder' = "nobody"
    /\ Does("idle", <<>>)
    /\ failing' = FALSE
    /\ torn' = (torn \/ (holder = "activation" /\ Torn(disk)))
    /\ dirty' = IF holder = "service" /\ disk["active"].wal = disk["active"].main
                THEN dirty \cup {disk["active"].main} ELSE dirty
    /\ UNCHANGED <<disk, schema, hadActive, outcome, former>>

\* openDatabase, in WAL mode.
ServiceStarts ==
    /\ holder = "nobody" /\ Exists("active")
    /\ holder' = "service"
    /\ disk' = [disk EXCEPT !["active"] = [f \in DOMAIN @ |-> IF @[f] = None THEN @.main ELSE @[f]]]
    /\ UNCHANGED <<schema, dirty, activation, torn>>

\* runMigrations: the next one, in a transaction of its own.
Migrates ==
    /\ holder = "service"
    /\ schema[disk["active"].main] < Latest
    /\ schema' = [schema EXCEPT ![disk["active"].main] = @ + 1]
    /\ UNCHANGED <<disk, dirty, holder, activation, torn>>

\* The connection is closed: everything is in the main file.
ServiceStops ==
    /\ holder = "service"
    /\ holder' = "nobody"
    /\ dirty' = dirty \ {disk["active"].main}
    /\ disk' = [disk EXCEPT !["active"] = Alone(@.main)]
    /\ UNCHANGED <<schema, activation, torn>>

\* "Verify ... before deleting the rollback database": the file, or also what
\* is beside it.
DeleteRollback ==
    /\ holder = "service" /\ Exists("rollback") /\ outcome = "activated"
    /\ \E files \in {Nothing, [disk["rollback"] EXCEPT !.main = None]} :
          /\ disk' = [disk EXCEPT !["rollback"] = files]
          /\ torn' = (torn \/ files # Nothing)
    /\ former' = None
    /\ UNCHANGED <<schema, dirty, holder, phase, todo, failing, hadActive, outcome>>

RestoreNext ==
    \/ Stage \/ Activate \/ FileStep \/ PhaseDone \/ Fails \/ Dies
    \/ ServiceStarts \/ Migrates \/ ServiceStops \/ DeleteRollback

RestoreSpec == RestoreInit /\ [][RestoreNext]_restoreVars

-----------------------------------------------------------------------------
\* The files of a generation are together, with the -wal if it needs it.
Whole(place, g) ==
    /\ disk[place].main = g
    /\ \A s \in Suffixes : disk[place][s] \in {None, g}
    /\ g \in dirty => disk[place].wal = g

\* "The prior active database is retained": a successful activation leaves all
\* of it, and nothing else, at the rollback path.  REFUTED as it stands, by
\* sidecars a removed main file left behind; FormerIsKept excepts them.
PriorIsRetained ==
    (phase = "replace" /\ todo = <<>> /\ hadActive) => Whole("rollback", former)

\* Whatever fails, and wherever the machine stops, each file of the database
\* that was active when the activation began is in its place or beside it; and
\* a successful activation has retained it - as long as no sidecar is left
\* behind by a main file that was removed.
FormerIsKept ==
    /\ former # None =>
          /\ \E place \in {"active", "rollback"} : disk[place].main = former
          /\ former \in dirty => \E place \in {"active", "rollback"} : disk[place].wal = former
    /\ ~torn => PriorIsRetained

\* A -wal is never beside a database it is not of, and none is missing from
\* an active database that needs it - as long as no sidecar is left behind by
\* a main file that was removed.
GenerationsStayApart ==
    ~torn /\ holder # "activation" /\ Exists("active") => Whole("active", disk["active"].main)
=============================================================================
