---------------------------- MODULE MCOperations ----------------------------
(* What the program does around its tasks.  The parts share no state, so a   *)
(* behaviour is one of one of them while the others stay at rest.            *)
EXTENDS RoborevWatcher, WorktreeManager, DatabaseRestore, DatabaseBackups,
        RuntimeLifecycle

VARIABLE part

Parts == {"projects", "worktrees", "restore", "backups", "process"}

vars == <<part, projectVars, watcherVars, worktreeVars, restoreVars, backupVars,
          processVars>>

Init ==
    /\ part \in Parts
    /\ ProjectsInit /\ WatcherInit /\ WorktreeInit /\ RestoreInit /\ BackupInit
    /\ ProcessInit
    /\ part # "worktrees" => \A r \in Repositories : branches[r] = {}

Next ==
    /\ UNCHANGED part
    /\ part # "projects" => UNCHANGED <<projectVars, watcherVars>>
    /\ part # "worktrees" => UNCHANGED worktreeVars
    /\ part # "restore" => UNCHANGED restoreVars
    /\ part # "backups" => UNCHANGED backupVars
    /\ part # "process" => UNCHANGED processVars
    /\ \/ part = "projects" /\ WatcherNext
       \/ part = "worktrees" /\ WorktreeNext
       \/ part = "restore" /\ RestoreNext
       \/ part = "backups" /\ BackupNext
       \/ part = "process" /\ ProcessNext

Spec == Init /\ [][Next]_vars

FairSpec == Spec /\ WatcherFairness
=============================================================================
