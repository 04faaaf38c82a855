-------------------------- MODULE DatabaseBackups --------------------------
(***************************************************************************)
(* Backup artifacts: createOnlineBackup and verifyBackupArtifact of        *)
(* src/services/databaseBackup.ts, and pruneBackupArtifacts of             *)
(* src/services/databaseBackupRetention.ts.                                *)
(*                                                                         *)
(* An artifact is a directory with a database and a manifest.  It is made  *)
(* in a staging directory and renamed when it has been verified.  Backups  *)
(* are ordered by createdAt, the moment they began; several processes back *)
(* up and one prunes, each of which can be killed.                         *)
(***************************************************************************)
EXTENDS Integers, FiniteSets, FiniteSetsExt

CONSTANTS
    Backups,    \* bound: 1..n, in the order of createdAt
    Keep        \* artifacts to keep

ASSUME BackupAssumption == Keep \in Nat /\ Backups \subseteq Nat /\ IsFiniteSet(Backups)

VARIABLES
    directory,  \* by backup: what is on the disk
    making,     \* backups whose process is at work
    damaged,    \* artifacts whose database is not what the manifest says
    pruning,    \* "no", "verifying" or "deleting"
    entries,    \* listed, and not looked at yet
    verified,   \* found good
    deletable,  \* to be deleted
    spoiled     \* history: what was damaged when the prune began

backupVars == <<directory, making, damaged, pruning, entries, verified, deletable, spoiled>>

BackupInit ==
    /\ directory = [b \in Backups |-> "none"]
    /\ making = {}
    /\ damaged = {}
    /\ pruning = "no" /\ entries = {} /\ verified = {} /\ deletable = {} /\ spoiled = {}

pruneVars == <<pruning, entries, verified, deletable, spoiled>>
Complete == {b \in Backups : directory[b] = "complete"}

-----------------------------------------------------------------------------
(* createOnlineBackup.                                                      *)

\* A staging directory of the same name is removed first.
BackupStarts(b) ==
    /\ b \notin making /\ directory[b] # "complete"
    /\ \A later \in Backups : later > b => directory[later] = "none"
    /\ making' = making \cup {b}
    /\ directory' = [directory EXCEPT ![b] = "staging"]
    /\ UNCHANGED <<damaged, pruneVars>>

\* Copied, verified and renamed.
BackupCompletes(b) ==
    /\ b \in making
    /\ making' = making \ {b}
    /\ directory' = [directory EXCEPT ![b] = "complete"]
    /\ UNCHANGED <<damaged, pruneVars>>

BackupFails(b) ==
    /\ b \in making
    /\ making' = making \ {b}
    /\ directory' = [directory EXCEPT ![b] = "none"]
    /\ UNCHANGED <<damaged, pruneVars>>

BackupKilled(b) ==
    /\ b \in making
    /\ making' = making \ {b}
    /\ UNCHANGED <<directory, damaged, pruneVars>>

Damage(b) ==
    /\ directory[b] = "complete" /\ b \notin damaged
    /\ damaged' = damaged \cup {b}
    /\ UNCHANGED <<directory, making, pruneVars>>

-----------------------------------------------------------------------------
(* pruneBackupArtifacts.                                                    *)

\* verifyBackupArtifact
Verifies(b) == directory[b] = "complete" /\ b \notin damaged

\* A staging directory is skipped by its name, also if it is renamed later on.
Prune ==
    /\ pruning = "no"
    /\ pruning' = "verifying"
    /\ entries' = Complete
    /\ verified' = {} /\ deletable' = {}
    /\ spoiled' = damaged
    /\ UNCHANGED <<directory, making, damaged>>

\* What cannot be verified is skipped.
VerifyEntry(b) ==
    /\ pruning = "verifying" /\ b \in entries
    /\ entries' = entries \ {b}
    /\ verified' = IF Verifies(b) THEN verified \cup {b} ELSE verified
    /\ UNCHANGED <<directory, making, damaged, pruning, deletable, spoiled>>

\* Slip: what could not be verified makes room for what could.
SpoiledToo(bs) ==
    {b \in Complete : (b \in bs \/ b \in spoiled) /\ Cardinality({a \in bs : a > b}) >= Keep}

\* What is left of bs after its newest Keep.
Surplus(bs) == {b \in bs : Cardinality({a \in bs : a > b}) >= Keep}

AllVerified ==
    /\ pruning = "verifying" /\ entries = {}
    /\ pruning' = "deleting"
    /\ deletable' = Surplus(verified)
    /\ UNCHANGED <<directory, making, damaged, entries, verified, spoiled>>

DeleteArtifact ==
    /\ pruning = "deleting" /\ deletable # {}
    /\ directory' = [directory EXCEPT ![Max(deletable)] = "none"]
    /\ deletable' = deletable \ {Max(deletable)}
    /\ damaged' = damaged \ {Max(deletable)}
    /\ UNCHANGED <<making, pruning, entries, verified, spoiled>>

\* It is done, a deletion fails, or it is killed.
PruneEnds ==
    /\ pruning # "no"
    /\ pruning' = "no" /\ entries' = {} /\ verified' = {} /\ deletable' = {} /\ spoiled' = {}
    /\ UNCHANGED <<directory, making, damaged>>

BackupNext ==
    \/ \E b \in Backups :
          \/ BackupStarts(b) \/ BackupCompletes(b) \/ BackupFails(b) \/ BackupKilled(b)
          \/ Damage(b) \/ VerifyEntry(b)
    \/ Prune \/ AllVerified \/ DeleteArtifact \/ PruneEnds

BackupSpec == BackupInit /\ [][BackupNext]_backupVars

-----------------------------------------------------------------------------
\* Whatever backups, damage and kills fall between the steps of a prune, the
\* only directory that disappears, but for the staging directory of a backup
\* that fails, is a complete artifact that was not damaged when the prune
\* began, and only while Keep newer ones of that kind are there that were
\* found good: what is damaged or half made is kept, and does not count.
RetentionIsSafe ==
    [][\A b \in Backups : directory[b] # "none" /\ directory'[b] = "none" =>
          \/ b \in making /\ b \notin making'
          \/ /\ directory[b] = "complete" /\ b \notin spoiled
             /\ Cardinality({a \in Backups : /\ a > b /\ directory[a] = "complete"
                                             /\ a \in verified /\ a \notin spoiled}) >= Keep]_backupVars
=============================================================================
