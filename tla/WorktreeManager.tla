-------------------------- MODULE WorktreeManager --------------------------
(***************************************************************************)
(* Worktrees of tasks: src/git/worktreeManager.ts.                         *)
(*                                                                         *)
(* create asks git for a branch name that is free and adds the branch      *)
(* several calls later; a queue of promises per repository keeps other     *)
(* creates out meanwhile.  remove takes no part in the queue.  All tasks   *)
(* have the same objective and thread suffix here, so all want the same    *)
(* name; nobody else adds branches.                                        *)
(***************************************************************************)
EXTENDS Naturals, FiniteSetsExt

CONSTANTS
    Repositories,
    Creates     \* 1..n: calls of create, each of a task of its own

ASSUME WorktreeAssumption == Creates \subseteq Nat \ {0}

VARIABLES
    repositoryQueues,   \* the create each repository's queue ends with
    create,             \* where each create stands
    branches,           \* branches of each repository
    directories         \* directories of worktrees

worktreeVars == <<repositoryQueues, create, branches, directories>>

Nobody == 0

\* The k-th name create c tries; only the first is without the task's id.
BranchName(c, k) == IF k = 1 THEN <<Nobody, 1>> ELSE <<c, k>>

WorktreeInit ==
    /\ repositoryQueues = [r \in Repositories |-> Nobody]
    /\ create = [c \in Creates |-> [at |-> "none"]]
    /\ \E taken \in SUBSET Repositories :
          branches = [r \in Repositories |-> IF r \in taken THEN {<<Nobody, 1>>} ELSE {}]
    /\ directories = {}

Moves(c, place) == create' = [create EXCEPT ![c].at = place]

\* Slip: whoever finishes takes the queue with it.
DropQueue(r, c) == repositoryQueues' = [repositoryQueues EXCEPT ![r] = Nobody]

\* A queue that others have joined stays.
LeaveQueue(r, c) ==
    repositoryQueues' = [repositoryQueues EXCEPT ![r] = IF @ = c THEN Nobody ELSE @]

CreateWorktree(c, r) ==
    /\ create[c].at = "none"
    /\ create' = [create EXCEPT ![c] = [at |-> "waiting", repository |-> r, tried |-> 1, path |-> <<>>,
                                        previous |-> repositoryQueues[r]]]
    /\ repositoryQueues' = [repositoryQueues EXCEPT ![r] = c]
    /\ UNCHANGED <<branches, directories>>

Working == {"checking", "listing", "adding"}

\* previous has released the lock.
Enter(c) ==
    /\ create[c].at = "waiting"
    /\ \A d \in Creates : d = create[c].previous => create[d].at \notin {"waiting"} \cup Working
    /\ Moves(c, "checking")
    /\ UNCHANGED <<repositoryQueues, branches, directories>>

\* The repository's state and its base ref were asked for.
Checked(c) ==
    /\ create[c].at = "checking"
    /\ Moves(c, "listing")
    /\ UNCHANGED <<repositoryQueues, branches, directories>>

\* The answer to git branch --list: the next name is tried, or a path is chosen.
BranchListed(c) ==
    LET name == BranchName(c, create[c].tried) IN
    /\ create[c].at = "listing"
    /\ IF name \in branches[create[c].repository]
       THEN create' = [create EXCEPT ![c].tried = @ + 1]
       ELSE create' = [create EXCEPT ![c].at = "adding",
                          ![c].path = <<name, Min({j \in 1 .. Cardinality(directories) + 1 : <<name, j>> \notin directories})>>]
    /\ UNCHANGED <<repositoryQueues, branches, directories>>

WorktreeAdded(c) ==
    LET r == create[c].repository  name == BranchName(c, create[c].tried) IN
    /\ create[c].at = "adding"
    /\ name \notin branches[r] /\ create[c].path \notin directories
    /\ branches' = [branches EXCEPT ![r] = @ \cup {name}]
    /\ directories' = directories \cup {create[c].path}
    /\ Moves(c, "created")
    /\ LeaveQueue(r, c)

\* git fails, for this reason or another.
CreateFails(c) ==
    /\ create[c].at \in Working
    /\ Moves(c, "failed")
    /\ LeaveQueue(create[c].repository, c)
    /\ UNCHANGED <<branches, directories>>

\* remove, once the inspection found the worktree clean.
RemoveWorktree(c) ==
    /\ create[c].at = "created"
    /\ Moves(c, "removing")
    /\ UNCHANGED <<repositoryQueues, branches, directories>>

WorktreeRemoved(c) ==
    /\ create[c].at = "removing"
    /\ directories' = directories \ {create[c].path}
    /\ Moves(c, "removed")
    /\ UNCHANGED <<repositoryQueues, branches>>

\* git branch -d, which refuses what is not merged.
BranchRemoved(c) ==
    /\ create[c].at = "removed"
    /\ branches' = [branches EXCEPT ![create[c].repository] = @ \ {BranchName(c, create[c].tried)}]
    /\ Moves(c, "gone")
    /\ UNCHANGED <<repositoryQueues, directories>>

WorktreeNext ==
    \E c \in Creates :
        \/ \E r \in Repositories : CreateWorktree(c, r)
        \/ Enter(c) \/ Checked(c) \/ BranchListed(c) \/ WorktreeAdded(c) \/ CreateFails(c)
        \/ RemoveWorktree(c) \/ WorktreeRemoved(c) \/ BranchRemoved(c)

WorktreeSpec == WorktreeInit /\ [][WorktreeNext]_worktreeVars

-----------------------------------------------------------------------------
(* The name that was found free is free when the branch is added, several   *)
(* awaited calls of git later, however many tasks of a repository start,    *)
(* fail and are removed meanwhile.                                          *)
BranchIsFree ==
    \A c \in Creates :
        create[c].at = "adding" => BranchName(c, create[c].tried) \notin branches[create[c].repository]
=============================================================================
