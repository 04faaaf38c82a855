------------------------ MODULE FactoryFloorBindings ------------------------
(***************************************************************************)
(* The tables that link Discord to Factory Floor:                          *)
(* src/repositories/factoryFloorBindingRepository.ts,                      *)
(* factoryFloorActivityInstanceBindingRepository.ts and the trigger of     *)
(* src/db/factoryFloorBindingsMigration.ts.  Every operation is one        *)
(* synchronous SQLite transaction; one that throws changes nothing.        *)
(*                                                                         *)
(* A project is bound to its own Factory Floor project and to the one      *)
(* guild.  A surface is named by the thread (or message) it was bound      *)
(* for, an Activity instance by the interaction that launched it.          *)
(***************************************************************************)
EXTENDS Naturals, FiniteSets

CONSTANTS
    Projects, Surfaces, Runs,
    Instances,      \* Activity instances
    None            \* a NULL column

ASSUME NoneAssumption == None \notin Projects \cup Surfaces \cup Runs \cup Instances

VARIABLES
    archived,           \* projects with projects.archived_at set
    projectBinding,     \* factory_floor_project_bindings, by project
    surfaceBinding, surfaceProject, activityInstance,   \* ..._surface_bindings
    runBinding, runSurface                              \* ..._run_bindings

surfaces == <<surfaceBinding, surfaceProject, activityInstance>>
runs     == <<runBinding, runSurface>>
bindings == <<archived, projectBinding, surfaces, runs>>

\* No row, a row with retired_at NULL, a row with retired_at set.
Rows == {"absent", "active", "retired"}

BindingsTypeOK ==
    /\ archived \in SUBSET Projects
    /\ projectBinding \in [Projects -> Rows]
    /\ surfaceBinding \in [Surfaces -> Rows]
    /\ surfaceProject \in [Surfaces -> Projects \cup {None}]
    /\ activityInstance \in [Surfaces -> Instances \cup {None}]
    /\ runBinding \in [Runs -> Rows]
    /\ runSurface \in [Runs -> Surfaces \cup {None}]

BindingsInit ==
    /\ archived = {}
    /\ projectBinding = [p \in Projects |-> "absent"]
    /\ surfaceBinding = [s \in Surfaces |-> "absent"]
    /\ surfaceProject = [s \in Surfaces |-> None]
    /\ activityInstance = [s \in Surfaces |-> None]
    /\ runBinding = [r \in Runs |-> "absent"]
    /\ runSurface = [r \in Runs |-> None]

-----------------------------------------------------------------------------
(* Lookups.                                                                 *)

ActiveProject(p) == p \notin archived /\ projectBinding[p] = "active"

\* findSurface*: an active row of a project that is not archived.
FindSurface(s) == surfaceBinding[s] = "active" /\ surfaceProject[s] \notin archived

\* findRun asks for the run's own row and the project, not for the surface's.
FindRun(r) ==
    runBinding[r] = "active" /\ surfaceProject[runSurface[r]] \notin archived

ActiveRunsOn(s) == {r \in Runs : runBinding[r] = "active" /\ runSurface[r] = s}

\* An instance is attached to one surface, and a surface to one instance, for
\* good: neither is freed when the row is retired.
Attachable(s, i) ==
    /\ activityInstance[s] \in {None, i}
    /\ \A other \in Surfaces : activityInstance[other] = i => other = s

-----------------------------------------------------------------------------
(* Operations.                                                              *)

BindProject(p) ==
    /\ p \notin archived
    /\ projectBinding' = [projectBinding EXCEPT ![p] = "active"]
    /\ UNCHANGED <<archived, surfaces, runs>>

\* A new surface, or the surface known for this thread or message, which must
\* be the same project's and is reactivated.
BindSurface(p, s) ==
    /\ ActiveProject(p)
    /\ surfaceProject[s] \in {None, p}
    /\ surfaceBinding' = [surfaceBinding EXCEPT ![s] = "active"]
    /\ surfaceProject' = [surfaceProject EXCEPT ![s] = p]
    /\ UNCHANGED <<archived, projectBinding, activityInstance, runs>>

\* A run stays on its surface; a surface has one active run.
BindRun(r, s) ==
    /\ surfaceBinding[s] = "active"
    /\ ActiveProject(surfaceProject[s])
    /\ ActiveRunsOn(s) \subseteq {r}
    /\ runSurface[r] \in {None, s}
    /\ runBinding' = [runBinding EXCEPT ![r] = "active"]
    /\ runSurface' = [runSurface EXCEPT ![r] = s]
    /\ UNCHANGED <<archived, projectBinding, surfaces>>

CanAttach(s, i) == FindSurface(s) /\ Attachable(s, i)

AttachInstance(s, i) ==
    /\ CanAttach(s, i)
    /\ activityInstance' = [activityInstance EXCEPT ![s] = i]
    /\ UNCHANGED <<archived, projectBinding, surfaceBinding, surfaceProject, runs>>

Retired(row) == IF row = "active" THEN "retired" ELSE row

RetireSurfacesAndRuns(gone) ==
    /\ surfaceBinding' = [s \in Surfaces |-> IF s \in gone THEN Retired(surfaceBinding[s])
                                             ELSE surfaceBinding[s]]
    /\ runBinding' = [r \in Runs |-> IF runSurface[r] \in gone THEN Retired(runBinding[r])
                                     ELSE runBinding[r]]
    /\ UNCHANGED <<surfaceProject, activityInstance, runSurface>>

RetireBindingsOf(p) ==
    /\ projectBinding' = [projectBinding EXCEPT ![p] = Retired(@)]
    /\ RetireSurfacesAndRuns({s \in Surfaces : surfaceProject[s] = p})

RetireProject(p) == RetireBindingsOf(p) /\ UNCHANGED archived

RetireSurface(s) ==
    /\ RetireSurfacesAndRuns({s})
    /\ UNCHANGED <<archived, projectBinding>>

RetireRun(r) ==
    /\ runBinding' = [runBinding EXCEPT ![r] = Retired(@)]
    /\ UNCHANGED <<archived, projectBinding, surfaces, runSurface>>

\* The trigger on projects.archived_at retires the project's bindings; adding
\* the project again clears archived_at and leaves them retired.
ArchiveProject(p) ==
    /\ p \notin archived
    /\ archived' = archived \cup {p}
    /\ RetireBindingsOf(p)

RestoreProject(p) ==
    /\ p \in archived
    /\ archived' = archived \ {p}
    /\ UNCHANGED <<projectBinding, surfaces, runs>>

BindingStep ==
    \/ \E p \in Projects : \/ BindProject(p)
                           \/ RetireProject(p)
                           \/ ArchiveProject(p)
                           \/ RestoreProject(p)
    \/ \E p \in Projects, s \in Surfaces : BindSurface(p, s)
    \/ \E r \in Runs, s \in Surfaces : BindRun(r, s)
    \/ \E s \in Surfaces : RetireSurface(s)
    \/ \E r \in Runs : RetireRun(r)

-----------------------------------------------------------------------------
(* Properties of the tables, whatever the order of the operations.          *)

\* A run is active only on an active surface, a surface only in a bound
\* project, and a binding only while its project is not archived: findRun
\* need not look at the surface, nor the launch at the retired rows above it.
ActiveChain ==
    /\ \A r \in Runs : runBinding[r] = "active"
          => runSurface[r] \in Surfaces /\ surfaceBinding[runSurface[r]] = "active"
    /\ \A s \in Surfaces : surfaceBinding[s] = "active"
          => surfaceProject[s] \in Projects /\ projectBinding[surfaceProject[s]] = "active"
    /\ \A p \in archived : projectBinding[p] # "active"

\* "An Activity instance cannot be moved to another surface, and a surface
\* cannot be rebound to another instance."
InstanceStays ==
    [][\A s \in Surfaces : activityInstance[s] # None
          => activityInstance'[s] = activityInstance[s]]_bindings

=============================================================================
