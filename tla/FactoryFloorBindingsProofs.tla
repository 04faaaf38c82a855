---------------------- MODULE FactoryFloorBindingsProofs ----------------------
(***************************************************************************)
(* What every operation on the Factory Floor tables preserves, for any     *)
(* projects, surfaces, runs and instances.  ActivityLaunchProofs and       *)
(* LimitsProofs cite these lemmas for the steps of their specifications    *)
(* that change a binding.                                                  *)
(***************************************************************************)
EXTENDS FactoryFloorBindings, TLAPS

\* The unique index on the active runs of a surface.
OneRunPerSurface ==
    \A a, b \in Runs :
        runBinding[a] = "active" /\ runBinding[b] = "active" /\ runSurface[a] = runSurface[b]
            => a = b

\* The unique index on the instances of the surfaces.
OneSurfacePerInstance ==
    \A s, t \in Surfaces :
        activityInstance[s] # None /\ activityInstance[s] = activityInstance[t] => s = t

\* The invariant of the tables.
BindingsInv == BindingsTypeOK /\ ActiveChain /\ OneRunPerSurface /\ OneSurfacePerInstance

-----------------------------------------------------------------------------

\* Empty tables satisfy the invariant.
LEMMA BindingsInitCorrect == BindingsInit => BindingsInv
  BY DEF BindingsInit, BindingsInv, BindingsTypeOK, Rows, ActiveChain, OneRunPerSurface,
         OneSurfacePerInstance

\* Steps that leave the tables alone.
LEMMA BindingsStutter == BindingsInv /\ UNCHANGED bindings => BindingsInv'
  BY DEF BindingsInv, BindingsTypeOK, ActiveChain, OneRunPerSurface, OneSurfacePerInstance,
         bindings, surfaces, runs

\* Retiring a set of surfaces with their runs, and perhaps the project they
\* belong to, breaks no chain if all the surfaces of a retired project go.
LEMMA RetirementCorrect ==
  ASSUME BindingsInv, NEW gone \in SUBSET Surfaces, RetireSurfacesAndRuns(gone),
         archived' \in SUBSET Projects,
         projectBinding' \in [Projects -> Rows],
         \A p \in Projects : projectBinding[p] = "active" /\ projectBinding'[p] # "active"
             => \A s \in Surfaces : surfaceProject[s] = p => s \in gone,
         \A p \in archived' : projectBinding'[p] # "active"
  PROVE  BindingsInv'
<1> USE DEF RetireSurfacesAndRuns, Retired
<1>1. BindingsTypeOK'
  BY DEF BindingsInv, BindingsTypeOK, Rows
<1>2. ActiveChain'
  <2>1. \A r \in Runs : runBinding'[r] = "active"
           => runSurface'[r] \in Surfaces /\ surfaceBinding'[runSurface'[r]] = "active"
    BY DEF BindingsInv, BindingsTypeOK, Rows, ActiveChain
  <2>2. \A s \in Surfaces : surfaceBinding'[s] = "active"
           => surfaceProject'[s] \in Projects /\ projectBinding'[surfaceProject'[s]] = "active"
    BY DEF BindingsInv, BindingsTypeOK, Rows, ActiveChain
  <2>3. QED  BY <2>1, <2>2 DEF ActiveChain
<1>3. OneRunPerSurface'
  BY DEF BindingsInv, BindingsTypeOK, OneRunPerSurface
<1>4. OneSurfacePerInstance'
  BY DEF BindingsInv, OneSurfacePerInstance
<1>5. QED  BY <1>1, <1>2, <1>3, <1>4 DEF BindingsInv

\* A step of administration keeps the invariant of the tables,
LEMMA BindingStepCorrect == BindingsInv /\ BindingStep => BindingsInv'
<1> SUFFICES ASSUME BindingsInv, BindingStep PROVE BindingsInv'
  OBVIOUS
<1> USE DEF surfaces, runs
<1>1. ASSUME NEW p \in Projects, BindProject(p) PROVE BindingsInv'
  BY <1>1 DEF BindProject, BindingsInv, BindingsTypeOK, Rows, ActiveChain, OneRunPerSurface,
              OneSurfacePerInstance
<1>2. ASSUME NEW p \in Projects, RetireProject(p) PROVE BindingsInv'
  <2> DEFINE gone == {s \in Surfaces : surfaceProject[s] = p}
  <2>1. RetireSurfacesAndRuns(gone) /\ archived' = archived
        /\ projectBinding' = [projectBinding EXCEPT ![p] = Retired(@)]
    BY <1>2 DEF RetireProject, RetireBindingsOf
  <2> HIDE DEF gone
  <2>2. projectBinding' \in [Projects -> Rows] /\ archived' \in SUBSET Projects
    BY <2>1 DEF BindingsInv, BindingsTypeOK, Rows, Retired
  <2>3. \A q \in Projects : projectBinding[q] = "active" /\ projectBinding'[q] # "active"
           => q = p
    BY <2>1 DEF BindingsInv, BindingsTypeOK
  <2>4. \A q \in archived' : projectBinding'[q] # "active"
    BY <2>1 DEF BindingsInv, BindingsTypeOK, ActiveChain, Retired
  <2>5. \A s \in Surfaces : surfaceProject[s] = p => s \in gone
    BY DEF gone
  <2>6. gone \in SUBSET Surfaces
    BY DEF gone
  <2>7. QED  BY <2>1, <2>2, <2>3, <2>4, <2>5, <2>6, RetirementCorrect
<1>3. ASSUME NEW p \in Projects, ArchiveProject(p) PROVE BindingsInv'
  <2> DEFINE gone == {s \in Surfaces : surfaceProject[s] = p}
  <2>1. RetireSurfacesAndRuns(gone) /\ archived' = archived \cup {p}
        /\ projectBinding' = [projectBinding EXCEPT ![p] = Retired(@)]
    BY <1>3 DEF ArchiveProject, RetireBindingsOf
  <2> HIDE DEF gone
  <2>2. projectBinding' \in [Projects -> Rows] /\ archived' \in SUBSET Projects
    BY <2>1 DEF BindingsInv, BindingsTypeOK, Rows, Retired
  <2>3. \A q \in Projects : projectBinding[q] = "active" /\ projectBinding'[q] # "active"
           => q = p
    BY <2>1 DEF BindingsInv, BindingsTypeOK
  <2>4. \A q \in archived' : projectBinding'[q] # "active"
    BY <2>1 DEF BindingsInv, BindingsTypeOK, ActiveChain, Retired
  <2>5. \A s \in Surfaces : surfaceProject[s] = p => s \in gone
    BY DEF gone
  <2>6. gone \in SUBSET Surfaces
    BY DEF gone
  <2>7. QED  BY <2>1, <2>2, <2>3, <2>4, <2>5, <2>6, RetirementCorrect
<1>4. ASSUME NEW p \in Projects, RestoreProject(p) PROVE BindingsInv'
  BY <1>4 DEF RestoreProject, BindingsInv, BindingsTypeOK, ActiveChain, OneRunPerSurface,
              OneSurfacePerInstance
<1>5. ASSUME NEW p \in Projects, NEW s \in Surfaces, BindSurface(p, s) PROVE BindingsInv'
  <2>1. BindingsTypeOK'
    BY <1>5 DEF BindSurface, BindingsInv, BindingsTypeOK, Rows
  <2>2. ActiveChain'
    BY <1>5 DEF BindSurface, BindingsInv, BindingsTypeOK, ActiveChain, ActiveProject
  <2>3. OneRunPerSurface' /\ OneSurfacePerInstance'
    BY <1>5 DEF BindSurface, BindingsInv, OneRunPerSurface, OneSurfacePerInstance
  <2>4. QED  BY <2>1, <2>2, <2>3 DEF BindingsInv
<1>6. ASSUME NEW r \in Runs, NEW s \in Surfaces, BindRun(r, s) PROVE BindingsInv'
  <2>1. BindingsTypeOK'
    BY <1>6 DEF BindRun, BindingsInv, BindingsTypeOK, Rows
  <2>2. ActiveChain'
    BY <1>6 DEF BindRun, BindingsInv, BindingsTypeOK, ActiveChain
  <2>3. OneRunPerSurface'
    BY <1>6 DEF BindRun, BindingsInv, BindingsTypeOK, OneRunPerSurface, ActiveRunsOn
  <2>4. OneSurfacePerInstance'
    BY <1>6 DEF BindRun, BindingsInv, OneSurfacePerInstance
  <2>5. QED  BY <2>1, <2>2, <2>3, <2>4 DEF BindingsInv
<1>7. ASSUME NEW s \in Surfaces, RetireSurface(s) PROVE BindingsInv'
  <2>1. RetireSurfacesAndRuns({s}) /\ archived' = archived /\ projectBinding' = projectBinding
    BY <1>7 DEF RetireSurface
  <2>2. archived \in SUBSET Projects /\ projectBinding \in [Projects -> Rows]
        /\ \A p \in archived : projectBinding[p] # "active"
    BY DEF BindingsInv, BindingsTypeOK, ActiveChain
  <2>3. QED  BY <2>1, <2>2, RetirementCorrect
<1>8. ASSUME NEW r \in Runs, RetireRun(r) PROVE BindingsInv'
  BY <1>8 DEF RetireRun, Retired, BindingsInv, BindingsTypeOK, Rows, ActiveChain,
              OneRunPerSurface, OneSurfacePerInstance
<1>9. QED
  BY <1>1, <1>2, <1>3, <1>4, <1>5, <1>6, <1>7, <1>8 DEF BindingStep

\* and does not touch the instances.
LEMMA BindingStepInstances == BindingStep => UNCHANGED activityInstance
  BY DEF BindingStep, BindProject, RetireProject, ArchiveProject, RestoreProject, BindSurface,
         BindRun, RetireSurface, RetireRun, RetireBindingsOf, RetireSurfacesAndRuns, surfaces, runs

\* Attaching an instance to a surface that it may be attached to keeps the
\* invariant, and every other surface's instance.
LEMMA AttachCorrect ==
  ASSUME BindingsInv, NEW s \in Surfaces, NEW i \in Instances, Attachable(s, i),
         activityInstance' = [activityInstance EXCEPT ![s] = i],
         UNCHANGED <<archived, projectBinding, surfaceBinding, surfaceProject, runs>>
  PROVE  /\ BindingsInv'
         /\ \A t \in Surfaces : activityInstance[t] # None
                => activityInstance'[t] = activityInstance[t]
<1> USE DEF runs
<1>1. BindingsTypeOK' /\ ActiveChain' /\ OneRunPerSurface'
  BY DEF BindingsInv, BindingsTypeOK, ActiveChain, OneRunPerSurface
<1>2. OneSurfacePerInstance'
  BY DEF BindingsInv, BindingsTypeOK, OneSurfacePerInstance, Attachable
<1>3. \A t \in Surfaces : activityInstance[t] # None
          => activityInstance'[t] = activityInstance[t]
  BY DEF BindingsInv, BindingsTypeOK, Attachable
<1>4. QED  BY <1>1, <1>2, <1>3 DEF BindingsInv

=============================================================================
