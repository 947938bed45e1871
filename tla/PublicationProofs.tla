------------------------- MODULE PublicationProofs -------------------------
(***************************************************************************)
(* Proofs that publication is safe for every set of bundles and routes,    *)
(* every retirement limit and any number of crashes, failed builds and     *)
(* damaged bundles, that it implements RoutingView, and that the           *)
(* retirement limits bound what leases pin as long as the published image  *)
(* is never replaced over the same bundle, which only CUDA does.           *)
(***************************************************************************)
EXTENDS Publication, WeightTheorems

\* A step is proved by Zenon unless it names SMT, for arithmetic and for
\* functions and sequences as wholes.
USE ZenonT(60)

\* No bundle is published, leased or retired before the engine first opens.
LEMMA InitInv == Init => PublicationInv
  BY BundleAssumption, BoundAssumption, SMTT(60)
  DEF Init, PublicationInv, TypeOK, StageInv, StartupInv, FreshInv, Building,
      CurrentInv, LeaseInv, RetiredInv, PointerNamesCurrentGraph,
      LeasedBundleOnDisk, Held, BuildStages, Stages

\* A reap, by health or by a publisher waiting for capacity, only removes
\* children that are retired and not held: neither the pointer's, nor the
\* published one, nor a leased one, nor the one being built.
LEMMA ReapInv ==
  ASSUME PublicationInv,
         NEW S \in SUBSET Reapable, Reap(S),
         UNCHANGED <<graph, pointer, fresh, current, routes>>,
         \/ UNCHANGED <<op, stage>>
         \/ op' = op /\ stage = "await" /\ stage' = AfterAwait
  PROVE  PublicationInv'
<1>1. /\ retired' = retired \ S /\ S \subseteq retired
      /\ \A b \in S : ~Held(b)
  BY DEF Reap, Reapable
<1>2. /\ dir' = [b \in Bundles |-> IF b \in S THEN "none" ELSE dir[b]]
      /\ content' = [b \in Bundles |-> IF b \in S THEN 0 ELSE content[b]]
      /\ intact' = intact \ S
  BY DEF Reap, RemoveChildren
<1>3. UNCHANGED <<graph, pointer, fresh, current, lease, counted, pc>>
  BY DEF routes
<1>4. TypeOK' /\ StageInv'
  <2>1. stage' \in Stages /\ op' = op /\ StageInv'
    BY DEF PublicationInv, TypeOK, StageInv, AfterAwait, Stages, BuildStages
  <2>2. dir' \in [Bundles -> {"none", "tmp", "final"}] /\ content' \in [Bundles -> 0..MaxGraph]
    BY <1>2, BoundAssumption, SMTT(60) DEF PublicationInv, TypeOK
  <2> QED BY <1>1, <1>2, <1>3, <2>1, <2>2 DEF PublicationInv, TypeOK
<1>5. StartupInv' /\ LeaseInv'
  BY <1>1, <1>3 DEF PublicationInv, StageInv, StartupInv, LeaseInv, AfterAwait
<1>6. FreshInv'
  BY <1>1, <1>2, <1>3
  DEF PublicationInv, FreshInv, Building, BuildStages, AfterAwait
<1>7. CurrentInv'
  BY <1>1, <1>2, <1>3, BundleAssumption
  DEF PublicationInv, TypeOK, CurrentInv, BuildStages, AfterAwait
<1>8. RetiredInv' /\ PointerNamesCurrentGraph'
  BY <1>1, <1>2, <1>3, BundleAssumption
  DEF PublicationInv, TypeOK, RetiredInv, PointerNamesCurrentGraph
<1>9. LeasedBundleOnDisk'
  BY <1>1, <1>2, <1>3 DEF PublicationInv, LeasedBundleOnDisk, Held
<1> QED
  BY <1>4, <1>5, <1>6, <1>7, <1>8, <1>9 DEF PublicationInv

\* A failed build keeps the invariant for each of the three callers, whether
\* the pointer is left as it is or cleared.
LEMMA FailBuildInv ==
  ASSUME PublicationInv, stage \in BuildStages, FailBuild,
         graph' = graph, pointer' \in {NoBundle, pointer}
  PROVE  PublicationInv'
<1>1. op \in {"startup", "mutation", "rebuild"}
  BY DEF PublicationInv, TypeOK, StageInv, BuildStages
<1> USE BundleAssumption, BoundAssumption
    DEF PublicationInv, TypeOK, StageInv, StartupInv, FreshInv, Building,
        CurrentInv, LeaseInv, RetiredInv, PointerNamesCurrentGraph,
        LeasedBundleOnDisk, Held, BuildStages, Stages, disk
<1>2. CASE op = "startup"
  BY <1>2, SMTT(60) DEF FailBuild, ReleaseRoutes, Rebuilders
<1>3. CASE op = "mutation"
  <2>1. PICK S \in SUBSET {b \in retired : \A r \in Routes : lease[r] # b} :
           retired' = retired \ S /\ RemoveChildren(S)
    BY <1>3 DEF FailBuild
  <2>2. current' = NoBundle /\ counted' = {} /\ fresh' = NoBundle
    BY <1>3 DEF FailBuild
  <2>3. op' = "none" /\ stage' = "idle"
    BY <1>3 DEF FailBuild
  <2>4. /\ dir' = [b \in Bundles |-> IF b \in S THEN "none" ELSE dir[b]]
        /\ content' = [b \in Bundles |-> IF b \in S THEN 0 ELSE content[b]]
        /\ intact' = intact \ S
    BY <2>1 DEF RemoveChildren
  <2>5. /\ lease' = [r \in Routes |-> IF r \in Rebuilders THEN NoBundle ELSE lease[r]]
        /\ pc' = [r \in Routes |-> IF r \in Rebuilders THEN "idle" ELSE pc[r]]
    BY DEF FailBuild, ReleaseRoutes
  <2>6. dir' \in [Bundles -> {"none", "tmp", "final"}] /\ content' \in [Bundles -> 0..MaxGraph]
    BY <2>4, SMTT(60)
  <2>7. TypeOK' /\ StageInv' /\ StartupInv' /\ FreshInv' /\ CurrentInv'
    BY <2>1, <2>2, <2>3, <2>4, <2>5, <2>6
  <2>8. LeaseInv' /\ RetiredInv'
    BY <2>1, <2>4, <2>5
  <2>9. PointerNamesCurrentGraph'
    BY <2>1, <2>4
  <2>10. LeasedBundleOnDisk'
    BY <2>1, <2>2, <2>4, <2>5
  <2> QED BY <2>7, <2>8, <2>9, <2>10
<1>4. CASE op = "rebuild"
  BY <1>4, SMTT(60) DEF FailBuild, ReleaseRoutes, Rebuilders
<1> QED
  BY <1>1, <1>2, <1>3, <1>4

\* Opening the engine, its cleanups, and the reuse or refusal of the bundle that
\* the pointer names.
LEMMA StartupInvStep ==
  ASSUME PublicationInv, Open \/ StartupStep \/ PublishAtStartup
  PROVE  PublicationInv'
<1> USE BundleAssumption, BoundAssumption
    DEF PublicationInv, TypeOK, StageInv, StartupInv, FreshInv, Building,
        CurrentInv, LeaseInv, RetiredInv, PointerNamesCurrentGraph,
        LeasedBundleOnDisk, Held, BuildStages, Stages, disk, routes
<1>1. CASE Open
  BY <1>1 DEF Open
<1>2. CASE CleanupDone
  BY <1>2, SMTT(60) DEF CleanupDone
<1>3. CASE ReuseBundle
  BY <1>3 DEF ReuseBundle
<1>4. CASE RefuseBundle
  BY <1>4 DEF RefuseBundle
<1>5. ASSUME NEW b \in Bundles, CleanupChild(b) PROVE PublicationInv'
  BY <1>5, SMTT(60) DEF CleanupChild, Abandoned, RemoveChildren
<1>6. CASE PublishAtStartup
  BY <1>6 DEF PublishAtStartup
<1> QED
  BY <1>1, <1>2, <1>3, <1>4, <1>5, <1>6 DEF StartupStep

\* A build starts in a child that does not exist: nobody holds, names or waits
\* to remove it.
LEMMA CreateTemporaryInv ==
  ASSUME PublicationInv, CreateTemporary
  PROVE  PublicationInv'
<1>1. PICK b \in Bundles :
        dir[b] = "none" /\ dir' = [dir EXCEPT ![b] = "tmp"] /\ fresh' = b
  BY DEF CreateTemporary
<1>2. /\ stage = "create" /\ stage' = "compile"
      /\ UNCHANGED <<graph, pointer, content, intact, op, current, lease, counted, pc, retired>>
  BY DEF CreateTemporary, routes
<1>3. \A c \in Bundles : c # b => dir'[c] = dir[c]
  BY <1>1 DEF PublicationInv, TypeOK
<1>4. dir'[b] = "tmp"
  BY <1>1 DEF PublicationInv, TypeOK
<1>5. /\ b # current /\ b \notin retired /\ b # pointer
      /\ \A r \in Routes : lease[r] # b
  BY <1>1, BundleAssumption
  DEF PublicationInv, LeasedBundleOnDisk, Held, RetiredInv, PointerNamesCurrentGraph
<1>6. TypeOK' /\ StageInv'
  BY <1>1, <1>2 DEF PublicationInv, TypeOK, StageInv, Stages, BuildStages
<1>7. StartupInv' /\ CurrentInv' /\ LeaseInv'
  BY <1>2 DEF PublicationInv, StartupInv, CurrentInv, LeaseInv, BuildStages
<1>8. FreshInv'
  BY <1>1, <1>2, <1>4, <1>5 DEF FreshInv, Building, BuildStages
<1>9. RetiredInv' /\ PointerNamesCurrentGraph' /\ LeasedBundleOnDisk'
  BY <1>2, <1>3, <1>5
  DEF PublicationInv, TypeOK, RetiredInv, PointerNamesCurrentGraph, LeasedBundleOnDisk, Held
<1> QED
  BY <1>6, <1>7, <1>8, <1>9 DEF PublicationInv

\* The stages of a build, up to the commit of the pointer and the topology.
LEMMA BuildInvStep ==
  ASSUME PublicationInv,
         \/ CreateTemporary \/ CompileBundle \/ ValidateTemporary \/ RenameFinal
         \/ CommitPointer \/ SelectTopology
  PROVE  PublicationInv'
<1>1. CASE CreateTemporary
  BY <1>1, CreateTemporaryInv
<1> USE BundleAssumption, BoundAssumption
    DEF PublicationInv, TypeOK, StageInv, StartupInv, FreshInv, Building,
        CurrentInv, LeaseInv, RetiredInv, PointerNamesCurrentGraph,
        LeasedBundleOnDisk, Held, BuildStages, Stages, disk, routes
<1>2. CASE CompileBundle
  BY <1>2, SMTT(60) DEF CompileBundle
<1>3. CASE ValidateTemporary
  BY <1>3, SMTT(60) DEF ValidateTemporary
<1>4. CASE RenameFinal
  BY <1>4, SMTT(60) DEF RenameFinal
<1>5. CASE CommitPointer
  BY <1>5, SMTT(60) DEF CommitPointer
<1>6. CASE SelectTopology
  BY <1>6, SMTT(60) DEF SelectTopology
<1> QED
  BY <1>1, <1>2, <1>3, <1>4, <1>5, <1>6

\* A swap publishes the child it built, which is not retired, and retires the one
\* it replaces; what it removes is neither leased nor the pointer's.
LEMMA PublishInv ==
  ASSUME PublicationInv, Publish
  PROVE  PublicationInv'
<1>1. PICK S \in SUBSET Reapable,
           T \in SUBSET (Retiring \cap {b \in Bundles : \A r \in Routes : lease[r] # b}) :
        retired' = ((retired \ S) \cup Retiring) \ T /\ RemoveChildren(S \cup T)
  BY DEF Publish
<1>2. /\ stage = "swap" /\ op # "startup" /\ op' = "none" /\ stage' = "idle"
      /\ current' = fresh /\ counted' = {} /\ fresh' = NoBundle
      /\ graph' = graph /\ pointer' = pointer
      /\ ReleaseRoutes(Rebuilders)
  BY DEF Publish
<1>3. /\ fresh \in Bundles /\ fresh \notin retired /\ fresh # current
      /\ dir[fresh] = "final" /\ content[fresh] = graph /\ pointer = fresh
  BY <1>2 DEF PublicationInv, FreshInv, Building, BuildStages
<1>4. PICK R \in SUBSET Bundles :
        /\ RemoveChildren(R) /\ fresh \notin R
        /\ \A r \in Routes : lease[r] \notin R
        /\ retired' \cap R = {} /\ retired' \subseteq retired \cup Retiring
  <2>1. S \cup T \in SUBSET Bundles
    BY DEF Reapable, PublicationInv, TypeOK
  <2>2. fresh \notin S \cup T
    BY <1>3 DEF Reapable, Retiring
  <2>3. \A r \in Routes : lease[r] \notin S \cup T
    BY DEF Reapable, Held
  <2>4. retired' \cap (S \cup T) = {} /\ retired' \subseteq retired \cup Retiring
    BY <1>1 DEF Reapable, Retiring, Held
  <2> QED BY <1>1, <2>1, <2>2, <2>3, <2>4
<1>5. Retiring \subseteq Bundles /\ \A b \in Retiring : b = current /\ dir[b] = "final"
  BY DEF PublicationInv, TypeOK, LeasedBundleOnDisk, Held, Retiring
<1>6. /\ dir' = [b \in Bundles |-> IF b \in R THEN "none" ELSE dir[b]]
      /\ content' = [b \in Bundles |-> IF b \in R THEN 0 ELSE content[b]]
      /\ intact' = intact \ R
  BY <1>4 DEF RemoveChildren
<1>7. /\ lease' = [r \in Routes |-> IF r \in Rebuilders THEN NoBundle ELSE lease[r]]
      /\ pc' = [r \in Routes |-> IF r \in Rebuilders THEN "idle" ELSE pc[r]]
  BY <1>2 DEF ReleaseRoutes
<1>8. TypeOK'
  <2>1. dir' \in [Bundles -> {"none", "tmp", "final"}] /\ content' \in [Bundles -> 0..MaxGraph]
    BY <1>6, BoundAssumption, SMTT(60) DEF PublicationInv, TypeOK
  <2>2. /\ lease' \in [Routes -> Bundles \cup {NoBundle}]
        /\ pc' \in [Routes -> {"idle", "running", "repair", "rebuilding"}]
    BY <1>7 DEF PublicationInv, TypeOK
  <2>3. retired' \subseteq Bundles /\ intact' \subseteq Bundles
    BY <1>4, <1>5, <1>6 DEF PublicationInv, TypeOK
  <2> QED BY <1>2, <1>3, <2>1, <2>2, <2>3 DEF PublicationInv, TypeOK, Stages
<1>9. StageInv' /\ StartupInv' /\ FreshInv'
  BY <1>2 DEF StageInv, StartupInv, FreshInv, Building, BuildStages
<1>10. CurrentInv' /\ PointerNamesCurrentGraph'
  <2>1. fresh \notin retired' /\ dir'[fresh] = "final" /\ content'[fresh] = graph
    BY <1>3, <1>4, <1>5, <1>6
  <2> QED BY <1>2, <1>3, <2>1 DEF CurrentInv, PointerNamesCurrentGraph
<1>11. LeaseInv' /\ RetiredInv'
  BY <1>4, <1>5, <1>6, <1>7 DEF PublicationInv, TypeOK, LeaseInv, RetiredInv
<1>12. LeasedBundleOnDisk'
  BY <1>2, <1>3, <1>4, <1>6, <1>7, BundleAssumption, SMTT(60) DEF PublicationInv, LeasedBundleOnDisk, Held
<1> QED
  BY <1>8, <1>9, <1>10, <1>11, <1>12 DEF PublicationInv

\* A publisher that takes the lock, commits or skips its mutation, waits for
\* capacity or fails its build.
LEMMA PublisherInvStep ==
  ASSUME PublicationInv,
         \/ BeginMutation \/ BeginRebuild \/ CommitMutation \/ SkipMutation
         \/ AwaitCapacity \/ BuildError \/ RefuseTopology
  PROVE  PublicationInv'
<1>1. CASE AwaitCapacity
  <2>1. CASE current = NoBundle \/ counted = {}
    BY <1>1, <2>1, SMTT(60) DEF AwaitCapacity, AfterAwait,
        PublicationInv, TypeOK, StageInv, StartupInv, FreshInv, Building,
        CurrentInv, LeaseInv, RetiredInv, PointerNamesCurrentGraph,
        LeasedBundleOnDisk, Held, BuildStages, Stages, disk, routes
  <2>2. CASE ~(current = NoBundle \/ counted = {})
    <3>1. PICK S \in SUBSET Reapable :
             /\ Reap(S)
             /\ stage' = IF Capacity(retired \ S) THEN AfterAwait ELSE "await"
      BY <1>1, <2>2 DEF AwaitCapacity
    <3> QED
      BY <1>1, <3>1, ReapInv DEF AwaitCapacity
  <2> QED
    BY <2>1, <2>2
<1>2. CASE BuildError
  BY <1>2, FailBuildInv DEF BuildError
<1>3. CASE RefuseTopology
  BY <1>3, FailBuildInv DEF RefuseTopology, BuildStages
<1> USE BundleAssumption, BoundAssumption
    DEF PublicationInv, TypeOK, StageInv, StartupInv, FreshInv, Building,
        CurrentInv, LeaseInv, RetiredInv, PointerNamesCurrentGraph,
        LeasedBundleOnDisk, Held, BuildStages, Stages, disk, routes
<1>4. CASE CommitMutation
  BY <1>4, SMTT(60) DEF CommitMutation
<1>5. CASE SkipMutation
  BY <1>5 DEF SkipMutation
<1>6. CASE BeginMutation
  BY <1>6, SMTT(60) DEF BeginMutation, Unlocked
<1>7. CASE BeginRebuild
  BY <1>7 DEF BeginRebuild, Unlocked
<1> QED
  BY <1>1, <1>2, <1>3, <1>4, <1>5, <1>6, <1>7

\* A route that returns drops its lease and nothing else.
LEMMA ReturnInv ==
  ASSUME PublicationInv, NEW r \in Routes, ReleaseRoutes({r}), counted' = counted \ {r},
         UNCHANGED <<graph, pointer, disk, op, stage, fresh, current, retired>>
  PROVE  PublicationInv'
<1>1. /\ UNCHANGED <<graph, pointer, dir, content, intact, op, stage, fresh, current, retired>>
      /\ lease' = [q \in Routes |-> IF q \in {r} THEN NoBundle ELSE lease[q]]
      /\ pc' = [q \in Routes |-> IF q \in {r} THEN "idle" ELSE pc[q]]
  BY DEF disk, ReleaseRoutes
<1>2. TypeOK' /\ StageInv'
  BY <1>1 DEF PublicationInv, TypeOK, StageInv
<1>3. StartupInv' /\ LeaseInv'
  BY <1>1 DEF PublicationInv, TypeOK, StartupInv, LeaseInv
<1>4. FreshInv' /\ LeasedBundleOnDisk'
  BY <1>1, BundleAssumption
  DEF PublicationInv, FreshInv, Building, LeasedBundleOnDisk, Held
<1>5. CurrentInv' /\ RetiredInv' /\ PointerNamesCurrentGraph'
  BY <1>1 DEF PublicationInv, CurrentInv, RetiredInv, PointerNamesCurrentGraph
<1> QED
  BY <1>2, <1>3, <1>4, <1>5 DEF PublicationInv

\* The calls of a route: admission, return, and the error that asks for a
\* rebuild.
LEMMA RouteInvStep ==
  ASSUME PublicationInv, NEW r \in Routes,
         BeginRepair(r) \/ AdmitRoute(r) \/ FinishRoute(r) \/ ImageAccessError(r)
  PROVE  PublicationInv'
<1>1. CASE FinishRoute(r)
  BY <1>1, ReturnInv DEF FinishRoute
<1>2. ASSUME pc[r] = "running", pc' = [pc EXCEPT ![r] = "repair"],
             UNCHANGED <<lease, counted>>,
             UNCHANGED <<graph, pointer, disk, op, stage, fresh, current, retired>>
      PROVE  PublicationInv'
  BY <1>2, SMTT(60)
  DEF PublicationInv, TypeOK, StageInv, StartupInv, FreshInv, Building,
      CurrentInv, LeaseInv, RetiredInv, PointerNamesCurrentGraph,
      LeasedBundleOnDisk, Held, disk
<1>3. CASE ImageAccessError(r)
  BY <1>2, <1>3, ReturnInv DEF ImageAccessError
<1>4. CASE BeginRepair(r)
  BY <1>4, SMTT(60)
  DEF BeginRepair, Unlocked, PublicationInv, TypeOK, StageInv, StartupInv, FreshInv, Building,
      CurrentInv, LeaseInv, RetiredInv, PointerNamesCurrentGraph,
      LeasedBundleOnDisk, Held, BuildStages, Stages, disk
<1>5. CASE AdmitRoute(r)
  BY <1>5, BundleAssumption, SMTT(60)
  DEF AdmitRoute, Unlocked, PublicationInv, TypeOK, StageInv, StartupInv, FreshInv, Building,
      CurrentInv, LeaseInv, RetiredInv, PointerNamesCurrentGraph,
      LeasedBundleOnDisk, Held, BuildStages, disk
<1> QED
  BY <1>1, <1>3, <1>4, <1>5

\* A replaced CUDA image, damage on disk and a crash.
LEMMA EnvironmentInvStep ==
  ASSUME PublicationInv, ReplaceCudaImage \/ Crash \/ \E b \in Bundles : Damage(b)
  PROVE  PublicationInv'
<1>1. CASE ReplaceCudaImage
  BY <1>1, SMTT(60)
  DEF ReplaceCudaImage, PublicationInv, TypeOK, StageInv, StartupInv, FreshInv, Building,
      CurrentInv, LeaseInv, RetiredInv, PointerNamesCurrentGraph,
      LeasedBundleOnDisk, Held, disk
<1>2. CASE Crash
  <2>1. /\ op' = "down" /\ stage' = "idle" /\ fresh' = NoBundle /\ current' = NoBundle
        /\ counted' = {} /\ retired' = {}
        /\ lease' = [r \in Routes |-> NoBundle] /\ pc' = [r \in Routes |-> "idle"]
        /\ UNCHANGED <<graph, pointer, dir, content, intact>>
    BY <1>2 DEF Crash, ReleaseRoutes, disk
  <2>2. TypeOK' /\ StageInv' /\ StartupInv' /\ FreshInv'
    BY <2>1
    DEF PublicationInv, TypeOK, StageInv, StartupInv, FreshInv, Building, BuildStages, Stages
  <2>3. /\ CurrentInv' /\ LeaseInv' /\ RetiredInv' /\ PointerNamesCurrentGraph'
        /\ LeasedBundleOnDisk'
    BY <2>1, BundleAssumption
    DEF PublicationInv, CurrentInv, LeaseInv, RetiredInv, PointerNamesCurrentGraph,
        LeasedBundleOnDisk, Held
  <2> QED BY <2>2, <2>3 DEF PublicationInv
<1>3. CASE \E b \in Bundles : Damage(b)
  BY <1>3, SMTT(60)
  DEF Damage, PublicationInv, TypeOK, StageInv, StartupInv, FreshInv, Building,
      CurrentInv, LeaseInv, RetiredInv, PointerNamesCurrentGraph,
      LeasedBundleOnDisk, Held, routes
<1> QED
  BY <1>1, <1>2, <1>3

\* Every step of startup, of a publisher, of a route and of the environment
\* preserves the invariant.
LEMMA StepInv == PublicationInv /\ [Next]_vars => PublicationInv'
<1> SUFFICES ASSUME PublicationInv, [Next]_vars PROVE PublicationInv'
  OBVIOUS
<1>1. CASE HealthReap
  BY <1>1, ReapInv DEF HealthReap
<1>2. CASE UNCHANGED vars
  BY <1>2, SMTT(60) DEF vars, PublicationInv, TypeOK, StageInv, StartupInv, FreshInv, Building,
        CurrentInv, LeaseInv, RetiredInv, PointerNamesCurrentGraph,
        LeasedBundleOnDisk, Held
<1> QED
  BY <1>1, <1>2, StartupInvStep, BuildInvStep, PublisherInvStep, RouteInvStep,
     EnvironmentInvStep, PublishInv
  DEF Next, PublisherStep

-----------------------------------------------------------------------------
(* The theorems.                                                            *)

\* The inductive invariant holds in every reachable state.
THEOREM PublicationInvariant == Spec => []PublicationInv
  BY InitInv, StepInv, PTL DEF Spec

\* The state keeps its type: versions stay in range and every pointer, lease,
\* image and queue entry is a child of the routing-image root.
THEOREM TypeCorrect == Spec => []TypeOK
<1>1. PublicationInv => TypeOK
  BY DEF PublicationInv
<1> QED
  BY <1>1, PublicationInvariant, PTL

\* No crash, failed stage or mutation leaves the durable pointer of a catalog
\* naming a bundle of another graph, an unrenamed child or a retired one.
THEOREM PointerIsNeverStale == Spec => []PointerNamesCurrentGraph
<1>1. PublicationInv => PointerNamesCurrentGraph
  BY DEF PublicationInv
<1> QED
  BY <1>1, PublicationInvariant, PTL

\* Neither the reaper nor the startup cleanup removes a child in use.
THEOREM HeldBundlesStayOnDisk == Spec => []LeasedBundleOnDisk
<1>1. PublicationInv => LeasedBundleOnDisk
  BY DEF PublicationInv
<1> QED
  BY <1>1, PublicationInvariant, PTL

\* Whenever the lock is free, the published image is of the confirmed graph.
THEOREM RoutesStartCurrent == Spec => []PublishedImageIsCurrent
<1>1. PublicationInv => PublishedImageIsCurrent
  BY DEF PublicationInv, CurrentInv, PublishedImageIsCurrent, Unlocked
<1> QED
  BY <1>1, PublicationInvariant, PTL

\* A step that keeps q's lease rewrites nothing behind it.
KeepsLease(q) == lease'[q] = lease[q] /\ content'[lease[q]] = content[lease[q]]

\* A reap keeps the files of every leased child.
LEMMA ReapKeepsLeases ==
  ASSUME PublicationInv, AwaitCapacity \/ HealthReap,
         NEW q \in Routes, lease[q] # NoBundle
  PROVE  KeepsLease(q)
<1>1. lease' = lease
  BY DEF AwaitCapacity, HealthReap, routes
<1>2. content' = content \/ \E S \in SUBSET Reapable : Reap(S)
  BY DEF AwaitCapacity, HealthReap, disk
<1>3. ASSUME NEW S \in SUBSET Reapable, Reap(S)
      PROVE  content'[lease[q]] = content[lease[q]]
  <2>1. lease[q] \notin S /\ lease[q] \in Bundles
    BY DEF Reapable, Held, PublicationInv, TypeOK
  <2> QED BY <2>1, <1>3 DEF Reap, RemoveChildren
<1> QED BY <1>1, <1>2, <1>3 DEF KeepsLease

\* So do a publisher, which compiles into a child nobody leases, ...
LEMMA PublisherKeepsLeases ==
  ASSUME PublicationInv, Open \/ StartupStep \/ PublisherStep \/ BeginMutation \/ BeginRebuild,
         NEW q \in Routes, lease[q] # NoBundle, lease'[q] # NoBundle
  PROVE  KeepsLease(q)
<1> USE BundleAssumption DEF PublicationInv, TypeOK, disk, routes, KeepsLease
<1>1. CASE Open \/ CleanupDone \/ ReuseBundle \/ RefuseBundle
  BY <1>1 DEF Open, CleanupDone, ReuseBundle, RefuseBundle
<1>2. CASE CommitMutation \/ SkipMutation \/ CreateTemporary \/ ValidateTemporary
  BY <1>2 DEF CommitMutation, SkipMutation, CreateTemporary, ValidateTemporary
<1>3. CASE RenameFinal \/ CommitPointer \/ SelectTopology \/ PublishAtStartup
  BY <1>3 DEF RenameFinal, CommitPointer, SelectTopology, PublishAtStartup
<1>4. CASE BeginMutation \/ BeginRebuild
  BY <1>4 DEF BeginMutation, BeginRebuild
<1>5. CASE CompileBundle
  BY <1>5 DEF CompileBundle, FreshInv, Building, BuildStages
<1>6. CASE BuildError \/ RefuseTopology
  BY <1>6, SMTT(60) DEF BuildError, RefuseTopology, FailBuild, ReleaseRoutes, RemoveChildren
<1>7. CASE Publish
  BY <1>7, SMTT(60) DEF Publish, ReleaseRoutes, RemoveChildren, Reapable, Held
<1>8. ASSUME NEW b \in Bundles, CleanupChild(b) PROVE KeepsLease(q)
  BY <1>8 DEF CleanupChild, StageInv, StartupInv
<1> QED
  BY <1>1, <1>2, <1>3, <1>4, <1>5, <1>6, <1>7, <1>8, ReapKeepsLeases
  DEF PublisherStep, StartupStep

\* ... a route, which takes a lease only when it has none, ...
LEMMA RouteKeepsLeases ==
  ASSUME PublicationInv, NEW q \in Routes, lease[q] # NoBundle, lease'[q] # NoBundle,
         NEW r \in Routes,
         BeginRepair(r) \/ AdmitRoute(r) \/ FinishRoute(r) \/ ImageAccessError(r)
  PROVE  KeepsLease(q)
<1>1. content' = content /\ (q # r => lease'[q] = lease[q])
  BY DEF BeginRepair, AdmitRoute, FinishRoute, ImageAccessError, ReleaseRoutes,
     PublicationInv, TypeOK, disk
<1>2. lease'[r] # NoBundle /\ lease[r] # NoBundle => lease'[r] = lease[r]
  BY DEF BeginRepair, AdmitRoute, FinishRoute, ImageAccessError, ReleaseRoutes,
     PublicationInv, LeaseInv
<1> QED
  BY <1>1, <1>2 DEF KeepsLease

\* ... and the environment: a crash takes every lease away.
LEMMA EnvironmentKeepsLeases ==
  ASSUME PublicationInv, NEW q \in Routes, lease[q] # NoBundle, lease'[q] # NoBundle,
         Crash \/ ReplaceCudaImage \/ \E b \in Bundles : Damage(b)
  PROVE  KeepsLease(q)
<1>1. ~Crash
  BY DEF Crash, ReleaseRoutes
<1> QED
  BY <1>1 DEF ReplaceCudaImage, Damage, disk, routes, KeepsLease

\* Only an admission gives a route a lease and only its return takes it away;
\* in between, nothing writes the files behind it: a build writes a child that
\* nobody leases, and a reap removes one that nobody leases.
THEOREM LeasesAreImmutable == Spec => LeaseIsImmutable
<1>1. PublicationInv /\ [Next]_vars =>
        [\A r \in Routes :
           (lease[r] # NoBundle /\ lease'[r] # NoBundle) =>
             lease'[r] = lease[r] /\ content'[lease[r]] = content[lease[r]]]_vars
  <2>1. ASSUME PublicationInv, Next, NEW q \in Routes,
               lease[q] # NoBundle, lease'[q] # NoBundle
        PROVE  KeepsLease(q)
    BY <2>1, ReapKeepsLeases, PublisherKeepsLeases, RouteKeepsLeases,
       EnvironmentKeepsLeases DEF Next
  <2> QED
    BY <2>1 DEF vars, KeepsLease
<1> QED
  BY <1>1, PublicationInvariant, PTL DEF Spec, LeaseIsImmutable

\* Startup ends only when no child but the pointer's is left on disk.
THEOREM StartupIsClean == Spec => StartupRemovesAbandoned
<1>1. PublicationInv /\ [Next]_vars =>
        [(op = "startup" /\ op' = "none") =>
           \A b \in Bundles : dir'[b] = "none" \/ b = pointer']_vars
  <2> SUFFICES ASSUME PublicationInv, Next, op = "startup", op' = "none"
               PROVE  \A b \in Bundles : dir'[b] = "none" \/ b = pointer'
    BY DEF vars
  <2>1. stage \notin {"idle", "await", "mutate"}
    BY DEF PublicationInv, StageInv
  <2>2. ~Open /\ ~Crash /\ (StartupStep => CleanupDone)
    BY DEF Open, Crash, StartupStep, ReuseBundle, RefuseBundle, CleanupChild
  <2>3. /\ ~AwaitCapacity /\ ~CommitMutation /\ ~SkipMutation /\ ~CreateTemporary
        /\ ~CompileBundle /\ ~ValidateTemporary /\ ~RenameFinal
    BY <2>1 DEF AwaitCapacity, CommitMutation, SkipMutation, CreateTemporary,
       CompileBundle, ValidateTemporary, RenameFinal
  <2>4. /\ ~CommitPointer /\ ~SelectTopology /\ ~BuildError /\ ~RefuseTopology
        /\ ~PublishAtStartup /\ ~Publish
    BY <2>1 DEF CommitPointer, SelectTopology, BuildError, RefuseTopology, FailBuild,
       PublishAtStartup, Publish
  <2>5. ~BeginMutation /\ ~BeginRebuild /\ ~HealthReap /\ ~ReplaceCudaImage
    BY DEF BeginMutation, BeginRebuild, HealthReap, ReplaceCudaImage, Unlocked
  <2>6. ASSUME NEW b \in Bundles PROVE ~Damage(b)
    BY DEF Damage
  <2>7. ASSUME NEW r \in Routes
        PROVE  ~BeginRepair(r) /\ ~AdmitRoute(r) /\ ~FinishRoute(r) /\ ~ImageAccessError(r)
    BY DEF BeginRepair, AdmitRoute, FinishRoute, ImageAccessError, Unlocked
  <2>8. CleanupDone
    BY <2>2, <2>3, <2>4, <2>5, <2>6, <2>7 DEF Next, PublisherStep
  <2> QED
    BY <2>8 DEF CleanupDone, Abandoned, PublicationInv, TypeOK, disk
<1> QED
  BY <1>1, PublicationInvariant, PTL DEF Spec, StartupRemovesAbandoned

-----------------------------------------------------------------------------
(* Publication implements RoutingView.                                      *)

\* A step that changes neither the graph, the image, the leases nor the files
\* behind them is invisible to a caller.
LEMMA InvisibleStep ==
  ASSUME PublicationInv, graph' = graph, current' = current, lease' = lease,
         \A b \in Bundles : Held(b) => content'[b] = content[b]
  PROVE  UNCHANGED View!vars
<1>1. \A r \in Routes : Version(lease[r])' = Version(lease[r])
  BY DEF Version, Held, PublicationInv, TypeOK
<1>2. PublishedView' = PublishedView
  BY DEF PublishedView, Held, PublicationInv, TypeOK
<1> QED
  BY <1>1, <1>2 DEF View!vars

\* So is, or is a return of those routes, a step that also drops leases of S
\* and keeps the image.
LEMMA ReturningStep ==
  ASSUME PublicationInv, graph' = graph, current' = current,
         NEW S \in SUBSET Routes, ReleaseRoutes(S),
         \A b \in Bundles : Held(b) => content'[b] = content[b]
  PROVE  View!Publish \/ View!Withdraw
<1>1. \A r \in Routes :
        Version(lease[r])' = IF r \in S THEN NoBundle ELSE Version(lease[r])
  BY DEF ReleaseRoutes, Version, Held, PublicationInv, TypeOK
<1>2. View!Returned(S)
  BY <1>1 DEF View!Returned
<1>3. PublishedView' \in {graph, NoBundle}
  BY DEF PublishedView
<1> QED
  BY <1>2, <1>3 DEF View!Publish, View!Withdraw

\* A step of the publisher that neither commits, withdraws nor swaps the image,
\* and a reap, are invisible.
LEMMA QuietSteps ==
  ASSUME PublicationInv,
         \/ Open \/ CleanupDone \/ RefuseBundle \/ SkipMutation \/ CreateTemporary
         \/ ValidateTemporary \/ RenameFinal \/ CommitPointer \/ SelectTopology
         \/ BeginMutation \/ BeginRebuild \/ ReplaceCudaImage \/ UNCHANGED vars
         \/ \E r \in Routes : BeginRepair(r)
  PROVE  UNCHANGED View!vars
<1> DEFINE Quiet == UNCHANGED <<graph, current, lease, content>>
<1>1. ASSUME Open \/ CleanupDone \/ RefuseBundle \/ SkipMutation PROVE Quiet
  BY <1>1 DEF Open, CleanupDone, RefuseBundle, SkipMutation, disk, routes
<1>2. ASSUME CreateTemporary \/ ValidateTemporary \/ RenameFinal PROVE Quiet
  BY <1>2 DEF CreateTemporary, ValidateTemporary, RenameFinal, disk, routes
<1>3. ASSUME CommitPointer \/ SelectTopology \/ BeginMutation PROVE Quiet
  BY <1>3 DEF CommitPointer, SelectTopology, BeginMutation, disk, routes
<1>4. ASSUME BeginRebuild \/ ReplaceCudaImage \/ UNCHANGED vars PROVE Quiet
  BY <1>4 DEF BeginRebuild, ReplaceCudaImage, vars, disk, routes
<1>5. ASSUME NEW r \in Routes, BeginRepair(r) PROVE Quiet
  BY <1>5 DEF BeginRepair, disk
<1> HIDE DEF Quiet
<1>6. Quiet
  BY <1>1, <1>2, <1>3, <1>4, <1>5
<1>7. UNCHANGED <<graph, current, lease, content>>
  BY <1>6 DEF Quiet
<1> QED
  BY <1>7, InvisibleStep

\* Compiling writes a child that nobody holds.
LEMMA CompileIsInvisible ==
  ASSUME PublicationInv, CompileBundle
  PROVE  UNCHANGED View!vars
<1>1. /\ UNCHANGED <<graph, current, lease>>
      /\ content' = [content EXCEPT ![fresh] = graph]
  BY DEF CompileBundle, routes
<1>2. ~Held(fresh)
  BY DEF CompileBundle, PublicationInv, FreshInv, Building, BuildStages, Held
<1>3. \A b \in Bundles : Held(b) => content'[b] = content[b]
  BY <1>1, <1>2 DEF PublicationInv, TypeOK
<1> QED
  BY <1>1, <1>3, InvisibleStep

\* A reap removes children that nobody holds.
LEMMA ReapIsInvisible ==
  ASSUME PublicationInv, AwaitCapacity \/ HealthReap
  PROVE  UNCHANGED View!vars
<1>1. UNCHANGED <<graph, current, lease>>
  BY DEF AwaitCapacity, HealthReap, routes
<1>2. content' = content \/ \E S \in SUBSET Reapable : Reap(S)
  BY DEF AwaitCapacity, HealthReap, disk
<1>3. ASSUME NEW S \in SUBSET Reapable, Reap(S), NEW b \in Bundles, Held(b)
      PROVE  content'[b] = content[b]
  <2>1. b \notin S
    BY <1>3 DEF Reapable
  <2> QED BY <2>1, <1>3 DEF Reap, RemoveChildren
<1> QED
  BY <1>1, <1>2, <1>3, InvisibleStep

\* So does the cleanup of startup, and damage changes no version.
LEMMA CleanupIsInvisible ==
  ASSUME PublicationInv, NEW b \in Bundles, CleanupChild(b) \/ Damage(b)
  PROVE  UNCHANGED View!vars
<1>1. UNCHANGED <<graph, current, lease>>
  BY DEF CleanupChild, Damage, routes
<1>2. ASSUME CleanupChild(b) PROVE ~Held(b)
  BY <1>2, BundleAssumption
  DEF CleanupChild, Abandoned, Held, PublicationInv, StageInv, StartupInv,
      LeasedBundleOnDisk
<1>3. \A c \in Bundles : Held(c) => content'[c] = content[c]
  BY <1>2 DEF CleanupChild, Damage, RemoveChildren
<1> QED
  BY <1>1, <1>3, InvisibleStep

\* Startup publishes an image of the confirmed graph, reused or built.
LEMMA StartupPublishes ==
  ASSUME PublicationInv, ReuseBundle \/ PublishAtStartup
  PROVE  View!Publish
<1>1. UNCHANGED <<graph, lease, content>>
  BY DEF ReuseBundle, PublishAtStartup, disk, routes
<1>2. current' # NoBundle /\ content[current'] = graph
  BY BundleAssumption
  DEF ReuseBundle, PublishAtStartup, PublicationInv, PointerNamesCurrentGraph, FreshInv,
      Building, BuildStages
<1>3. PublishedView' = graph
  BY <1>1, <1>2 DEF PublishedView
<1>4. View!Returned({})
  BY <1>1 DEF View!Returned, Version
<1> QED
  BY <1>1, <1>3, <1>4 DEF View!Publish

\* A crash withdraws the image and every route.
LEMMA CrashWithdraws ==
  ASSUME PublicationInv, Crash
  PROVE  View!Withdraw
<1>1. PublishedView' = NoBundle
  BY DEF Crash, PublishedView
<1>2. View!Returned(Routes)
  BY DEF Crash, ReleaseRoutes, View!Returned, Version
<1> QED
  BY <1>1, <1>2 DEF Crash, View!Withdraw

\* A committed mutation withdraws the image in the same step.
LEMMA MutationCommits ==
  ASSUME PublicationInv, CommitMutation
  PROVE  View!Commit
<1>1. PublishedView' = NoBundle
  BY BundleAssumption, BoundAssumption, SMTT(60)
  DEF CommitMutation, PublishedView, disk, PublicationInv, CurrentInv, TypeOK, BuildStages
<1>2. UNCHANGED [r \in Routes |-> Version(lease[r])]
  BY DEF CommitMutation, Version, disk, routes
<1> QED
  BY <1>1, <1>2 DEF CommitMutation, View!Commit

\* A failed build leaves the image or withdraws it; its routes return.
LEMMA FailureReturns ==
  ASSUME PublicationInv, BuildError \/ RefuseTopology
  PROVE  View!Publish \/ View!Withdraw
<1>1. FailBuild /\ graph' = graph
  BY DEF BuildError, RefuseTopology
<1>2. Rebuilders \in SUBSET Routes
  BY DEF Rebuilders
<1>3. CASE op = "mutation"
  <2>1. PublishedView' = NoBundle
    BY <1>1, <1>3 DEF FailBuild, PublishedView
  <2>2. \A r \in Routes :
          Version(lease[r])' = IF r \in Rebuilders THEN NoBundle ELSE Version(lease[r])
    BY <1>1, <1>3, BundleAssumption, SMTT(60)
    DEF FailBuild, ReleaseRoutes, RemoveChildren, Version, PublicationInv, TypeOK
  <2>3. View!Returned(Rebuilders)
    BY <2>2 DEF View!Returned
  <2> QED
    BY <1>1, <1>2, <2>1, <2>3 DEF View!Withdraw
<1>4. CASE op # "mutation"
  <2>1. current' = current /\ ReleaseRoutes(Rebuilders) /\ content' = content
    BY <1>1, <1>4 DEF FailBuild, disk
  <2> QED
    BY <1>1, <1>2, <2>1, ReturningStep
<1> QED
  BY <1>3, <1>4

\* A swap publishes an image of the confirmed graph, and its routes return.
LEMMA SwapPublishes ==
  ASSUME PublicationInv, Publish
  PROVE  View!Publish
<1>1. PICK R \in SUBSET Bundles :
        /\ RemoveChildren(R)
        /\ \A r \in Routes : lease[r] \notin R
        /\ fresh \notin R
  <2>1. PICK S \in SUBSET Reapable,
             T \in SUBSET (Retiring \cap {b \in Bundles : \A r \in Routes : lease[r] # b}) :
          RemoveChildren(S \cup T)
    BY DEF Publish
  <2>2. S \cup T \in SUBSET Bundles
    BY DEF Reapable, PublicationInv, TypeOK
  <2>3. \A r \in Routes : lease[r] \notin S \cup T
    BY DEF Reapable, Held
  <2>4. fresh \notin S \cup T
    BY DEF Publish, Reapable, Retiring, PublicationInv, FreshInv, Building, BuildStages
  <2> QED BY <2>1, <2>2, <2>3, <2>4
<1>2. /\ graph' = graph /\ current' = fresh /\ ReleaseRoutes(Rebuilders)
      /\ fresh \in Bundles /\ content[fresh] = graph
  BY DEF Publish, PublicationInv, FreshInv, Building, BuildStages
<1>3. PublishedView' = graph
  BY <1>1, <1>2, BundleAssumption DEF PublishedView, RemoveChildren
<1>4. \A r \in Routes :
        Version(lease[r])' = IF r \in Rebuilders THEN NoBundle ELSE Version(lease[r])
  BY <1>1, <1>2 DEF ReleaseRoutes, RemoveChildren, Version, PublicationInv, TypeOK
<1>5. View!Returned(Rebuilders) /\ Rebuilders \in SUBSET Routes
  BY <1>4 DEF View!Returned, Rebuilders
<1> QED
  BY <1>2, <1>3, <1>5 DEF View!Publish

\* An admitted route starts on the confirmed graph.
LEMMA AdmissionStarts ==
  ASSUME PublicationInv, NEW r \in Routes, AdmitRoute(r)
  PROVE  View!Start(r)
<1>1. /\ UNCHANGED <<graph, current, content>> /\ current # NoBundle
      /\ lease' = [lease EXCEPT ![r] = current]
      /\ content[current] = graph /\ lease[r] = NoBundle
  BY DEF AdmitRoute, Unlocked, disk, PublicationInv, CurrentInv, LeaseInv
<1>2. PublishedView = graph /\ PublishedView' = PublishedView
  BY <1>1 DEF PublishedView
<1>3. \A q \in Routes : Version(lease[q])' = IF q = r THEN graph ELSE Version(lease[q])
  BY <1>1 DEF Version, PublicationInv, TypeOK
<1>4. [q \in Routes |-> Version(lease[q])]' =
        [[q \in Routes |-> Version(lease[q])] EXCEPT ![r] = graph]
  BY <1>3
<1> QED
  BY <1>1, <1>2, <1>4 DEF View!Start, Version

\* A route that returns gives up its version.
LEMMA RouteReturns ==
  ASSUME PublicationInv, NEW r \in Routes, FinishRoute(r) \/ ImageAccessError(r)
  PROVE  View!Publish \/ View!Withdraw \/ UNCHANGED View!vars
<1>1. UNCHANGED <<graph, current, content>> /\ (ReleaseRoutes({r}) \/ lease' = lease)
  BY DEF FinishRoute, ImageAccessError, disk
<1>2. {r} \in SUBSET Routes /\ \A b \in Bundles : Held(b) => content'[b] = content[b]
  BY <1>1
<1>3. CASE ReleaseRoutes({r})
  BY <1>1, <1>2, <1>3, ReturningStep
<1>4. CASE lease' = lease
  BY <1>1, <1>2, <1>4, InvisibleStep
<1> QED
  BY <1>1, <1>3, <1>4

\* The initial state is RoutingView's, and every step is one of its steps or
\* leaves what a caller sees unchanged.
THEOREM PublicationRefinesView == Spec => RefinesRoutingView
<1>1. Init => View!Init
  BY BundleAssumption, BoundAssumption DEF Init, View!Init, PublishedView, Version
<1>2. PublicationInv /\ [Next]_vars => [View!Next]_View!vars
  <2> SUFFICES ASSUME PublicationInv, [Next]_vars PROVE View!Next \/ UNCHANGED View!vars
    OBVIOUS
  <2>1. CASE UNCHANGED View!vars
    BY <2>1
  <2>2. CASE View!Publish \/ View!Withdraw \/ View!Commit \/ \E r \in Routes : View!Start(r)
    BY <2>2 DEF View!Next
  <2> QED
    BY <2>1, <2>2, QuietSteps, CompileIsInvisible, ReapIsInvisible, CleanupIsInvisible,
       StartupPublishes, CrashWithdraws, MutationCommits, FailureReturns, SwapPublishes,
       AdmissionStarts, RouteReturns
    DEF Next, PublisherStep, StartupStep
<1> QED
  BY <1>1, <1>2, PublicationInvariant, PTL DEF Spec, RefinesRoutingView, View!Spec

-----------------------------------------------------------------------------
(* The retirement limits.                                                   *)

\* A step that retires nothing, keeps the bundles that stay retired as they
\* are, and takes no lease on them.
Shrinks ==
    /\ retired' \subseteq retired
    /\ \A b \in retired' : content'[b] = content[b]
    /\ \A r \in Routes : lease'[r] \in retired' => lease'[r] = lease[r]

\* The first conjunct of LimitInv: every lease of the published image counts.
LeasesCounted == \A r \in Routes : lease[r] = current /\ current # NoBundle => r \in counted

\* The sizes of the bundles are natural numbers.
LEMMA BytesType ==
  ASSUME TypeOK, NEW b \in Bundles
  PROVE  BundleBytes[b] = GraphBytes[content[b]] /\ BundleBytes[b] \in Nat
  BY BoundAssumption DEF TypeOK, BundleBytes

\* What is retired stays finite when at most one more bundle is retired.
LEMMA FiniteKept ==
  ASSUME LimitInv, TypeOK, NEW c \in Bundles, retired' \subseteq retired \cup {c},
         \A b \in retired' : content'[b] = content[b]
  PROVE  IsFiniteSet(retired') /\ IsFiniteSet(Units(retired', BundleBytes'))
  <1>1. IsFiniteSet(retired) /\ IsFiniteSet(Units(retired, BundleBytes))
    BY DEF LimitInv
  <1>2. IsFiniteSet(retired \cup {c}) /\ IsFiniteSet(Units(retired \cup {c}, BundleBytes))
    <2>1. CASE c \in retired
      <3>1. retired \cup {c} = retired
        BY <2>1
      <3> QED BY <1>1, <3>1
    <2>2. CASE c \notin retired
      BY <1>1, <2>2, CountAdd, BytesType, WeightAdd
    <2> QED BY <2>1, <2>2
  <1>3. IsFiniteSet(retired') /\ IsFiniteSet(Units(retired', BundleBytes))
    BY <1>2, FS_Subset, WeightOfPart
  <1>4. \A b \in retired' : BundleBytes'[b] = BundleBytes[b]
    BY DEF BundleBytes, TypeOK
  <1>5. Units(retired', BundleBytes') = Units(retired', BundleBytes)
    BY <1>4, WeightKept
  <1> QED BY <1>3, <1>5

\* A part of what is within the limits is within them.
LEMMA PartWithinLimits ==
  ASSUME TypeOK, NEW S \in SUBSET Bundles, IsFiniteSet(S), IsFiniteSet(Units(S, BundleBytes)),
         Cardinality(S) <= MaxRetiredCount, Weight(S, BundleBytes) <= MaxRetiredBytes,
         PinnedRetired' \subseteq S, \A b \in PinnedRetired' : content'[b] = content[b]
  PROVE  RetirementLimitsHold'
  <1>1. Cardinality(PinnedRetired') <= MaxRetiredCount
    <2>1. /\ Cardinality(PinnedRetired') <= Cardinality(S)
          /\ Cardinality(PinnedRetired') \in Nat /\ Cardinality(S) \in Nat
      BY FS_Subset, FS_CardinalityType
    <2> QED BY <2>1, BoundAssumption, SMTT(60)
  <1>2. Weight(PinnedRetired', BundleBytes') <= MaxRetiredBytes
    <2>1. /\ IsFiniteSet(Units(PinnedRetired', BundleBytes))
          /\ Weight(PinnedRetired', BundleBytes) <= Weight(S, BundleBytes)
      BY WeightOfPart
    <2>2. \A b \in PinnedRetired' : BundleBytes'[b] = BundleBytes[b]
      BY DEF BundleBytes
    <2>3. Weight(PinnedRetired', BundleBytes') = Weight(PinnedRetired', BundleBytes)
      BY <2>2, WeightKept
    <2>4. Weight(PinnedRetired', BundleBytes) \in Nat /\ Weight(S, BundleBytes) \in Nat
      BY <2>1, WeightType
    <2> QED BY <2>1, <2>3, <2>4, BoundAssumption, SMTT(60)
  <1> QED BY <1>1, <1>2 DEF RetirementLimitsHold, RetiredBytes

\* What is pinned is within the limits, and stays there when no more is pinned.
LEMMA PinnedShrinks ==
  ASSUME LimitInv, TypeOK, PinnedRetired' \subseteq PinnedRetired,
         \A b \in PinnedRetired' : content'[b] = content[b]
  PROVE  RetirementLimitsHold'
  <1>1. PinnedRetired \subseteq retired /\ PinnedRetired \in SUBSET Bundles
    BY DEF PinnedRetired, TypeOK
  <1>2. IsFiniteSet(PinnedRetired) /\ IsFiniteSet(Units(PinnedRetired, BundleBytes))
    BY <1>1, FS_Subset, WeightOfPart DEF LimitInv
  <1>3. /\ Cardinality(PinnedRetired) <= MaxRetiredCount
        /\ Weight(PinnedRetired, BundleBytes) <= MaxRetiredBytes
    BY DEF LimitInv, RetirementLimitsHold, RetiredBytes
  <1> QED BY <1>1, <1>2, <1>3, PartWithinLimits

\* A step that retires nothing keeps the limits.
LEMMA ShrinkKeepsLimits ==
  ASSUME LimitInv, TypeOK, Shrinks, LeasesCounted'
  PROVE  LimitInv'
  <1>1. PinnedRetired' \subseteq PinnedRetired /\ \A b \in PinnedRetired' : content'[b] = content[b]
    BY DEF Shrinks, PinnedRetired
  <1>2. IsFiniteSet(retired') /\ IsFiniteSet(Units(retired', BundleBytes'))
    <2>1. CASE retired' = {}
      BY <2>1, CountEmpty, WeightEmpty
    <2>2. CASE retired' # {}
      <3>1. PICK c \in Bundles : c \in retired'
        BY <2>2 DEF Shrinks, TypeOK
      <3> QED BY <3>1, FiniteKept DEF Shrinks
    <2> QED BY <2>1, <2>2
  <1> QED BY <1>1, <1>2, PinnedShrinks DEF LimitInv, LeasesCounted

\* Steps that neither retire, nor lease, nor publish, nor rewrite a bundle.
LEMMA IdleSteps ==
  ASSUME TypeOK, LeasesCounted, UNCHANGED <<content, current, lease, counted, retired>>
  PROVE  Shrinks /\ LeasesCounted'
  BY DEF Shrinks, LeasesCounted

\* The steps of startup and of a build: while the engine opens nothing is leased
\* or retired, and a child being compiled is not retired.
LEMMA StartupAndBuildSteps ==
  ASSUME PublicationInv, LeasesCounted,
         \/ Open \/ StartupStep \/ PublishAtStartup
         \/ CreateTemporary \/ CompileBundle \/ ValidateTemporary \/ RenameFinal
         \/ CommitPointer \/ SelectTopology
  PROVE  Shrinks /\ LeasesCounted'
  <1> USE DEF disk, routes
  <1>0. TypeOK
    BY DEF PublicationInv
  <1>1. CASE Open
    BY <1>0, <1>1, IdleSteps DEF Open
  <1>2. CASE CleanupDone
    BY <1>0, <1>2, IdleSteps DEF CleanupDone
  <1>3. CASE RefuseBundle
    BY <1>0, <1>3, IdleSteps DEF RefuseBundle
  <1>4. ASSUME NEW b \in Bundles, CleanupChild(b) PROVE Shrinks /\ LeasesCounted'
    <2>1. retired = {} /\ UNCHANGED <<current, lease, counted, retired>>
      BY <1>4 DEF CleanupChild, PublicationInv, StageInv, StartupInv
    <2> QED BY <2>1 DEF Shrinks, LeasesCounted
  <1>5. CASE ReuseBundle
    <2>1. /\ retired = {} /\ \A r \in Routes : lease[r] = NoBundle
          /\ UNCHANGED <<lease, retired>>
      BY <1>5 DEF ReuseBundle, PublicationInv, StageInv, StartupInv
    <2> QED BY <2>1 DEF Shrinks, LeasesCounted
  <1>6. CASE PublishAtStartup
    <2>1. /\ retired = {} /\ \A r \in Routes : lease[r] = NoBundle
          /\ UNCHANGED <<lease, retired>>
      BY <1>6 DEF PublishAtStartup, PublicationInv, StartupInv
    <2> QED BY <2>1 DEF Shrinks, LeasesCounted
  <1>7. CASE CreateTemporary
    BY <1>0, <1>7, IdleSteps DEF CreateTemporary
  <1>8. CASE CompileBundle
    <2>1. fresh \notin retired
      BY <1>8 DEF CompileBundle, PublicationInv, FreshInv, Building, BuildStages
    <2>2. UNCHANGED <<current, lease, counted, retired>> /\ content' = [content EXCEPT ![fresh] = graph]
      BY <1>8 DEF CompileBundle
    <2> QED BY <1>0, <2>1, <2>2 DEF Shrinks, LeasesCounted, TypeOK
  <1>9. CASE ValidateTemporary
    BY <1>0, <1>9, IdleSteps DEF ValidateTemporary
  <1>10. CASE RenameFinal
    BY <1>0, <1>10, IdleSteps DEF RenameFinal
  <1>11. CASE CommitPointer
    BY <1>0, <1>11, IdleSteps DEF CommitPointer
  <1>12. CASE SelectTopology
    BY <1>0, <1>12, IdleSteps DEF SelectTopology
  <1> QED
    BY <1>1, <1>2, <1>3, <1>4, <1>5, <1>6, <1>7, <1>8, <1>9, <1>10, <1>11, <1>12
    DEF StartupStep

\* A reap removes retired bundles and leaves the others as they are.
LEMMA ReapShrinks ==
  ASSUME TypeOK, LeasesCounted, NEW S \in SUBSET retired,
         retired' = retired \ S, RemoveChildren(S),
         UNCHANGED <<current, lease, counted>>
  PROVE  Shrinks /\ LeasesCounted'
  <1>1. \A b \in retired' : b \in Bundles /\ b \notin S
    BY DEF TypeOK
  <1>2. \A b \in retired' : content'[b] = content[b]
    BY <1>1 DEF RemoveChildren
  <1> QED BY <1>2 DEF Shrinks, LeasesCounted

\* A failed build retires nothing: a mutation withdraws the image and reaps, the
\* other callers keep the image and drop the leases of the routes they return to.
LEMMA FailBuildShrinks ==
  ASSUME PublicationInv, LeasesCounted, FailBuild
  PROVE  Shrinks /\ LeasesCounted'
  <1>1. lease' = [r \in Routes |-> IF r \in Rebuilders THEN NoBundle ELSE lease[r]]
    BY DEF FailBuild, ReleaseRoutes
  <1>2. \A r \in Routes : lease'[r] \in {NoBundle, lease[r]}
    BY <1>1
  <1>3. retired \subseteq Bundles /\ NoBundle \notin Bundles
    BY BundleAssumption DEF PublicationInv, TypeOK
  <1>4. CASE op = "mutation"
    <2>1. PICK S \in SUBSET {b \in retired : \A r \in Routes : lease[r] # b} :
             retired' = retired \ S /\ RemoveChildren(S)
      BY <1>4 DEF FailBuild
    <2>2. current' = NoBundle
      BY <1>4 DEF FailBuild
    <2>3. \A b \in retired' : content'[b] = content[b]
      BY <1>3, <2>1 DEF RemoveChildren
    <2> QED BY <1>2, <1>3, <2>1, <2>2, <2>3 DEF Shrinks, LeasesCounted
  <1>5. CASE op # "mutation"
    <2>1. UNCHANGED <<current, content, retired>> /\ counted' = counted \ Rebuilders
      BY <1>5 DEF FailBuild, disk
    <2>2. \A r \in Routes : lease'[r] # NoBundle => lease'[r] = lease[r] /\ r \notin Rebuilders
      BY <1>1
    <2> QED BY <1>2, <1>3, <2>1, <2>2 DEF Shrinks, LeasesCounted
  <1> QED BY <1>4, <1>5

\* A publisher that takes the lock, commits or skips its mutation, waits for
\* capacity or fails its build retires nothing.
LEMMA PublisherSteps ==
  ASSUME PublicationInv, LeasesCounted,
         \/ BeginMutation \/ BeginRebuild \/ CommitMutation \/ SkipMutation
         \/ AwaitCapacity \/ BuildError \/ RefuseTopology \/ HealthReap
  PROVE  Shrinks /\ LeasesCounted'
  <1> USE DEF disk, routes
  <1>0. TypeOK
    BY DEF PublicationInv
  <1>1. CASE BeginMutation
    BY <1>0, <1>1, IdleSteps DEF BeginMutation
  <1>2. CASE BeginRebuild
    BY <1>0, <1>2, IdleSteps DEF BeginRebuild
  <1>3. CASE CommitMutation
    BY <1>0, <1>3, IdleSteps DEF CommitMutation
  <1>4. CASE SkipMutation
    BY <1>0, <1>4, IdleSteps DEF SkipMutation
  <1>5. CASE AwaitCapacity
    <2>1. UNCHANGED <<current, lease, counted>>
      BY <1>5 DEF AwaitCapacity
    <2>2. CASE current = NoBundle \/ counted = {}
      BY <1>0, <1>5, <2>1, <2>2, IdleSteps DEF AwaitCapacity
    <2>3. CASE ~(current = NoBundle \/ counted = {})
      <3>1. PICK S \in SUBSET Reapable : Reap(S)
        BY <1>5, <2>3 DEF AwaitCapacity
      <3> QED BY <1>0, <2>1, <3>1, ReapShrinks DEF Reap, Reapable
    <2> QED BY <2>2, <2>3
  <1>6. CASE BuildError
    BY <1>6, FailBuildShrinks DEF BuildError
  <1>7. CASE RefuseTopology
    BY <1>7, FailBuildShrinks DEF RefuseTopology
  <1>8. CASE HealthReap
    <2>1. UNCHANGED <<current, lease, counted>>
      BY <1>8 DEF HealthReap
    <2>2. PICK S \in SUBSET Reapable : Reap(S)
      BY <1>8 DEF HealthReap
    <2> QED BY <1>0, <2>1, <2>2, ReapShrinks DEF Reap, Reapable
  <1> QED BY <1>1, <1>2, <1>3, <1>4, <1>5, <1>6, <1>7, <1>8

\* A route leases the published bundle, which is not retired, and is counted;
\* a route that returns drops its lease and its count together.
LEMMA RouteSteps ==
  ASSUME PublicationInv, LeasesCounted, NEW r \in Routes,
         BeginRepair(r) \/ AdmitRoute(r) \/ FinishRoute(r) \/ ImageAccessError(r)
  PROVE  Shrinks /\ LeasesCounted'
  <1> USE DEF disk, routes
  <1>0. TypeOK /\ retired \subseteq Bundles /\ NoBundle \notin Bundles
    BY BundleAssumption DEF PublicationInv, TypeOK
  <1>1. CASE BeginRepair(r)
    BY <1>0, <1>1, IdleSteps DEF BeginRepair
  <1>2. CASE AdmitRoute(r)
    <2>1. current # NoBundle /\ current \notin retired
      BY <1>2 DEF AdmitRoute, PublicationInv, CurrentInv
    <2>2. /\ UNCHANGED <<content, current, retired>> /\ counted' = counted \cup {r}
          /\ lease' = [lease EXCEPT ![r] = current]
      BY <1>2 DEF AdmitRoute
    <2>3. lease'[r] = current /\ \A q \in Routes : q # r => lease'[q] = lease[q]
      BY <1>0, <2>2 DEF TypeOK
    <2>4. lease'[r] \notin retired'
      <3>1. retired' = retired
        BY <2>2
      <3> QED BY <2>1, <2>3, <3>1
    <2>5. \A q \in Routes : lease'[q] \in retired' => lease'[q] = lease[q]
      BY <2>3, <2>4
    <2> QED BY <2>2, <2>3, <2>5 DEF Shrinks, LeasesCounted
  <1>3. ASSUME ReleaseRoutes({r}), counted' = counted \ {r},
               UNCHANGED <<content, current, retired>>
        PROVE  Shrinks /\ LeasesCounted'
    <2>1. lease'[r] = NoBundle /\ \A q \in Routes : q # r => lease'[q] = lease[q]
      BY <1>3 DEF ReleaseRoutes
    <2> QED BY <1>0, <1>3, <2>1 DEF Shrinks, LeasesCounted
  <1>4. CASE FinishRoute(r)
    BY <1>3, <1>4 DEF FinishRoute
  <1>5. CASE ImageAccessError(r)
    BY <1>0, <1>3, <1>5, IdleSteps DEF ImageAccessError
  <1> QED BY <1>1, <1>2, <1>4, <1>5

\* A crash drops every lease and forgets what was retired; damage on disk
\* changes neither.
LEMMA EnvironmentSteps ==
  ASSUME PublicationInv, LeasesCounted, Crash \/ (\E b \in Bundles : Damage(b)) \/ UNCHANGED vars
  PROVE  Shrinks /\ LeasesCounted'
  <1> USE DEF disk, routes
  <1>0. TypeOK
    BY DEF PublicationInv
  <1>1. CASE Crash
    <2>1. retired' = {} /\ current' = NoBundle
      BY <1>1 DEF Crash
    <2> QED BY <2>1 DEF Shrinks, LeasesCounted
  <1>2. ASSUME NEW b \in Bundles, Damage(b) PROVE Shrinks /\ LeasesCounted'
    BY <1>0, <1>2, IdleSteps DEF Damage
  <1>3. CASE UNCHANGED vars
    BY <1>0, <1>3, IdleSteps DEF vars
  <1> QED BY <1>1, <1>2, <1>3

\* A swap queues the replaced bundle.  When its image is leased there was room
\* for it; when it is not, no route pins the bundle.
LEMMA PublishKeepsLimits ==
  ASSUME PublicationInv, LimitInv, Publish
  PROVE  LimitInv'
  <1>0. TypeOK /\ retired \subseteq Bundles /\ NoBundle \notin Bundles
    BY BundleAssumption DEF PublicationInv, TypeOK
  <1>1. PICK S \in SUBSET Reapable,
             T \in SUBSET (Retiring \cap {b \in Bundles : \A r \in Routes : lease[r] # b}) :
          /\ (current # NoBundle /\ counted # {}) => Capacity(retired \ S)
          /\ retired' = ((retired \ S) \cup Retiring) \ T
          /\ RemoveChildren(S \cup T)
    BY DEF Publish
  <1>2. /\ fresh \in Bundles /\ \A r \in Routes : lease[r] # fresh
        /\ current' = fresh
        /\ lease' = [r \in Routes |-> IF r \in Rebuilders THEN NoBundle ELSE lease[r]]
    BY DEF Publish, ReleaseRoutes, PublicationInv, FreshInv, Building, BuildStages
  <1>3. \A r \in Routes : lease'[r] \in {NoBundle, lease[r]}
    BY <1>2
  <1>4. LeasesCounted'
    BY <1>2, <1>3 DEF LeasesCounted
  <1>5. current # NoBundle => current \in Bundles /\ current \notin retired
    BY DEF PublicationInv, TypeOK, CurrentInv
  <1>6. \A b \in retired' : b \in Bundles /\ content'[b] = content[b]
    <2>1. \A b \in retired' : b \in Bundles /\ b \notin S \cup T
      BY <1>0, <1>1, <1>5 DEF Retiring, Reapable
    <2> QED BY <1>1, <2>1 DEF RemoveChildren
  <1>7. PinnedRetired' \subseteq retired' /\ \A b \in PinnedRetired' : content'[b] = content[b]
    BY <1>6 DEF PinnedRetired
  <1>8. CASE current = NoBundle \/ counted = {}
    <2>1. \A b \in Bundles : b = current => \A r \in Routes : lease[r] # b
      BY <1>0, <1>8 DEF LimitInv
    <2>2. PinnedRetired' \subseteq PinnedRetired
      <3>1. SUFFICES ASSUME NEW b \in retired', NEW r \in Routes, lease'[r] = b
                     PROVE  b \in retired /\ lease[r] = b
        BY DEF PinnedRetired
      <3>2. lease[r] = b /\ b # current
        BY <1>0, <1>3, <1>6, <2>1, <3>1
      <3> QED BY <1>1, <3>2 DEF Retiring
    <2>3. RetirementLimitsHold'
      BY <1>0, <1>7, <2>2, PinnedShrinks
    <2>4. IsFiniteSet(retired') /\ IsFiniteSet(Units(retired', BundleBytes'))
      <3>1. CASE current = NoBundle
        <4>1. retired' \subseteq retired \cup {fresh}
          BY <1>1, <3>1 DEF Retiring
        <4> QED BY <1>0, <1>2, <1>6, <4>1, FiniteKept
      <3>2. CASE current # NoBundle
        <4>1. retired' \subseteq retired \cup {current}
          BY <1>1, <3>2 DEF Retiring
        <4> QED BY <1>0, <1>5, <1>6, <3>2, <4>1, FiniteKept
      <3> QED BY <3>1, <3>2
    <2> QED BY <1>4, <2>3, <2>4 DEF LimitInv, LeasesCounted
  <1>9. CASE current # NoBundle /\ counted # {}
    <2> DEFINE R == retired \ S
    <2>1. Cardinality(R) < MaxRetiredCount /\ Weight(R, BundleBytes) + BundleBytes[current] <= MaxRetiredBytes
      BY <1>0, <1>1, <1>5, <1>9, BytesType DEF Capacity, RetiredBytes
    <2>2. /\ R \in SUBSET Bundles /\ current \in Bundles /\ current \notin R
          /\ BundleBytes[current] \in Nat
      BY <1>0, <1>5, <1>9, BytesType
    <2>3. IsFiniteSet(R) /\ IsFiniteSet(Units(R, BundleBytes))
      BY FS_Subset, WeightOfPart DEF LimitInv
    <2>4. /\ IsFiniteSet(R \cup {current}) /\ Cardinality(R \cup {current}) = Cardinality(R) + 1
          /\ Cardinality(R) \in Nat
      BY <2>2, <2>3, CountAdd, CountType
    <2>5. /\ IsFiniteSet(Units(R \cup {current}, BundleBytes))
          /\ Weight(R \cup {current}, BundleBytes) = Weight(R, BundleBytes) + BundleBytes[current]
      BY <2>2, <2>3, WeightAdd
    <2>6. /\ Cardinality(R \cup {current}) <= MaxRetiredCount
          /\ Weight(R \cup {current}, BundleBytes) <= MaxRetiredBytes
      BY <2>1, <2>4, <2>5, BoundAssumption, SMTT(60)
    <2>7. retired' \subseteq R \cup {current} /\ retired' \subseteq retired \cup {current}
      BY <1>1, <1>9 DEF Retiring
    <2>8. PinnedRetired' \subseteq R \cup {current} /\ R \cup {current} \in SUBSET Bundles
      BY <1>7, <2>2, <2>7
    <2>9. RetirementLimitsHold'
      BY <1>0, <1>7, <2>4, <2>5, <2>6, <2>8, PartWithinLimits
    <2>10. IsFiniteSet(retired') /\ IsFiniteSet(Units(retired', BundleBytes'))
      BY <1>0, <1>6, <2>2, <2>7, FiniteKept
    <2> QED BY <1>4, <2>9, <2>10 DEF LimitInv, LeasesCounted
  <1> QED BY <1>8, <1>9

\* Nothing is leased or retired before the engine first opens.
LEMMA InitLimits == Init => LimitInv
  <1>1. SUFFICES ASSUME Init PROVE LimitInv
    OBVIOUS
  <1>2. retired = {} /\ current = NoBundle /\ PinnedRetired = {}
    BY <1>1 DEF Init, PinnedRetired
  <1>3. /\ IsFiniteSet({}) /\ Cardinality({}) = 0
        /\ IsFiniteSet(Units({}, BundleBytes)) /\ Weight({}, BundleBytes) = 0
    BY CountEmpty, WeightEmpty
  <1>4. 0 <= MaxRetiredCount /\ 0 <= MaxRetiredBytes
    BY BoundAssumption, SMTT(60)
  <1>5. RetirementLimitsHold
    BY <1>2, <1>3, <1>4 DEF RetirementLimitsHold, RetiredBytes
  <1> QED BY <1>2, <1>3, <1>5 DEF LimitInv

\* Every step of an engine without CUDA keeps the limits.
LEMMA StepLimits ==
  ASSUME PublicationInv, LimitInv, [Next]_vars, ~CudaEnabled
  PROVE  LimitInv'
  <1>1. TypeOK /\ LeasesCounted
    BY DEF PublicationInv, LimitInv, LeasesCounted
  <1>2. CASE Publish
    BY <1>2, PublishKeepsLimits
  <1>3. ASSUME ~Publish PROVE Shrinks /\ LeasesCounted'
    BY <1>1, <1>3, StartupAndBuildSteps, PublisherSteps, RouteSteps, EnvironmentSteps
    DEF Next, PublisherStep, ReplaceCudaImage
  <1> QED BY <1>1, <1>2, <1>3, ShrinkKeepsLimits

\* The retirement limits hold for every number of bundles, routes and versions:
\* what retire_available_state queues after capacity_available never lets leases
\* pin more retired bundles or bytes than configured.  ReplaceCudaImage is the one
\* step that breaks this, since it makes leases of the same bundle uncounted.
THEOREM RetirementLimits == ~CudaEnabled => (Spec => []RetirementLimitsHold)
  <1>1. SUFFICES ASSUME ~CudaEnabled PROVE Spec => []RetirementLimitsHold
    OBVIOUS
  <1>2. PublicationInv /\ LimitInv /\ [Next]_vars => LimitInv'
    BY <1>1, StepLimits
  <1>3. LimitInv => RetirementLimitsHold
    BY DEF LimitInv
  <1> QED BY <1>2, <1>3, InitLimits, PublicationInvariant, PTL DEF Spec
=============================================================================
