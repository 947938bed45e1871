---------------------------- MODULE Publication ----------------------------
(***************************************************************************)
(* Publication of routing bundles by GraphEngine: the confirmed graph, the *)
(* durable pointer to the active bundle, the bundle directories on disk,   *)
(* the published execution image, the leases of running routes and the     *)
(* queue of retired bundles.                                               *)
(*                                                                         *)
(* One publisher exists at a time: startup runs alone, and a mutation or a *)
(* rebuild holds the write lock of `routing` from begin to end.  Its steps *)
(* are the stages between which the process can die or a stage can fail.   *)
(* Routes take the read lock only to clone the image, then run unlocked.   *)
(***************************************************************************)
EXTENDS Naturals, FiniteSets, Weights

CONSTANTS
    Bundles,          \* child names of the routing-image root
    NoBundle,         \* no pointer, no image, no lease
    Routes,           \* concurrent route calls
    MaxGraph,         \* bound: confirmed mutations explored
    GraphBytes,       \* total_bytes of the bundle of each graph version
    MaxRetiredCount,  \* maximum_retired_bundle_count
    MaxRetiredBytes,  \* maximum_retired_bundle_bytes
    MaxMaintenance,   \* maximum_maintenance_workers
    CudaEnabled       \* config.cuda.enabled

ASSUME BundleAssumption == NoBundle \notin Bundles
ASSUME BoundAssumption ==
    /\ MaxGraph \in Nat
    /\ GraphBytes \in [0..MaxGraph -> Nat]
    /\ MaxRetiredCount \in Nat \ {0}
    /\ MaxRetiredBytes \in Nat \ {0}
    /\ MaxMaintenance \in Nat \ {0}
    /\ CudaEnabled \in BOOLEAN

VARIABLES
    graph,     \* durable: version of the confirmed graph
    pointer,   \* durable: META_ACTIVE_ROUTING_IMAGE
    dir,       \* disk: each child is absent, a .tmp-* or a bundle-* directory
    content,   \* disk: the graph version the child's files were compiled from
    intact,    \* disk: children whose files are complete and pass checksums
    op,        \* who publishes: "down", "startup", "none", "mutation", "rebuild"
    stage,     \* how far that publisher has come
    fresh,     \* the child it is building
    current,   \* bundle of the published execution image
    lease,     \* the bundle each running route leases
    counted,   \* routes whose lease is on the published image Arc itself
    pc,        \* "idle", "running", "repair", "rebuilding"
    retired    \* RetirementManager.bundles

disk == <<dir, content, intact>>
routes == <<lease, counted, pc>>
vars == <<graph, pointer, dir, content, intact, op, stage, fresh,
          current, lease, counted, pc, retired>>

BuildStages == {"create", "compile", "validate", "rename", "commit", "select", "swap"}
Stages == BuildStages \cup {"idle", "cleanup1", "probe", "cleanup2", "await", "mutate"}

Running == op \notin {"down", "startup"}

\* Every Arc<RoutingBundle> outside the retirement queue keeps its child.
Held(b) == b = current \/ \E r \in Routes : lease[r] = b

\* Read-lock holders are excluded while a publisher holds the write lock.
Unlocked == op = "none"

MaintenanceActive ==
    Cardinality({r \in Routes : pc[r] \in {"repair", "rebuilding"}})
      + (IF op = "rebuild" /\ (\A r \in Routes : pc[r] # "rebuilding") THEN 1 ELSE 0)

\* total_bytes of the bundle in each child.
BundleBytes == [b \in Bundles |-> GraphBytes[content[b]]]

RetiredBytes(S) == Weight(S, BundleBytes)

\* Mutant: the count limit admits one retired bundle too many.
CapacityOffByOne(S) ==
    /\ Cardinality(S) <= MaxRetiredCount
    /\ RetiredBytes(S) + GraphBytes[content[current]] <= MaxRetiredBytes

\* RetirementManager::capacity_available, after its reap left S retired.
Capacity(S) ==
    /\ Cardinality(S) < MaxRetiredCount
    /\ RetiredBytes(S) + GraphBytes[content[current]] <= MaxRetiredBytes

RemoveChildren(S) ==
    /\ dir' = [b \in Bundles |-> IF b \in S THEN "none" ELSE dir[b]]
    /\ content' = [b \in Bundles |-> IF b \in S THEN 0 ELSE content[b]]
    /\ intact' = intact \ S

\* Mutant: the reaper ignores live leases.
ReapLeased == retired

\* RetirementManager::reap removes a child once its Weak is dead; each
\* remove_dir_all may fail, which retains the entry for a later reap.
Reapable == {b \in retired : ~Held(b)}

Reap(S) ==
    /\ S \subseteq Reapable
    /\ retired' = retired \ S
    /\ RemoveChildren(S)

\* The route that called rebuild_routing_image returns its error when the
\* rebuild is over, and with it drops its lease.
Rebuilders == {r \in Routes : pc[r] = "rebuilding"}

ReleaseRoutes(S) ==
    /\ lease' = [r \in Routes |-> IF r \in S THEN NoBundle ELSE lease[r]]
    /\ pc' = [r \in Routes |-> IF r \in S THEN "idle" ELSE pc[r]]

Init ==
    /\ graph = 0
    /\ pointer = NoBundle
    /\ dir = [b \in Bundles |-> "none"]
    /\ content = [b \in Bundles |-> 0]
    /\ intact = {}
    /\ op = "down"
    /\ stage = "idle"
    /\ fresh = NoBundle
    /\ current = NoBundle
    /\ lease = [r \in Routes |-> NoBundle]
    /\ counted = {}
    /\ pc = [r \in Routes |-> "idle"]
    /\ retired = {}

-----------------------------------------------------------------------------
(* Startup: GraphEngine::open and initial_routing_state.                    *)

Open ==
    /\ op = "down"
    /\ op' = "startup"
    /\ stage' = "cleanup1"
    /\ UNCHANGED <<graph, pointer, disk, fresh, current, routes, retired>>

\* Mutant: startup cleanup removes temporary children only.
AbandonedTemporaries(b) == dir[b] = "tmp"

\* cleanup_startup_children removes one positively identified child: every
\* .tmp-* directory, and every bundle-* directory the pointer does not name.
Abandoned(b) == dir[b] = "tmp" \/ (dir[b] = "final" /\ b # pointer)

CleanupChild(b) ==
    /\ stage \in {"cleanup1", "cleanup2"}
    /\ Abandoned(b)
    /\ RemoveChildren({b})
    /\ UNCHANGED <<graph, pointer, op, stage, fresh, current, routes, retired>>

CleanupDone ==
    /\ stage \in {"cleanup1", "cleanup2"}
    /\ \A b \in Bundles : ~Abandoned(b)
    /\ IF stage = "cleanup1"
       THEN stage' = "probe" /\ op' = op
       ELSE stage' = "idle" /\ op' = "none"
    /\ UNCHANGED <<graph, pointer, disk, fresh, current, routes, retired>>

\* The named bundle opens, its checksum matches and a CPU topology fits.
ReuseBundle ==
    /\ stage = "probe"
    /\ pointer # NoBundle
    /\ dir[pointer] = "final"
    /\ pointer \in intact
    /\ current' = pointer
    /\ stage' = "cleanup2"
    /\ UNCHANGED <<graph, pointer, disk, op, fresh, routes, retired>>

\* No pointer, or one whose bundle is missing, corrupt or over a limit: the
\* pointer is cleared; RequireValidBundle stops there, the default rebuilds.
RefuseBundle ==
    /\ stage = "probe"
    /\ pointer' = NoBundle
    /\ stage' \in {"cleanup2", "create"}
    /\ UNCHANGED <<graph, disk, op, fresh, current, routes, retired>>

\* The process dies (or a startup step fails, or the engine is closed): all
\* of its memory is gone, the catalog and the directories stay as they are.
Crash ==
    /\ op # "down"
    /\ op' = "down"
    /\ stage' = "idle"
    /\ fresh' = NoBundle
    /\ current' = NoBundle
    /\ counted' = {}
    /\ ReleaseRoutes(Routes)
    /\ retired' = {}
    /\ UNCHANGED <<graph, pointer, disk>>

\* Bundle files are lost or damaged behind the engine's back.
Damage(b) ==
    /\ b \in intact
    /\ intact' = intact \ {b}
    /\ UNCHANGED <<graph, pointer, dir, content, op, stage, fresh, current,
                   routes, retired>>

-----------------------------------------------------------------------------
(* Publishers: confirmed_mutation_with_change and rebuild_routing_image.    *)

BeginMutation ==
    /\ Unlocked
    /\ op' = "mutation"
    /\ stage' = "await"
    /\ UNCHANGED <<graph, pointer, disk, fresh, current, routes, retired>>

BeginRebuild ==
    /\ Unlocked
    /\ MaintenanceActive < MaxMaintenance
    /\ op' = "rebuild"
    /\ stage' = "await"
    /\ UNCHANGED <<graph, pointer, disk, fresh, current, routes, retired>>

\* A route whose partition read failed gets the write lock, lease in hand.
BeginRepair(r) ==
    /\ Unlocked
    /\ pc[r] = "repair"
    /\ op' = "rebuild"
    /\ stage' = "await"
    /\ pc' = [pc EXCEPT ![r] = "rebuilding"]
    /\ UNCHANGED <<graph, pointer, disk, fresh, current, lease, counted, retired>>

AfterAwait == IF op = "mutation" THEN "mutate" ELSE "create"

\* Mutant: the wait for capacity never reaps.
AwaitWithoutReap ==
    /\ stage = "await"
    /\ IF current = NoBundle \/ counted = {}
       THEN stage' = AfterAwait /\ UNCHANGED <<disk, retired>>
       ELSE \E S \in {{}} :
              /\ Reap(S)
              /\ stage' = IF Capacity(retired \ S) THEN AfterAwait ELSE "await"
    /\ UNCHANGED <<graph, pointer, op, fresh, current, routes>>

\* await_retirement_capacity: one turn of its loop, reap included.
AwaitCapacity ==
    /\ stage = "await"
    /\ IF current = NoBundle \/ counted = {}
       THEN stage' = AfterAwait /\ UNCHANGED <<disk, retired>>
       ELSE \E S \in SUBSET Reapable :
              /\ Reap(S)
              /\ stage' = IF Capacity(retired \ S) THEN AfterAwait ELSE "await"
    /\ UNCHANGED <<graph, pointer, op, fresh, current, routes>>

\* Mutant: the mutation batch does not delete the routing pointer.
MutationKeepsPointer ==
    /\ stage = "mutate"
    /\ graph < MaxGraph
    /\ graph' = graph + 1
    /\ pointer' = pointer
    /\ stage' = "create"
    /\ UNCHANGED <<disk, op, fresh, current, routes, retired>>

\* The confirmed mutation and the deletion of the pointer are one batch.
CommitMutation ==
    /\ stage = "mutate"
    /\ graph < MaxGraph
    /\ graph' = graph + 1
    /\ pointer' = NoBundle
    /\ stage' = "create"
    /\ UNCHANGED <<disk, op, fresh, current, routes, retired>>

\* The mutation is refused or changes nothing: NotRequired, early return.
SkipMutation ==
    /\ stage = "mutate"
    /\ stage' = "idle"
    /\ op' = "none"
    /\ UNCHANGED <<graph, pointer, disk, fresh, current, routes, retired>>

-----------------------------------------------------------------------------
(* build_current_bundle, under the catalog's write mutex throughout.        *)

CreateTemporary ==
    /\ stage = "create"
    /\ \E b \in Bundles :
         /\ dir[b] = "none"
         /\ dir' = [dir EXCEPT ![b] = "tmp"]
         /\ fresh' = b
    /\ stage' = "compile"
    /\ UNCHANGED <<graph, pointer, content, intact, op, current, routes, retired>>

CompileBundle ==
    /\ stage = "compile"
    /\ content' = [content EXCEPT ![fresh] = graph]
    /\ intact' = intact \cup {fresh}
    /\ stage' = "validate"
    /\ UNCHANGED <<graph, pointer, dir, op, fresh, current, routes, retired>>

ValidateTemporary ==
    /\ stage = "validate"
    /\ fresh \in intact
    /\ stage' = "rename"
    /\ UNCHANGED <<graph, pointer, disk, op, fresh, current, routes, retired>>

RenameFinal ==
    /\ stage = "rename"
    /\ dir' = [dir EXCEPT ![fresh] = "final"]
    /\ stage' = "commit"
    /\ UNCHANGED <<graph, pointer, content, intact, op, fresh, current, routes,
                   retired>>

\* Reopening the renamed bundle and ConfirmedGraphScan::set_active_routing_image.
CommitPointer ==
    /\ stage = "commit"
    /\ fresh \in intact
    /\ pointer' = fresh
    /\ stage' = "select"
    /\ UNCHANGED <<graph, disk, op, fresh, current, routes, retired>>

SelectTopology ==
    /\ stage = "select"
    /\ stage' = "swap"
    /\ UNCHANGED <<graph, pointer, disk, op, fresh, current, routes, retired>>

\* What each caller does with a failed build: startup goes on without an
\* image, a mutation withdraws the old image and then reaps, a rebuild keeps
\* whatever was published.  The children written so far stay on disk.
FailBuild ==
    /\ fresh' = NoBundle
    /\ IF op = "startup"
       THEN stage' = "cleanup2" /\ op' = op
       ELSE stage' = "idle" /\ op' = "none"
    /\ IF op = "mutation"
       THEN /\ current' = NoBundle
            /\ counted' = {}
            /\ \E S \in SUBSET {b \in retired : \A r \in Routes : lease[r] # b} :
                 retired' = retired \ S /\ RemoveChildren(S)
       ELSE /\ current' = current
            /\ counted' = counted \ Rebuilders
            /\ UNCHANGED <<disk, retired>>
    /\ ReleaseRoutes(Rebuilders)

\* An I/O, validation or store error before the pointer is committed, or,
\* outside startup, an injected PublicationStage failure at any stage.
BuildError ==
    /\ stage \in BuildStages
    /\ stage \in {"select", "swap"} => op # "startup"
    /\ FailBuild
    /\ UNCHANGED <<graph, pointer>>

\* select_cpu_topology refuses: clear_active_routing_image, its error ignored.
RefuseTopology ==
    /\ stage = "select"
    /\ pointer' \in {NoBundle, pointer}
    /\ FailBuild
    /\ UNCHANGED graph

\* Startup publishes what it built; nothing can be leased yet.
PublishAtStartup ==
    /\ stage = "swap"
    /\ op = "startup"
    /\ current' = fresh
    /\ fresh' = NoBundle
    /\ stage' = "cleanup2"
    /\ UNCHANGED <<graph, pointer, disk, op, routes, retired>>

\* retire_available_state reaps, then queues the replaced bundle, waiting for
\* capacity only while the image Arc is leased; then the image is swapped and
\* the lock dropped.  A mutation reaps once more: the replaced bundle itself
\* can go if no route leases it.
Retiring == IF current = NoBundle THEN {} ELSE {current}

Publish ==
    /\ stage = "swap"
    /\ op # "startup"
    /\ \E S \in SUBSET Reapable :
         /\ (current # NoBundle /\ counted # {}) => Capacity(retired \ S)
         /\ \E T \in SUBSET (Retiring \cap {b \in Bundles : \A r \in Routes : lease[r] # b}) :
              /\ op # "mutation" => T = {}
              /\ retired' = ((retired \ S) \cup Retiring) \ T
              /\ RemoveChildren(S \cup T)
    /\ current' = fresh
    /\ counted' = {}
    /\ fresh' = NoBundle
    /\ op' = "none"
    /\ stage' = "idle"
    /\ ReleaseRoutes(Rebuilders)
    /\ UNCHANGED <<graph, pointer>>

-----------------------------------------------------------------------------
(* Routes, health and CUDA residency.                                       *)

\* Mutant: the image is cloned without the routing lock.
AdmitUnlocked(r) ==
    /\ Running
    /\ pc[r] = "idle"
    /\ current # NoBundle
    /\ lease' = [lease EXCEPT ![r] = current]
    /\ counted' = counted \cup {r}
    /\ pc' = [pc EXCEPT ![r] = "running"]
    /\ UNCHANGED <<graph, pointer, disk, op, stage, fresh, current, retired>>

\* route_with_cancellation clones the image Arc under the read lock.
AdmitRoute(r) ==
    /\ Unlocked
    /\ pc[r] = "idle"
    /\ current # NoBundle
    /\ lease' = [lease EXCEPT ![r] = current]
    /\ counted' = counted \cup {r}
    /\ pc' = [pc EXCEPT ![r] = "running"]
    /\ UNCHANGED <<graph, pointer, disk, op, stage, fresh, current, retired>>

FinishRoute(r) ==
    /\ pc[r] = "running"
    /\ ReleaseRoutes({r})
    /\ counted' = counted \ {r}
    /\ UNCHANGED <<graph, pointer, disk, op, stage, fresh, current, retired>>

\* RoutingError::ImageAccess: the route asks for a rebuild, keeping its lease
\* while it waits for the lock, or returns at once when maintenance is busy.
ImageAccessError(r) ==
    /\ pc[r] = "running"
    /\ IF MaintenanceActive < MaxMaintenance
       THEN /\ pc' = [pc EXCEPT ![r] = "repair"]
            /\ UNCHANGED <<lease, counted>>
       ELSE /\ ReleaseRoutes({r})
            /\ counted' = counted \ {r}
    /\ UNCHANGED <<graph, pointer, disk, op, stage, fresh, current, retired>>

\* GraphEngine::health reaps before it takes any lock.
HealthReap ==
    /\ Running
    /\ \E S \in SUBSET Reapable : S # {} /\ Reap(S)
    /\ UNCHANGED <<graph, pointer, op, stage, fresh, current, routes>>

\* rebuild_cuda_residency and reinitialize_cuda put a new PublishedExecutionImage
\* over the same bundle: leases of the old one leave the published Arc's count.
ReplaceCudaImage ==
    /\ CudaEnabled
    /\ Unlocked
    /\ MaintenanceActive < MaxMaintenance
    /\ current # NoBundle
    /\ counted' = {}
    /\ UNCHANGED <<graph, pointer, disk, op, stage, fresh, current, lease, pc,
                   retired>>

-----------------------------------------------------------------------------
PublisherStep ==
    \/ AwaitCapacity \/ CommitMutation \/ SkipMutation
    \/ CreateTemporary \/ CompileBundle \/ ValidateTemporary \/ RenameFinal
    \/ CommitPointer \/ SelectTopology \/ BuildError \/ RefuseTopology
    \/ PublishAtStartup \/ Publish

StartupStep == CleanupDone \/ ReuseBundle \/ RefuseBundle \/ \E b \in Bundles : CleanupChild(b)

Next ==
    \/ Open \/ Crash \/ StartupStep \/ PublisherStep
    \/ BeginMutation \/ BeginRebuild \/ HealthReap \/ ReplaceCudaImage
    \/ \E b \in Bundles : Damage(b)
    \/ \E r \in Routes :
         BeginRepair(r) \/ AdmitRoute(r) \/ FinishRoute(r) \/ ImageAccessError(r)

Spec == Init /\ [][Next]_vars

\* A publisher that holds the write lock keeps running, and a remove_dir_all
\* that keeps failing is not assumed (WF of a reap that removes something).  A
\* running search ends: it examines each edge at most once.  Nothing is assumed
\* about who gets the write lock next.
FairSpec ==
    /\ Spec
    /\ WF_vars(PublisherStep)
    /\ \A r \in Routes : WF_vars(FinishRoute(r) \/ ImageAccessError(r))

-----------------------------------------------------------------------------
(* Properties.                                                              *)

TypeOK ==
    /\ graph \in 0..MaxGraph
    /\ pointer \in Bundles \cup {NoBundle}
    /\ dir \in [Bundles -> {"none", "tmp", "final"}]
    /\ content \in [Bundles -> 0..MaxGraph]
    /\ intact \subseteq Bundles
    /\ op \in {"down", "startup", "none", "mutation", "rebuild"}
    /\ stage \in Stages
    /\ fresh \in Bundles \cup {NoBundle}
    /\ current \in Bundles \cup {NoBundle}
    /\ lease \in [Routes -> Bundles \cup {NoBundle}]
    /\ counted \subseteq Routes
    /\ pc \in [Routes -> {"idle", "running", "repair", "rebuilding"}]
    /\ retired \subseteq Bundles

\* The durable pointer never names a stale bundle, whatever stage the process
\* died in: the child it names was renamed into place, was compiled from the
\* confirmed graph as it is now and is not waiting for deletion.  Startup reuses
\* the named bundle after checking its checksum only, so this is what keeps a
\* restart from routing over an old graph.
PointerNamesCurrentGraph ==
    pointer # NoBundle =>
        /\ dir[pointer] = "final"
        /\ content[pointer] = graph
        /\ pointer \notin retired

\* The reaper and the startup cleanup never remove a child that a running route
\* or the published image still reads from.
LeasedBundleOnDisk ==
    \A b \in Bundles : Held(b) => dir[b] = "final"

\* While no publisher holds the lock, the image a route would clone was
\* compiled from the confirmed graph of this moment.
PublishedImageIsCurrent ==
    (Unlocked /\ current # NoBundle) => content[current] = graph

\* A route keeps one immutable graph version from admission to return: no step
\* rewrites or replaces the files behind a lease that outlives the step.
LeaseIsImmutable ==
    [][\A r \in Routes :
         (lease[r] # NoBundle /\ lease'[r] # NoBundle) =>
             lease'[r] = lease[r] /\ content'[lease[r]] = content[lease[r]]]_vars

\* Opening the engine leaves no abandoned child behind: what earlier crashes and
\* failed builds left on disk is gone once routes are admitted.
StartupRemovesAbandoned ==
    [][(op = "startup" /\ op' = "none") =>
         \A b \in Bundles : dir'[b] = "none" \/ b = pointer']_vars

\* The retirement limits bound what publication lets leases pin: the retired
\* bundles some route still leases stay within the configured count and bytes.
PinnedRetired == {b \in retired : \E r \in Routes : lease[r] = b}

RetirementLimitsHold ==
    /\ Cardinality(PinnedRetired) <= MaxRetiredCount
    /\ RetiredBytes(PinnedRetired) <= MaxRetiredBytes

\* A mutation or a rebuild that took the write lock gives it back: it never
\* waits for ever on retirement capacity.
PublicationCompletes ==
    op \in {"mutation", "rebuild"} ~> op \notin {"mutation", "rebuild"}

-----------------------------------------------------------------------------
(* The inductive invariant.                                                 *)

\* Which stages each publisher can be in.
StageInv ==
    /\ op \in {"down", "none"} <=> stage = "idle"
    /\ stage \in {"cleanup1", "probe", "cleanup2"} => op = "startup"
    /\ stage = "await" => op \in {"mutation", "rebuild"}
    /\ stage = "mutate" => op = "mutation"

\* Before the engine is open nothing is leased or retired, and an image is
\* published only by the last two stages of startup, from the pointer.
StartupInv ==
    /\ op \in {"down", "startup"} =>
         retired = {} /\ \A r \in Routes : lease[r] = NoBundle
    /\ op = "down" \/ (op = "startup" /\ stage # "cleanup2") => current = NoBundle
    /\ stage = "cleanup2" => current \in {NoBundle, pointer}

\* The child being built is nobody else's, and from compilation on it is of the
\* confirmed graph: nothing can commit a mutation until the build is over.
Building == stage \in BuildStages \ {"create"}

FreshInv ==
    /\ Building => /\ fresh \in Bundles
                   /\ fresh # current
                   /\ fresh \notin retired
                   /\ \A r \in Routes : lease[r] # fresh
    /\ stage \in {"compile", "validate", "rename"} => dir[fresh] = "tmp"
    /\ stage \in {"commit", "select", "swap"} => dir[fresh] = "final"
    /\ Building /\ stage # "compile" => content[fresh] = graph
    /\ stage \in {"select", "swap"} => pointer = fresh

\* The published image is of the confirmed graph except between the commit of a
\* mutation and the end of its build, when no route can be admitted.
CurrentInv ==
    current # NoBundle =>
        /\ current \notin retired
        /\ (op = "mutation" /\ stage \in BuildStages) \/ content[current] = graph

LeaseInv == \A r \in Routes : lease[r] = NoBundle <=> pc[r] = "idle"

RetiredInv == \A b \in retired : dir[b] = "final"

PublicationInv ==
    /\ TypeOK
    /\ StageInv
    /\ StartupInv
    /\ FreshInv
    /\ CurrentInv
    /\ LeaseInv
    /\ RetiredInv
    /\ PointerNamesCurrentGraph
    /\ LeasedBundleOnDisk

\* Without CUDA every lease of the published image is one its Arc counts, so
\* that nothing is retired uncounted; and what is retired stays finite.
LimitInv ==
    /\ \A r \in Routes : lease[r] = current /\ current # NoBundle => r \in counted
    /\ IsFiniteSet(retired)
    /\ IsFiniteSet(Units(retired, BundleBytes))
    /\ RetirementLimitsHold

\* Publication implements RoutingView.  The view is the published image when it
\* is of the confirmed graph, so a commit withdraws it in the same step.
Version(b) == IF b = NoBundle THEN NoBundle ELSE content[b]

PublishedView ==
    IF current # NoBundle /\ content[current] = graph THEN graph ELSE NoBundle

View == INSTANCE RoutingView WITH
          NoView <- NoBundle,
          view <- PublishedView,
          reads <- [r \in Routes |-> Version(lease[r])]

\* Every run of the publisher, with its failures, crashes and restarts, is a
\* run of RoutingView: no route starts on a version other than the confirmed one.
RefinesRoutingView == View!Spec
=============================================================================
