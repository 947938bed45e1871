# A TLA+ verification of PathHydra

PathHydra is an in-process graph engine written in Rust. Callers insert
*candidate* nodes, relation kinds and edges into a RocksDB catalog, *confirm*
them, and ask for exact shortest routes. Routing never reads the catalog: every
change of the confirmed graph compiles a new immutable *routing bundle* on disk
and publishes it, while running routes keep the bundle they started with. This
directory models that machinery in TLA+, checks it with TLC on small instances
and proves, with TLAPS and for every instance, the safety of publication, of the
engine's controllers, of the host cache, of checkpoints and of the facade.

## The system and what is hard about it

| Part | State | Operations | Interacts with | Hard behaviour |
| --- | --- | --- | --- | --- |
| Catalog (`pathhydra-store/src/catalog.rs`) | candidates, confirmed nodes, kinds, edges, adjacency and usage records, name indexes, ID counters, active-image pointer | insert, confirm, remove, scan, reopen | publication | one batch must change all families together; the in-memory indexes follow the batch; a reopen revalidates everything |
| Publication (`engine.rs`, `publication.rs`) | confirmed graph, pointer, bundle directories, published image | mutation, rebuild, startup, cleanup | catalog, routes, retirement | crash or failure between any two of its seven stages; stale bundles |
| Retirement (`retirement.rs`) | queue of replaced bundles | retire, wait for capacity, reap | publication, routes | deleting what is still leased; waiting for leases under an exclusive lock |
| Lifecycle, registry, admission (`lifecycle.rs`, `cancellation.rs`, `admission.rs`) | permits, active ids and flags, slots and bytes | begin, register, acquire, reserve, cancel, close, drain | every call | early returns, shutdown racing everything, retried shutdown |
| Host cache (`bundle/reader.rs`) | entries, byte/staging/queue counters, poison, worker threads | acquire, evict, load, stop | partitioned routes, CUDA | coalescing, cancellation mid-load, full cache, poison |
| CPU search (`cpu.rs`) | frontier, distances, predecessors | relax, settle, reconstruct | image, cache | ties, budgets, overflow, cancellation |
| CUDA (`pathhydra-cuda`) | worker queue, topology slots, staging, context | submit, batch, copy, complete, stop | engine, host cache | events completing late, failed slots, shutdown with queued jobs |
| Facade (`pathhydra-api/src/facade.rs`) | request handles and phases | create, route, cancel, hydrate, shutdown | engine | cancellation racing admission and completion |
| Checkpoint and restore (`pathhydra-store/src/operations.rs`) | write guard, log, directories, pointer | create, verify, restore, flush, compact | catalog, engine | mutations between verify and copy; power loss at any step; two restores in one directory |
| Hydration, subgraph (`hydration.rs`, `pathhydra-subgraph`) | read lock, confirmed records, the caller's subgraph | look up, answer, insert, remove, unite | catalog, publication, facade | the graph changes between the lookups of one answer |

`PROJECT.json` lists every part with its status, every hazard with the line where
it bites, and the source lines each definition stands for.

## Modules

**Publication** models a publisher stage by stage: startup (`Open`,
`CleanupChild`, `ReuseBundle`, `RefuseBundle`), a confirmed mutation
(`BeginMutation`, `AwaitCapacity`, `CommitMutation`), a rebuild by a caller or by
a route that met an unreadable partition (`BeginRebuild`, `BeginRepair`), and the
build they share (`CreateTemporary` to `Publish`). The write lock of `routing` is
the variable `op`: one publisher at a time, and routes are admitted only when it is
`"none"`. The graph is a version number; a bundle directory is absent, temporary or
final, with the version it was compiled from and whether its files are intact. An
image is the bundle it was made from; `counted` is the set of routes that hold the
published `Arc` itself, which is what `execution_lease_count` sees, while `lease` is
what keeps files alive. `Crash` may happen at every state, `BuildError` at every
stage, `Damage` to every bundle. Deletions by the reaper may fail one by one.

**RoutingView** is what publication promises: a confirmed graph, a view of it that
is either absent or exactly that graph, and routes that read one version from start
to return. `Publication` implements it under the mapping `View`.

**EngineCalls** models the calls of `GraphEngine` against the lifecycle permits, the
request registry and the admission controller, one critical section per step, each
RAII drop a step in the order of the locals of `route_with_cancellation`. Shutdown
is the eight steps of `GraphEngine::shutdown`, run by several threads and repeated.
`refs` are the `Arc` clones that make `try_unwrap` fail. What a search computes, and
the image a rebuild publishes, are not in this module.

**HostCache** models `HostCache::acquire` one turn of its loop at a time, the bounded
channel, the I/O workers and `IoCoordinator::shutdown`. Partition sizes are a
parameter; the tick of the LRU order, which is set by `acquire` and not by the release of
a pin, is kept as a rank.

**Catalog** models the RocksDB catalog with one field of `db` for each column family.
A mutation plans under the write mutex and commits one batch (`Commit`), which is all or
nothing; the name indexes follow in `Install`, and between the two the mutation holds the
write locks it took (`pending.locked`): both indexes for a promotion or the removal of a
node, the relation index for the removal of an edge, none otherwise. A lookup reads any index
that is not locked, so `LookupsMatchDurable` also speaks of that window. `BatchAccepted`, `ConfirmError`, `RemoveEdgeError` and `RemoveNodeError`
are the checks in front of each batch; errors are kept in the classes the properties
tell apart. `Valid` is the validation of an opening catalog, and `OpenCatalog` refuses
what it refuses. `Crash` keeps what was committed. That a failed RocksDB write leaves
nothing behind is an assumption about RocksDB. `u64::MAX` is the parameter `LastId`, so
the overflow checks are reached. The routing pointer holds the graph it was set for.

**ConfirmedGraph** is what the catalog promises: a graph that grows by whole promotions
with fresh ids and unique names, and shrinks by whole removals. `Catalog` implements it
under the mapping `ConfirmedView`, through crashes.

**RoutingImage**, **BundleReader**, **BundleCompiler**, **CpuSearch**, **CudaSearch** and
**RouteSearch** are one stack, each module extending the one before it, from confirmed
records to answers.

- `RoutingImage` has the pure definitions of the resident image: dense ids, the CSR
  adjacency, the validation of a finished image, packed relation profiles.
- `BundleReader` states what `open_bundle` requires of a bundle and how an adjacency entry
  is found again in partitions and segments.
- `BundleCompiler` is `compile_bundle`, one step for each edge of the scan, with the byte
  rules that close a partition or start a segment, and the generator of analytic bundles.
- `CpuSearch` is `route_topology_controlled`, one step for each popped entry, examined edge,
  classified destination and walked predecessor. A distance is a natural number of
  `Precision` significant bits that overflows past `MaxFinite`: rounding, absorption and
  overflow happen with small numbers.
- `CudaSearch` is the frontier and the delta-stepping search. A launch is a set of threads;
  each loads a source distance in one step and lowers a destination with an atomic minimum
  in another, in any interleaving. Partitions are launched one after another in either
  direction; a cancellation or an unrepresentable bucket stops the search as it does on the
  host, and paths come from a CPU pass that is compared with the device's distances.
- `RouteSearch` composes them and has the reference: the least rounded sum over all walks
  that the profile enables, defined without a search.

**TopologyCache**, **CudaWorker** and **CudaRoutes** model the CUDA path of a route around
the search. `TopologyCache` has the slots of a partitioned image: reservation, eviction with
the release of the victim outside the lock, copies through the staging pool, launches and
their completion events, and failures that poison the cache. A copy reserves its staging in
one step and is started in another. `CudaWorker` has the worker thread: its channel, the
collection of a batch, deferred commands, a thread for each lane, lanes that panic or cannot
be created, and shutdown. `CudaRoutes` composes both with the engine: a route takes image and
runtime under two locks, is admitted and submits; residency is rebuilt, CUDA is initialised
again, and the engine is shut down meanwhile.

A lane may panic at the seven places of `MayPanic` (`LanePanics`). What it owns is dropped as
the unwinding drops it (`Unwind`): the lease, the staged copy, the guard of the active-lane
count. An entry that it was loading or evicting has no such guard; it stays pending and is
recorded in `abandoned`. The answer of a panicked lane comes from its join, and joins happen
in the order of the spawns, behind lanes that still run. Left out are a panic with the cache's
lock held, which poisons the mutex, and one between a launch and the record of its event.

**Subgraph**, **Hydration** and **Facade** model what applications call. Subgraph operations
are functions from a value to an outcome. `Hydration` reads node, edge and relation records
one lookup after another under the read lock, while writers change the graph under the write
lock. `Facade` adds request ids and handles, a route by each clone of a handle, cancellation
by handle or id with every atomic access a step, checkpoint operations that run outside the
engine, and shutdown. A failed build leaves a mutation without an image and a rebuild with the
image it had (`AfterFailedBuild`).

**Checkpoint** models `create_checkpoint` under the write guard, `restore_checkpoint` file by
file with the temporary engine around it, `flush` and `compact_all`, while mutations commit.
The live catalog is the log of the states that its commits made; `durable` is the prefix that
was synchronised, and `PowerLoss` keeps at least that. A directory is the state each file
belongs to, and the pointer of the database that its `CURRENT` names. A checkpoint has any set
of the `FileCount` names with `CurrentFile` among them, since RocksDB numbers its files and
only `CURRENT` is in every checkpoint; a restore lists its source once (`left`) and copies the
names in order. Two restores that both found the destination empty therefore collide at the
first common name, at the latest at `CURRENT`, and until then each may leave files beside the
other's. A file is copied in one step, and one that was only partly written counts as absent:
the code refuses it as it refuses any other file, so the model lets a second restore do more
than the code does. The optional routing-image and scratch paths of a request, which the code
only adds to the targets it validates (operations.rs:540-557, 691-714), are left out; this too
allows more than the code.

Assumed of RocksDB: a checkpoint is built beside its destination and renamed; a power loss
leaves a prefix of the log; and opening a directory reads the files that the manifest named by
`CURRENT` lists, so that files of another checkpoint, whose logs are empty because they were
flushed under the guard, do not get into the database. That RocksDB removes or renames files
once it is open, and a losing restore that meets names RocksDB made after that, are not
modelled. That checkpoints and restores are kept below different roots (`RootsAssumption`) is
an assumption about the caller.

**Weights** defines the sum of the weights of a set without recursion: the number of units
that its elements have. Sizes of bundles, estimates of routes and sizes of partitions are
added up with it, and **WeightTheorems** has what it computes when an element joins or leaves.

The modules whose names begin with `MC` hold the small sets, and those whose names end in
`Proofs` the theorems; the inductive invariants themselves stand at the end of the modules
they are about, so that TLC can evaluate them too. `HydrationProofs` and `SubgraphProofs` are
about `Facade`, which composes what they need. Operators whose comment begins with *Mutant* are deliberately wrong
variants of the definition that follows them; no specification uses them. Each one
replaced for its original makes one property fail, which shows that the property
depends on that piece of the code.

## Runs

| Run | Instance | Shows |
| --- | --- | --- |
| `publication_safety` | 3 bundles, 2 routes, 2 mutations, 2 maintenance permits, CUDA | pointer, image and leases are never stale; nothing leased is removed; startup cleans up; refinement of `RoutingView` |
| `publication_liveness` | 3 bundles, 2 routes, 1 mutation, 1 maintenance permit, no CUDA | pinned retired bundles stay within count and bytes; a publisher gives the lock back |
| `publication_self_wait` | 2 bundles, 1 route, a bundle larger than the byte limit | *violated*: a repairing route waits for itself |
| `calls_safety` | 3 calls, 2 closers, 3 ids, 2 slots, 2 bytes | exact accounting, exact registry, complete shutdown, no use after release |
| `calls_liveness` | 2 calls, 1 closer | retried shutdown completes |
| `host_cache_safety` | 3 routes, 3 partitions of 2 sizes, 2 workers, channel of 1 | coalescing, accounting, pins, poison, empty pool after join; loads settle, the pool stops |
| `catalog_safety` | 8 batches, all selections of up to 3 of 5 candidates, 3 nodes, 2 kinds, 2 edges | commits always reopen and no call reports corruption, indexes and pointer agree with them, refinement of `ConfirmedGraph` |
| `search` | 4 graphs and 2 analytic bundles, 6 partition configurations, 8 requests, frontier and delta-stepping | bundles are faithful, answers right, predecessors stable, reservations sufficient, searches end |
| `search_absorption` | a chain of 4 nodes, 2 significant bits | *violated*: delta-stepping loses a node whose distance is absorbed |
| `cuda_routes` | 2 routes, 2 runtimes, 2 images, 2 partitions, 3 configurations, lane panics | device cache and counters are exact, partitions in flight stay, submitted routes return, workers stop |
| `facade` | 4 callers in 6 situations, 2 ids, 2 edges | one signal for each request, one route for each handle, consistent hydrations and subgraphs, external work before shutdown |
| `checkpoint` | 2 operators, 3 checkpoint paths, 1 restore path, 3 file names, 2 commits | checkpoints are as reported and durable; one restore opens a directory, on all files of its checkpoint |

`findings` in `PROJECT.json` quotes, for the two violated runs, the code and the sentence of
the documentation that it disagrees with.

Bounds. Three bundles are the published one, the one being built and one retired or
abandoned; the fourth adds only more of the last kind. Two routes can lease two
different bundles, and can both fail. Two mutations make one lease two versions old; in
`publication_liveness` one mutation and the rebuilds retire the bundles.
Three calls can hold the last slot, be refused and race a shutdown at once; estimates
of one to three bytes against a limit of two make reservations succeed, fill up and
exceed. In the cache, one partition of double size makes one eviction insufficient,
staging for three units and a channel of one make every wait happen, and three routes
can hold, wait and miss at once. In the catalog, two names let candidates share one or
differ, the batches contain forward references, self edges, an edge that depends on a
confirmed node as destination only, and every kind of refused reference; two edges can
share a relation kind and lose it one by one or together with a node.

The graphs of `search` have ids that are neither dense nor ordered, a diamond with equal sums,
parallel edges and a back edge, a zero-weight cycle with a self loop, a detour that is shorter
than the direct edge, and no edges at all; the configurations make one partition, one
partition for each edge, sources cut by a boundary, a target below one edge and too few bytes.
Three significant bits and a largest distance of 14 make sums round and overflow. The
graphs keep clear of the absorption that `search_absorption` has a chain for: `AnswersAreRight`
is stated of delta-stepping on instances where it does not happen. The
configurations of `cuda_routes` are lanes that share a cache with a staging pool for one copy,
lanes that compete for one slot, and resident images that are rebuilt while routes run; each
place of `MayPanic` is in one of the three. The
situations of `facade` each let a few kinds of calls race over the same request, lock or
value; ids go up to 2, where the allocator is exhausted. In `checkpoint` two
operators are a checkpoint and a restore, two checkpoints that compete for the permit, or two
restores that race for one directory; three states in the log, `CURRENT` and two names that a
checkpoint may or may not have make a mixture visible and let the collision come late.

Fairness. A publisher holding the lock and a running search keep running (weak
fairness: a thread that can go on does); nobody is obliged to begin anything, and who
gets the lock next is open. Calls that began end, a caller whose shutdown failed calls
again, and a flush that is attempted again and again succeeds at some time (strong
fairness of the successful flush). I/O workers run and the channel wakes blocked
senders and receivers in turn; nothing is assumed of the routes, which may cancel, wait
or hold a partition for ever. A search that can take a step takes one, and its caller need
not cancel. In `cuda_routes` lanes, worker threads and a device that works go on as long as
one of them can; nobody is obliged to submit, to cancel or to shut down.

## Proofs

Each theorem holds for all values of the constants that satisfy the named assumptions. An
assumption says what the configuration check of the code or the types of its values give
(limits are positive, `None` is no id); TLC evaluates them in every run. The argument is the
same everywhere: an inductive invariant holds initially and is kept by every action, one lemma
for each action or for a shape that several actions share; the properties follow from it.

`PublicationProofs` (assuming `BundleAssumption` and `BoundAssumption`), with or without CUDA:

- `PublicationInvariant`: `PublicationInv` is invariant;
- `TypeCorrect`, `PointerIsNeverStale`, `HeldBundlesStayOnDisk`, `RoutesStartCurrent`:
  what the pointer, the published image and the leases refer to is current and on disk;
- `LeasesAreImmutable`, `StartupIsClean`: what a step may never do;
- `PublicationRefinesView`: `Publication` implements `RoutingView`;
- `RetirementLimits`: `RetirementLimitsHold`, if `CudaEnabled` is false.

The properties are not inductive alone. That the pointer is never stale needs to know what
the child being built contains and that nobody else uses it (`FreshInv`), which needs the
stages each publisher can be in (`StageInv`); that a restart publishes only what the pointer
names needs `StartupInv`; that the reaper spares what is read needs that the published bundle
is not in the queue (`CurrentInv`) and that what is in it is on disk (`RetiredInv`). `StepInv`
shows each action preserves the conjunction; reaping and failing builds, which occur inside
several actions, are lemmas (`ReapInv`, `FailBuildInv`). In the refinement, steps that change
neither the graph, the view nor a read are `InvisibleStep`, those that end routes
`ReturningStep`. The retirement limits need that every lease of the published image is counted
(`LimitInv`); `rebuild_cuda_residency` breaks exactly this, which is why the theorem excludes
CUDA and `PublicationCudaOverrun.cfg` shows the overrun.

`EngineCallsProofs` (assuming `CallAssumption`), for any number of calls and of shutdown
callers: `CallsInvariant`, and from it `AccountingHolds`, `RegistryHolds`, `ShutDownHolds` and
`ClosingHolds`, the four properties of the `calls_safety` run. `CoreInv` is what a call holds
at each place and what a shutdown call has already stopped; it is shown first, from counters
of which only that they count the permits is known. `CountInv` then says that slots, reserved bytes and permits
are the numbers of calls that hold them, and that these stay finite, which is what makes a
counter of zero mean that nobody is left.

`HostCacheProofs` (assuming `CacheAssumption`), for any routes, workers, partitions, sizes and
limits: `CacheInvariant`, and from it `LoadsCoalesce`, `AccountingHolds` and `PoisonHolds`. A
loading entry has exactly one owner, which is the route that asks for it, one place in the
channel or one worker (`LoadInv`); that Shutdown messages stand behind all reads, one for each
worker, is `StopInv`. `CountInv` makes bytes, staging and depth exact, and so no
`saturating_sub` of the code ever saturates.

`FacadeProofs` (assuming `FacadeAssumption`, `HydrationAssumption`, `SubgraphAssumption`), for
any number of callers, ids and situations: `FacadeInvariant`, and from it `SignalledOnce`,
`RequestsRunOnce`, `SignalsReachTheSearch` and `ExternalWorkFirst`. `IssueInv` says that
nothing touches an id above the high-water mark, `SignalInv` that the one caller that set a
flag and has not answered yet is the only one that will report it, `RunInv` that one call
executes a request and only it is registered, `CloseInv` who holds the external lock. A
situation (`Situation`) is a set of calls with their inputs over a graph whose records are
well formed (`WellFormed`).

`HydrationProofs` adds `HydrationInvariant` and `HydrationsAreCurrent`. A hydration is one
moment of the graph because readers and the writer exclude each other and what was read stays
so while the lock is held (`Reading`, `Writing`); that a path found on an older image can be
hydrated needs that records, once made, never change although edges are deleted (`Known`,
`RecordInv`). `SubgraphProofs` adds `SubgraphInvariant` and `SubgraphsStayConsistent`: one
lemma for each kind of edit (`NodeEdits`, `EdgeEdits`, `PathEdits`, `UnionEdits`) shows that
it leaves a finite subgraph that `Readable` accepts and no edge with other endpoints. A path
has finitely many nodes and edges, and `LastStep` is defined, because naturals have least
elements; both modules only need the shape of the other variables (`FacadeShape`).

`CheckpointProofs` (assuming `CheckpointAssumption` and `RootsAssumption`), for every number of
operators, paths, files and commits and every limit on concurrent checkpoints:

- `CheckpointInvariance`: `CheckpointInv` is invariant;
- `RestoreExclusion`: at most one restore copies its `CURRENT` into a directory
  (`ExclusiveInv`);
- `CheckpointAsReported`, `CheckpointDurability`, `RestoreFidelity`: the three properties of
  the `checkpoint` run.

What a checkpoint reports equals what it holds because the guard is kept from the sync to the
report, so no commit comes in between (`CreateInv`); that it survives is that its state is an
entry of the synchronised prefix (`DirectoryInv`), which needs that the whole log is
synchronised while it is made. A restore is faithful because the files of its source that are
not left to copy are in its destination (`CopyInv` with `CopiedBut`). No other restore can
change them, since a file that is there is never written again, and no checkpoint is written
below the restore root. That only one restore opens the directory follows from the one name
that all checkpoints have: who copied its `CURRENT` keeps every other from doing so, whatever
the other names are. Without it the database that is opened could be the other restore's, and
its pointer could come back after it was cleared. `LocalStep`, `RestoreWrite` and `EndStep` are the three shapes that steps of one operator have; each action
is one of them or has its own case.

Only model-checked:

- liveness (`PublicationCompletes`, `ShutdownCompletes`, `LoadsSettle`, `PoolStops`,
  `SearchTerminates`, `SubmittedRoutesReturn`, `WorkersStop`), which is out of the prover's
  reach;
- what the compiler and the searches compute (the properties of `RouteSearch`), since the
  definitions are recursive and their proofs inductions over graphs and walks;
- `Catalog` and its refinement of `ConfirmedGraph`, where every action rewrites ten related
  column families and counts references, and `CudaRoutes`, whose counters are sums over
  sequences and lanes. TLC covers both on the instances above, and no theorem is stated.

## Disagreements with the documentation

Two runs are expected to be violated.

- `publication_self_wait`: a route that met an unreadable partition rebuilds the image while it
  leases it. When the bundle alone exceeds the retired-byte limit, it waits for itself under
  the routing write lock.
- `search_absorption`: a sum that rounds to the source's own distance leaves its node in the
  bucket that has just been settled, and the node's successors are reported unreachable.

The following were found the same way. The properties are in the modules and the
configurations beside them, which are no runs of the project, reproduce them, except for the
last two.

- `PublicationCudaOverrun.cfg`, `RetirementLimitsHold`: after `rebuild_cuda_residency` the
  leases of the replaced image are not counted, and the next publication retires past the
  limits that docs/cuda-operations.md:58 calls enforced.
- `EngineCallsSignal.cfg`, `ClosingSignalsActiveRoutes`: a route between its permit
  (engine.rs:1387) and its registration (engine.rs:1394) is not signalled by a shutdown that
  waits for it; docs/consumer-api.md:244 says that shutdown signals active work.
- `HostCachePressure.cfg`, `PressureNeverFails`: a cache full of pinned and loading entries
  fails a route with an image access error (reader.rs:914), although decision 0008 says that
  presence and eviction affect only performance.
- `CudaRoutesStale.cfg`, `UnhealthyByOwnContext`: a route takes the image and the runtime under
  two locks (engine.rs:1397 and 1433); with `reinitialize_cuda` in between it pairs the old
  context with the fresh runtime and marks that one unhealthy.
- `FacadeCancelRace.cfg`, `CompletedWonTheRace`: `cancel_state` loads the phase after it swapped
  the flag (facade.rs:299), so the call that stopped a search may answer `AlreadyCompleted`,
  which docs/consumer-api.md:168 keeps for a response that won the race.
- `CudaRoutesAbandoned.cfg`, `RoutesReturnAfterAnyPanic`: a lane that panics inside
  `load_reserved`, or while it releases a victim, leaves its entry pending, and a lane that
  waits for it waits until it is cancelled, with the batch and the queue behind it.
  docs/public-api-safety-audit.md:43 says that a lane panic becomes a typed result; it does
  for the lane itself. `SubmittedRoutesReturn` has this case as its only exception.
- `CheckpointOtherFiles.cfg`, `RestoreHasNoOtherFiles`: a reported restore may have files of
  another checkpoint in its directory, left by a restore that found it empty at the same time
  and lost at `CURRENT`. No document promises more than the restored catalog, which
  `RestoreIsTheCheckpoint` covers.
- Ordinary commits are not synchronised (options.rs:46). After a power loss the catalog gives
  out ids again that callers already hold, while docs/storage-format.md:82 says that ids are
  never reused. A checkpoint is safe from this (`CheckpointIsDurable`).
- Once u64::MAX was given out, a supplied id is refused as `request_id_not_monotonic`, while
  docs/consumer-api.md says that every later allocation returns `request_id_exhausted`.

## Known limits

- Shutdown retried against reads that always overlap: each try may find a catalog `Arc` in use
  (engine.rs:1092). Liveness is stated for callers that make finitely many reads.
- A panicked I/O worker fails one shutdown, and the retry does not report it again
  (engine.rs:1035). The failure list of a report is not carried over in the model either.
- The drop of the last `Arc<HostCache>` by an I/O worker would make that worker join itself
  (reader.rs:794). Dropping a replaced image is not modelled, only its explicit stop.
- A route that waits for staging, queue space or an entry can be overtaken for ever
  (reader.rs:879). No fairness of the code excludes it, and no document promises it.
- After a failed event record the lease is dropped although the result of the wait for the
  stream is ignored (partitioned.rs:1037). The model takes this wait to succeed.
- The events of a lost device never complete (topology_cache.rs:659). `SubmittedRoutesReturn`
  is stated for a device that works.
- Failed builds leave children on disk until the next start (engine.rs:2496), without a bound.

## Not modelled

Byte formats, checksums, conversions and value validation (no state, covered by round-trip
tests), driver calls, device buffers and device selection, the timing of CUDA cooldowns, the
order of use in the device cache (any idle slot may be the victim), batch conversion and the
drop of the last facade, metrics and reports (observation only), the command line and the
benchmarks. Poisoned mutexes (a thread panicked while holding one) are left out everywhere.
