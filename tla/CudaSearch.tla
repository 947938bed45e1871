----------------------------- MODULE CudaSearch -----------------------------
(***************************************************************************)
(* The two CUDA searches, frontier and delta-stepping, over the resident   *)
(* topology or partition by partition.  The host compacts the edges of the *)
(* selected sources into tasks and launches one thread per task; a thread  *)
(* loads its source's distance and later lowers its destination's with an  *)
(* atomic minimum, so the threads of a launch interleave freely.  A launch *)
(* is synchronized before the next one.  A request for paths is answered   *)
(* by a CPU pass over the same image, checked against the CUDA distances.  *)
(***************************************************************************)
EXTENDS CpuSearch

CONSTANTS
    Algorithms,    \* 0: frontier; a positive delta: delta-stepping
    BucketBound    \* the first bucket index that does not fit u64

VARIABLE gpu

IdleGpu ==
    [stage |-> "idle", algorithm |-> 0, pass |-> None, distance |-> <<>>, host |-> <<>>,
     active |-> {}, next |-> {}, removed |-> {}, bucket |-> 0, changed |-> FALSE,
     phases |-> 0, launches |-> <<>>, threads |-> {}, loaded |-> {}, status |-> "success",
     stopped |-> FALSE, results |-> <<>>]

\* bucket_index; BucketBound stands for every quotient that is not a u64.
BucketIndex(distance, delta) ==
    IF distance \div delta < BucketBound THEN distance \div delta ELSE BucketBound

SourceOf(k) == CHOOSE n \in 1 .. NodeCount : k \in Outgoing(n)
BucketMembers(distance, delta, bucket) ==
    {n \in 1 .. NodeCount : distance[n] # None /\ BucketIndex(distance[n], delta) = bucket}

\* Host compaction: the adjacency entries of the selected sources, all of them
\* or those of one partition.
ResidentTasks(sources) == UNION {Outgoing(n) : n \in sources}
PartitionTasks(p, sources) ==
    ResidentTasks(sources)
        \cap (bundle.partitionEdgeOffsets[p] + 1 .. bundle.partitionEdgeOffsets[p + 1])

\* The partitions named by the selected sources, in either order.
PartitionOrders(sources) ==
    LET ids == InOrder(UNION {SourcePartitionIds(bundle, n) : n \in sources}, <)
    IN  {ids, Reverse(ids)}

\* One launch for the resident image, one for each selected partition.
LaunchOrders(sources) ==
    IF layout = "resident"
    THEN {IF ResidentTasks(sources) = {} THEN <<>> ELSE <<ResidentTasks(sources)>>}
    ELSE {[i \in DOMAIN ids |-> PartitionTasks(ids[i], sources)] : ids \in PartitionOrders(sources)}

(* ------------------------------ Host loop ----------------------------- *)

GpuFail(error) == gpu' = [gpu EXCEPT !.stage = "done"] /\ outcome' = error

\* The arrays of a search that is about to start.
Initialized ==
    LET start == [n \in 1 .. NodeCount |-> IF n = OriginDense THEN 0 ELSE None]
    IN  [gpu EXCEPT !.distance = start, !.host = start, !.active = {OriginDense},
                    !.stopped = cancelled]

\* route up to the search.  (The engine reserves the request's own estimate, so
\* the reservation is never too small.)
GpuBegin ==
    /\ gpu.stage = "begin"
    /\ IF request.budget # Unlimited THEN GpuFail("admission")
       ELSE IF OriginDense = 0 \/ PackError(request.profile, image.relations)
       THEN GpuFail("kernel invariant")
       ELSE /\ gpu' = IF \/ cancelled \/ AdjacencyCount = 0
                         \/ PresentDestinations \subseteq {OriginDense}
                      THEN [Initialized EXCEPT !.stage = "classify"]
                      ELSE [Initialized EXCEPT
                               !.stage = "schedule",
                               !.pass = IF gpu.algorithm = 0 THEN "frontier" ELSE "light"]
            /\ UNCHANGED outcome
    /\ UNCHANGED <<request, layout, cancelled, cpu>>

\* The tasks of a pass, its flags cleared; nothing to launch ends the pass.
Schedule(sources, idle) ==
    /\ gpu.stage = "schedule"
    /\ \E launches \in LaunchOrders(sources) :
          gpu' = IF launches = <<>> THEN [gpu EXCEPT !.stage = idle, !.changed = FALSE]
                 ELSE [gpu EXCEPT !.stage = "launch", !.launches = launches,
                                  !.next = {}, !.changed = FALSE]
    /\ UNCHANGED <<request, layout, cancelled, cpu, outcome>>

\* At most as many phases as there are nodes.
ScheduleFrontier ==
    gpu.pass = "frontier"
        /\ Schedule(IF gpu.phases = NodeCount THEN {} ELSE gpu.active, "classify")
ScheduleLight ==
    gpu.pass = "light" /\ Schedule(BucketMembers(gpu.host, gpu.algorithm, gpu.bucket), "settle")
ScheduleHeavy ==
    gpu.pass = "heavy" /\ Schedule(gpu.removed, "settle")

\* Cancellation is observed before a launch; a partition that cannot be
\* acquired or a launch that fails ends the request with a device error.
Launch ==
    /\ gpu.stage = "launch"
    /\ IF cancelled
       THEN /\ gpu' = [gpu EXCEPT !.stage = "classify", !.stopped = TRUE]
            /\ UNCHANGED outcome
       ELSE \/ /\ gpu' = [gpu EXCEPT !.stage = "kernel", !.threads = Head(gpu.launches)]
               /\ UNCHANGED outcome
            \/ GpuFail("device")
    /\ UNCHANGED <<request, layout, cancelled, cpu>>

LaunchResident == layout = "resident" /\ Launch
LaunchFrontierPartition == layout = "chunked" /\ gpu.pass = "frontier" /\ Launch
LaunchDeltaPartition == layout = "chunked" /\ gpu.pass # "frontier" /\ Launch

\* A launch is waited for before the next one starts.
Synchronize ==
    /\ gpu.stage = "kernel"
    /\ gpu.threads = {} /\ gpu.loaded = {}
    /\ gpu' = [gpu EXCEPT !.launches = Tail(@),
                          !.stage = IF Len(gpu.launches) = 1 THEN "settle" ELSE "launch"]
    /\ UNCHANGED <<request, layout, cancelled, cpu, outcome>>

\* Mutant: the current bucket is found again.
BucketsFromCurrent ==
    {b \in {BucketIndex(gpu.distance[n], gpu.algorithm) :
               n \in {m \in 1 .. NodeCount : gpu.distance[m] # None}} : b >= gpu.bucket}

\* next_bucket.
LaterBuckets ==
    {b \in {BucketIndex(gpu.distance[n], gpu.algorithm) :
               n \in {m \in 1 .. NodeCount : gpu.distance[m] # None}} : b > gpu.bucket}

\* What the host does with the arrays it downloads after a pass.
Settle(next) ==
    /\ gpu.stage = "settle"
    /\ IF \/ gpu.status # "success"
          \/ gpu.pass = "heavy" /\ BucketBound \in LaterBuckets
       THEN GpuFail("kernel invariant")
       ELSE gpu' = [next EXCEPT !.host = gpu.distance] /\ UNCHANGED outcome
    /\ UNCHANGED <<request, layout, cancelled, cpu>>

SettleFrontier ==
    /\ gpu.pass = "frontier"
    /\ Settle(IF gpu.changed
              THEN [gpu EXCEPT !.stage = "schedule", !.active = gpu.next, !.phases = @ + 1]
              ELSE [gpu EXCEPT !.stage = "classify"])

\* Mutant: a bucket is settled after one light pass.
SettleLightOnce ==
    gpu.pass = "light" /\ Settle([gpu EXCEPT !.stage = "schedule", !.pass = "heavy"])

SettleLight ==
    /\ gpu.pass = "light"
    /\ Settle(IF gpu.changed THEN [gpu EXCEPT !.stage = "schedule"]
              ELSE [gpu EXCEPT !.stage = "schedule", !.pass = "heavy"])

SettleHeavy ==
    /\ gpu.pass = "heavy"
    /\ Settle(IF LaterBuckets = {} THEN [gpu EXCEPT !.stage = "classify"]
              ELSE [gpu EXCEPT !.stage = "schedule", !.pass = "light", !.removed = {},
                               !.bucket = Min(LaterBuckets)])

(* ------------------------------- Threads ------------------------------ *)

Weighted(k) == EffectiveWeight(EdgeAt(k).weight, RelationUse(EdgeAt(k).relation))
Candidate(k) == AccumulateDistance(gpu.distance[SourceOf(k)], Weighted(k))
Enabled(k) == RelationUse(EdgeAt(k).relation) # Disabled

\* A thread takes its task; after a failure in any thread it returns at once.
TakeTask(k, taken) ==
    /\ gpu.stage = "kernel"
    /\ k \in gpu.threads
    /\ gpu' = [IF gpu.status = "success" THEN taken ELSE gpu EXCEPT !.threads = @ \ {k}]
    /\ UNCHANGED <<request, layout, cancelled, cpu, outcome>>

\* relax_one up to its atomic minimum.
FrontierThread(k) ==
    /\ gpu.pass = "frontier"
    /\ TakeTask(k, IF gpu.distance[SourceOf(k)] = None \/ ~Enabled(k) THEN gpu
                   ELSE IF ~Finite(Candidate(k)) THEN [gpu EXCEPT !.status = "failed"]
                   ELSE [gpu EXCEPT !.loaded = @ \cup {<<k, Candidate(k)>>}])

\* A light thread marks its source as removed from the bucket if it is still in
\* it; a heavy one serves the marked sources.
DeltaSelects(k) ==
    LET from == gpu.distance[SourceOf(k)]
    IN  IF gpu.pass = "heavy" THEN SourceOf(k) \in gpu.removed
        ELSE IF from = None THEN FALSE
        ELSE BucketIndex(from, gpu.algorithm) = gpu.bucket

\* delta_relax_one up to its atomic minimum.
DeltaThread(k) ==
    LET marked == IF gpu.pass = "light" /\ DeltaSelects(k)
                  THEN [gpu EXCEPT !.removed = @ \cup {SourceOf(k)}] ELSE gpu
        light == Weighted(k) <= gpu.algorithm
    IN  /\ gpu.pass # "frontier"
        /\ TakeTask(k, IF ~DeltaSelects(k) \/ ~Enabled(k) THEN marked
                       ELSE IF light # (gpu.pass = "light") THEN marked
                       ELSE IF ~Finite(Candidate(k))
                                 \/ BucketIndex(Candidate(k), gpu.algorithm) = BucketBound
                       THEN [marked EXCEPT !.status = "failed"]
                       ELSE [marked EXCEPT !.loaded = @ \cup {<<k, Candidate(k)>>}])

\* The entry points of the four kernels.
FrontierKernel(k) == layout = "resident" /\ FrontierThread(k)
DeltaKernel(k) == layout = "resident" /\ DeltaThread(k)
PartitionFrontierKernel(k) == layout = "chunked" /\ FrontierThread(k)
PartitionDeltaKernel(k) == layout = "chunked" /\ DeltaThread(k)

\* distance_min.
Lowers(node, candidate) ==
    IF gpu.distance[node] = None THEN TRUE ELSE candidate < gpu.distance[node]

\* The atomic minimum and what the thread records when it lowered the distance.
ThreadStores(k, candidate) ==
    LET node == EdgeAt(k).destination
        ended == [gpu EXCEPT !.loaded = @ \ {<<k, candidate>>}]
    IN  /\ gpu.stage = "kernel"
        /\ <<k, candidate>> \in gpu.loaded
        /\ gpu' = IF ~Lowers(node, candidate) THEN ended
                  ELSE IF gpu.pass = "frontier"
                  THEN [ended EXCEPT !.distance[node] = candidate, !.changed = TRUE,
                                     !.next = @ \cup {node}]
                  ELSE [ended EXCEPT
                          !.distance[node] = candidate,
                          !.changed = \/ @
                                      \/ /\ gpu.pass = "light"
                                         /\ BucketIndex(candidate, gpu.algorithm) = gpu.bucket]
        /\ UNCHANGED <<request, layout, cancelled, cpu, outcome>>

(* ------------------------------- Response ----------------------------- *)

\* Mutant: a stopped search reports the distances it has.
GpuTentativeState(i, stopped) ==
    LET node == DestinationDense(i)
    IN  IF node = 0 THEN [state |-> "missing"]
        ELSE IF gpu.distance[node] = None
        THEN [state |-> IF stopped THEN "incomplete" ELSE "unreachable"]
        ELSE [state |-> "exact", distance |-> gpu.distance[node], path |-> None]

GpuState(i, stopped) ==
    LET node == DestinationDense(i)
    IN  IF node = 0 THEN [state |-> "missing"]
        ELSE IF node = OriginDense THEN [state |-> "exact", distance |-> 0, path |-> None]
        ELSE IF stopped THEN [state |-> "incomplete"]
        ELSE IF gpu.distance[node] = None THEN [state |-> "unreachable"]
        ELSE [state |-> "exact", distance |-> gpu.distance[node], path |-> None]

\* The flag is read again after the search.  Paths come from a CPU pass over
\* the same image.
GpuClassify ==
    LET stopped == gpu.stopped \/ cancelled
        results == [i \in DOMAIN request.destinations |-> GpuState(i, stopped)]
    IN  /\ gpu.stage = "classify"
        /\ gpu' = [gpu EXCEPT !.results = results, !.stopped = stopped,
                              !.stage = IF request.paths THEN "evidence" ELSE "done"]
        /\ IF request.paths
           THEN cpu' = [IdleSearch EXCEPT !.stage = "begin"] /\ UNCHANGED outcome
           ELSE outcome' = "response" /\ UNCHANGED cpu
        /\ UNCHANGED <<request, layout, cancelled>>

\* verify_path_evidence on one destination.
EvidenceAgrees(left, right) ==
    IF left.state = "exact" /\ right.state = "exact"
    THEN left.distance = right.distance /\ right.path # None
    ELSE left.state = right.state

VerifyEvidence ==
    /\ gpu.stage = "evidence"
    /\ cpu.stage = "done"
    /\ gpu' = [gpu EXCEPT !.stage = "done", !.results = cpu.results]
    /\ outcome' = IF outcome # "response" THEN "kernel invariant"
                  ELSE IF /\ cpu.reason # "cancelled"
                          /\ \E i \in DOMAIN gpu.results :
                                ~EvidenceAgrees(gpu.results[i], cpu.results[i])
                  THEN "evidence mismatch" ELSE "response"
    /\ UNCHANGED <<request, layout, cancelled, cpu>>

GpuStep ==
    \/ GpuBegin
    \/ ScheduleFrontier \/ ScheduleLight \/ ScheduleHeavy
    \/ LaunchResident \/ LaunchFrontierPartition \/ LaunchDeltaPartition
    \/ \E k \in gpu.threads :
          \/ FrontierKernel(k) \/ DeltaKernel(k)
          \/ PartitionFrontierKernel(k) \/ PartitionDeltaKernel(k)
    \/ \E t \in gpu.loaded : ThreadStores(t[1], t[2])
    \/ Synchronize
    \/ SettleFrontier \/ SettleLight \/ SettleHeavy
    \/ GpuClassify
    \/ VerifyEvidence
=============================================================================
