---------------------------- MODULE RouteSearch -----------------------------
(***************************************************************************)
(* A bundle is compiled from a confirmed graph, and requests are answered  *)
(* from it one after another, by the CPU or by CUDA, over the resident     *)
(* image or partition by partition.  The caller may cancel at any moment.  *)
(***************************************************************************)
EXTENDS CudaSearch

routeVars ==
    <<phase, graph, config, scan, build, bundle, image, request, layout, cancelled, cpu, gpu,
      outcome>>

Running ==
    /\ request # None
    /\ ~(gpu.stage = "done" \/ (gpu.stage = "idle" /\ cpu.stage = "done"))

Done == request # None /\ ~Running

\* The answer the caller is given.
Results == IF gpu.stage = "done" THEN gpu.results ELSE cpu.results

RouteInit == SearchInit /\ gpu = IdleGpu

\* dispatch of an admitted request to one backend.
Submit(r, l) ==
    /\ phase = "built"
    /\ request = None
    /\ request' = r
    /\ layout' = l
    /\ \/ cpu' = [IdleSearch EXCEPT !.stage = "begin"] /\ UNCHANGED gpu
       \/ \E a \in Algorithms :
             gpu' = [IdleGpu EXCEPT !.stage = "begin", !.algorithm = a] /\ UNCHANGED cpu
    /\ UNCHANGED <<cancelled, outcome>>

Cancel ==
    /\ Running
    /\ ~cancelled
    /\ cancelled' = TRUE
    /\ UNCHANGED <<request, layout, cpu, gpu, outcome>>

Acknowledge ==
    /\ Done
    /\ request' = None
    /\ cancelled' = FALSE
    /\ cpu' = IdleSearch
    /\ gpu' = IdleGpu
    /\ outcome' = None
    /\ UNCHANGED layout

\* A bundle directory that could not be completed is given up.
Discard ==
    /\ phase = "failed"
    /\ phase' = "idle"
    /\ graph' = EmptyGraph
    /\ scan' = <<>>
    /\ build' = EmptyBuild
    /\ UNCHANGED <<config, bundle, image>>

SearchStep == (CpuStep /\ UNCHANGED gpu) \/ GpuStep

RouteNext ==
    \/ CompilerNext /\ UNCHANGED <<request, layout, cancelled, cpu, gpu, outcome>>
    \/ Discard /\ UNCHANGED <<request, layout, cancelled, cpu, gpu, outcome>>
    \/ \E r \in Requests, l \in {"resident", "chunked"} :
          Submit(r, l) /\ UNCHANGED compilerVars
    \/ Cancel /\ UNCHANGED compilerVars
    \/ SearchStep /\ UNCHANGED compilerVars
    \/ Acknowledge /\ UNCHANGED compilerVars

\* A search runs on its own thread until it answers.
RouteSpec ==
    /\ RouteInit
    /\ [][RouteNext]_routeVars
    /\ WF_routeVars(SearchStep /\ UNCHANGED compilerVars)

(* ------------------------------ Reference ----------------------------- *)

UseOf(relation) ==
    request.profile[CHOOSE i \in DOMAIN request.profile : request.profile[i][1] = relation][2]

EnabledEdges == {e \in graph.edges : UseOf(e.relation) # Disabled}

\* The least rounded sum over every walk of fewer edges than there are nodes,
\* from the request's origin, on the confirmed records themselves.
ReferenceDistance(id) ==
    LET reach[length \in 0 .. NodeCount - 1] ==     \* <<node, sum>> of each walk
            IF length = 0 THEN {<<request.origin, 0>>}
            ELSE {<<x[2].destination,
                    Round(x[1][2] + EffectiveWeight(x[2].weight, UseOf(x[2].relation)))>> :
                     x \in {y \in reach[length - 1] \X EnabledEdges : y[1][1] = y[2].source}}
        sums == {x[2] : x \in {y \in UNION {reach[i] : i \in 0 .. NodeCount - 1} : y[1] = id}}
    IN  IF sums = {} THEN None ELSE Min(sums)

\* A sequence of adjacency positions is a walk from the origin to a node.
IsWalk(steps, node) ==
    /\ \A i \in DOMAIN steps :
          LET from == IF i = 1 THEN OriginDense ELSE image.adjacency[steps[i - 1]].destination
          IN  /\ steps[i] \in OutgoingRange(image, from)
              /\ RelationUse(image.adjacency[steps[i]].relation) # Disabled
              /\ i = Len(steps) => image.adjacency[steps[i]].destination = node
    /\ steps = <<>> => node = OriginDense

(* ------------------------------ Properties ---------------------------- *)

\* compile_bundle and the reader lose nothing: the partitioned topology holds
\* exactly the adjacency RoutingImage::compile builds from the same records,
\* every range, edge_at and source_partition_ids included, and converting it
\* back gives a valid resident image.  A confirmed graph fails to compile for
\* two reasons only, an invalid configuration or more bytes than it allows: the
\* reader that reopens the bundle never refuses what was written.
BundleIsFaithful ==
    /\ phase = "built" /\ request = None =>
          /\ image = CompileRoutingImage(graph)
          /\ ImageIsValid(image)
          /\ \A k \in DOMAIN image.adjacency : ChunkedEdgeAt(bundle, k) = image.adjacency[k]
          /\ \A n \in DOMAIN image.nodes :
                /\ ChunkedRange(bundle, n) = OutgoingRange(image, n)
                /\ SourcePartitionIds(bundle, n) =
                      {PartitionOf(bundle, k) : k \in ChunkedRange(bundle, n)}
    /\ phase = "failed" /\ graph \in Graphs =>
          \/ ~ConfigIsValid(config)
          \/ scan = <<>> /\ TotalBytes(BundleOf(graph, build)) > config.total

\* Whatever the backend, the layout, the interleaving of threads, the budget
\* and the moment of a cancellation: an Exact answer is the least rounded
\* distance, a returned path is a walk to the destination with that sum,
\* Unreachable means no enabled walk, Missing an id outside the image, and
\* Incomplete is given only to a request that was stopped.
AnswersAreRight ==
    outcome = "response" /\ Done =>
        \A i \in DOMAIN request.destinations :
            LET answer == Results[i]
                id == request.destinations[i]
            IN  /\ (answer.state = "missing") <=> (id \notin graph.nodes)
                /\ answer.state = "exact" =>
                      /\ answer.distance = ReferenceDistance(id)
                      /\ answer.path # None =>
                            /\ IsWalk(answer.path, DestinationDense(i))
                            /\ PathSum(answer.path) = answer.distance
                /\ answer.state = "unreachable" => ReferenceDistance(id) = None
                /\ answer.state = "incomplete" => cancelled \/ request.budget # Unlimited
                /\ request.paths /\ answer.state = "exact" /\ ~cancelled => answer.path # None

\* docs/system-conformance.md, SS-NUM-07: CPU and CUDA share exact distance
\* bits, and a delta bucket that cannot be represented is a typed failure
\* rather than a misclassified response.
CudaSharesExactDistances ==
    outcome = "response" /\ gpu.stage = "done" /\ ~cancelled =>
        \A i \in DOMAIN request.destinations :
            LET known == ReferenceDistance(request.destinations[i])
            IN  Results[i].state = (IF known = None THEN "unreachable" ELSE "exact")

\* reconstruct_path never meets an inconsistent predecessor, and the CPU pass
\* that supplies path evidence never disagrees with the CUDA distances.
NoInternalError == outcome \notin {"internal invariant", "evidence mismatch"}

\* set_predecessor: a finalized node's predecessor is the least (dense source,
\* edge id) among the enabled edges that attain its distance from a node
\* finalized before it, so a path does not depend on the order of relaxation.
PredecessorIsStable ==
    cpu.stage \in {"pop", "classify", "walk"} /\ request.paths =>
        \A i \in DOMAIN cpu.finalized \ {1} :
            LET n == cpu.finalized[i]
                p == cpu.predecessor[n]
                tight == {<<cpu.finalized[j], EdgeAt(k).edge>> :
                             <<j, k>> \in {x \in (1 .. i - 1) \X (1 .. AdjacencyCount) :
                                LET e == EdgeAt(x[2]) s == cpu.finalized[x[1]]
                                IN  /\ x[2] \in Outgoing(s)
                                    /\ e.destination = n
                                    /\ RelationUse(e.relation) # Disabled
                                    /\ cpu.distance[n] =
                                         AccumulateDistance(cpu.distance[s],
                                            EffectiveWeight(e.weight, RelationUse(e.relation)))}}
            IN  /\ <<p.source, p.edge>> \in tight
                /\ \A t \in tight : t = <<p.source, p.edge>> \/ Before(<<p.source, p.edge>>, t)

\* estimate_topology_working_set is what admission reserves for a request: the
\* frontier and the retained path steps never outgrow it.
ReservationSuffices ==
    cpu.stage \notin {"idle", "begin"} /\ cpu.paths # <<>> =>
        /\ Cardinality(cpu.frontier) <= EstimatedFrontier
        /\ FoldSeq(LAMBDA p, sum : sum + (IF p = None THEN 0 ELSE Len(p)),
                   Len(cpu.walk), cpu.paths) <= EstimatedPathSteps

\* Every request ends: the light loop of delta-stepping, the frontier phases
\* and the CPU loop all reach an answer or an error.
SearchTerminates == Running ~> ~Running
=============================================================================
