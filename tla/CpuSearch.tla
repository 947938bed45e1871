----------------------------- MODULE CpuSearch ------------------------------
(***************************************************************************)
(* route_topology_controlled: the exact multi-destination search the CPU   *)
(* runs over a resident image or over the partitioned topology of the same *)
(* bundle, with cooperative cancellation, an examined-edge budget, stable  *)
(* predecessors and path reconstruction.  One step pops one frontier       *)
(* entry, examines one adjacency entry, classifies one destination or      *)
(* walks one predecessor; the caller may cancel between any two steps.     *)
(*                                                                         *)
(* Distances are binary64 sums.  They are naturals here, an addition       *)
(* rounding to Precision significant bits and overflowing past MaxFinite.  *)
(***************************************************************************)
EXTENDS BundleCompiler, FiniteSetsExt

CONSTANTS
    Requests,      \* [origin, destinations, profile, paths, budget]
    Unlimited,     \* SearchBudget::Unlimited
    None,          \* no value: an infinite distance, an absent path
    Precision,     \* significant bits of a distance
    MaxFinite      \* the largest finite distance

VARIABLES
    request,
    layout,        \* "resident" or "chunked": the topology acquired
    cancelled,     \* the request's cancellation flag
    cpu,           \* the search's own state
    outcome        \* "none", "response", or the error returned

searchVars == <<request, layout, cancelled, cpu, outcome>>

Unset == [source |-> 0, edge |-> 0, adjacency |-> 0]

(* ------------------------------ Arithmetic ---------------------------- *)

\* Round to nearest, ties to even, with Precision significant bits.
Round(x) ==
    LET unit == 2 ^ (CHOOSE k \in 0 .. x : /\ x < 2 ^ (Precision + k)
                                           /\ \A j \in 0 .. k - 1 : x >= 2 ^ (Precision + j))
        down == x \div unit
        rest == x % unit
    IN  IF 2 * rest > unit \/ (2 * rest = unit /\ down % 2 = 1)
        THEN (down + 1) * unit ELSE down * unit

\* effective_weight: the product of two binary32 values is exact in binary64.
EffectiveWeight(weight, multiplier) == weight * multiplier
AccumulateDistance(current, effective) == Round(current + effective)
Finite(x) == x <= MaxFinite

(* ------------------------------- Topology ----------------------------- *)

NodeCount == Len(image.nodes)
AdjacencyCount == Len(image.adjacency)
OriginDense == Dense(image.nodes, request.origin)
DestinationDense(i) == Dense(image.nodes, request.destinations[i])
Outgoing(node) ==
    IF layout = "resident" THEN OutgoingRange(image, node) ELSE ChunkedRange(bundle, node)
EdgeAt(k) ==
    IF layout = "resident" THEN ResidentEdgeAt(image, k) ELSE ChunkedEdgeAt(bundle, k)
RelationUse(relation) == PackRelationIds(request.profile, image.relations)[relation]

Permits(budget, examined) == IF budget = Unlimited THEN TRUE ELSE examined < budget

PresentDestinations == {DestinationDense(i) : i \in DOMAIN request.destinations} \ {0}

\* estimate_topology_working_set: the counts the caller's reservation is for.
EstimatedFrontier == AdjacencyCount + 1

\* Mutant: one path is reserved however many destinations there are.
EstimatedOnePath == IF request.paths THEN NodeCount - 1 ELSE 0

EstimatedPathSteps ==
    IF request.paths
    THEN Cardinality(PresentDestinations) * (NodeCount - 1) ELSE 0

(* -------------------------------- Search ------------------------------ *)

\* stage: "idle", "begin", "start", "pop", "examine", "classify", "walk" or "done".
IdleSearch ==
    [stage |-> "idle", distance |-> <<>>, finalized |-> <<>>, predecessor |-> <<>>,
     frontier |-> {}, pending |-> {}, examined |-> 0, at |-> 0, next |-> 0,
     reason |-> None, results |-> <<>>, walk |-> <<>>, paths |-> <<>>]

StartedSearch(origin) ==
    [IdleSearch EXCEPT
        !.stage = "start",
        !.distance = [n \in 1 .. NodeCount |-> IF n = origin THEN 0 ELSE None],
        !.predecessor = [n \in 1 .. NodeCount |-> Unset],
        !.paths = [n \in 1 .. NodeCount |-> None],
        !.frontier = {<<0, origin>>},
        !.pending = PresentDestinations]

SearchInit ==
    /\ CompilerInit
    /\ request = None
    /\ layout = "resident"
    /\ cancelled = FALSE
    /\ cpu = IdleSearch
    /\ outcome = None

Missing(r) == [i \in DOMAIN r.destinations |-> [state |-> "missing"]]

\* route_topology_controlled up to its loop: origin, profile, destinations.
BeginSearch ==
    /\ cpu.stage = "begin"
    /\ IF OriginDense = 0
       THEN outcome' = "missing origin" /\ cpu' = [cpu EXCEPT !.stage = "done"]
       ELSE IF PackError(request.profile, image.relations)
       THEN outcome' = "profile" /\ cpu' = [cpu EXCEPT !.stage = "done"]
       ELSE IF PresentDestinations = {}
       THEN /\ outcome' = "response"
            /\ cpu' = [cpu EXCEPT !.stage = "done", !.reason = "all finalized",
                                  !.results = Missing(request)]
       ELSE cpu' = StartedSearch(OriginDense) /\ UNCHANGED outcome
    /\ UNCHANGED <<request, layout, cancelled>>

Stop(reason) ==
    /\ cpu' = [cpu EXCEPT !.stage = "classify", !.reason = reason]
    /\ UNCHANGED outcome

Fail(error) ==
    /\ outcome' = error
    /\ cpu' = [cpu EXCEPT !.stage = "done"]

FirstCheck ==
    /\ cpu.stage = "start"
    /\ IF cancelled THEN Stop("cancelled")
       ELSE cpu' = [cpu EXCEPT !.stage = "pop"] /\ UNCHANGED outcome
    /\ UNCHANGED <<request, layout, cancelled>>

\* FrontierEntry: the smallest distance, then the smallest dense node.
Before(a, b) == a[1] < b[1] \/ (a[1] = b[1] /\ a[2] < b[2])
FirstEntry == CHOOSE a \in cpu.frontier : \A b \in cpu.frontier \ {a} : Before(a, b)

Finalized(node) == node \in ToSet(cpu.finalized)

\* A finalized node stops the search once nothing is pending.
FinalizeNode(node, popped) ==
    LET range == Outgoing(node)
        pending == cpu.pending \ {node}
        settled == [popped EXCEPT !.finalized = Append(@, node), !.pending = pending]
    IN  cpu' = IF pending = {}
               THEN [settled EXCEPT !.stage = "classify", !.reason = "all finalized"]
               ELSE IF range = {} THEN settled
               ELSE [settled EXCEPT !.stage = "examine", !.at = node, !.next = Min(range)]

Pop ==
    /\ cpu.stage = "pop"
    /\ IF cpu.frontier = {} THEN Stop("frontier exhausted")
       ELSE LET entry == FirstEntry
                popped == [cpu EXCEPT !.frontier = @ \ {entry}]
            IN  /\ IF Finalized(entry[2]) \/ cpu.distance[entry[2]] # entry[1]
                   THEN cpu' = popped
                   ELSE IF cancelled
                   THEN cpu' = [popped EXCEPT !.stage = "classify", !.reason = "cancelled"]
                   ELSE FinalizeNode(entry[2], popped)
                /\ UNCHANGED outcome
    /\ UNCHANGED <<request, layout, cancelled>>

\* Mutant: the first predecessor found at a distance is kept.
FirstPredecessor(old, new) == IF old = Unset THEN new ELSE old

\* The smaller tuple (dense source, edge id) is kept on a tie.
StablePredecessor(old, new) ==
    IF old = Unset \/ new.source < old.source
        \/ (new.source = old.source /\ new.edge < old.edge)
    THEN new ELSE old

\* Relaxation of an enabled edge to a node that is not finalized.
Relax(state, edge, candidate) ==
    LET node == edge.destination
        reached == [source |-> state.at, edge |-> edge.edge, adjacency |-> state.next]
        known == state.distance[node]
    IN  IF known = None \/ candidate < known
        THEN [state EXCEPT !.distance[node] = candidate,
                           !.predecessor[node] = IF request.paths THEN reached ELSE Unset,
                           !.frontier = @ \cup {<<candidate, node>>}]
        ELSE IF candidate = known /\ request.paths
        THEN [state EXCEPT !.predecessor[node] = StablePredecessor(@, reached)]
        ELSE state

\* After the last entry of the range the next frontier entry is popped.
Advance(state) ==
    IF state.next + 1 \in Outgoing(state.at)
    THEN [state EXCEPT !.next = @ + 1]
    ELSE [state EXCEPT !.stage = "pop"]

ExamineEdge ==
    /\ cpu.stage = "examine"
    /\ IF cancelled THEN Stop("cancelled")
       ELSE IF ~Permits(request.budget, cpu.examined) THEN Stop("budget")
       ELSE LET edge == EdgeAt(cpu.next)
                use == RelationUse(edge.relation)
                counted == [cpu EXCEPT !.examined = @ + 1]
                candidate == AccumulateDistance(cpu.distance[cpu.at],
                                                EffectiveWeight(edge.weight, use))
            IN  IF use = Disabled \/ Finalized(edge.destination)
                THEN cpu' = Advance(counted) /\ UNCHANGED outcome
                ELSE IF ~Finite(candidate) THEN Fail("arithmetic")
                ELSE /\ cpu' = Advance(Relax(counted, edge, candidate))
                     /\ UNCHANGED outcome
    /\ UNCHANGED <<request, layout, cancelled>>

\* A chunked edge_at that waits for its partition while the caller cancels, or
\* whose partition cannot be read.
EdgeAtInterrupted ==
    /\ cpu.stage = "examine"
    /\ layout = "chunked"
    /\ ~cancelled
    /\ Permits(request.budget, cpu.examined)
    /\ \/ /\ cancelled' = TRUE
          /\ cpu' = [cpu EXCEPT !.examined = @ + 1, !.stage = "classify",
                                !.reason = "cancelled"]
          /\ UNCHANGED outcome
       \/ Fail("image access") /\ UNCHANGED cancelled
    /\ UNCHANGED <<request, layout>>

(* ------------------------------- Response ----------------------------- *)

Answer(state) ==
    [cpu EXCEPT !.results = Append(@, state), !.stage = "classify", !.walk = <<>>]

\* One destination of the request, in order.  An exact one may first need its
\* path; a path found for an earlier duplicate is shared.
ClassifyDestination ==
    LET i == Len(cpu.results) + 1
        node == DestinationDense(i)
    IN  /\ cpu.stage = "classify"
        /\ i \in DOMAIN request.destinations
        /\ cpu' = IF node = 0 THEN Answer([state |-> "missing"])
                  ELSE IF Finalized(node) \/ node = OriginDense
                  THEN IF ~request.paths \/ cpu.paths[node] # None \/ node = OriginDense
                       THEN Answer([state |-> "exact", distance |-> cpu.distance[node],
                                    path |-> IF ~request.paths THEN None
                                             ELSE IF node = OriginDense THEN <<>>
                                             ELSE cpu.paths[node]])
                       ELSE [cpu EXCEPT !.stage = "walk", !.at = node, !.walk = <<>>]
                  ELSE IF cpu.reason \in {"budget", "cancelled"}
                  THEN Answer([state |-> "incomplete"])
                  ELSE Answer([state |-> "unreachable"])
        /\ UNCHANGED <<request, layout, cancelled, outcome>>

Respond ==
    /\ cpu.stage = "classify"
    /\ Len(cpu.results) = Len(request.destinations)
    /\ cpu' = [cpu EXCEPT !.stage = "done"]
    /\ outcome' = "response"
    /\ UNCHANGED <<request, layout, cancelled>>

\* The predecessor entry that reconstruct_path follows is inconsistent.
BadPredecessor(p) ==
    \/ p = Unset
    \/ p.adjacency \notin Outgoing(p.source)
    \/ EdgeAt(p.adjacency).edge # p.edge
    \/ EdgeAt(p.adjacency).destination # cpu.at
    \/ RelationUse(EdgeAt(p.adjacency).relation) = Disabled

PathSum(steps) ==
    LET sum[i \in 0 .. Len(steps)] ==
            IF i = 0 THEN 0
            ELSE LET e == EdgeAt(steps[i])
                 IN  AccumulateDistance(sum[i - 1],
                                        EffectiveWeight(e.weight, RelationUse(e.relation)))
    IN  sum[Len(steps)]

\* The walk back came to a node it has visited: those are the destinations of
\* its steps.
Revisits ==
    \/ cpu.at \in {EdgeAt(k).destination : k \in ToSet(cpu.walk)}
    \/ Len(cpu.walk) >= NodeCount

\* One iteration of reconstruct_path; the steps are kept in forward order.
WalkPath ==
    LET node == DestinationDense(Len(cpu.results) + 1)
        p == cpu.predecessor[cpu.at]
        steps == <<p.adjacency>> \o cpu.walk
    IN  /\ cpu.stage = "walk"
        /\ IF cancelled
           THEN /\ cpu' = [Answer([state |-> "exact", distance |-> cpu.distance[node],
                                   path |-> None]) EXCEPT !.reason = "cancelled"]
                /\ UNCHANGED outcome
           ELSE IF Revisits \/ BadPredecessor(p)
           THEN Fail("internal invariant")
           ELSE IF p.source # OriginDense
           THEN /\ cpu' = [cpu EXCEPT !.at = p.source, !.walk = steps]
                /\ UNCHANGED outcome
           ELSE IF PathSum(steps) # cpu.distance[node]
           THEN Fail("internal invariant")
           ELSE /\ cpu' = [Answer([state |-> "exact", distance |-> cpu.distance[node],
                                   path |-> steps]) EXCEPT !.paths[node] = steps]
                /\ UNCHANGED outcome
        /\ UNCHANGED <<request, layout, cancelled>>

\* A chunked edge_at of reconstruct_path whose partition cannot be read.  One
\* that is cancelled while it waits ends like a walk cancelled before.
WalkInterrupted ==
    LET p == cpu.predecessor[cpu.at]
    IN  /\ cpu.stage = "walk"
        /\ layout = "chunked"
        /\ ~cancelled
        /\ ~Revisits /\ p # Unset /\ p.adjacency \in Outgoing(p.source)
        /\ Fail("image access")
        /\ UNCHANGED <<request, layout, cancelled>>

CpuStep ==
    \/ BeginSearch
    \/ FirstCheck
    \/ Pop
    \/ ExamineEdge
    \/ EdgeAtInterrupted
    \/ ClassifyDestination
    \/ Respond
    \/ WalkPath
    \/ WalkInterrupted
=============================================================================
