------------------------------ MODULE Subgraph ------------------------------
(***************************************************************************)
(* The caller-owned subgraph: a set of node ids and, for each edge id, the *)
(* endpoints it was added with. Every facade operation converts the        *)
(* caller's value, edits the copy and writes it back only when nothing     *)
(* failed, so an operation is a function from a value to an outcome        *)
(* [ok, value] whose value is the old one unless ok.                       *)
(***************************************************************************)
EXTENDS Naturals, FiniteSets, Sequences, Functions

CONSTANTS
    MaxSubgraphNodes,  \* maximum_subgraph_nodes
    MaxSubgraphEdges   \* maximum_subgraph_edges

ASSUME SubgraphAssumption ==
    /\ MaxSubgraphNodes \in Nat
    /\ MaxSubgraphEdges \in Nat

NoEdges == [e \in {} |-> {}]
EmptySubgraph == [nodes |-> {}, edges |-> NoEdges]

Ends(edge) == [source |-> edge.source, destination |-> edge.destination]

\* Subgraph::validate_edge: an id already present keeps its endpoints.
ValidateEdge(g, e, ends) ==
    e \in DOMAIN g.edges => g.edges[e] = ends

PutEdge(g, e, ends) ==
    [nodes |-> g.nodes \cup {ends.source, ends.destination},
     edges |-> [x \in DOMAIN g.edges \cup {e} |-> IF x = e THEN ends ELSE g.edges[x]]]

\* Subgraph::add_path: the steps must be one walk from origin to destination.
IsWalk(path) ==
    LET steps == path.steps IN
    /\ steps = <<>> => path.origin = path.destination
    /\ steps # <<>> => /\ Head(steps).source = path.origin
                       /\ steps[Len(steps)].destination = path.destination
    /\ \A k \in 1..(Len(steps) - 1) :
          steps[k].destination = steps[k + 1].source

\* Each step is inserted over what its id had before, so the last step of an
\* id gives the endpoints.
LastStep(steps, e) ==
    CHOOSE k \in 1..Len(steps) : steps[k].id = e /\ \A j \in (k + 1)..Len(steps) : steps[j].id # e

PutPath(g, path) ==
    LET ids == {step.id : step \in Range(path.steps)}
        ends == UNION {{step.source, step.destination} : step \in Range(path.steps)}
    IN [nodes |-> g.nodes \cup {path.origin} \cup ends,
        edges |-> [e \in DOMAIN g.edges \cup ids |->
                     IF e \in ids THEN Ends(path.steps[LastStep(path.steps, e)]) ELSE g.edges[e]]]

PutAll(g, other) ==
    [nodes |-> g.nodes \cup other.nodes,
     edges |-> [e \in DOMAIN g.edges \cup DOMAIN other.edges |->
                  IF e \in DOMAIN other.edges THEN other.edges[e] ELSE g.edges[e]]]

\* check_subgraph_limits and check_subgraph_dto_limits.
WithinLimits(g) ==
    /\ Cardinality(g.nodes) <= MaxSubgraphNodes
    /\ Cardinality(DOMAIN g.edges) <= MaxSubgraphEdges

\* SubgraphHandlesDto::validate; the order of the two lists is left out.
ValidHandles(g) ==
    \A e \in DOMAIN g.edges : {g.edges[e].source, g.edges[e].destination} \subseteq g.nodes

Readable(g) == WithinLimits(g) /\ ValidHandles(g)

Outcome(g, ok, edited) == [ok |-> ok, value |-> IF ok THEN edited ELSE g]

SubgraphAddNode(g, n) ==
    LET edited == [g EXCEPT !.nodes = @ \cup {n}]
    IN Outcome(g, Readable(g) /\ WithinLimits(edited), edited)

SubgraphAddEdge(g, e, ends) ==
    LET edited == PutEdge(g, e, ends)
    IN Outcome(g, Readable(g) /\ ValidateEdge(g, e, ends) /\ WithinLimits(edited), edited)

SubgraphRemoveEdge(g, e) ==
    Outcome(g, Readable(g), [g EXCEPT !.edges = Restrict(@, DOMAIN @ \ {e})])

SubgraphRemoveNode(g, n) ==
    LET kept == {e \in DOMAIN g.edges :
                   n \notin {g.edges[e].source, g.edges[e].destination}}
    IN Outcome(g, Readable(g), [nodes |-> g.nodes \ {n}, edges |-> Restrict(g.edges, kept)])

\* Mutant: the ids of the other operand are not checked against this one.
SubgraphUnionUnchecked(g, other) ==
    Outcome(g, Readable(g) /\ Readable(other) /\ WithinLimits(PutAll(g, other)), PutAll(g, other))

SubgraphUnion(g, other) ==
    LET edited == PutAll(g, other)
        agrees == \A e \in DOMAIN other.edges : ValidateEdge(g, e, other.edges[e])
    IN Outcome(g, Readable(g) /\ Readable(other) /\ agrees /\ WithinLimits(edited), edited)

AddPathToSubgraph(g, path) ==
    LET edited == PutPath(g, path)
        agrees == \A k \in 1..Len(path.steps) :
                    ValidateEdge(g, path.steps[k].id, Ends(path.steps[k]))
    IN Outcome(g, Readable(g) /\ IsWalk(path) /\ agrees /\ WithinLimits(edited), edited)
=============================================================================
