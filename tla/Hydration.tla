----------------------------- MODULE Hydration -----------------------------
(***************************************************************************)
(* Hydration: resolving ids against the confirmed graph while mutations    *)
(* change it and republish the routing image. A mutation holds the routing *)
(* write lock from before its catalog write until the image is replaced; a *)
(* hydration holds the read lock from packing the profile against the      *)
(* image until the records are read and evaluated. hydrate_subgraph        *)
(* compares the endpoints after that, without the lock; it looks only at   *)
(* the records read and the caller's subgraph, so the comparison is part   *)
(* of the answer here, before the lock is given back. The catalog's own    *)
(* write guard makes each catalog step atomic. Catalog models what a       *)
(* mutation writes and Publication how an image is built; here a mutation  *)
(* is its effect on the records, and a build succeeds or fails.            *)
(***************************************************************************)
EXTENDS Subgraph

CONSTANTS
    Callers,      \* threads that call the engine
    Edges,        \* edge ids, allocated upwards from 1
    MaxHandles,   \* max_hydration_handles_per_request
    None

ASSUME HydrationAssumption ==
    /\ Edges \subseteq Nat \ {0} /\ \A e \in Edges : 1..e \subseteq Edges
    /\ MaxHandles \in Nat
    /\ None \notin Callers

VARIABLES
    lifecycle,   \* EngineLifecycleState
    permits,     \* lifecycle permits each caller holds
    graph,       \* confirmed records: nodes, edges, relations; and every record ever made
    image,       \* the published image's records, None when Unavailable
    writer,      \* who holds the routing write lock
    readers,     \* who holds the routing read lock
    pc,          \* where each caller is
    job,         \* the arguments of the call each caller makes
    batch,       \* ConfirmedRecordBatch read by each caller
    answer       \* what the last call of each caller returned

hydrationVars == <<lifecycle, permits, graph, image, writer, readers, pc, job, batch, answer>>

NoBatch == [nodes |-> {}, edges |-> {}]
Image(g) == [nodes |-> g.nodes, edges |-> g.edges, relations |-> g.relations]
Record(g, e) == g.records[e]

HydrationInit(start) ==
    /\ lifecycle = "Running"
    /\ permits = [c \in Callers |-> 0]
    /\ graph = start
    /\ image = Image(start)
    /\ writer = None
    /\ readers = {}
    /\ pc = [c \in Callers |-> "idle"]
    /\ job = [c \in Callers |-> None]
    /\ batch = [c \in Callers |-> NoBatch]
    /\ answer = [c \in Callers |-> None]

Goto(c, where) == pc' = [pc EXCEPT ![c] = where]
Acquire(c) == permits' = [permits EXCEPT ![c] = @ + 1]
Release(c) == permits' = [permits EXCEPT ![c] = 0]
Reply(c, what) == answer' = [answer EXCEPT ![c] = what]

\* A call that ends drops its locals: the arguments and the records it read.
Return(c) ==
    /\ Goto(c, "idle")
    /\ job' = [job EXCEPT ![c] = None]
    /\ batch' = [batch EXCEPT ![c] = NoBatch]

-----------------------------------------------------------------------------
(* Mutations: GraphEngine::confirmed_mutation_with_change.                  *)

BeginMutation(c, change) ==
    /\ pc[c] = "idle"
    /\ lifecycle = "Running"
    /\ Acquire(c)
    /\ job' = [job EXCEPT ![c] = change]
    /\ Goto(c, "lock")
    /\ UNCHANGED <<lifecycle, graph, image, writer, readers, batch, answer>>

LockRouting(c) ==
    /\ pc[c] = "lock"
    /\ writer = None
    /\ readers = {}
    /\ writer' = c
    /\ Goto(c, IF job[c].op = "rebuild" THEN "publish" ELSE "write")
    /\ UNCHANGED <<lifecycle, permits, graph, image, readers, job, batch, answer>>

\* Ids are handed out upwards and never again.
FreshEdge(g) == CHOOSE e \in Edges : g.records[e] = None /\ \A x \in 1..(e - 1) : g.records[x] # None

Confirm(g, edge) ==
    LET e == FreshEdge(g)
    IN [nodes |-> g.nodes, edges |-> g.edges \cup {e},
        relations |-> g.relations \cup {edge.relation},
        records |-> [g.records EXCEPT ![e] = [edge EXCEPT !.id = e]]]

RelationsOf(g, edges) == {Record(g, e).relation : e \in edges}

\* Deleting edges may leave relation kinds without any use: those go too,
\* except the ones that provisional records still count (`kept`).
WithoutEdges(g, nodes, gone, kept) ==
    LET left == g.edges \ gone
    IN [nodes |-> nodes, edges |-> left,
        relations |-> (g.relations \ RelationsOf(g, gone)) \cup kept \cup RelationsOf(g, left),
        records |-> g.records]

Incident(g, n) == {e \in g.edges : n \in {Record(g, e).source, Record(g, e).destination}}

\* The outcomes of the catalog write a mutation asks for. None: not found,
\* invalid, or nothing changed, and the call returns without publishing.
Effects(g, change) ==
    CASE change.op = "confirm" ->
           IF /\ {change.edge.source, change.edge.destination} \subseteq g.nodes
              /\ \E e \in Edges : g.records[e] = None
           THEN {Confirm(g, change.edge)} ELSE {}
      [] change.op = "deleteEdge" ->
           IF change.edge \in g.edges
           THEN {WithoutEdges(g, g.nodes, {change.edge}, kept) :
                   kept \in SUBSET RelationsOf(g, {change.edge})}
           ELSE {}
      [] change.op = "deleteNode" ->
           IF change.node \in g.nodes
           THEN LET gone == Incident(g, change.node)
                IN {WithoutEdges(g, g.nodes \ {change.node}, gone, kept) :
                      kept \in SUBSET RelationsOf(g, gone)}
           ELSE {}

WriteCatalog(c) ==
    /\ pc[c] = "write"
    /\ \/ /\ graph' \in Effects(graph, job[c])
          /\ Goto(c, "publish")
          /\ UNCHANGED <<writer, permits, job, batch>>
       \/ /\ graph' = graph
          /\ writer' = None
          /\ Release(c)
          /\ Return(c)
    /\ UNCHANGED <<lifecycle, image, readers, answer>>

\* A failed build leaves a mutation without an image and a rebuild with the
\* image it had.
AfterFailedBuild(c) == IF job[c].op = "rebuild" THEN image ELSE None

PublishImage(c) ==
    /\ pc[c] = "publish"
    /\ image' \in {Image(graph), AfterFailedBuild(c)}
    /\ writer' = None
    /\ Release(c)
    /\ Return(c)
    /\ UNCHANGED <<lifecycle, graph, readers, answer>>

-----------------------------------------------------------------------------
(* GraphEngine::hydrate, hydrate_path and hydrate_subgraph. A request is    *)
(* [op, nodes, edges, profile, evidence, repeats]: the ids, the relation    *)
(* kinds a profile lists (or None), the edge records a path or subgraph     *)
(* cites, and how many ids the lists of the request name again.             *)

HandleCount(request) ==
    Cardinality(request.nodes) + Cardinality(request.edges) + request.repeats

Finish(c, what) == Reply(c, what) /\ Goto(c, "return")

\* begin_route, then the limit on handles; hydrate_subgraph takes a permit of
\* its own before it calls hydrate.
BeginHydration(c, request) ==
    /\ pc[c] = "idle"
    /\ lifecycle = "Running"
    /\ Acquire(c)
    /\ job' = [job EXCEPT ![c] = request]
    /\ IF request.op = "subgraph"
       THEN Goto(c, "nested") /\ answer' = answer
       ELSE IF HandleCount(request) > MaxHandles
            THEN Finish(c, "HandleLimit")
            ELSE Goto(c, "image") /\ answer' = answer
    /\ UNCHANGED <<lifecycle, graph, image, writer, readers, batch>>

NestedHydration(c) ==
    /\ pc[c] = "nested"
    /\ IF lifecycle = "Running"
       THEN /\ Acquire(c)
            /\ IF HandleCount(job[c]) > MaxHandles
               THEN Finish(c, "HandleLimit")
               ELSE Goto(c, "image") /\ answer' = answer
       ELSE Finish(c, "Closing") /\ permits' = permits
    /\ UNCHANGED <<lifecycle, graph, image, writer, readers, job, batch>>

\* RelationProfile::pack_relation_ids: the profile lists every relation kind
\* of the image and no other.
Packs(profile) == profile = None \/ (image # None /\ profile = image.relations)

\* Mutant: the published state is looked at and unlocked again.
LockImageBriefly(c) ==
    /\ pc[c] = "image"
    /\ writer = None
    /\ IF Packs(job[c].profile)
       THEN Goto(c, "read") /\ UNCHANGED <<readers, answer>>
       ELSE /\ Finish(c, IF image = None THEN "RoutingUnavailable" ELSE "InvalidProfile")
            /\ readers' = readers
    /\ UNCHANGED <<lifecycle, permits, graph, image, writer, job, batch>>

LockImage(c) ==
    /\ pc[c] = "image"
    /\ writer = None
    /\ readers' = readers \cup {c}
    /\ IF Packs(job[c].profile)
       THEN Goto(c, "read") /\ answer' = answer
       ELSE Finish(c, IF image = None THEN "RoutingUnavailable" ELSE "InvalidProfile")
    /\ UNCHANGED <<lifecycle, permits, graph, image, writer, job, batch>>

\* Catalog::confirmed_records_by_id: absent ids are omitted, and a found edge
\* without its endpoints or its relation kind is a corruption.
ReadRecords(c) ==
    /\ pc[c] = "read"
    /\ LET found == job[c].edges \cap graph.edges
           whole == \A e \in found : LET r == Record(graph, e) IN
                       /\ {r.source, r.destination} \subseteq graph.nodes
                       /\ r.relation \in graph.relations
       IN IF whole
          THEN /\ batch' = [batch EXCEPT ![c] =
                              [nodes |-> job[c].nodes \cap graph.nodes,
                               edges |-> {Record(graph, e) : e \in found}]]
               /\ Goto(c, "answer")
               /\ answer' = answer
          ELSE Finish(c, "Corrupt") /\ batch' = batch
    /\ UNCHANGED <<lifecycle, permits, graph, image, writer, readers, job>>

AllFound(request, found) ==
    /\ found.nodes = request.nodes
    /\ {edge.id : edge \in found.edges} = request.edges

\* A step of a path cites the whole record, a subgraph only the endpoints.
Contradicts(request, edge) ==
    \E cited \in request.evidence :
        /\ cited.id = edge.id
        /\ IF request.op = "path" THEN cited # edge ELSE Ends(cited) # Ends(edge)

Unprofiled(request, edge) == request.profile # None /\ edge.relation \notin request.profile

HydrationAnswer(request, found) ==
    IF request.op = "path" /\ ~AllFound(request, found) THEN "Unavailable"
    ELSE IF \E edge \in found.edges : Unprofiled(request, edge) \/ Contradicts(request, edge)
         THEN "Integrity"
         ELSE IF AllFound(request, found) THEN "Complete" ELSE "Partial"

AnswerHydration(c) ==
    /\ pc[c] = "answer"
    /\ Finish(c, HydrationAnswer(job[c], batch[c]))
    /\ UNCHANGED <<lifecycle, permits, graph, image, writer, readers, job, batch>>

ReturnHydration(c) ==
    /\ pc[c] = "return"
    /\ readers' = readers \ {c}
    /\ Reply(c, None)
    /\ Release(c)
    /\ Return(c)
    /\ UNCHANGED <<lifecycle, graph, image, writer>>

HydrationStep(c) ==
    \/ LockRouting(c) \/ WriteCatalog(c) \/ PublishImage(c)
    \/ NestedHydration(c) \/ LockImage(c) \/ ReadRecords(c)
    \/ AnswerHydration(c) \/ ReturnHydration(c)

-----------------------------------------------------------------------------
(* What hydration promises, as long as its answer is not yet returned.      *)

Answered(c) == pc[c] = "return" /\ answer[c] \in {"Complete", "Partial", "Unavailable", "Integrity"}

\* An answer is one moment of the confirmed graph, and that moment is now:
\* the records are the current ones, complete or unavailable exactly when all
\* or not all ids are confirmed, never reported as corrupt; and a failed
\* integrity check means that the caller cited endpoints the edge never had
\* (GraphEngine::hydrate keeps the routing lock over pack_profile and
\* confirmed_records_by_id).
HydrationIsCurrent ==
    \A c \in Callers :
        /\ pc[c] = "return" => answer[c] # "Corrupt"
        /\ Answered(c) =>
             /\ batch[c].nodes = job[c].nodes \cap graph.nodes
             /\ batch[c].edges = {Record(graph, e) : e \in job[c].edges \cap graph.edges}
             /\ answer[c] = "Complete" => AllFound(job[c], batch[c])
             /\ answer[c] \in {"Unavailable", "Partial"} => ~AllFound(job[c], batch[c])
             /\ answer[c] = "Integrity" =>
                  /\ job[c].op = "subgraph"
                  /\ \E cited \in job[c].evidence : Ends(cited) # Ends(Record(graph, cited.id))
=============================================================================
