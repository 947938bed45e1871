------------------------------ MODULE MCFacade ------------------------------
(***************************************************************************)
(* Six situations: allocating ids up to the largest; two routes and two    *)
(* cancellations of one request; a route, a cancellation and a checkpoint  *)
(* operation against shutdown; a route, hydrations of ids and of its path  *)
(* while a writer changes the graph; hydrations of a subgraph with true    *)
(* and false endpoints against a writer and shutdown; and edits of a       *)
(* subgraph up to its limits.                                              *)
(***************************************************************************)
EXTENDS Facade

CONSTANTS a, b, k, l

Edge(id, source, destination, relation) ==
    [id |-> id, source |-> source, destination |-> destination, relation |-> relation]

OneEdge == Edge(1, 1, 2, 1)

\* One confirmed edge 1 -> 2 of relation kind 1, and an unconnected node 3.
StartGraph ==
    [nodes |-> {1, 2, 3}, edges |-> {1}, relations |-> {1},
     records |-> [e \in Edges |-> IF e = 1 THEN OneEdge ELSE None]]

Quiet ==
    [graph |-> StartGraph, origin |-> 1, destinations |-> {2},
     supplied |-> {}, ids |-> {}, routers |-> {}, cancellers |-> {}, hydrators |-> {},
     writers |-> {}, externals |-> {}, closers |-> {}, requests |-> {}, profiles |-> {},
     changes |-> {}, nodes |-> {}, cited |-> {}, others |-> {}]

Allocating ==
    [Quiet EXCEPT !.supplied = {None, 0, 1, 2}, !.ids = {1}, !.cancellers = {k}]

Cancelling ==
    [Quiet EXCEPT !.supplied = {2}, !.ids = {2}, !.routers = {a, b}, !.cancellers = {k, l}]

Closing ==
    [Quiet EXCEPT !.supplied = {1}, !.ids = {1}, !.routers = {a}, !.cancellers = {k},
                  !.externals = {b}, !.closers = {l}]

\* A list that names an id twice is past the engine's limit of handles.
Repeating ==
    [HydrationRequest("hydrate", {2}, {1, 2}, None, {}) EXCEPT !.repeats = 1]

Hydrating ==
    [Quiet EXCEPT !.supplied = {1}, !.routers = {a}, !.hydrators = {b}, !.writers = {k},
                  !.destinations = {2, 3},
                  !.requests = {HydrationRequest("hydrate", {2}, {1, 2}, profile, {}) :
                                  profile \in {None, {1}, {1, 2}}}
                                 \cup {Repeating},
                  !.changes = {[op |-> "confirm", edge |-> Edge(0, 2, 3, 2)],
                               [op |-> "deleteEdge", edge |-> 1],
                               [op |-> "deleteNode", node |-> 2],
                               [op |-> "rebuild"]}]

\* The caller cites true endpoints of edge 1 and false ones.
Citing ==
    [Quiet EXCEPT !.hydrators = {b}, !.writers = {k}, !.closers = {l},
                  !.profiles = {None, {1}},
                  !.nodes = {3}, !.cited = {OneEdge, Edge(1, 3, 2, 1)},
                  !.changes = {[op |-> "deleteEdge", edge |-> 1]}]

Editing ==
    [Quiet EXCEPT !.nodes = 1..4,
                  !.cited = {Edge(e, s, 2, 1) : e \in 1..3, s \in {1, 3}},
                  !.others = {[nodes |-> {1, 2}, edges |-> [e \in {1} |-> Ends(Edge(1, s, 2, 1))]] :
                                s \in {1, 2, 3}}]

MCLimits == {Allocating, Cancelling, Closing, Hydrating, Citing, Editing}
=============================================================================
