--------------------------- MODULE ConfirmedGraph ---------------------------
(***************************************************************************)
(* What the catalog promises its callers: one graph of confirmed nodes,    *)
(* relation kinds and edges that changes only by whole promotions and      *)
(* whole removals, in which names are unique, edges always have their      *)
(* endpoints and their relation kind, and no identifier is ever used for a *)
(* second record.  Candidates, indexes, usage counts, crashes and reopens  *)
(* are invisible here.                                                     *)
(***************************************************************************)
EXTENDS Naturals, Functions

VARIABLES
    node,       \* confirmed node id -> name
    relation,   \* confirmed relation-kind id -> name
    edge,       \* confirmed edge id -> [source, destination, relation]
    next        \* the first id of each kind never given out

vars == <<node, relation, edge, next>>

Init ==
    /\ node = <<>>
    /\ relation = <<>>
    /\ edge = <<>>
    /\ next = [node |-> 1, relation |-> 1, edge |-> 1]

\* new keeps every record of old and adds records with the ids from a up to b.
Grows(old, new, a, b) ==
    /\ DOMAIN new = DOMAIN old \cup (a .. b - 1)
    /\ \A i \in DOMAIN old : new[i] = old[i]

Promote ==
    /\ Grows(node, node', next.node, next'.node)
    /\ Grows(relation, relation', next.relation, next'.relation)
    /\ Grows(edge, edge', next.edge, next'.edge)
    /\ IsInjective(node')
    /\ IsInjective(relation')
    /\ \A e \in DOMAIN edge' :
          /\ edge'[e].source \in DOMAIN node'
          /\ edge'[e].destination \in DOMAIN node'
          /\ edge'[e].relation \in DOMAIN relation'

\* The edges E go, and of the relation kinds they used only ones left without
\* an edge.
Withdraw(E) ==
    LET dropped == DOMAIN relation \ DOMAIN relation'
    IN  /\ edge' = Restrict(edge, DOMAIN edge \ E)
        /\ relation' = Restrict(relation, DOMAIN relation \cap DOMAIN relation')
        /\ dropped \subseteq {edge[e].relation : e \in E}
        /\ \A e \in DOMAIN edge' : edge'[e].relation \notin dropped
        /\ UNCHANGED next

RemoveEdge(e) ==
    /\ Withdraw({e})
    /\ UNCHANGED node

RemoveNode(n) ==
    /\ Withdraw({e \in DOMAIN edge : n \in {edge[e].source, edge[e].destination}})
    /\ node' = Restrict(node, DOMAIN node \ {n})

Next ==
    \/ Promote
    \/ \E e \in DOMAIN edge : RemoveEdge(e)
    \/ \E n \in DOMAIN node : RemoveNode(n)

Spec == Init /\ [][Next]_vars
=============================================================================
