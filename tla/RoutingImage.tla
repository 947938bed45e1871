---------------------------- MODULE RoutingImage ----------------------------
(***************************************************************************)
(* The resident routing image: confirmed records compiled to dense node    *)
(* ids and a CSR adjacency, the checks a completed image passes, and the   *)
(* packing of a relation profile against its relation table.               *)
(*                                                                         *)
(* A graph is [nodes, relations: sets of ids, edges: a set of records].    *)
(* A dense id is a position, from 1, in an ascending identity table; 0     *)
(* stands for the id that is not there.  An offset counts the entries      *)
(* before a position, as it does in the code.                              *)
(***************************************************************************)
EXTENDS Naturals, Sequences, FiniteSets, SequencesExt

CONSTANT Disabled  \* RelationUse::Disabled

\* The members of a finite set in a strict order.
InOrder(S, Precedes(_, _)) ==
    [i \in 1 .. Cardinality(S) |->
        CHOOSE x \in S : Cardinality({y \in S : Precedes(y, x)}) = i - 1]

IdTable(ids) == InOrder(ids, <)

\* binary_search in an ascending identity table.
Dense(table, id) ==
    IF \E i \in DOMAIN table : table[i] = id
    THEN CHOOSE i \in DOMAIN table : table[i] = id
    ELSE 0

\* The outgoing-edge index is keyed (source id, edge id) and scanned from its
\* start.
OutgoingScan(g) ==
    InOrder(g.edges, LAMBDA a, b : \/ a.source < b.source
                                   \/ a.source = b.source /\ a.id < b.id)

\* One adjacency entry of a topology, whatever its layout.
Adjacent(nodes, relations, e) ==
    [edge        |-> e.id,
     destination |-> Dense(nodes, e.destination),
     relation    |-> Dense(relations, e.relation),
     weight      |-> e.weight]

Bucket(g, id) ==
    InOrder({e \in g.edges : e.source = id}, LAMBDA a, b : a.id < b.id)

\* RoutingImage::compile: buckets by source, each in edge-id order, flattened.
CompileRoutingImage(g) ==
    LET nodes == IdTable(g.nodes)
        relations == IdTable(g.relations)
        buckets == [i \in DOMAIN nodes |-> Bucket(g, nodes[i])]
        offset[i \in 1 .. Len(nodes) + 1] ==
            IF i = 1 THEN 0 ELSE offset[i - 1] + Len(buckets[i - 1])
    IN  [nodes     |-> nodes,
         relations |-> relations,
         offsets   |-> [i \in 1 .. Len(nodes) + 1 |-> offset[i]],
         adjacency |-> [k \in 1 .. offset[Len(nodes) + 1] |->
                           Adjacent(nodes, relations, FlattenSeq(buckets)[k])]]

\* validate_completed_image.
ImageIsValid(image) ==
    LET count == Len(image.adjacency)
        offsets == image.offsets
    IN  /\ Len(offsets) = Len(image.nodes) + 1
        /\ offsets[1] = 0 /\ offsets[Len(offsets)] = count
        /\ \A i \in DOMAIN image.nodes :
              /\ offsets[i] <= offsets[i + 1]
              /\ \A k \in offsets[i] + 1 .. offsets[i + 1] - 1 :
                    image.adjacency[k].edge < image.adjacency[k + 1].edge
        /\ \A k \in 1 .. count :
              /\ image.adjacency[k].destination \in DOMAIN image.nodes
              /\ image.adjacency[k].relation \in DOMAIN image.relations

\* RoutingTopology of the resident image.
OutgoingRange(image, dense) == image.offsets[dense] + 1 .. image.offsets[dense + 1]
ResidentEdgeAt(image, k) == image.adjacency[k]

(***************************************************************************)
(* A profile is a sequence of <<relation id, use>>; a use is Disabled or a *)
(* multiplier.  It must name every relation of the image exactly once.     *)
(***************************************************************************)
PackError(profile, relations) ==
    \/ \E i \in DOMAIN profile : Dense(relations, profile[i][1]) = 0
    \/ \E i, j \in DOMAIN profile : i # j /\ profile[i][1] = profile[j][1]
    \/ \E r \in DOMAIN relations :
          \A i \in DOMAIN profile : profile[i][1] # relations[r]

PackRelationIds(profile, relations) ==
    [r \in DOMAIN relations |->
        profile[CHOOSE i \in DOMAIN profile : profile[i][1] = relations[r]][2]]
=============================================================================
