------------------------------ MODULE Catalog ------------------------------
(***************************************************************************)
(* The graph catalog on RocksDB: candidates are inserted in batches,       *)
(* promoted in dependency-complete selections, and confirmed edges and     *)
(* nodes are removed.  Every mutation is planned under the write mutex and *)
(* committed as one write batch; the name indexes in memory follow after   *)
(* the commit, behind their locks.  The process may die between any two    *)
(* steps; Checkpoint models what a power loss takes back.                  *)
(*                                                                         *)
(* Payloads and weights are left out: no decision depends on them.         *)
(***************************************************************************)
EXTENDS Naturals, FiniteSets, Sequences, FiniteSetsExt, Functions

CONSTANTS
    Batches,      \* the candidate batches callers insert
    Selections,   \* the candidate selections callers promote
    MaxBatch,     \* MAXIMUM_CANDIDATE_BATCH_ENTRIES
    LastId        \* u64::MAX, for each counter

Counters == {"candidate", "node", "relation", "edge"}

ASSUME CatalogAssumption ==
    /\ MaxBatch \in Nat
    /\ LastId \in [Counters -> Nat \ {0}]

VARIABLES
    db,        \* what RocksDB holds, one field for each column family
    open,      \* a Catalog value exists
    nodeIndex, \* Catalog.node_names
    relIndex,  \* Catalog.relation_names
    pending,   \* the indexes a committed mutation is about to install, and
               \* those whose write lock it holds
    error      \* the class of the last call's error

vars == <<db, open, nodeIndex, relIndex, pending, error>>

None == <<>>

EmptyDb ==
    [candidate |-> <<>>,      \* CANDIDATES
     node      |-> <<>>,      \* NODES: id -> name
     nodeName  |-> <<>>,      \* NODE_NAMES: name -> id
     relation  |-> <<>>,      \* RELATION_KINDS: id -> name and usage
     relName   |-> <<>>,      \* RELATION_NAMES
     popular   |-> {},        \* RELATION_POPULARITY keys
     edge      |-> <<>>,      \* EDGES
     outgoing  |-> {},        \* OUTGOING_EDGES keys
     incoming  |-> {},        \* INCOMING_EDGES keys
     next      |-> [c \in Counters |-> 0],   \* 0: the record is missing
     image     |-> None]      \* META_ACTIVE_ROUTING_IMAGE

Init ==
    /\ db = EmptyDb
    /\ open = FALSE
    /\ nodeIndex = <<>>
    /\ relIndex = <<>>
    /\ pending = None
    /\ error = "none"

Without(f, S) == Restrict(f, DOMAIN f \ S)

Override(f, g) ==
    [x \in DOMAIN f \cup DOMAIN g |-> IF x \in DOMAIN g THEN g[x] ELSE f[x]]

\* The confirmed graph a routing image is built from.
GraphOf(d) ==
    [node |-> d.node, edge |-> d.edge,
     relation |-> [r \in DOMAIN d.relation |-> d.relation[r].name]]

PopularityKey(rel, r) == <<rel[r].prov + rel[r].conf, rel[r].conf, r>>

\* The popularity index after the records of R change from old to new.
Reranked(popular, old, new, R) ==
    (popular \ {PopularityKey(old, r) : r \in R \cap DOMAIN old})
        \cup {PopularityKey(new, r) : r \in R \cap DOMAIN new}

-----------------------------------------------------------------------------
\* One write batch: it is applied whole, or the write fails and nothing is.
\* A mutation that changes names keeps its index locks until Install.
Commit(d, names) ==
    /\ db' = d
    /\ pending' = names
    /\ error' = "none"
    /\ UNCHANGED <<open, nodeIndex, relIndex>>

Refuse(why) ==
    /\ error' = why
    /\ UNCHANGED <<db, open, nodeIndex, relIndex, pending>>

\* The write mutex is free.
Ready == open /\ pending = None

\* commit_batch reports a RocksDB write error, or an allocation failed before it.
WriteFails == Ready /\ Refuse("refused")

\* The mutation returns: the indexes follow the commit and the locks go.
Install ==
    /\ pending # None
    /\ nodeIndex' = pending.node
    /\ relIndex' = pending.relation
    /\ pending' = None
    /\ UNCHANGED <<db, open, error>>

-----------------------------------------------------------------------------
\* insert_candidate_batch.  An entry is a node, a relation kind or an edge; an
\* edge refers to <<"confirmed", id>> or to <<"batch", position>>.
Reference(batch, k) ==
    LET entry == batch[(k \div 3) + 1]
    IN  IF entry.kind # "edge" THEN <<"absent", 0>>
        ELSE CASE k % 3 = 0 -> entry.source
               [] k % 3 = 1 -> entry.destination
               [] k % 3 = 2 -> entry.relation

\* Reference k is the source, destination or relation kind of entry (k div 3) + 1.
References(batch) == 0 .. 3 * Len(batch) - 1

ReferenceResolves(batch, k) ==
    LET ref == Reference(batch, k)
        wanted == IF k % 3 = 2 THEN "relation" ELSE "node"
    IN  CASE ref[1] = "absent" -> TRUE
          [] ref[1] = "confirmed" -> ref[2] \in DOMAIN db[wanted]
          [] ref[1] = "batch" -> ref[2] \in DOMAIN batch /\ batch[ref[2]].kind = wanted

BatchAccepted(batch) ==
    /\ batch # <<>>
    /\ Len(batch) <= MaxBatch
    /\ db.next.candidate + Len(batch) <= LastId.candidate
    /\ \A k \in References(batch) : ReferenceResolves(batch, k)

\* The candidate stored for entry i when the batch gets the ids from first on.
CandidateOf(batch, i, first) ==
    LET entry == batch[i]
        stored(ref) == IF ref[1] = "batch"
                       THEN <<"candidate", first + ref[2] - 1>> ELSE ref
    IN  IF entry.kind = "edge"
        THEN [kind |-> "edge", source |-> stored(entry.source),
              destination |-> stored(entry.destination),
              relation |-> stored(entry.relation)]
        ELSE [kind |-> entry.kind, name |-> entry.name,
              uses |-> Cardinality({k \in References(batch) :
                                      Reference(batch, k) = <<"batch", i>>})]

InsertCandidateBatch(batch) ==
    LET first == db.next.candidate
        ids   == first .. first + Len(batch) - 1
        delta(r) == Cardinality({k \in References(batch) :
                       k % 3 = 2 /\ Reference(batch, k) = <<"confirmed", r>>})
        rel == [r \in DOMAIN db.relation |->
                  [db.relation[r] EXCEPT !.prov = @ + delta(r)]]
    IN  /\ Ready
        /\ BatchAccepted(batch)
        /\ Commit([db EXCEPT
                     !.candidate = Override(@, [c \in ids |->
                                      CandidateOf(batch, c - first + 1, first)]),
                     !.relation = rel,
                     !.popular = Reranked(@, db.relation, rel,
                                   {r \in DOMAIN rel : delta(r) > 0}),
                     !.next.candidate = first + Len(batch)],
                  None)

InsertRefused(batch) ==
    /\ Ready
    /\ ~ BatchAccepted(batch)
    /\ Refuse("refused")

-----------------------------------------------------------------------------
\* confirm_candidate_batch_with_response_limit, on a sequence of candidate ids.
Places(sel, kind) == {i \in DOMAIN sel : db.candidate[sel[i]].kind = kind}

\* The edges of the selection that refer to candidate c, once per reference.
SelectedUses(sel, c) ==
    {<<i, f>> \in Places(sel, "edge") \X {"source", "destination", "relation"} :
        db.candidate[sel[i]][f] = <<"candidate", c>>}

\* Every dependency of a selected edge is confirmed, or selected with it.
DependenciesSelected(sel) ==
    \A i \in Places(sel, "edge"), f \in {"source", "destination", "relation"} :
        LET ref == db.candidate[sel[i]][f]
            wanted == IF f = "relation" THEN "relation" ELSE "node"
        IN  CASE ref[1] = "confirmed" -> ref[2] \in DOMAIN db[wanted]
              [] ref[1] = "candidate" ->
                    \E j \in Places(sel, wanted) : sel[j] = ref[2]

\* No unselected edge refers to a selected node or relation kind.
DependentsSelected(sel) ==
    \A i \in Places(sel, "node") \cup Places(sel, "relation") :
        db.candidate[sel[i]].uses = Cardinality(SelectedUses(sel, sel[i]))

\* Mutant of Created: forgets the names planned earlier in the same selection.
CreatedTwice(sel, kind, index) ==
    {i \in Places(sel, kind) : db.candidate[sel[i]].name \notin DOMAIN index}

\* The first place of each name that the index does not resolve.
Created(sel, kind, index) ==
    {i \in Places(sel, kind) :
        LET name == db.candidate[sel[i]].name
        IN  /\ name \notin DOMAIN index
            /\ \A j \in Places(sel, kind) :
                  j < i => db.candidate[sel[j]].name # name}

\* Ids are given out in selection order, from the counter on.
NewId(places, counter, i) ==
    db.next[counter] + Cardinality({j \in places : j < i})

\* The confirmed record each selected node or relation kind resolves to.
Resolution(sel, kind, index) ==
    [i \in Places(sel, kind) |->
        LET name == db.candidate[sel[i]].name
            new  == Created(sel, kind, index)
        IN  IF name \in DOMAIN index THEN index[name]
            ELSE NewId(new, kind,
                       CHOOSE j \in new : db.candidate[sel[j]].name = name)]

Resolved(sel, kind, index, ref) ==
    IF ref[1] = "confirmed" THEN ref[2]
    ELSE Resolution(sel, kind, index)
            [CHOOSE i \in Places(sel, kind) : sel[i] = ref[2]]

\* The edge record that place i becomes.
EdgeOf(sel, i) ==
    LET c == db.candidate[sel[i]]
    IN  [source |-> Resolved(sel, "node", nodeIndex, c.source),
         destination |-> Resolved(sel, "node", nodeIndex, c.destination),
         relation |-> Resolved(sel, "relation", relIndex, c.relation)]

\* The selected edges that release a provisional reference to relation kind r.
Released(sel, r) ==
    {i \in Places(sel, "edge") :
        db.candidate[sel[i]].relation = <<"confirmed", r>>}

\* Every name an index resolves is read back from its record.
IndexedRecordsExist(sel) ==
    /\ \A i \in Places(sel, "node") : LET name == db.candidate[sel[i]].name
          IN  name \in DOMAIN nodeIndex => nodeIndex[name] \in DOMAIN db.node
    /\ \A i \in Places(sel, "relation") : LET name == db.candidate[sel[i]].name
          IN  name \in DOMAIN relIndex => relIndex[name] \in DOMAIN db.relation

CountersSuffice(sel) ==
    /\ db.next.node + Cardinality(Created(sel, "node", nodeIndex)) <= LastId.node
    /\ db.next.relation + Cardinality(Created(sel, "relation", relIndex))
          <= LastId.relation
    /\ db.next.edge + Cardinality(Places(sel, "edge")) <= LastId.edge

ConfirmError(sel) ==
    IF \/ sel = <<>> \/ Len(sel) > MaxBatch
       \/ ~ IsInjective(sel) \/ ~ (Range(sel) \subseteq DOMAIN db.candidate)
       \/ ~ DependenciesSelected(sel) \/ ~ DependentsSelected(sel)
       \/ ~ IndexedRecordsExist(sel) \/ ~ CountersSuffice(sel)
    THEN "refused"
    ELSE IF \E r \in DOMAIN db.relation :
               db.relation[r].prov < Cardinality(Released(sel, r))
    THEN "corrupt"
    ELSE "none"

\* Records keyed by new id, from the places that create them.
NewRecords(places, counter, record(_)) ==
    [id \in {NewId(places, counter, i) : i \in places} |->
        record(CHOOSE i \in places : NewId(places, counter, i) = id)]

ConfirmCandidateBatch(sel) ==
    LET nameAt(i) == db.candidate[sel[i]].name
        unused(i) == [name |-> nameAt(i), prov |-> 0, conf |-> 0]
        edgeAt(i) == EdgeOf(sel, i)
        newNodes == Created(sel, "node", nodeIndex)
        newRels  == Created(sel, "relation", relIndex)
        nodes == NewRecords(newNodes, "node", nameAt)
        rels  == NewRecords(newRels, "relation", unused)
        edges == NewRecords(Places(sel, "edge"), "edge", edgeAt)
        added(r) == Cardinality({e \in DOMAIN edges : edges[e].relation = r})
        all == Override(db.relation, rels)
        rel == [r \in DOMAIN all |->
                  [all[r] EXCEPT !.prov = @ - Cardinality(Released(sel, r)),
                                 !.conf = @ + added(r)]]
        touched == {r \in DOMAIN rel : r \in DOMAIN rels \/ added(r) > 0}
        nodeNames == [n \in Range(nodes) |-> CHOOSE i \in DOMAIN nodes : nodes[i] = n]
        relNames  == [n \in {rels[r].name : r \in DOMAIN rels} |->
                        CHOOSE r \in DOMAIN rels : rels[r].name = n]
        changed == DOMAIN nodes \cup DOMAIN rels \cup DOMAIN edges # {}
    IN  /\ Ready
        /\ ConfirmError(sel) = "none"
        /\ Commit([db EXCEPT
                     !.candidate = Without(@, Range(sel)),
                     !.node = Override(@, nodes),
                     !.nodeName = Override(@, nodeNames),
                     !.relation = rel,
                     !.relName = Override(@, relNames),
                     !.popular = Reranked(@, db.relation, rel, touched),
                     !.edge = Override(@, edges),
                     !.outgoing = @ \cup {<<edges[e].source, e>> : e \in DOMAIN edges},
                     !.incoming = @ \cup {<<edges[e].destination, e>> : e \in DOMAIN edges},
                     !.image = IF changed THEN None ELSE @,
                     !.next.node = @ + Cardinality(DOMAIN nodes),
                     !.next.relation = @ + Cardinality(DOMAIN rels),
                     !.next.edge = @ + Cardinality(DOMAIN edges)],
                  [node |-> Override(nodeIndex, nodeNames),
                   relation |-> Override(relIndex, relNames),
                   locked |-> {"node", "relation"}])

\* The last error is a response that would not fit the caller's limit.
ConfirmRefused(sel) ==
    /\ Ready
    /\ \/ ConfirmError(sel) # "none" /\ Refuse(ConfirmError(sel))
       \/ ConfirmError(sel) = "none" /\ Refuse("refused")

-----------------------------------------------------------------------------
\* Removing the edges E: the canonical records, both adjacency entries, their
\* share of the usage counts, and the relation kinds nothing uses any more.
LostUses(E, r) == Cardinality({e \in E : db.edge[e].relation = r})

UsedRelations(E) == {db.edge[e].relation : e \in E}

Unused(E) ==
    {r \in UsedRelations(E) :
        db.relation[r].prov = 0 /\ db.relation[r].conf = LostUses(E, r)}

\* Mutant of WithoutEdges: leaves the routing pointer.
WithoutEdgesKeepsImage(E) ==
    LET rel == [r \in DOMAIN db.relation \ Unused(E) |->
                  [db.relation[r] EXCEPT !.conf = @ - LostUses(E, r)]]
    IN  [db EXCEPT
           !.edge = Without(@, E),
           !.outgoing = @ \ {<<db.edge[e].source, e>> : e \in E},
           !.incoming = @ \ {<<db.edge[e].destination, e>> : e \in E},
           !.relation = rel,
           !.relName = Without(@, {db.relation[r].name : r \in Unused(E)}),
           !.popular = Reranked(@, db.relation, rel, UsedRelations(E))]

WithoutEdges(E) ==
    LET rel == [r \in DOMAIN db.relation \ Unused(E) |->
                  [db.relation[r] EXCEPT !.conf = @ - LostUses(E, r)]]
    IN  [db EXCEPT
           !.edge = Without(@, E),
           !.outgoing = @ \ {<<db.edge[e].source, e>> : e \in E},
           !.incoming = @ \ {<<db.edge[e].destination, e>> : e \in E},
           !.relation = rel,
           !.relName = Without(@, {db.relation[r].name : r \in Unused(E)}),
           !.popular = Reranked(@, db.relation, rel, UsedRelations(E)),
           !.image = None]

RelIndexWithout(E) ==
    Without(relIndex, {db.relation[r].name : r \in Unused(E)})

\* validate_exact_adjacency, and usage counts large enough for the removal.
EdgesIntact(E) ==
    /\ \A e \in E : /\ <<db.edge[e].source, e>> \in db.outgoing
                    /\ <<db.edge[e].destination, e>> \in db.incoming
    /\ \A r \in UsedRelations(E) :
          r \in DOMAIN db.relation => db.relation[r].conf >= LostUses(E, r)

RemoveEdgeError(e) ==
    IF e \notin DOMAIN db.edge THEN "refused"
    ELSE IF ~ EdgesIntact({e}) THEN "corrupt"
    ELSE IF db.edge[e].relation \notin DOMAIN db.relation THEN "refused"
    ELSE "none"

\* Mutant of RemoveEdge: the relation index is locked only after the commit.
RemoveEdgeLocksLate(e) ==
    /\ Ready
    /\ RemoveEdgeError(e) = "none"
    /\ Commit(WithoutEdges({e}),
              [node |-> nodeIndex, relation |-> RelIndexWithout({e}), locked |-> {}])

RemoveEdge(e) ==
    /\ Ready
    /\ RemoveEdgeError(e) = "none"
    /\ Commit(WithoutEdges({e}),
              [node |-> nodeIndex, relation |-> RelIndexWithout({e}),
               locked |-> {"relation"}])

RemoveEdgeRefused(e) ==
    /\ Ready
    /\ RemoveEdgeError(e) # "none"
    /\ Refuse(RemoveEdgeError(e))

\* The edges the two adjacency indexes list for node n.
Incident(n) == {k[2] : k \in {a \in db.outgoing \cup db.incoming : a[1] = n}}

\* incident_edges: every entry leads to a canonical edge with that endpoint.
AdjacencyResolves(n) ==
    /\ \A a \in db.outgoing : a[1] = n =>
          a[2] \in DOMAIN db.edge /\ db.edge[a[2]].source = n
    /\ \A a \in db.incoming : a[1] = n =>
          a[2] \in DOMAIN db.edge /\ db.edge[a[2]].destination = n

\* Mutant of ReferencedProvisionally: looks at sources only.
SourceReferencedProvisionally(n) ==
    \E c \in DOMAIN db.candidate :
        /\ db.candidate[c].kind = "edge"
        /\ <<"confirmed", n>> = db.candidate[c].source

ReferencedProvisionally(n) ==
    \E c \in DOMAIN db.candidate :
        /\ db.candidate[c].kind = "edge"
        /\ <<"confirmed", n>> \in {db.candidate[c].source, db.candidate[c].destination}

RemoveNodeError(n) ==
    IF n \notin DOMAIN db.node \/ ReferencedProvisionally(n) THEN "refused"
    ELSE IF \/ ~ AdjacencyResolves(n)
            \/ ~ EdgesIntact(Incident(n))
            \/ db.node[n] \notin DOMAIN nodeIndex
            \/ nodeIndex[db.node[n]] # n
    THEN "corrupt"
    ELSE IF ~ (UsedRelations(Incident(n)) \subseteq DOMAIN db.relation) THEN "refused"
    ELSE "none"

RemoveNode(n) ==
    /\ Ready
    /\ RemoveNodeError(n) = "none"
    /\ Commit([WithoutEdges(Incident(n)) EXCEPT
                 !.node = Without(@, {n}),
                 !.nodeName = Without(@, {db.node[n]})],
              [node |-> Without(nodeIndex, {db.node[n]}),
               relation |-> RelIndexWithout(Incident(n)),
               locked |-> {"node", "relation"}])

RemoveNodeRefused(n) ==
    /\ Ready
    /\ RemoveNodeError(n) # "none"
    /\ Refuse(RemoveNodeError(n))

-----------------------------------------------------------------------------
\* The routing pointer, written by a holder of the write mutex who has scanned
\* the graph it names.
SetActiveRoutingImage == Ready /\ Commit([db EXCEPT !.image = GraphOf(db)], None)

ClearActiveRoutingImage == Ready /\ Commit([db EXCEPT !.image = None], None)

-----------------------------------------------------------------------------
\* Opening: rebuild_indexes_and_validate reads the whole database d.
NamesMatch(names, nameOf) ==
    /\ \A n \in DOMAIN names : names[n] \in DOMAIN nameOf /\ nameOf[names[n]] = n
    /\ \A i \in DOMAIN nameOf : nameOf[i] \in DOMAIN names /\ names[nameOf[i]] = i

NamesValid(d) ==
    /\ NamesMatch(d.nodeName, d.node)
    /\ NamesMatch(d.relName, [r \in DOMAIN d.relation |-> d.relation[r].name])

AdjacencyValid(d) ==
    /\ \A e \in DOMAIN d.edge :
          /\ d.edge[e].source \in DOMAIN d.node
          /\ d.edge[e].destination \in DOMAIN d.node
          /\ d.edge[e].relation \in DOMAIN d.relation
    /\ d.outgoing = {<<d.edge[e].source, e>> : e \in DOMAIN d.edge}
    /\ d.incoming = {<<d.edge[e].destination, e>> : e \in DOMAIN d.edge}

EdgeCandidates(d) == {c \in DOMAIN d.candidate : d.candidate[c].kind = "edge"}

DependenciesValid(d) ==
    \A c \in EdgeCandidates(d), f \in {"source", "destination", "relation"} :
        LET ref == d.candidate[c][f]
            wanted == IF f = "relation" THEN "relation" ELSE "node"
        IN  CASE ref[1] = "confirmed" -> ref[2] \in DOMAIN d[wanted]
              [] ref[1] = "candidate" -> /\ ref[2] \in DOMAIN d.candidate
                                         /\ d.candidate[ref[2]].kind = wanted

UsageValid(d) ==
    /\ \A c \in DOMAIN d.candidate \ EdgeCandidates(d) :
          d.candidate[c].uses =
              Cardinality({<<u, f>> \in EdgeCandidates(d)
                                          \X {"source", "destination", "relation"} :
                             d.candidate[u][f] = <<"candidate", c>>})
    /\ \A r \in DOMAIN d.relation :
          /\ d.relation[r].prov = Cardinality({c \in EdgeCandidates(d) :
                                     d.candidate[c].relation = <<"confirmed", r>>})
          /\ d.relation[r].conf = Cardinality({e \in DOMAIN d.edge :
                                     d.edge[e].relation = r})
    /\ d.popular = {PopularityKey(d.relation, r) : r \in DOMAIN d.relation}

CountersValid(d) ==
    \A c \in Counters : d.next[c] >= 1 /\ \A i \in DOMAIN d[c] : i < d.next[c]

Valid(d) ==
    /\ NamesValid(d)
    /\ AdjacencyValid(d)
    /\ DependenciesValid(d)
    /\ UsageValid(d)
    /\ CountersValid(d)

\* initialize_metadata gives an empty database its counters.
Uninitialized(d) == \A c \in Counters : d.next[c] = 0

Initialized(d) == [d EXCEPT !.next = [c \in Counters |-> 1]]

OpenCatalog ==
    LET d == IF Uninitialized(db) THEN Initialized(db) ELSE db
    IN  /\ ~ open
        /\ db' = IF Uninitialized(db) => db = EmptyDb THEN d ELSE db
        /\ open' = (Valid(d) /\ (Uninitialized(db) => db = EmptyDb))
        /\ error' = IF open' THEN "none" ELSE "corrupt"
        /\ nodeIndex' = IF open' THEN d.nodeName ELSE <<>>
        /\ relIndex' = IF open' THEN d.relName ELSE <<>>
        /\ UNCHANGED pending

\* open_existing writes nothing.
OpenExisting ==
    /\ ~ open
    /\ open' = Valid(db)
    /\ error' = CASE Uninitialized(db) -> "refused"
                  [] ~ Uninitialized(db) /\ ~ Valid(db) -> "corrupt"
                  [] OTHER -> "none"
    /\ nodeIndex' = IF open' THEN db.nodeName ELSE <<>>
    /\ relIndex' = IF open' THEN db.relName ELSE <<>>
    /\ UNCHANGED <<db, pending>>

Stopped ==
    /\ open' = FALSE
    /\ nodeIndex' = <<>>
    /\ relIndex' = <<>>
    /\ pending' = None
    /\ error' = "none"

\* prepare_for_close, and the owner drops the catalog.
Close ==
    /\ Ready
    /\ Stopped
    /\ UNCHANGED db

\* The process dies, in the middle of a mutation or not: the log remains.
Crash ==
    /\ open
    /\ Stopped
    /\ UNCHANGED db

-----------------------------------------------------------------------------
Ids(counter) == 1 .. LastId[counter]

Mutate ==
    \/ \E batch \in Batches : InsertCandidateBatch(batch) \/ InsertRefused(batch)
    \/ \E sel \in Selections : ConfirmCandidateBatch(sel) \/ ConfirmRefused(sel)
    \/ \E e \in Ids("edge") : RemoveEdge(e) \/ RemoveEdgeRefused(e)
    \/ \E n \in Ids("node") : RemoveNode(n) \/ RemoveNodeRefused(n)
    \/ WriteFails
    \/ Install

Next ==
    \/ Mutate
    \/ SetActiveRoutingImage
    \/ ClearActiveRoutingImage
    \/ OpenCatalog
    \/ OpenExisting
    \/ Close
    \/ Crash

Spec == Init /\ [][Next]_vars

-----------------------------------------------------------------------------
\* Whatever was committed when the process stops, the next open accepts it:
\* names and records agree, adjacency and usage counts are exact, dependencies
\* of candidates exist and counters follow every id without passing u64::MAX
\* (rebuild_indexes_and_validate never refuses what the mutations wrote).  Nor
\* do the underflow, adjacency and index checks of a mutation ever fail.
ReopenAccepts ==
    /\ Uninitialized(db) \/ Valid(db)
    /\ \A c \in Counters : db.next[c] <= LastId[c]
    /\ error # "corrupt"

\* The indexes whose write lock a mutation holds between its commit and Install.
Locked == IF pending = None THEN {} ELSE pending.locked

\* A lookup by name reads an index as soon as it has the read lock, also between
\* the commit of a mutation and the update of the indexes.  Whatever index is
\* not locked then says exactly what the durable name families say: no mutation
\* commits a change of a name family whose index it has not locked
\* (remove_edge locks the relation index only), and none releases a lock before
\* the index has followed.
LookupsMatchDurable ==
    open => /\ "node" \notin Locked => nodeIndex = db.nodeName
            /\ "relation" \notin Locked => relIndex = db.relName

\* The durable routing pointer names an image of the graph as it is now: each
\* mutation that changes the graph clears it in the same batch.
PointerNamesThisGraph == db.image # None => db.image = GraphOf(db)

\* Through crashes and reopens the confirmed records behave as one graph that
\* changes by whole promotions and removals only.
ConfirmedView ==
    INSTANCE ConfirmedGraph WITH
        node <- db.node,
        relation <- [r \in DOMAIN db.relation |-> db.relation[r].name],
        edge <- db.edge,
        next <- [node |-> IF db.next.node = 0 THEN 1 ELSE db.next.node,
                 relation |-> IF db.next.relation = 0 THEN 1 ELSE db.next.relation,
                 edge |-> IF db.next.edge = 0 THEN 1 ELSE db.next.edge]

\* The catalog implements ConfirmedGraph.
ImplementsConfirmedGraph == ConfirmedView!Spec
=============================================================================
