--------------------------- MODULE BundleCompiler ---------------------------
(***************************************************************************)
(* compile_bundle: one streaming pass over the outgoing-edge index that    *)
(* cuts the adjacency into bounded partitions, then the source directory,  *)
(* the manifest and the reopening of what was written.  One step visits    *)
(* one edge.  generate_analytic_parallel_bundle writes the same layout for *)
(* a source with any number of parallel edges, without a scan.             *)
(***************************************************************************)
EXTENDS BundleReader

CONSTANTS
    Graphs,        \* the confirmed graphs a bundle may be compiled from
    Configs,       \* [target, hard, total]: BundleConfig
    Fans           \* <<edges, destinations>>: inputs of the analytic generator

HeaderBytes == 12
SegmentBytes == 24
EdgeBytes == 12
EvidenceBytes == 8
ManifestBytes(partitionCount) == 300 + 112 * partitionCount

VARIABLES
    phase,         \* "idle", "scan", "built" or "failed"
    graph, config,
    scan,          \* the edges still to visit
    build,         \* the compiler's buffers
    bundle,        \* the opened bundle, once built
    image          \* its resident form

compilerVars == <<phase, graph, config, scan, build, bundle, image>>

EmptyGraph == [nodes |-> {}, relations |-> {}, edges |-> {}]

\* segments, edges: the open partition; source, ordinal, previous: where the
\* scan stands in the adjacency of one source (0: no source, no edge yet).
EmptyBuild ==
    [segments |-> <<>>, edges |-> <<>>,
     partitions |-> <<>>, descriptors |-> <<>>, offsets |-> <<0>>,
     source |-> 0, ordinal |-> 0, previous |-> 0, adjacency |-> 0]

\* BundleConfig::validate.
ConfigIsValid(c) ==
    /\ c.target # 0 /\ c.target <= c.hard
    /\ c.hard >= HeaderBytes + SegmentBytes + EdgeBytes
    /\ c.total # 0

TopologyBytes(b) ==
    HeaderBytes + SegmentBytes * Len(b.segments) + EdgeBytes * Len(b.edges)

\* Where the next partition starts in each of the two files.
TopologyEnd(partitions) ==
    IF partitions = <<>> THEN 0
    ELSE Last(partitions).topologyOffset + Last(partitions).topologyLength
EvidenceEnd(partitions) ==
    IF partitions = <<>> THEN 0
    ELSE Last(partitions).evidenceOffset + Last(partitions).evidenceLength

SealPartition(b) ==
    [segments       |-> b.segments,
     edges          |-> b.edges,
     segmentCount   |-> Len(b.segments),
     edgeCount      |-> Len(b.edges),
     topologyOffset |-> TopologyEnd(b.partitions),
     topologyLength |-> TopologyBytes(b),
     evidenceOffset |-> EvidenceEnd(b.partitions),
     evidenceLength |-> EvidenceBytes * Len(b.edges)]

\* The flush closure: an empty partition is not written.
Flush(b) ==
    IF b.edges = <<>> THEN b
    ELSE [b EXCEPT !.partitions = Append(@, SealPartition(b)),
                   !.segments = <<>>, !.edges = <<>>]

\* The directory entries of sources without edges repeat the segment count.
PadOffsets(b, length) ==
    [b EXCEPT !.offsets = @ \o [i \in 1 .. length - Len(@) |-> Len(b.descriptors)]]

\* A new source closes a partition that has reached its target size.
StartSource(b, source) ==
    IF b.source = source THEN b
    ELSE LET closed == IF b.source # 0 /\ TopologyBytes(b) >= config.target
                       THEN Flush(b) ELSE b
         IN  [PadOffsets(closed, source) EXCEPT
                 !.source = source, !.ordinal = 0, !.previous = 0]

SegmentIsOpen(b, source) == b.segments # <<>> /\ Last(b.segments).source = source

\* One more edge never takes a partition past the hard maximum.
MakeRoom(b, source) ==
    LET extra == EdgeBytes + (IF SegmentIsOpen(b, source) THEN 0 ELSE SegmentBytes)
    IN  IF TopologyBytes(b) + extra > config.hard THEN Flush(b) ELSE b

OpenSegment(b, source) ==
    IF SegmentIsOpen(b, source) THEN b
    ELSE [b EXCEPT
             !.descriptors = Append(@, [source |-> source,
                                        partition |-> Len(b.partitions) + 1,
                                        local |-> Len(b.segments) + 1,
                                        first |-> b.ordinal, count |-> 0]),
             !.segments = Append(@, [source |-> source, first |-> b.ordinal,
                                     start |-> Len(b.edges), count |-> 0,
                                     global |-> Len(b.descriptors) + 1])]

AppendEdge(b, adjacent) ==
    LET last == Len(b.segments)
        count == b.segments[last].count + 1
    IN  [b EXCEPT !.segments[last].count = count,
                  !.descriptors[b.segments[last].global].count = count,
                  !.edges = Append(@, adjacent),
                  !.previous = adjacent.edge,
                  !.ordinal = @ + 1,
                  !.adjacency = @ + 1]

(* ------------------------------- Actions ------------------------------ *)

CompilerInit ==
    /\ phase = "idle"
    /\ graph = EmptyGraph
    /\ config \in Configs
    /\ scan = <<>>
    /\ build = EmptyBuild
    /\ bundle = <<>>
    /\ image = <<>>

BeginCompile(g) ==
    /\ phase = "idle"
    /\ graph' = g
    /\ scan' = OutgoingScan(g)
    /\ build' = EmptyBuild
    /\ phase' = IF ConfigIsValid(config) THEN "scan" ELSE "failed"
    /\ UNCHANGED <<config, bundle, image>>

\* An edge the visitor refuses: an absent endpoint or relation, or a scan that
\* is not in (source, edge id) order.
Refused(b, source, adjacent) ==
    \/ source = 0 \/ adjacent.destination = 0 \/ adjacent.relation = 0
    \/ source < b.source
    \/ source = b.source /\ adjacent.edge <= b.previous

VisitEdge ==
    /\ phase = "scan"
    /\ scan # <<>>
    /\ LET nodes == IdTable(graph.nodes)
           e == Head(scan)
           source == Dense(nodes, e.source)
           adjacent == Adjacent(nodes, IdTable(graph.relations), e)
           roomy == MakeRoom(StartSource(build, source), source)
       IN  IF Refused(build, source, adjacent)
           THEN phase' = "failed" /\ UNCHANGED build
           ELSE /\ build' = AppendEdge(OpenSegment(roomy, source), adjacent)
                /\ UNCHANGED phase
    /\ scan' = Tail(scan)
    /\ UNCHANGED <<graph, config, bundle, image>>

BundleOf(g, b) ==
    [nodes |-> IdTable(g.nodes), relations |-> IdTable(g.relations),
     sourceOffsets |-> b.offsets, segments |-> b.descriptors,
     partitions |-> b.partitions, adjacencyCount |-> b.adjacency]

TotalBytes(b) ==
    ManifestBytes(Len(b.partitions))
        + 8 * (Len(b.nodes) + Len(b.relations))
        + 8 * (Len(b.nodes) + 1) + SegmentBytes * Len(b.segments)
        + TopologyEnd(b.partitions) + EvidenceEnd(b.partitions)

\* The manifest is written only within the byte limit, and the bundle is
\* returned only if the production reader opens it.
Accepted(b) ==
    /\ TotalBytes(b) <= config.total
    /\ \A p \in DOMAIN b.partitions : b.partitions[p].topologyLength <= config.hard
    /\ OpenBundle(b)

\* A written bundle is opened, or the compilation fails.
Complete(written) ==
    IF Accepted(written)
    THEN /\ phase' = "built"
         /\ bundle' = OpenedBundle(written)
         /\ image' = ResidentImage(bundle')
    ELSE phase' = "failed" /\ UNCHANGED <<bundle, image>>

FinishCompile ==
    /\ phase = "scan"
    /\ scan = <<>>
    /\ build' = PadOffsets(Flush(build), Cardinality(graph.nodes) + 1)
    /\ Complete(BundleOf(graph, build'))
    /\ UNCHANGED <<graph, config, scan>>

CeilDiv(n, d) == (n + d - 1) \div d
Smaller(a, b) == IF a < b THEN a ELSE b

AnalyticGraph(edges, destinations) ==
    [nodes     |-> 1 .. destinations + 1,
     relations |-> {1},
     edges     |-> {[id |-> k, source |-> 1,
                     destination |-> ((k - 1) % destinations) + 2,
                     relation |-> 1, weight |-> 1] : k \in 1 .. edges}]

\* The whole layout follows from the number of edges a partition can hold.
AnalyticBuild(edges, destinations) ==
    LET capacity == (Smaller(config.target, config.hard) - HeaderBytes - SegmentBytes)
                        \div EdgeBytes
        count == CeilDiv(edges, capacity)
        first(p) == (p - 1) * capacity
        size(p) == Smaller(edges - first(p), capacity)
        bytes(p) == HeaderBytes + SegmentBytes + EdgeBytes * size(p)
        adjacent(k) == [edge |-> k, destination |-> ((k - 1) % destinations) + 2,
                        relation |-> 1, weight |-> 1]
    IN  [EmptyBuild EXCEPT
            !.adjacency = edges,
            !.offsets = <<0>> \o [n \in 1 .. destinations + 1 |-> count],
            !.descriptors = [p \in 1 .. count |->
                [source |-> 1, partition |-> p, local |-> 1,
                 first |-> first(p), count |-> size(p)]],
            !.partitions = [p \in 1 .. count |->
                [segments |-> <<[source |-> 1, first |-> first(p), start |-> 0,
                                 count |-> size(p), global |-> p]>>,
                 edges |-> [k \in 1 .. size(p) |-> adjacent(first(p) + k)],
                 segmentCount |-> 1, edgeCount |-> size(p),
                 topologyOffset |-> (p - 1) * bytes(1), topologyLength |-> bytes(p),
                 evidenceOffset |-> EvidenceBytes * first(p),
                 evidenceLength |-> EvidenceBytes * size(p)]]]

GenerateAnalytic(edges, destinations) ==
    /\ phase = "idle"
    /\ graph' = AnalyticGraph(edges, destinations)
    /\ IF /\ ConfigIsValid(config) /\ edges # 0 /\ destinations # 0
          /\ config.target >= HeaderBytes + SegmentBytes + EdgeBytes
       THEN /\ build' = AnalyticBuild(edges, destinations)
            /\ Complete(BundleOf(graph', build'))
       ELSE phase' = "failed" /\ UNCHANGED <<build, bundle, image>>
    /\ UNCHANGED <<config, scan>>

CompilerNext ==
    \/ \E g \in Graphs : BeginCompile(g)
    \/ VisitEdge
    \/ FinishCompile
    \/ \E f \in Fans : GenerateAnalytic(f[1], f[2])
=============================================================================
