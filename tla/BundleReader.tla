---------------------------- MODULE BundleReader ----------------------------
(***************************************************************************)
(* What open_bundle requires of the five files of a routing bundle, the    *)
(* offsets it derives from them, and how adjacency entries are found again *)
(* in the partitioned topology.                                            *)
(*                                                                         *)
(* A bundle is [nodes, relations, sourceOffsets, segments, partitions,     *)
(* adjacencyCount]; a partition holds its descriptor and its decoded       *)
(* contents (a checksum mismatch is the failure of a partition load).      *)
(***************************************************************************)
EXTENDS RoutingImage

StrictlyAscending(s) == \A i \in 1 .. Len(s) - 1 : s[i] < s[i + 1]

\* A running total: the sum of the first i - 1 elements, for i up to Len + 1.
Offsets(counts) ==
    LET total[i \in 1 .. Len(counts) + 1] ==
            IF i = 1 THEN 0 ELSE total[i - 1] + counts[i - 1]
    IN  [i \in 1 .. Len(counts) + 1 |-> total[i]]

SegmentsOf(b, source) ==
    SubSeq(b.segments, b.sourceOffsets[source] + 1, b.sourceOffsets[source + 1])

SegmentCounts(segments) == [i \in DOMAIN segments |-> segments[i].count]

\* source_edge_offsets and partition_edge_offsets.
SourceEdgeOffsets(b) ==
    Offsets([s \in DOMAIN b.nodes |->
                LET counts == Offsets(SegmentCounts(SegmentsOf(b, s)))
                IN  counts[Len(counts)]])
PartitionEdgeOffsets(b) ==
    Offsets([p \in DOMAIN b.partitions |-> b.partitions[p].edgeCount])

\* validate_ranges: the partitions tile both files, in order, from zero.
RangesAreValid(b) ==
    LET top == Offsets([p \in DOMAIN b.partitions |-> b.partitions[p].topologyLength])
        ev == Offsets([p \in DOMAIN b.partitions |-> b.partitions[p].evidenceLength])
    IN  /\ \A p \in DOMAIN b.partitions :
              /\ b.partitions[p].topologyOffset = top[p]
              /\ b.partitions[p].evidenceOffset = ev[p]
              /\ b.partitions[p].topologyLength # 0
              /\ b.partitions[p].evidenceLength # 0
        /\ b.adjacencyCount = 0 => b.partitions = <<>>

\* decode_partition: local segments tile the partition's edges.
PartitionDecodes(b, p) ==
    LET part == b.partitions[p]
        starts == Offsets(SegmentCounts(part.segments))
    IN  /\ part.segmentCount = Len(part.segments) /\ part.segmentCount # 0
        /\ part.edgeCount = Len(part.edges) /\ part.edgeCount # 0
        /\ \A k \in DOMAIN part.edges :
              /\ part.edges[k].destination \in DOMAIN b.nodes
              /\ part.edges[k].relation \in DOMAIN b.relations
        /\ \A i \in DOMAIN part.segments :
              LET s == part.segments[i]
              IN  /\ s.source \in DOMAIN b.nodes
                  /\ s.start = starts[i]
                  /\ s.count # 0
                  /\ \A k \in s.start + 1 .. s.start + s.count - 1 :
                        part.edges[k].edge < part.edges[k + 1].edge
        /\ starts[Len(starts)] = part.edgeCount

\* Every local segment is the global descriptor that names it.
SegmentsAgree(b, p) ==
    \A i \in DOMAIN b.partitions[p].segments :
        LET named == {d \in DOMAIN b.segments :
                         b.segments[d].partition = p /\ b.segments[d].local = i}
            s == b.partitions[p].segments[i]
        IN  /\ named # {}
            /\ LET d == b.segments[CHOOSE x \in named : \A y \in named : x <= y]
               IN  d.source = s.source /\ d.first = s.first /\ d.count = s.count

\* source_segment_offsets and the ordinals of each source's segments.
DirectoryIsValid(b) ==
    LET offsets == b.sourceOffsets
    IN  /\ Len(offsets) = Len(b.nodes) + 1
        /\ offsets[1] = 0 /\ offsets[Len(offsets)] = Len(b.segments)
        /\ \A i \in DOMAIN b.nodes : offsets[i] <= offsets[i + 1]
        /\ \A s \in DOMAIN b.nodes :
              LET own == SegmentsOf(b, s)
              IN  \A i \in DOMAIN own :
                     /\ own[i].source = s
                     /\ own[i].first = Offsets(SegmentCounts(own))[i]

\* open_bundle returns a bundle rather than an error.
OpenBundle(b) ==
    /\ StrictlyAscending(b.nodes) /\ StrictlyAscending(b.relations)
    /\ RangesAreValid(b)
    /\ DirectoryIsValid(b)
    /\ SourceEdgeOffsets(b)[Len(b.nodes) + 1] = b.adjacencyCount
    /\ \A p \in DOMAIN b.partitions : PartitionDecodes(b, p) /\ SegmentsAgree(b, p)
    /\ PartitionEdgeOffsets(b)[Len(b.partitions) + 1] = b.adjacencyCount

\* What an opened bundle keeps beside its files: the running totals the
\* topology is searched with.
OpenedBundle(b) ==
    [nodes                |-> b.nodes,
     relations            |-> b.relations,
     sourceOffsets        |-> b.sourceOffsets,
     segments             |-> b.segments,
     partitions           |-> b.partitions,
     sourceEdgeOffsets    |-> SourceEdgeOffsets(b),
     partitionEdgeOffsets |-> PartitionEdgeOffsets(b)]

(* --------------------------- The two topologies ----------------------- *)

\* to_resident_image.
ResidentImage(b) ==
    [nodes     |-> b.nodes,
     relations |-> b.relations,
     offsets   |-> b.sourceEdgeOffsets,
     adjacency |-> FlattenSeq([p \in DOMAIN b.partitions |-> b.partitions[p].edges])]

\* RoutingTopology of the chunked image.
ChunkedRange(b, source) ==
    b.sourceEdgeOffsets[source] + 1 .. b.sourceEdgeOffsets[source + 1]

\* The partition_point over partition_edge_offsets.
PartitionOf(b, k) ==
    Cardinality({i \in DOMAIN b.partitionEdgeOffsets : b.partitionEdgeOffsets[i] <= k - 1})

ChunkedEdgeAt(b, k) ==
    LET p == PartitionOf(b, k)
    IN  b.partitions[p].edges[k - b.partitionEdgeOffsets[p]]

\* Mutant: a source is taken to lie in the partition of its first segment.
FirstPartitionOnly(b, source) ==
    {SegmentsOf(b, source)[i].partition : i \in DOMAIN SegmentsOf(b, source) \cap {1}}

\* source_partition_ids: the partitions a source's segments lie in.
SourcePartitionIds(b, source) ==
    {SegmentsOf(b, source)[i].partition : i \in DOMAIN SegmentsOf(b, source)}
=============================================================================
