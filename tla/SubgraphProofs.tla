--------------------------- MODULE SubgraphProofs ---------------------------
(***************************************************************************)
(* Why every edit of the application's subgraph leaves one that its own    *)
(* checks accept and whose edges have the endpoints they were added with.  *)
(***************************************************************************)
EXTENDS HydrationProofs, FiniteSetTheorems

USE ZenonT(60)

\* What every edit leaves, and what it never does to an edge.
Sound(g) ==
    /\ g = [nodes |-> g.nodes, edges |-> g.edges]
    /\ IsFiniteSet(g.nodes) /\ IsFiniteSet(DOMAIN g.edges)
    /\ Readable(g)

KeepsEnds(g, h) ==
    \A e \in DOMAIN g.edges \cap DOMAIN h.edges : h.edges[e] = g.edges[e]

\* An edit that fails leaves the value alone.
LEMMA OutcomeSound ==
  ASSUME NEW g, Sound(g), NEW ok, NEW h, ok => Sound(h) /\ KeepsEnds(g, h)
  PROVE  Sound(Outcome(g, ok, h).value) /\ KeepsEnds(g, Outcome(g, ok, h).value)
  <1>1. Outcome(g, ok, h).value = IF ok THEN h ELSE g
    BY SMTT(60) DEF Outcome
  <1>2. KeepsEnds(g, g)
    BY DEF KeepsEnds
  <1> QED BY <1>1, <1>2

\* What an edit has to show of the value it makes.
LEMMA SoundParts ==
  ASSUME NEW n, NEW f, IsFiniteSet(n), IsFiniteSet(DOMAIN f),
         Cardinality(n) <= MaxSubgraphNodes, Cardinality(DOMAIN f) <= MaxSubgraphEdges,
         \A e \in DOMAIN f : {f[e].source, f[e].destination} \subseteq n
  PROVE  Sound([nodes |-> n, edges |-> f])
  <1> DEFINE h == [nodes |-> n, edges |-> f]
  <1>1. h.nodes = n /\ h.edges = f
    BY SMTT(60)
  <1>2. h = [nodes |-> h.nodes, edges |-> h.edges]
    BY <1>1
  <1> HIDE DEF h
  <1>3. WithinLimits(h) /\ ValidHandles(h)
    BY <1>1 DEF WithinLimits, ValidHandles
  <1>4. Sound(h)
    BY <1>1, <1>2, <1>3 DEF Sound, Readable
  <1> QED BY <1>4 DEF h

\* The checks of a sound value, field by field.
LEMMA SoundFacts ==
  ASSUME NEW g, Sound(g)
  PROVE  /\ IsFiniteSet(g.nodes) /\ IsFiniteSet(DOMAIN g.edges)
         /\ Cardinality(g.nodes) \in Nat /\ Cardinality(DOMAIN g.edges) \in Nat
         /\ Cardinality(g.nodes) <= MaxSubgraphNodes
         /\ Cardinality(DOMAIN g.edges) <= MaxSubgraphEdges
         /\ \A e \in DOMAIN g.edges : {g.edges[e].source, g.edges[e].destination} \subseteq g.nodes
  BY FS_CardinalityType DEF Sound, Readable, WithinLimits, ValidHandles

\* A part of a finite set is finite and no larger.
LEMMA SmallerPart ==
  ASSUME NEW S, IsFiniteSet(S), NEW T \in SUBSET S, NEW m \in Nat, Cardinality(S) <= m
  PROVE  IsFiniteSet(T) /\ Cardinality(T) <= m
  <1>1. IsFiniteSet(T) /\ Cardinality(T) <= Cardinality(S)
    BY FS_Subset
  <1>2. Cardinality(T) \in Nat /\ Cardinality(S) \in Nat
    BY <1>1, FS_CardinalityType
  <1> QED BY <1>1, <1>2, SMTT(60)

\* Adding or removing a node.
LEMMA NodeEdits ==
  ASSUME NEW g, Sound(g), NEW n
  PROVE  /\ Sound(SubgraphAddNode(g, n).value) /\ KeepsEnds(g, SubgraphAddNode(g, n).value)
         /\ Sound(SubgraphRemoveNode(g, n).value) /\ KeepsEnds(g, SubgraphRemoveNode(g, n).value)
  <1>1. /\ IsFiniteSet(g.nodes) /\ IsFiniteSet(DOMAIN g.edges)
        /\ Cardinality(g.nodes) <= MaxSubgraphNodes
        /\ Cardinality(DOMAIN g.edges) <= MaxSubgraphEdges
        /\ \A e \in DOMAIN g.edges : {g.edges[e].source, g.edges[e].destination} \subseteq g.nodes
    BY SoundFacts
  <1>2. Sound(SubgraphAddNode(g, n).value) /\ KeepsEnds(g, SubgraphAddNode(g, n).value)
    <2> DEFINE h == [g EXCEPT !.nodes = @ \cup {n}]
               more == [nodes |-> g.nodes \cup {n}, edges |-> g.edges]
    <2>1. h = more
      BY SMTT(60) DEF Sound
    <2>2. more.nodes = g.nodes \cup {n} /\ more.edges = g.edges
      BY SMTT(60)
    <2>3. WithinLimits(more) => Sound(more)
      <3>1. IsFiniteSet(g.nodes \cup {n})
        BY <1>1, FS_AddElement
      <3> QED BY <1>1, <2>2, <3>1, SoundParts DEF WithinLimits
    <2>4. KeepsEnds(g, more)
      BY <2>2 DEF KeepsEnds
    <2> HIDE DEF h, more
    <2>5. SubgraphAddNode(g, n) = Outcome(g, Readable(g) /\ WithinLimits(h), h)
      BY DEF SubgraphAddNode, h
    <2> QED BY <2>1, <2>3, <2>4, <2>5, OutcomeSound
  <1>3. Sound(SubgraphRemoveNode(g, n).value) /\ KeepsEnds(g, SubgraphRemoveNode(g, n).value)
    <2> DEFINE kept == {e \in DOMAIN g.edges : n \notin {g.edges[e].source, g.edges[e].destination}}
               f == [e \in kept |-> g.edges[e]]
               less == [nodes |-> g.nodes \ {n}, edges |-> f]
    <2>1. DOMAIN f = kept /\ \A e \in kept : f[e] = g.edges[e]
      OBVIOUS
    <2>2. \A e \in kept : e \in DOMAIN g.edges /\ {g.edges[e].source, g.edges[e].destination} \subseteq g.nodes \ {n}
      BY <1>1
    <2>3. IsFiniteSet(kept) /\ Cardinality(kept) <= MaxSubgraphEdges
      BY <1>1, SmallerPart, SubgraphAssumption
    <2>4. IsFiniteSet(g.nodes \ {n}) /\ Cardinality(g.nodes \ {n}) <= MaxSubgraphNodes
      BY <1>1, SmallerPart, SubgraphAssumption
    <2>5. less.edges = f
      BY SMTT(60)
    <2>6. SubgraphRemoveNode(g, n) = Outcome(g, Readable(g), less)
      BY DEF SubgraphRemoveNode, Restrict
    <2> HIDE DEF kept, f
    <2>7. Sound(less)
      BY <2>1, <2>2, <2>3, <2>4, SoundParts
    <2>8. KeepsEnds(g, less)
      BY <2>1, <2>5 DEF KeepsEnds
    <2> QED BY <2>6, <2>7, <2>8, OutcomeSound
  <1> QED BY <1>2, <1>3

\* Adding or removing an edge.
LEMMA EdgeEdits ==
  ASSUME NEW g, Sound(g), NEW id, NEW ends
  PROVE  /\ Sound(SubgraphAddEdge(g, id, ends).value) /\ KeepsEnds(g, SubgraphAddEdge(g, id, ends).value)
         /\ Sound(SubgraphRemoveEdge(g, id).value) /\ KeepsEnds(g, SubgraphRemoveEdge(g, id).value)
  <1>1. /\ IsFiniteSet(g.nodes) /\ IsFiniteSet(DOMAIN g.edges)
        /\ Cardinality(g.nodes) <= MaxSubgraphNodes
        /\ Cardinality(DOMAIN g.edges) <= MaxSubgraphEdges
        /\ \A e \in DOMAIN g.edges : {g.edges[e].source, g.edges[e].destination} \subseteq g.nodes
    BY SoundFacts
  <1>2. Sound(SubgraphAddEdge(g, id, ends).value) /\ KeepsEnds(g, SubgraphAddEdge(g, id, ends).value)
    <2> DEFINE n == g.nodes \cup {ends.source, ends.destination}
               f == [x \in DOMAIN g.edges \cup {id} |-> IF x = id THEN ends ELSE g.edges[x]]
               h == [nodes |-> n, edges |-> f]
    <2>1. /\ DOMAIN f = DOMAIN g.edges \cup {id} /\ f[id] = ends
          /\ \A e \in DOMAIN g.edges : e # id => f[e] = g.edges[e]
      OBVIOUS
    <2>2. h.nodes = n /\ h.edges = f
      BY SMTT(60)
    <2>3. IsFiniteSet(n)
      <3>1. IsFiniteSet(g.nodes \cup {ends.source})
        BY <1>1, FS_AddElement
      <3>2. IsFiniteSet((g.nodes \cup {ends.source}) \cup {ends.destination})
        BY <3>1, FS_AddElement
      <3>3. n = (g.nodes \cup {ends.source}) \cup {ends.destination}
        OBVIOUS
      <3> QED BY <3>2, <3>3
    <2>4. IsFiniteSet(DOMAIN f)
      BY <1>1, <2>1, FS_AddElement
    <2>5. {ends.source, ends.destination} \subseteq n /\ g.nodes \subseteq n
      OBVIOUS
    <2>6. SubgraphAddEdge(g, id, ends)
            = Outcome(g, Readable(g) /\ ValidateEdge(g, id, ends) /\ WithinLimits(h), h)
      BY DEF SubgraphAddEdge, PutEdge
    <2> HIDE DEF n, f
    <2>7. \A e \in DOMAIN f : {f[e].source, f[e].destination} \subseteq n
      <3>1. ASSUME NEW e \in DOMAIN f PROVE {f[e].source, f[e].destination} \subseteq n
        <4>1. CASE e = id
          BY <2>1, <2>5, <4>1
        <4>2. CASE e # id
          BY <1>1, <2>1, <2>5, <3>1, <4>2
        <4> QED BY <4>1, <4>2
      <3> QED BY <3>1
    <2>8. WithinLimits(h) => Sound(h)
      BY <2>2, <2>3, <2>4, <2>7, SoundParts DEF WithinLimits
    <2>9. ValidateEdge(g, id, ends) => KeepsEnds(g, h)
      BY <2>1, <2>2 DEF KeepsEnds, ValidateEdge
    <2> QED BY <2>6, <2>8, <2>9, OutcomeSound
  <1>3. Sound(SubgraphRemoveEdge(g, id).value) /\ KeepsEnds(g, SubgraphRemoveEdge(g, id).value)
    <2> DEFINE kept == DOMAIN g.edges \ {id}
               f == [e \in kept |-> g.edges[e]]
               less == [nodes |-> g.nodes, edges |-> f]
               h == [g EXCEPT !.edges = Restrict(@, DOMAIN @ \ {id})]
    <2>1. DOMAIN f = kept /\ \A e \in kept : f[e] = g.edges[e]
      OBVIOUS
    <2>2. \A e \in kept : {g.edges[e].source, g.edges[e].destination} \subseteq g.nodes
      BY <1>1
    <2>3. IsFiniteSet(kept) /\ Cardinality(kept) <= MaxSubgraphEdges
      BY <1>1, SmallerPart, SubgraphAssumption
    <2>4. less.edges = f
      BY SMTT(60)
    <2>5. h = less
      BY SMTT(60) DEF Restrict, Sound
    <2>6. SubgraphRemoveEdge(g, id) = Outcome(g, Readable(g), h)
      BY DEF SubgraphRemoveEdge
    <2> HIDE DEF kept, f, h
    <2>7. Sound(less)
      BY <1>1, <2>1, <2>2, <2>3, SoundParts
    <2>8. KeepsEnds(g, less)
      <3>1. \A e \in kept : less.edges[e] = g.edges[e]
        BY <2>1, <2>4
      <3> QED BY <2>1, <2>4, <3>1 DEF KeepsEnds
    <2> QED BY <2>5, <2>6, <2>7, <2>8, OutcomeSound
  <1> QED BY <1>2, <1>3

\* A union checks every id of the other operand before it changes anything.
LEMMA UnionEdits ==
  ASSUME NEW g, Sound(g), NEW other, IsFiniteSet(other.nodes), IsFiniteSet(DOMAIN other.edges)
  PROVE  Sound(SubgraphUnion(g, other).value) /\ KeepsEnds(g, SubgraphUnion(g, other).value)
  <1> DEFINE n == g.nodes \cup other.nodes
             ids == DOMAIN g.edges \cup DOMAIN other.edges
             f == [e \in ids |-> IF e \in DOMAIN other.edges THEN other.edges[e] ELSE g.edges[e]]
             h == [nodes |-> n, edges |-> f]
             agrees == \A e \in DOMAIN other.edges : ValidateEdge(g, e, other.edges[e])
  <1>1. /\ IsFiniteSet(g.nodes) /\ IsFiniteSet(DOMAIN g.edges)
        /\ \A e \in DOMAIN g.edges : {g.edges[e].source, g.edges[e].destination} \subseteq g.nodes
    BY SoundFacts
  <1>2. /\ DOMAIN f = ids
        /\ \A e \in DOMAIN other.edges : f[e] = other.edges[e]
        /\ \A e \in DOMAIN g.edges : e \notin DOMAIN other.edges => f[e] = g.edges[e]
    OBVIOUS
  <1>3. h.nodes = n /\ h.edges = f
    BY SMTT(60)
  <1>4. IsFiniteSet(n) /\ IsFiniteSet(ids)
    BY <1>1, FS_Union
  <1>5. SubgraphUnion(g, other) = Outcome(g, Readable(g) /\ Readable(other) /\ agrees /\ WithinLimits(h), h)
    BY DEF SubgraphUnion, PutAll
  <1>6. g.nodes \subseteq n /\ other.nodes \subseteq n
    OBVIOUS
  <1>7. \A e \in ids : e \in DOMAIN other.edges \/ (e \in DOMAIN g.edges /\ e \notin DOMAIN other.edges)
    OBVIOUS
  <1>8. ASSUME agrees PROVE \A e \in DOMAIN g.edges : e \in DOMAIN other.edges => other.edges[e] = g.edges[e]
    BY <1>8 DEF ValidateEdge
  <1> HIDE DEF n, ids, f, agrees
  <1>9. ASSUME Readable(other), WithinLimits(h) PROVE Sound(h)
    <2>1. \A e \in DOMAIN other.edges : {other.edges[e].source, other.edges[e].destination} \subseteq other.nodes
      BY <1>9 DEF Readable, ValidHandles
    <2>2. \A e \in DOMAIN f : {f[e].source, f[e].destination} \subseteq n
      <3>1. ASSUME NEW e \in DOMAIN f PROVE {f[e].source, f[e].destination} \subseteq n
        <4>1. CASE e \in DOMAIN other.edges
          <5>1. {f[e].source, f[e].destination} \subseteq other.nodes
            BY <1>2, <2>1, <4>1
          <5> QED BY <1>6, <5>1
        <4>2. CASE e \in DOMAIN g.edges /\ e \notin DOMAIN other.edges
          <5>1. {f[e].source, f[e].destination} \subseteq g.nodes
            BY <1>1, <1>2, <4>2
          <5> QED BY <1>6, <5>1
        <4> QED BY <1>2, <1>7, <3>1, <4>1, <4>2
      <3> QED BY <3>1
    <2> QED BY <1>2, <1>3, <1>4, <1>9, <2>2, SoundParts DEF WithinLimits
  <1>10. ASSUME agrees PROVE KeepsEnds(g, h)
    <2>1. ASSUME NEW e \in DOMAIN g.edges PROVE f[e] = g.edges[e]
      <3>1. CASE e \in DOMAIN other.edges
        BY <1>2, <1>8, <1>10, <3>1
      <3>2. CASE e \notin DOMAIN other.edges
        BY <1>2, <3>2
      <3> QED BY <3>1, <3>2
    <2> QED BY <1>3, <2>1 DEF KeepsEnds
  <1> HIDE DEF h
  <1> QED BY <1>5, <1>9, <1>10, OutcomeSound

\* The values of a function on a finite set.
LEMMA FiniteValues ==
  ASSUME NEW S, IsFiniteSet(S), NEW f, DOMAIN f = S
  PROVE  IsFiniteSet({f[x] : x \in S})
  <1> DEFINE T == {f[x] : x \in S}
             m == [x \in S |-> f[x]]
  <1>1. m \in Surjection(S, T)
    BY DEF Surjection
  <1> HIDE DEF T, m
  <1>2. IsFiniteSet(T)
    BY <1>1, FS_Surjection
  <1> QED BY <1>2 DEF T

\* Every id of a path has a last step.
LEMMA LastStepExists ==
  ASSUME NEW R, NEW steps \in Seq(R), NEW k \in 1..Len(steps)
  PROVE  /\ LastStep(steps, steps[k].id) \in 1..Len(steps)
         /\ steps[LastStep(steps, steps[k].id)].id = steps[k].id
  <1> DEFINE e == steps[k].id
             S == {m \in Nat : \E j \in 1..Len(steps) : m = Len(steps) - j /\ steps[j].id = e}
  <1>1. Len(steps) \in Nat
    BY SMTT(60)
  <1>2. Len(steps) - k \in S
    BY <1>1, SMTT(60)
  <1>3. PICK m \in S : \A x \in S : m <= x
    <2> HIDE DEF S
    <2>1. S \in SUBSET Nat
      BY DEF S
    <2> QED BY <1>2, <2>1, LeastElement
  <1>4. PICK j \in 1..Len(steps) : m = Len(steps) - j /\ steps[j].id = e
    BY <1>3
  <1>5. ASSUME NEW i \in (j + 1)..Len(steps) PROVE steps[i].id # e
    <2>1. i \in 1..Len(steps) /\ Len(steps) - i \in Nat /\ ~(m <= Len(steps) - i)
      BY <1>1, <1>4, <1>5, SMTT(60)
    <2>2. Len(steps) - i \notin S
      BY <1>3, <2>1
    <2> QED BY <2>1, <2>2
  <1>6. \E last \in 1..Len(steps) : steps[last].id = e /\ \A i \in (last + 1)..Len(steps) : steps[i].id # e
    BY <1>4, <1>5
  <1> HIDE DEF e
  <1>7. LastStep(steps, e) \in 1..Len(steps) /\ steps[LastStep(steps, e)].id = e
    BY <1>6 DEF LastStep
  <1> QED BY <1>7 DEF e

\* A path brings finitely many nodes and edges.
LEMMA FinitePath ==
  ASSUME NEW R, NEW steps \in Seq(R)
  PROVE  /\ IsFiniteSet({step.id : step \in Range(steps)})
         /\ IsFiniteSet(UNION {{step.source, step.destination} : step \in Range(steps)})
  <1>1. IsFiniteSet(Range(steps))
    <2>1. Len(steps) \in Nat /\ DOMAIN steps = 1..Len(steps)
      BY SMTT(60)
    <2>2. IsFiniteSet(1..Len(steps))
      <3>1. 1 \in Int /\ Len(steps) \in Int
        BY <2>1, SMTT(60)
      <3> QED BY <3>1, FS_Interval
    <2>3. IsFiniteSet({steps[k] : k \in 1..Len(steps)})
      BY <2>1, <2>2, FiniteValues
    <2> QED BY <2>1, <2>3 DEF Range
  <1> DEFINE S == Range(steps)
             id == [step \in S |-> step.id]
             source == [step \in S |-> step.source]
             destination == [step \in S |-> step.destination]
  <1>2. /\ {step.id : step \in S} = {id[step] : step \in S}
        /\ UNION {{step.source, step.destination} : step \in S}
             \subseteq {source[step] : step \in S} \cup {destination[step] : step \in S}
    OBVIOUS
  <1>3. DOMAIN id = S /\ DOMAIN source = S /\ DOMAIN destination = S
    OBVIOUS
  <1> HIDE DEF S, id, source, destination
  <1>4. /\ IsFiniteSet({id[step] : step \in S}) /\ IsFiniteSet({source[step] : step \in S})
        /\ IsFiniteSet({destination[step] : step \in S})
    BY <1>1, <1>3, FiniteValues DEF S
  <1>5. IsFiniteSet({source[step] : step \in S} \cup {destination[step] : step \in S})
    BY <1>4, FS_Union
  <1>6. IsFiniteSet(UNION {{step.source, step.destination} : step \in S})
    BY <1>2, <1>5, FS_Subset
  <1> QED BY <1>2, <1>4, <1>6 DEF S

\* A path's steps agree with the edges that are there.
LEMMA PathEdits ==
  ASSUME NEW g, Sound(g), NEW R, NEW path, path.steps \in Seq(R)
  PROVE  Sound(AddPathToSubgraph(g, path).value) /\ KeepsEnds(g, AddPathToSubgraph(g, path).value)
  <1> DEFINE steps == path.steps
             ids == {step.id : step \in Range(steps)}
             ends == UNION {{step.source, step.destination} : step \in Range(steps)}
             n == g.nodes \cup {path.origin} \cup ends
             last(e) == steps[LastStep(steps, e)]
             f == [e \in DOMAIN g.edges \cup ids |-> IF e \in ids THEN Ends(last(e)) ELSE g.edges[e]]
             h == [nodes |-> n, edges |-> f]
             agrees == \A k \in 1..Len(steps) : ValidateEdge(g, steps[k].id, Ends(steps[k]))
  <1>1. /\ IsFiniteSet(g.nodes) /\ IsFiniteSet(DOMAIN g.edges)
        /\ \A e \in DOMAIN g.edges : {g.edges[e].source, g.edges[e].destination} \subseteq g.nodes
    BY SoundFacts
  <1>2. /\ DOMAIN f = DOMAIN g.edges \cup ids
        /\ \A e \in ids : f[e] = Ends(last(e))
        /\ \A e \in DOMAIN g.edges : e \notin ids => f[e] = g.edges[e]
    OBVIOUS
  <1>3. h.nodes = n /\ h.edges = f
    BY SMTT(60)
  <1>4. DOMAIN steps = 1..Len(steps)
    BY SMTT(60)
  <1>5. ASSUME NEW e \in ids
        PROVE  \E k \in 1..Len(steps) : k = LastStep(steps, e) /\ steps[k].id = e
    <2>1. PICK k \in 1..Len(steps) : e = steps[k].id
      BY <1>4, <1>5 DEF Range
    <2> QED BY <2>1, LastStepExists
  <1>6. \A k \in 1..Len(steps) : {steps[k].source, steps[k].destination} \subseteq n
    BY <1>4 DEF Range
  <1>7. IsFiniteSet(n) /\ IsFiniteSet(DOMAIN f)
    <2>1. IsFiniteSet(ids) /\ IsFiniteSet(ends)
      BY FinitePath
    <2> HIDE DEF ids, ends
    <2>2. IsFiniteSet(g.nodes \cup {path.origin})
      BY <1>1, FS_AddElement
    <2>3. IsFiniteSet((g.nodes \cup {path.origin}) \cup ends) /\ IsFiniteSet(DOMAIN g.edges \cup ids)
      BY <1>1, <2>1, <2>2, FS_Union
    <2> QED BY <1>2, <2>3
  <1>8. g.nodes \subseteq n
    OBVIOUS
  <1>9. AddPathToSubgraph(g, path) =
          Outcome(g, Readable(g) /\ IsWalk(path) /\ agrees /\ WithinLimits(h), h)
    BY DEF AddPathToSubgraph, PutPath
  <1>10. \A x : Ends(x).source = x.source /\ Ends(x).destination = x.destination
    BY SMTT(60) DEF Ends
  <1> HIDE DEF ids, ends, n, f
  <1>11. ASSUME NEW e \in DOMAIN f PROVE {f[e].source, f[e].destination} \subseteq n
    <2>1. CASE e \in ids
      <3>1. PICK k \in 1..Len(steps) : k = LastStep(steps, e)
        BY <1>5, <2>1
      <3>2. f[e] = Ends(steps[k])
        BY <1>2, <2>1, <3>1
      <3>3. f[e].source = steps[k].source /\ f[e].destination = steps[k].destination
        BY <1>10, <3>2
      <3> QED BY <1>6, <3>3
    <2>2. CASE e \in DOMAIN g.edges /\ e \notin ids
      <3>1. f[e] = g.edges[e]
        BY <1>2, <2>2
      <3> QED BY <1>1, <1>8, <2>2, <3>1
    <2> QED BY <1>2, <1>11, <2>1, <2>2
  <1>12. ASSUME WithinLimits(h) PROVE Sound(h)
    BY <1>3, <1>7, <1>11, <1>12, SoundParts DEF WithinLimits
  <1>13. ASSUME agrees PROVE KeepsEnds(g, h)
    <2>1. ASSUME NEW e \in DOMAIN g.edges PROVE f[e] = g.edges[e]
      <3>1. CASE e \in ids
        <4>1. PICK k \in 1..Len(steps) : k = LastStep(steps, e) /\ steps[k].id = e
          BY <1>5, <3>1
        <4>2. f[e] = Ends(steps[k])
          BY <1>2, <3>1, <4>1
        <4>3. ValidateEdge(g, e, Ends(steps[k]))
          BY <1>13, <4>1
        <4> QED BY <2>1, <4>2, <4>3 DEF ValidateEdge
      <3>2. CASE e \notin ids
        BY <1>2, <3>2
      <3> QED BY <3>1, <3>2
    <2> QED BY <1>3, <2>1 DEF KeepsEnds
  <1> HIDE DEF h, agrees
  <1> QED BY <1>9, <1>12, <1>13, OutcomeSound

-----------------------------------------------------------------------------
(* The facade's steps.                                                      *)

\* No step but an edit touches the subgraph.
LEMMA OthersLeaveTheSubgraph ==
  ASSUME FacadeShape, [Next]_vars, ~EditSubgraph
  PROVE  sub' = sub
  <1>1. CASE UNCHANGED vars
    BY <1>1 DEF vars
  <1>2. CASE StartCall
    BY <1>2 DEF StartCall, RequestHandle, DropHandle, CancelByHandle, CancelById, StartRoute,
                Hydrate, HydratePath, HydrateSubgraph, LockExternal, BeginShutdown,
                CancelUnchanged, RouteUnchanged, ExternalUnchanged
  <1>3. ASSUME NEW c \in Callers, CancelStep(c) PROVE sub' = sub
    BY <1>3 DEF CancelStep, CancelUnknown, CancelLoads, Load, CancelInEngine, SwapFlag,
                CancelOutcome, CancelUnchanged
  <1>4. ASSUME NEW c \in Callers, RouteStep(c) PROVE sub' = sub
    BY <1>4 DEF RouteStep, ClaimRequest, CheckRoute, UnwindRoute, EnterEngine, RegisterFlag,
                LeaseImage, Search, LeaveEngine, CompleteRoute, StoreResponse, RouteUnchanged
  <1>5. ASSUME NEW c \in Callers, ExternalStep(c) PROVE sub' = sub
    BY <1>5 DEF ExternalStep, CheckOpen, FinishExternal, LockForShutdown, CloseAdmission,
                SignalAll, Drain, ExternalUnchanged
  <1>6. ASSUME NEW c \in Callers, EngineStep(c) PROVE sub' = sub
    BY <1>6 DEF EngineStep
  <1> QED BY <1>1, <1>2, <1>3, <1>4, <1>5, <1>6 DEF Next

\* A step leaves a sound subgraph whose edges have the endpoints they had.
LEMMA StepSubgraph ==
  ASSUME FacadeShape, HydrationInv, SubgraphInv, [Next]_vars
  PROVE  SubgraphInv' /\ KeepsEnds(sub, sub')
  <1>1. Sound(sub)
    BY DEF SubgraphInv, Sound
  <1>2. Sound(sub') /\ KeepsEnds(sub, sub')
    <2>1. CASE EditSubgraph
      <3>1. CASE \E n \in limits.nodes : \/ sub' = SubgraphAddNode(sub, n).value
                                         \/ sub' = SubgraphRemoveNode(sub, n).value
        BY <1>1, <3>1, NodeEdits
      <3>2. CASE \E cited \in limits.cited :
                    \/ sub' = SubgraphAddEdge(sub, cited.id, Ends(cited)).value
                    \/ sub' = SubgraphRemoveEdge(sub, cited.id).value
        BY <1>1, <3>2, EdgeEdits
      <3>3. CASE \E other \in limits.others : sub' = SubgraphUnion(sub, other).value
        BY <1>1, <3>3, UnionEdits, SituationCallers DEF Situation
      <3>4. CASE \E i \in held : HasPath(i) /\ sub' = AddPathToSubgraph(sub, response[i].path).value
        <4>1. PICK i \in held : HasPath(i) /\ sub' = AddPathToSubgraph(sub, response[i].path).value
          BY <3>4
        <4>2. response[i].path.steps \in Seq(EdgeRecords)
          BY <4>1 DEF FacadeShape, HydrationInv, RecordInv, KnownPath
        <4> QED BY <1>1, <4>1, <4>2, PathEdits
      <3> QED BY <2>1, <3>1, <3>2, <3>3, <3>4 DEF EditSubgraph
    <2>2. CASE ~EditSubgraph
      BY <1>1, <2>2, OthersLeaveTheSubgraph DEF KeepsEnds
    <2> QED BY <2>1, <2>2
  <1> QED BY <1>2 DEF SubgraphInv, Sound

\* The empty subgraph is sound.
LEMMA InitSubgraph ==
  ASSUME Init
  PROVE  SubgraphInv
  <1> DEFINE none == [e \in {} |-> {}]
  <1>1. DOMAIN none = {} /\ sub = [nodes |-> {}, edges |-> none]
    BY DEF Init, EmptySubgraph, NoEdges
  <1>2. IsFiniteSet({}) /\ Cardinality({}) <= MaxSubgraphNodes /\ Cardinality({}) <= MaxSubgraphEdges
    <2>1. IsFiniteSet({}) /\ Cardinality({}) = 0
      BY FS_EmptySet
    <2>2. 0 <= MaxSubgraphNodes /\ 0 <= MaxSubgraphEdges
      BY SubgraphAssumption, SMTT(60)
    <2> QED BY <2>1, <2>2
  <1> HIDE DEF none
  <1>3. Sound([nodes |-> {}, edges |-> none])
    BY <1>1, <1>2, SoundParts
  <1>4. Sound(sub)
    BY <1>1, <1>3
  <1> QED BY <1>4 DEF SubgraphInv, Sound

\* The application's subgraph is always one that its own checks accept.
THEOREM SubgraphInvariant == Spec => []SubgraphInv
  <1>1. FacadeShape /\ HydrationInv /\ SubgraphInv /\ [Next]_vars => SubgraphInv'
    BY StepSubgraph
  <1> QED BY <1>1, InitSubgraph, HydrationInvariant, PTL DEF Spec

\* Every edit leaves a subgraph whose edges have their endpoints and which is
\* within its limits, and an edge keeps the endpoints it was added with.
THEOREM SubgraphsStayConsistent == Spec => SubgraphStaysConsistent
  <1>1. FacadeShape /\ HydrationInv /\ SubgraphInv /\ [Next]_vars
          => [/\ ValidHandles(sub') /\ WithinLimits(sub')
              /\ \A e \in DOMAIN sub.edges \cap DOMAIN sub'.edges : sub'.edges[e] = sub.edges[e]]_vars
    BY StepSubgraph DEF SubgraphInv, Readable, KeepsEnds
  <1> QED BY <1>1, HydrationInvariant, SubgraphInvariant, PTL
           DEF Spec, SubgraphStaysConsistent
=============================================================================
