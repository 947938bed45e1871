--------------------------- MODULE HydrationProofs ---------------------------
(***************************************************************************)
(* Why a hydration's answer is one moment of the confirmed graph, whatever *)
(* mutations, routes and shutdown do meanwhile.                            *)
(***************************************************************************)
EXTENDS Facade, WellFoundedInduction, TLAPS

USE ZenonT(60)

\* What the arguments below need to know of the variables' shape.
FacadeShape ==
    /\ limits \in Limits
    /\ held \subseteq RequestIds
    /\ DOMAIN response = RequestIds
    /\ DOMAIN pc = Callers
    /\ DOMAIN answer = Callers

\* Who may call what: the situations of Limits only name callers and ids.
LEMMA SituationCallers ==
  ASSUME FacadeShape
  PROVE  /\ Situation(limits)
         /\ limits.supplied \subseteq RequestIds \cup {None}
         /\ \A c : c \in limits.cancellers \/ c \in limits.routers \/ c \in limits.hydrators
                     \/ c \in limits.writers \/ c \in limits.externals \/ c \in limits.closers
                   => c \in Callers
  <1>1. Situation(limits)
    BY FacadeAssumption DEF FacadeShape
  <1> QED BY <1>1 DEF Situation

-----------------------------------------------------------------------------
(* What a mutation does to the records.                                     *)

\* A set of natural numbers has a least element.
LEMMA LeastElement ==
  ASSUME NEW S \in SUBSET Nat, S # {}
  PROVE  \E n \in S : \A m \in S : n <= m
  <1> DEFINE R == {ss \in Nat \X Nat : ss[1] < ss[2]}
  <1>1. IsWellFoundedOn(R, Nat)
    BY NatLessThanWellFounded DEF OpToRel
  <1>2. PICK n \in S : \A m \in S : ~(<<m, n>> \in R)
    <2> HIDE DEF R
    <2> QED BY <1>1, WFMin
  <1>3. ASSUME NEW m \in S, m < n PROVE FALSE
    <2>1. <<m, n>> \in Nat \X Nat /\ <<m, n>>[1] = m /\ <<m, n>>[2] = n
      OBVIOUS
    <2>2. <<m, n>> \in R
      BY <1>3, <2>1
    <2> QED BY <1>2, <2>2
  <1> QED BY <1>3, SMTT(60)

\* Every record that was made stays what it was.
Grows(g, h) == \A e \in Edges : g.records[e] # None => h.records[e] = g.records[e]

\* Edge ids are handed out upwards: as long as one is left, the next is the
\* least that has no record.
LEMMA FreshEdgeIsFree ==
  ASSUME NEW g, \E e \in Edges : g.records[e] = None
  PROVE  FreshEdge(g) \in Edges /\ g.records[FreshEdge(g)] = None
  <1> DEFINE Free == {e \in Edges : g.records[e] = None}
  <1>1. Edges \subseteq Nat /\ \A e \in Edges : \A x \in 1..(e - 1) : x \in Edges /\ ~(e <= x)
    <2>1. ASSUME NEW n \in Nat \ {0}
          PROVE  \A x \in 1..(n - 1) : x \in 1..n /\ ~(n <= x)
      BY SMTT(60)
    <2> QED BY <2>1, HydrationAssumption
  <1>2. PICK e \in Free : \A x \in Free : e <= x
    BY <1>1, LeastElement
  <1>3. \A x \in 1..(e - 1) : g.records[x] # None
    BY <1>1, <1>2
  <1> QED BY <1>2, <1>3 DEF FreshEdge

\* What a well-formed graph says of its fields.
LEMMA GraphFields ==
  ASSUME NEW n, NEW es, NEW rel, NEW rec,
         rec \in [Edges -> EdgeRecords \cup {None}],
         \A e \in Edges : rec[e] # None => rec[e].id = e,
         es \subseteq {e \in Edges : rec[e] # None},
         \A e \in es : {rec[e].source, rec[e].destination} \subseteq n /\ rec[e].relation \in rel
  PROVE  WellFormed([nodes |-> n, edges |-> es, relations |-> rel, records |-> rec])
  BY DEF WellFormed, Record

\* A confirmed edge gets a record under an id of its own.
LEMMA ConfirmKeeps ==
  ASSUME NEW g, WellFormed(g), NEW edge \in EdgeRecords,
         {edge.source, edge.destination} \subseteq g.nodes,
         \E e \in Edges : g.records[e] = None
  PROVE  WellFormed(Confirm(g, edge)) /\ Grows(g, Confirm(g, edge))
  <1> DEFINE e == FreshEdge(g)
             r == [edge EXCEPT !.id = e]
             rec == [g.records EXCEPT ![e] = r]
             h == [nodes |-> g.nodes, edges |-> g.edges \cup {e},
                   relations |-> g.relations \cup {edge.relation}, records |-> rec]
  <1>1. e \in Edges /\ g.records[e] = None
    BY FreshEdgeIsFree
  <1>2. /\ g.records \in [Edges -> EdgeRecords \cup {None}]
        /\ \A x \in Edges : g.records[x] # None => g.records[x].id = x
        /\ g.edges \subseteq {x \in Edges : g.records[x] # None}
        /\ \A x \in g.edges : /\ {g.records[x].source, g.records[x].destination} \subseteq g.nodes
                              /\ g.records[x].relation \in g.relations
    BY DEF WellFormed, Record
  <1>3. e \in Nat
    BY <1>1, HydrationAssumption
  <1>4. /\ r \in EdgeRecords /\ r.id = e /\ r.source = edge.source
        /\ r.destination = edge.destination /\ r.relation = edge.relation
    <2> HIDE DEF e
    <2> QED BY SMTT(60), <1>3 DEF EdgeRecords
  <1>5. r # None
    BY <1>4, FacadeAssumption
  <1>6. Confirm(g, edge) = h
    BY DEF Confirm
  <1> HIDE DEF e, r
  <1>7. /\ rec \in [Edges -> EdgeRecords \cup {None}] /\ rec[e] = r
        /\ \A x \in Edges : x # e => rec[x] = g.records[x]
    BY <1>1, <1>2, <1>4
  <1> HIDE DEF rec
  <1>8. WellFormed(h)
    <2>1. \A x \in Edges : rec[x] # None => rec[x].id = x
      BY <1>2, <1>4, <1>7
    <2>2. g.edges \cup {e} \subseteq {x \in Edges : rec[x] # None}
      BY <1>1, <1>2, <1>5, <1>7
    <2>3. ASSUME NEW x \in g.edges \cup {e}
          PROVE  /\ {rec[x].source, rec[x].destination} \subseteq g.nodes
                 /\ rec[x].relation \in g.relations \cup {edge.relation}
      <3>1. CASE x = e
        BY <1>4, <1>7, <3>1
      <3>2. CASE x # e
        <4>1. x \in g.edges /\ rec[x] = g.records[x]
          BY <1>2, <1>7, <3>2
        <4> QED BY <1>2, <4>1
      <3> QED BY <3>1, <3>2
    <2> QED BY <1>7, <2>1, <2>2, <2>3, GraphFields
  <1>9. Grows(g, h)
    <2>1. h.records = rec
      OBVIOUS
    <2> QED BY <1>1, <1>7, <2>1 DEF Grows
  <1> QED BY <1>6, <1>8, <1>9

\* Deleting edges takes no record away, and leaves every relation kind in use.
LEMMA WithoutEdgesKeeps ==
  ASSUME NEW g, WellFormed(g), NEW nodes, NEW gone, NEW kept,
         \A e \in g.edges \ gone : {Record(g, e).source, Record(g, e).destination} \subseteq nodes
  PROVE  /\ WellFormed(WithoutEdges(g, nodes, gone, kept))
         /\ Grows(g, WithoutEdges(g, nodes, gone, kept))
  <1> DEFINE left == g.edges \ gone
             rel == (g.relations \ RelationsOf(g, gone)) \cup kept \cup RelationsOf(g, left)
             h == [nodes |-> nodes, edges |-> left, relations |-> rel, records |-> g.records]
  <1>1. /\ g.records \in [Edges -> EdgeRecords \cup {None}]
        /\ \A x \in Edges : g.records[x] # None => g.records[x].id = x
        /\ g.edges \subseteq {x \in Edges : g.records[x] # None}
    BY DEF WellFormed
  <1>2. WithoutEdges(g, nodes, gone, kept) = h
    BY DEF WithoutEdges
  <1>3. \A e \in left : g.records[e].relation \in rel
    BY DEF RelationsOf, Record
  <1>4. \A e \in left : {g.records[e].source, g.records[e].destination} \subseteq nodes
    BY DEF Record
  <1>5. left \subseteq {x \in Edges : g.records[x] # None}
    BY <1>1
  <1> HIDE DEF rel, left
  <1>6. WellFormed(h)
    BY <1>1, <1>3, <1>4, <1>5, GraphFields
  <1>7. Grows(g, h)
    BY DEF Grows
  <1> QED BY <1>2, <1>6, <1>7

\* Every outcome of a mutation's catalog write.
LEMMA EffectsKeep ==
  ASSUME NEW g, WellFormed(g), NEW change, change.op \in Writes,
         change.op = "confirm" => change.edge \in EdgeRecords,
         NEW h \in Effects(g, change)
  PROVE  WellFormed(h) /\ Grows(g, h)
  <1>1. CASE change.op = "confirm"
    <2>1. h \in IF /\ {change.edge.source, change.edge.destination} \subseteq g.nodes
                   /\ \E e \in Edges : g.records[e] = None
                THEN {Confirm(g, change.edge)} ELSE {}
      BY <1>1, SMTT(60) DEF Effects
    <2> QED BY <1>1, <2>1, ConfirmKeeps
  <1>2. CASE change.op = "deleteEdge"
    <2>1. h \in IF change.edge \in g.edges
                THEN {WithoutEdges(g, g.nodes, {change.edge}, kept) :
                        kept \in SUBSET RelationsOf(g, {change.edge})}
                ELSE {}
      BY <1>2, SMTT(60) DEF Effects
    <2>2. PICK kept : h = WithoutEdges(g, g.nodes, {change.edge}, kept)
      BY <2>1
    <2>3. \A e \in g.edges \ {change.edge} : {Record(g, e).source, Record(g, e).destination} \subseteq g.nodes
      BY DEF WellFormed
    <2> QED BY <2>2, <2>3, WithoutEdgesKeeps
  <1>3. CASE change.op = "deleteNode"
    <2> DEFINE gone == Incident(g, change.node)
    <2>1. h \in IF change.node \in g.nodes
                THEN {WithoutEdges(g, g.nodes \ {change.node}, gone, kept) :
                        kept \in SUBSET RelationsOf(g, gone)}
                ELSE {}
      BY <1>3, SMTT(60) DEF Effects
    <2>2. PICK kept : h = WithoutEdges(g, g.nodes \ {change.node}, gone, kept)
      BY <2>1
    <2>3. \A e \in g.edges \ gone :
             {Record(g, e).source, Record(g, e).destination} \subseteq g.nodes \ {change.node}
      BY DEF WellFormed, Incident
    <2> QED BY <2>2, <2>3, WithoutEdgesKeeps
  <1> QED BY <1>1, <1>2, <1>3 DEF Writes

-----------------------------------------------------------------------------
(* One caller's part of the invariant.                                      *)

\* What HydrationIsCurrent says of one caller.
Current(c) ==
    /\ pc[c] = "return" => answer[c] # "Corrupt"
    /\ Answered(c) =>
         /\ batch[c].nodes = job[c].nodes \cap graph.nodes
         /\ batch[c].edges = {Record(graph, e) : e \in job[c].edges \cap graph.edges}
         /\ answer[c] = "Complete" => AllFound(job[c], batch[c])
         /\ answer[c] \in {"Unavailable", "Partial"} => ~AllFound(job[c], batch[c])
         /\ answer[c] = "Integrity" =>
              /\ job[c].op = "subgraph"
              /\ \E cited \in job[c].evidence : Ends(cited) # Ends(Record(graph, cited.id))

Own(c) == Writing(c) /\ Reading(c) /\ Routing(c) /\ Current(c)

\* The invariant, caller by caller.
LEMMA OwnParts ==
  HydrationInv <=> RecordInv /\ \A c \in Callers : Own(c)
  BY DEF HydrationInv, Own, HydrationIsCurrent, Current

\* A caller's part only depends on the graph, the locks and its own locals.
LEMMA OthersKept ==
  ASSUME NEW d \in Callers, Own(d), graph' = graph,
         pc'[d] = pc[d], job'[d] = job[d], batch'[d] = batch[d], answer'[d] = answer[d],
         d \in readers => d \in readers', writer = d => writer' = d
  PROVE  Own(d)'
  <1>1. Writing(d)'
    BY DEF Own, Writing
  <1>2. Reading(d)'
    <2>1. IsRequest(job[d]) => IsRequest(job[d])'
      BY DEF IsRequest, Known
    <2>2. Answered(d)' => Answered(d)
      BY DEF Answered
    <2> QED BY <2>1, <2>2 DEF Own, Reading, Record
  <1>3. Routing(d)'
    BY DEF Own, Routing, KnownIds, KnownPath, Known
  <1>4. Current(d)'
    BY DEF Own, Current, Answered, AllFound, Record, Ends
  <1> QED BY <1>1, <1>2, <1>3, <1>4 DEF Own

\* A step of one caller, as far as hydration is concerned.
Locally(c) ==
    /\ DOMAIN job' = Callers /\ DOMAIN batch' = Callers
    /\ \A d \in Callers : d # c => /\ pc'[d] = pc[d] /\ job'[d] = job[d]
                                   /\ batch'[d] = batch[d] /\ answer'[d] = answer[d]

\* The responses still have known paths.
PathsKnown == \A i \in RequestIds : HasPath(i)' => KnownPath(response'[i].path)

\* A step that leaves the confirmed graph alone keeps the invariant, if it keeps
\* the locks in order and establishes its caller's part.
LEMMA KeepsHydration ==
  ASSUME HydrationInv, NEW c \in Callers, Locally(c), graph' = graph,
         readers' \in {readers, readers \cup {c}, readers \ {c}},
         readers' # {} => writer' = None,
         writer' = writer \/ writer \in {None, c},
         image' \in {image, None, Image(graph)},
         pc[c] # "publish" \/ image' \in {None, Image(graph)} \/ job[c].op = "rebuild",
         PathsKnown, Own(c)'
  PROVE  HydrationInv'
  <1>1. RecordInv /\ \A d \in Callers : Own(d)
    BY OwnParts
  <1>2. ASSUME NEW d \in Callers, d # c PROVE Own(d)'
    <2>1. d \in readers => d \in readers'
      BY <1>2
    <2>2. writer = d => writer' = d
      BY <1>2, HydrationAssumption
    <2> QED BY <1>1, <1>2, <2>1, <2>2, OthersKept DEF Locally
  <1>3. Image(graph)' = Image(graph)
    BY DEF Image
  <1>4. \/ image' \in {None, Image(graph)'}
        \/ \E d \in Callers : pc'[d] = "publish" /\ job'[d].op # "rebuild"
    <2>1. CASE image' \in {None, Image(graph)}
      BY <1>3, <2>1
    <2>2. CASE image' = image /\ image \in {None, Image(graph)}
      BY <1>3, <2>2
    <2>3. CASE /\ image' = image /\ image' \notin {None, Image(graph)}
               /\ \E d \in Callers : pc[d] = "publish" /\ job[d].op # "rebuild"
      <3>1. PICK d \in Callers : pc[d] = "publish" /\ job[d].op # "rebuild"
        BY <2>3
      <3>2. d # c
        BY <2>3, <3>1
      <3> QED BY <3>1, <3>2 DEF Locally
    <2> QED BY <1>1, <2>1, <2>2, <2>3 DEF RecordInv
  <1>5. image' # None => KnownIds(image.edges)'
    <2>1. \A es : KnownIds(es)' <=> KnownIds(es)
      BY DEF KnownIds
    <2>2. KnownIds(Image(graph).edges)
      BY <1>1 DEF RecordInv, WellFormed, KnownIds, Image
    <2>3. image' # None => KnownIds(image'.edges)
      BY <1>1, <2>2 DEF RecordInv
    <2> QED BY <2>1, <2>3 DEF KnownIds
  <1>6. WellFormed(graph)'
    BY <1>1 DEF RecordInv
  <1>7. \A i \in RequestIds : HasPath(i)' => KnownPath(response[i].path)'
    <2>1. \A p : KnownPath(p) => KnownPath(p)'
      BY DEF KnownPath, Known
    <2> QED BY <2>1 DEF PathsKnown, KnownPath, Known
  <1>8. RecordInv'
    BY <1>4, <1>5, <1>6, <1>7 DEF RecordInv, Locally
  <1>9. \A d \in Callers : Own(d)'
    BY <1>2
  <1> QED BY <1>8, <1>9, OwnParts DEF HydrationInv, Own, HydrationIsCurrent, Current

-----------------------------------------------------------------------------
(* Steps that hydration does not notice.                                    *)

\* Who assigns only to its own entries steps locally.
LEMMA LocalStep ==
  ASSUME FacadeShape, HydrationInv, NEW c \in Callers,
         \E x : pc' = [pc EXCEPT ![c] = x],
         answer' = answer \/ \E y : answer' = [answer EXCEPT ![c] = y],
         job' = job \/ \E z : job' = [job EXCEPT ![c] = z],
         batch' = batch \/ \E w : batch' = [batch EXCEPT ![c] = w]
  PROVE  Locally(c)
  <1>1. DOMAIN pc = Callers /\ DOMAIN answer = Callers
    BY DEF FacadeShape
  <1>2. DOMAIN job = Callers /\ DOMAIN batch = Callers
    BY DEF HydrationInv, RecordInv
  <1>3. DOMAIN job' = Callers /\ DOMAIN batch' = Callers
    BY <1>2
  <1>4. ASSUME NEW d \in Callers, d # c
        PROVE  /\ pc'[d] = pc[d] /\ job'[d] = job[d]
               /\ batch'[d] = batch[d] /\ answer'[d] = answer[d]
    <2>1. pc'[d] = pc[d]
      BY <1>1, <1>4
    <2>2. job'[d] = job[d]
      BY <1>2, <1>4
    <2>3. batch'[d] = batch[d]
      BY <1>2, <1>4
    <2>4. answer'[d] = answer[d]
      BY <1>1, <1>4
    <2> QED BY <2>1, <2>2, <2>3, <2>4
  <1> QED BY <1>3, <1>4 DEF Locally

\* The places the invariant speaks of.
HydrationPlaces ==
    {"lock", "write", "publish", "nested", "image", "read", "answer", "search", "leave", "complete", "store"}

\* Nothing is asked of a call anywhere else.
LEMMA ElsewhereOwn ==
  ASSUME NEW c \in Callers, pc'[c] \notin HydrationPlaces,
         pc'[c] = "return" => answer'[c] \notin HydrationAnswers
  PROVE  Own(c)'
  BY DEF Own, Writing, Reading, Routing, Current, Answered, HydrationPlaces, HydrationAnswers

\* A step elsewhere, with the locks, the graph and the responses as they were.
Elsewhere(c) ==
    /\ Locally(c)
    /\ UNCHANGED <<graph, writer, readers, response>>
    /\ image' \in {image, None}
    /\ pc[c] # "publish"
    /\ pc'[c] \notin HydrationPlaces
    /\ pc'[c] = "return" => answer'[c] \notin HydrationAnswers

\* The paths stay known as long as the responses stay.
LEMMA SamePaths ==
  ASSUME HydrationInv, response' = response
  PROVE  PathsKnown
  BY DEF HydrationInv, RecordInv, PathsKnown, HasPath

\* It keeps the invariant.
LEMMA ElsewhereKeeps ==
  ASSUME HydrationInv, NEW c \in Callers, Elsewhere(c)
  PROVE  HydrationInv'
  <1>1. Own(c)'
    BY ElsewhereOwn DEF Elsewhere
  <1>2. PathsKnown
    BY SamePaths DEF Elsewhere
  <1>3. readers # {} => writer = None
    BY DEF HydrationInv, RecordInv
  <1> QED BY <1>1, <1>2, <1>3, KeepsHydration DEF Elsewhere

\* A step that only moves a caller to such a place and answers.
LEMMA MovesElsewhere ==
  ASSUME FacadeShape, HydrationInv, NEW c \in Callers,
         UNCHANGED <<graph, writer, readers, response, job, batch>>,
         image' \in {image, None}, pc[c] # "publish",
         \E x : /\ x \notin HydrationPlaces
                /\ pc' = [pc EXCEPT ![c] = x]
                /\ \/ answer' = answer /\ x # "return"
                   \/ \E y : y \notin HydrationAnswers /\ answer' = [answer EXCEPT ![c] = y]
  PROVE  HydrationInv'
  <1>1. Locally(c)
    BY LocalStep
  <1>2. DOMAIN pc = Callers /\ DOMAIN answer = Callers
    BY DEF FacadeShape
  <1>3. /\ pc'[c] \notin HydrationPlaces
        /\ pc'[c] = "return" => answer'[c] \notin HydrationAnswers
    BY <1>2
  <1> QED BY <1>1, <1>3, ElsewhereKeeps DEF Elsewhere

\* Cancellations.
LEMMA CancelElsewhere ==
  ASSUME FacadeShape, HydrationInv, NEW c \in Callers,
         CancelStep(c) \/ \E i : CancelByHandle(c, i) \/ CancelById(c, i)
  PROVE  HydrationInv'
  <1> USE DEF EngineUnchanged, CancelUnchanged, Goto, On, Finish, Reply
  <1>1. UNCHANGED <<graph, writer, readers, response, job, batch, image>>
    BY DEF CancelStep, CancelUnknown, CancelLoads, Load, CancelInEngine, SwapFlag, CancelOutcome,
           CancelByHandle, CancelById
  <1> DEFINE Goes == \E x \in {"unknown", "cancel", "created?", "closing?", "executing?",
                               "engine", "swap", "completed?", "return"} :
                        /\ pc' = [pc EXCEPT ![c] = x]
                        /\ \/ answer' = answer /\ x # "return"
                           \/ \E y \in {"UnknownRequest", "ShuttingDown", "AlreadyCompleted",
                                        "Signalled", "AlreadySignalled"} :
                                 answer' = [answer EXCEPT ![c] = y]
  <1>2. pc[c] # "publish" /\ Goes
    <2>1. CASE \E i : CancelByHandle(c, i) \/ CancelById(c, i)
      BY <2>1 DEF CancelByHandle, CancelById, StartCancel
    <2>2. CASE CancelUnknown(c)
      BY <2>2 DEF CancelUnknown
    <2>3. CASE CancelLoads(c)
      BY <2>3 DEF CancelLoads, Load
    <2>4. CASE CancelInEngine(c)
      BY <2>4 DEF CancelInEngine, Told
    <2>5. CASE SwapFlag(c)
      BY <2>5 DEF SwapFlag
    <2>6. CASE CancelOutcome(c)
      BY <2>6 DEF CancelOutcome, Told
    <2> QED BY <2>1, <2>2, <2>3, <2>4, <2>5, <2>6 DEF CancelStep
  <1>3. \E x : /\ x \notin HydrationPlaces
               /\ pc' = [pc EXCEPT ![c] = x]
               /\ \/ answer' = answer /\ x # "return"
                  \/ \E y : y \notin HydrationAnswers /\ answer' = [answer EXCEPT ![c] = y]
    BY <1>2 DEF HydrationPlaces, HydrationAnswers
  <1> QED BY <1>1, <1>2, <1>3, MovesElsewhere

\* Checkpoint operations and shutdown.
ExternalAction(c) ==
    \/ LockExternal(c) \/ CheckOpen(c) \/ FinishExternal(c) \/ BeginShutdown(c)
    \/ LockForShutdown(c) \/ CloseAdmission(c) \/ SignalAll(c) \/ Drain(c)

\* None of them reads or writes a record.
LEMMA ExternalElsewhere ==
  ASSUME FacadeShape, HydrationInv, NEW c \in Callers, ExternalAction(c)
  PROVE  HydrationInv'
  <1> USE DEF EngineUnchanged, ExternalUnchanged, requestVars, Goto, On
  <1>1. UNCHANGED <<graph, writer, readers, response, job, batch>> /\ image' \in {image, None}
    BY DEF ExternalAction, LockExternal, CheckOpen, FinishExternal, BeginShutdown,
           LockForShutdown, CloseAdmission, SignalAll, Drain
  <1>2. /\ pc[c] # "publish" /\ answer' = answer
        /\ \E x \in {"open?", "idle", "external", "lockExternal", "close", "signal", "drain"} :
              pc' = [pc EXCEPT ![c] = x]
    BY DEF ExternalAction, LockExternal, CheckOpen, FinishExternal, BeginShutdown,
           LockForShutdown, CloseAdmission, SignalAll, Drain
  <1>3. \E x : /\ x \notin HydrationPlaces
               /\ pc' = [pc EXCEPT ![c] = x]
               /\ answer' = answer /\ x # "return"
    BY <1>2 DEF HydrationPlaces
  <1> QED BY <1>1, <1>2, <1>3, MovesElsewhere

-----------------------------------------------------------------------------
(* The route of a request: a path of an image cites records that stay.      *)

\* A route outside the engine, and on its way in.
LEMMA RouteElsewhere ==
  ASSUME FacadeShape, HydrationInv, NEW c \in Callers,
         \/ \E i : StartRoute(c, i)
         \/ ClaimRequest(c) \/ CheckRoute(c) \/ UnwindRoute(c) \/ EnterEngine(c)
  PROVE  HydrationInv'
  <1> USE DEF EngineUnchanged, RouteUnchanged, Goto, On, Finish, Reply
  <1>1. UNCHANGED <<graph, writer, readers, response, job, batch, image>>
    BY DEF StartRoute, ClaimRequest, CheckRoute, UnwindRoute, EnterEngine
  <1>2. /\ pc[c] # "publish"
        /\ \E x \in {"claim", "checks", "enter", "unwind", "register", "return"} :
              /\ pc' = [pc EXCEPT ![c] = x]
              /\ \/ answer' = answer /\ x # "return"
                 \/ \E y \in {"Shutdown", "AlreadyExecuted", "Failed"} :
                       answer' = [answer EXCEPT ![c] = y]
    BY DEF StartRoute, ClaimRequest, CheckRoute, UnwindRoute, EnterEngine
  <1>3. \E x : /\ x \notin HydrationPlaces
               /\ pc' = [pc EXCEPT ![c] = x]
               /\ \/ answer' = answer /\ x # "return"
                  \/ \E y : y \notin HydrationAnswers /\ answer' = [answer EXCEPT ![c] = y]
    BY <1>2 DEF HydrationPlaces, HydrationAnswers
  <1> QED BY <1>1, <1>2, <1>3, MovesElsewhere

\* A route's part, at the places it has one.
LEMMA RouteOwn ==
  ASSUME NEW c \in Callers, pc'[c] \in {"lease", "search", "leave", "complete", "store", "unwind"},
         Routing(c)'
  PROVE  Own(c)'
  BY DEF Own, Writing, Reading, Current, Answered

\* A step of a route within the engine: only its own locals change.
LEMMA RouteKeeps ==
  ASSUME FacadeShape, HydrationInv, NEW c \in Callers,
         pc[c] \in {"register", "lease", "search", "leave", "complete"},
         UNCHANGED <<graph, image, writer, readers, response, batch>>,
         \E x \in {"lease", "search", "leave", "complete", "store", "unwind"} :
            pc' = [pc EXCEPT ![c] = x],
         answer' = answer \/ \E y : answer' = [answer EXCEPT ![c] = y],
         job' = job \/ \E z : job' = [job EXCEPT ![c] = z],
         Routing(c)'
  PROVE  HydrationInv'
  <1>1. Locally(c)
    BY LocalStep
  <1>2. pc'[c] \in {"lease", "search", "leave", "complete", "store", "unwind"}
    BY DEF FacadeShape
  <1>3. Own(c)'
    BY <1>2, RouteOwn
  <1>4. readers # {} => writer = None
    BY DEF HydrationInv, RecordInv
  <1>5. PathsKnown
    BY SamePaths
  <1> QED BY <1>1, <1>3, <1>4, <1>5, KeepsHydration

\* Registration and the lease of the image.
LEMMA LeaseKeeps ==
  ASSUME FacadeShape, HydrationInv, NEW c \in Callers, RegisterFlag(c) \/ LeaseImage(c)
  PROVE  HydrationInv'
  <1> USE DEF EngineUnchanged, RouteUnchanged, Goto, On, Reply
  <1>1. DOMAIN pc = Callers /\ DOMAIN answer = Callers /\ DOMAIN job = Callers
    BY DEF FacadeShape, HydrationInv, RecordInv
  <1>2. UNCHANGED <<graph, image, writer, readers, response, batch>>
    BY DEF RegisterFlag, LeaseImage
  <1>3. CASE RegisterFlag(c)
    <2>1. \/ pc' = [pc EXCEPT ![c] = "lease"]
          \/ pc' = [pc EXCEPT ![c] = "leave"] /\ answer' = [answer EXCEPT ![c] = "Duplicate"]
      BY <1>3 DEF RegisterFlag
    <2>2. Routing(c)'
      BY <1>1, <2>1 DEF Routing, HydrationAnswers
    <2> QED BY <1>2, <1>3, <2>1, <2>2, RouteKeeps DEF RegisterFlag
  <1>4. CASE LeaseImage(c) /\ image # None /\ job' = [job EXCEPT ![c] = image] /\ On(c, "search")
    <2>1. KnownIds(image.edges)
      BY <1>4 DEF HydrationInv, RecordInv
    <2>2. pc'[c] = "search" /\ job'[c] = image
      BY <1>1, <1>4
    <2>3. Routing(c)'
      BY <1>2, <2>1, <2>2 DEF Routing, KnownIds
    <2> QED BY <1>2, <1>4, <2>3, RouteKeeps DEF LeaseImage
  <1>5. CASE LeaseImage(c) /\ Reply(c, "Failed") /\ Goto(c, "leave") /\ job' = job
    <2>1. pc'[c] = "leave" /\ answer'[c] = "Failed"
      BY <1>1, <1>5
    <2>2. Routing(c)'
      BY <2>1 DEF Routing, HydrationAnswers
    <2> QED BY <1>2, <1>5, <2>2, RouteKeeps DEF LeaseImage
  <1> QED BY <1>3, <1>4, <1>5 DEF LeaseImage

\* The walks of an image are paths of known records.
LEMMA WalksKnown ==
  ASSUME WellFormed(graph), NEW g, KnownIds(g.edges), NEW o, NEW d, NEW path \in Walks(g, o, d)
  PROVE  KnownPath(path)
  <1> DEFINE edges == {Record(graph, e) : e \in g.edges}
  <1>1. \A a \in edges : Known(a)
    <2>1. ASSUME NEW e \in g.edges PROVE Known(Record(graph, e))
      <3>1. e \in Edges /\ graph.records[e] # None
        BY DEF KnownIds
      <3>2. graph.records[e] \in EdgeRecords /\ graph.records[e].id = e
        BY <3>1 DEF WellFormed
      <3> QED BY <3>1, <3>2 DEF Known, Record
    <2> QED BY <2>1
  <1>2. path.steps \in {<<>>} \cup {<<a>> : a \in edges} \cup (edges \X edges)
    BY DEF Walks
  <1>3. edges \subseteq EdgeRecords
    BY <1>1 DEF Known
  <1> HIDE DEF edges
  <1>4. path.steps \in Seq(EdgeRecords) /\ Range(path.steps) \subseteq edges
    <2>1. CASE path.steps = <<>>
      <3>1. DOMAIN path.steps = {} /\ path.steps \in Seq(EdgeRecords)
        BY SMTT(60), <2>1
      <3> QED BY <3>1 DEF Range
    <2>2. CASE path.steps \in {<<a>> : a \in edges}
      <3>1. PICK a \in edges : path.steps = <<a>>
        BY <2>2
      <3>2. /\ DOMAIN path.steps = {1} /\ path.steps[1] = a
            /\ path.steps \in Seq(EdgeRecords)
        BY SMTT(60), <1>3, <3>1
      <3> QED BY <3>1, <3>2 DEF Range
    <2>3. CASE path.steps \in edges \X edges
      <3>1. PICK a \in edges, b \in edges : path.steps = <<a, b>>
        BY SMTT(60), <2>3
      <3>2. /\ DOMAIN path.steps = {1, 2} /\ path.steps[1] = a /\ path.steps[2] = b
            /\ path.steps \in Seq(EdgeRecords)
        BY SMTT(60), <1>3, <3>1
      <3> QED BY <3>1, <3>2 DEF Range
    <2> QED BY <1>2, <2>1, <2>2, <2>3
  <1> QED BY <1>1, <1>4 DEF KnownPath

\* The search, the way out of the engine and the completion.
LEMMA SearchKeeps ==
  ASSUME FacadeShape, HydrationInv, NEW c \in Callers, Search(c) \/ LeaveEngine(c) \/ CompleteRoute(c)
  PROVE  HydrationInv'
  <1> USE DEF EngineUnchanged, RouteUnchanged, Goto, On, Reply
  <1>1. DOMAIN pc = Callers /\ DOMAIN answer = Callers /\ DOMAIN job = Callers
    BY DEF FacadeShape, HydrationInv, RecordInv
  <1>2. UNCHANGED <<graph, image, writer, readers, response, batch>>
    BY DEF Search, LeaveEngine, CompleteRoute
  <1>3. WellFormed(graph) /\ Routing(c)
    BY DEF HydrationInv, RecordInv
  <1>4. CASE Search(c)
    <2>1. pc' = [pc EXCEPT ![c] = "leave"] /\ pc[c] = "search"
      BY <1>4 DEF Search
    <2>2. \/ \E y \in {"Cancelled", "NoPath", "Failed"} :
                answer' = [answer EXCEPT ![c] = y] /\ job' = [job EXCEPT ![c] = None]
          \/ \E d : \E path \in Walks(job[c], limits.origin, d) :
                answer' = [answer EXCEPT ![c] = "Path"] /\ job' = [job EXCEPT ![c] = path]
      BY <1>4 DEF Search
    <2>3. Routing(c)'
      <3>1. pc'[c] = "leave"
        BY <1>1, <2>1
      <3>2. CASE \E y \in {"Cancelled", "NoPath", "Failed"} : answer' = [answer EXCEPT ![c] = y]
        BY <1>1, <3>1, <3>2 DEF Routing, HydrationAnswers
      <3>3. ASSUME NEW d, NEW path \in Walks(job[c], limits.origin, d),
                   answer' = [answer EXCEPT ![c] = "Path"], job' = [job EXCEPT ![c] = path]
            PROVE  Routing(c)'
        <4>1. KnownPath(path)
          BY <1>3, <2>1, WalksKnown DEF Routing
        <4>2. KnownPath(job'[c])
          BY <1>1, <3>3, <4>1
        <4>3. KnownPath(job[c])'
          BY <1>2, <4>2 DEF KnownPath, Known
        <4>4. answer'[c] \notin HydrationAnswers
          BY <1>1, <3>3 DEF HydrationAnswers
        <4> QED BY <3>1, <4>3, <4>4 DEF Routing
      <3> QED BY <2>2, <3>2, <3>3
    <2> QED BY <1>2, <2>1, <2>2, <2>3, RouteKeeps
  <1>5. CASE LeaveEngine(c) \/ CompleteRoute(c)
    <2>1. /\ pc[c] \in {"leave", "complete"} /\ answer' = answer /\ job' = job
          /\ \E x \in {"unwind", "complete", "store"} : pc' = [pc EXCEPT ![c] = x]
      BY <1>5 DEF LeaveEngine, CompleteRoute
    <2>2. pc'[c] \in {"unwind", "complete", "store"}
      BY <1>1, <2>1
    <2>3. answer[c] \notin HydrationAnswers /\ (answer[c] = "Path" => KnownPath(job[c]))
      BY <1>3, <2>1 DEF Routing
    <2>4. KnownPath(job[c]) => KnownPath(job[c])'
      BY <1>2, <2>1 DEF KnownPath, Known
    <2>5. Routing(c)'
      BY <2>1, <2>2, <2>3, <2>4 DEF Routing
    <2> QED BY <1>2, <2>1, <2>5, RouteKeeps
  <1> QED BY <1>4, <1>5

\* The response: a path that it stores is a known one.
LEMMA StoreKeeps ==
  ASSUME FacadeShape, HydrationInv, NEW c \in Callers, StoreResponse(c)
  PROVE  HydrationInv'
  <1> USE DEF EngineUnchanged, RouteUnchanged, Goto, On, Finish, Reply
  <1>1. DOMAIN pc = Callers /\ DOMAIN answer = Callers /\ DOMAIN response = RequestIds
    BY DEF FacadeShape
  <1>2. UNCHANGED <<graph, image, writer, readers, job, batch>> /\ pc[c] = "store"
    BY DEF StoreResponse
  <1>3. /\ answer[c] \notin HydrationAnswers /\ (answer[c] = "Path" => KnownPath(job[c]))
    BY <1>2 DEF HydrationInv, Routing
  <1>4. /\ pc' = [pc EXCEPT ![c] = "return"]
        /\ answer' = answer \/ answer' = [answer EXCEPT ![c] = "PathStepLimit"]
        /\ \/ response' = response
           \/ response' = [response EXCEPT ![req[c]] = [state |-> answer[c], path |-> job[c]]]
    BY DEF StoreResponse
  <1>5. pc'[c] = "return" /\ answer'[c] \notin HydrationAnswers
    BY <1>1, <1>3, <1>4 DEF HydrationAnswers
  <1>6. Own(c)'
    BY <1>5, ElsewhereOwn DEF HydrationPlaces
  <1>7. Locally(c)
    BY <1>2, <1>4, LocalStep
  <1>8. PathsKnown
    <2>1. CASE response' = response
      BY <2>1, SamePaths
    <2>2. CASE response' = [response EXCEPT ![req[c]] = [state |-> answer[c], path |-> job[c]]]
      <3>1. ASSUME NEW i \in RequestIds, HasPath(i)' PROVE KnownPath(response'[i].path)
        <4>1. CASE i = req[c]
          <5>1. response'[i] = [state |-> answer[c], path |-> job[c]]
            BY <1>1, <2>2, <4>1
          <5>2. response'[i].state = answer[c] /\ response'[i].path = job[c]
            BY SMTT(60), <5>1
          <5>3. KnownPath(job[c])
            BY <1>3, <3>1, <5>2 DEF HasPath
          <5> QED BY SMTT(60), <5>2, <5>3
        <4>2. CASE i # req[c]
          <5>1. response'[i] = response[i]
            BY <1>1, <2>2, <4>2
          <5> QED BY <3>1, <5>1 DEF HasPath, HydrationInv, RecordInv
        <4> QED BY <4>1, <4>2
      <3> QED BY <3>1 DEF PathsKnown
    <2> QED BY <1>4, <2>1, <2>2
  <1>9. readers # {} => writer = None
    BY DEF HydrationInv, RecordInv
  <1> QED BY <1>2, <1>6, <1>7, <1>8, <1>9, KeepsHydration

-----------------------------------------------------------------------------
(* Mutations.                                                               *)

\* A mutation that begins, and one that takes the lock.
LEMMA MutationKeeps ==
  ASSUME FacadeShape, HydrationInv, NEW c \in Callers,
         \/ \E change \in limits.changes : BeginMutation(c, change) /\ FacadeUnchanged
         \/ LockRouting(c) /\ response' = response
  PROVE  HydrationInv'
  <1> USE DEF Goto
  <1>1. DOMAIN pc = Callers /\ DOMAIN job = Callers
    BY DEF FacadeShape, HydrationInv, RecordInv
  <1>2. response' = response
    BY DEF FacadeUnchanged, requestVars
  <1>3. PathsKnown
    BY <1>2, SamePaths
  <1>4. readers # {} => writer = None
    BY DEF HydrationInv, RecordInv
  <1>5. CASE \E change \in limits.changes : BeginMutation(c, change)
    <2>1. PICK change \in limits.changes : BeginMutation(c, change)
      BY <1>5
    <2>2. /\ UNCHANGED <<graph, image, writer, readers, batch, answer>> /\ pc[c] = "idle"
          /\ pc' = [pc EXCEPT ![c] = "lock"] /\ job' = [job EXCEPT ![c] = change]
      BY <2>1 DEF BeginMutation
    <2>3. pc'[c] = "lock" /\ job'[c] = change
      BY <1>1, <2>2
    <2>4. change.op \in Writes \cup {"rebuild"} /\ (change.op = "confirm" => change.edge \in EdgeRecords)
      BY <2>1, SituationCallers DEF Situation
    <2>5. Own(c)'
      BY <2>3, <2>4 DEF Own, Writing, Reading, Routing, Current, Answered
    <2>6. Locally(c)
      BY <2>2, LocalStep
    <2> QED BY <1>3, <1>4, <2>2, <2>5, <2>6, KeepsHydration
  <1>6. CASE LockRouting(c)
    <2>1. /\ UNCHANGED <<graph, image, readers, job, batch, answer>>
          /\ pc[c] = "lock" /\ writer = None /\ readers = {} /\ writer' = c
          /\ pc' = [pc EXCEPT ![c] = IF job[c].op = "rebuild" THEN "publish" ELSE "write"]
      BY <1>6 DEF LockRouting
    <2>2. pc'[c] \in {"publish", "write"} /\ (pc'[c] = "write" => job[c].op # "rebuild")
      BY <1>1, <2>1
    <2>3. /\ job[c].op \in Writes \cup {"rebuild"}
          /\ job[c].op = "confirm" => job[c].edge \in EdgeRecords
      BY <2>1 DEF HydrationInv, Writing
    <2>4. Writing(c)'
      BY <2>1, <2>2, <2>3 DEF Writing
    <2>5. Own(c)'
      BY <2>2, <2>4 DEF Own, Reading, Routing, Current, Answered
    <2>6. Locally(c)
      BY <2>1, LocalStep
    <2> QED BY <1>3, <2>1, <2>5, <2>6, KeepsHydration
  <1> QED BY <1>5, <1>6

\* The end of a mutation: nothing was written, or the image is replaced.
LEMMA PublishKeeps ==
  ASSUME FacadeShape, HydrationInv, NEW c \in Callers, response' = response,
         PublishImage(c) \/ (WriteCatalog(c) /\ graph' = graph /\ Return(c) /\ writer' = None)
  PROVE  HydrationInv'
  <1>1. DOMAIN pc = Callers
    BY DEF FacadeShape
  <1>2. /\ graph' = graph /\ readers' = readers /\ answer' = answer /\ writer' = None
        /\ pc[c] \in {"write", "publish"}
        /\ pc' = [pc EXCEPT ![c] = "idle"] /\ job' = [job EXCEPT ![c] = None]
        /\ batch' = [batch EXCEPT ![c] = NoBatch]
    BY DEF PublishImage, WriteCatalog, Return, Goto
  <1>3. /\ image' \in {image, None, Image(graph)}
        /\ pc[c] # "publish" \/ image' \in {None, Image(graph)} \/ job[c].op = "rebuild"
    BY DEF PublishImage, AfterFailedBuild, WriteCatalog
  <1>4. pc'[c] = "idle"
    BY <1>1, <1>2
  <1>5. Own(c)'
    BY <1>4, ElsewhereOwn DEF HydrationPlaces
  <1>6. Locally(c)
    BY <1>2, LocalStep
  <1>7. writer = c
    BY <1>2 DEF HydrationInv, Writing
  <1>8. PathsKnown
    BY SamePaths
  <1> QED BY <1>2, <1>3, <1>5, <1>6, <1>7, <1>8, KeepsHydration

\* What was made stays known.
LEMMA KnownStays ==
  ASSUME Grows(graph, graph')
  PROVE  /\ \A edge : Known(edge) => Known(edge)'
         /\ \A es : KnownIds(es) => KnownIds(es)'
         /\ \A path : KnownPath(path) => KnownPath(path)'
  <1>1. ASSUME NEW edge, Known(edge) PROVE Known(edge)'
    <2>1. edge # None
      BY <1>1, FacadeAssumption DEF Known
    <2> QED BY <1>1, <2>1 DEF Known, Grows
  <1>2. \A es : KnownIds(es) => KnownIds(es)'
    BY DEF KnownIds, Grows
  <1>3. \A path : KnownPath(path) => KnownPath(path)'
    BY <1>1 DEF KnownPath
  <1> QED BY <1>1, <1>2, <1>3

\* The catalog write: the writer is alone with the records, so no call has read
\* anything that it changes.
LEMMA WriteKeeps ==
  ASSUME FacadeShape, HydrationInv, NEW c \in Callers, response' = response,
         WriteCatalog(c), graph' \in Effects(graph, job[c]), Goto(c, "publish"),
         UNCHANGED <<writer, job, batch>>
  PROVE  HydrationInv'
  <1>1. DOMAIN pc = Callers
    BY DEF FacadeShape
  <1>2. /\ pc[c] = "write" /\ UNCHANGED <<image, readers, answer>>
        /\ pc' = [pc EXCEPT ![c] = "publish"]
    BY DEF WriteCatalog, Goto
  <1>3. RecordInv /\ \A d \in Callers : Own(d)
    BY OwnParts
  <1>4. writer = c /\ job[c].op \in Writes /\ (job[c].op = "confirm" => job[c].edge \in EdgeRecords)
    BY <1>2, <1>3 DEF Own, Writing
  <1>5. WellFormed(graph') /\ Grows(graph, graph')
    BY <1>3, <1>4, EffectsKeep DEF RecordInv
  <1>6. readers = {}
    BY <1>3, <1>4, HydrationAssumption DEF RecordInv
  <1>7. pc'[c] = "publish" /\ \A d \in Callers : d # c => pc'[d] = pc[d]
    BY <1>1, <1>2
  <1>8. Own(c)'
    BY <1>4, <1>7 DEF Own, Writing, Reading, Routing, Current, Answered
  <1>9. ASSUME NEW d \in Callers, d # c PROVE Own(d)'
    <2>1. pc'[d] = pc[d] /\ answer'[d] = answer[d] /\ job'[d] = job[d] /\ batch'[d] = batch[d]
      BY <1>2, <1>7, <1>9
    <2>2. pc[d] \notin {"write", "publish", "read", "answer"} /\ ~Answered(d)
      BY <1>3, <1>4, <1>6, <1>9 DEF Own, Writing, Reading
    <2>3. Writing(d)'
      BY <1>3, <2>1, <2>2 DEF Own, Writing
    <2>4. ~Answered(d)'
      BY <2>1, <2>2 DEF Answered
    <2>5. Current(d)'
      BY <1>3, <2>1, <2>4 DEF Own, Current
    <2>6. IsRequest(job[d]) => IsRequest(job[d])'
      BY <1>5, <2>1, KnownStays DEF IsRequest
    <2>7. Reading(d)'
      BY <1>3, <2>1, <2>2, <2>4, <2>6 DEF Own, Reading
    <2>8. /\ KnownIds(job[d].edges) => KnownIds(job[d].edges)'
          /\ KnownPath(job[d]) => KnownPath(job[d])'
      BY <1>5, KnownStays DEF KnownIds, KnownPath
    <2>9. Routing(d)'
      BY <1>3, <2>1, <2>8 DEF Own, Routing
    <2> QED BY <2>3, <2>5, <2>7, <2>9 DEF Own
  <1>10. image' # None => KnownIds(image.edges)'
    BY <1>2, <1>3, <1>5, KnownStays DEF RecordInv, KnownIds
  <1>11. \A i \in RequestIds : HasPath(i)' => KnownPath(response[i].path)'
    <2>1. ASSUME NEW i \in RequestIds, HasPath(i) PROVE KnownPath(response[i].path)'
      <3>1. KnownPath(response[i].path)
        BY <1>3, <2>1 DEF RecordInv
      <3> QED BY <1>5, <3>1, KnownStays DEF KnownPath
    <2> QED BY <2>1 DEF HasPath
  <1>12. RecordInv'
    <2>1. job'[c].op # "rebuild"
      BY <1>4 DEF Writes
    <2>2. \E d \in Callers : pc'[d] = "publish" /\ job'[d].op # "rebuild"
      BY <1>7, <2>1
    <2> QED BY <1>2, <1>3, <1>5, <1>6, <1>10, <1>11, <2>2 DEF RecordInv
  <1>13. \A d \in Callers : Own(d)'
    BY <1>8, <1>9
  <1> QED BY <1>12, <1>13 DEF HydrationInv, Own, HydrationIsCurrent, Current

-----------------------------------------------------------------------------
(* Hydrations.                                                              *)

\* A call that leaves the locks alone and comes to where a request is asked for,
\* or answers without having read.
LEMMA RequestKeeps ==
  ASSUME FacadeShape, HydrationInv, NEW c \in Callers, pc[c] \in {"idle", "nested"},
         UNCHANGED <<graph, image, writer, readers, response, batch>>,
         job' = job \/ \E z : job' = [job EXCEPT ![c] = z],
         IsRequest(job'[c]),
         \E x \in {"nested", "image", "return"} :
            /\ pc' = [pc EXCEPT ![c] = x]
            /\ \/ answer' = answer /\ x # "return"
               \/ \E y \in {"HandleLimit", "Closing"} : answer' = [answer EXCEPT ![c] = y]
  PROVE  HydrationInv'
  <1>1. DOMAIN pc = Callers /\ DOMAIN answer = Callers
    BY DEF FacadeShape
  <1>2. Locally(c)
    BY LocalStep
  <1>3. /\ pc'[c] \in {"nested", "image", "return"}
        /\ pc'[c] = "return" => answer'[c] \in {"HandleLimit", "Closing"}
    BY <1>1
  <1>4. IsRequest(job[c])'
    BY DEF IsRequest, Known
  <1>5. Own(c)'
    BY <1>3, <1>4 DEF Own, Writing, Reading, Routing, Current, Answered
  <1>6. readers # {} => writer = None
    BY DEF HydrationInv, RecordInv
  <1>7. PathsKnown
    BY SamePaths
  <1> QED BY <1>2, <1>5, <1>6, <1>7, KeepsHydration

\* The begin of a hydration, with a request of the application.
LEMMA BeginKeeps ==
  ASSUME FacadeShape, HydrationInv, NEW c \in Callers, NEW request, IsRequest(request),
         BeginHydration(c, request), response' = response
  PROVE  HydrationInv'
  <1> USE DEF Goto, Finish, Reply
  <1>1. DOMAIN job = Callers
    BY DEF HydrationInv, RecordInv
  <1>2. /\ UNCHANGED <<graph, image, writer, readers, batch>> /\ pc[c] = "idle"
        /\ job' = [job EXCEPT ![c] = request]
    BY DEF BeginHydration
  <1>3. IsRequest(job'[c])
    <2>1. job'[c] = request
      BY <1>1, <1>2
    <2> QED BY <2>1
  <1>4. \E x \in {"nested", "image", "return"} :
           /\ pc' = [pc EXCEPT ![c] = x]
           /\ \/ answer' = answer /\ x # "return"
              \/ \E y \in {"HandleLimit", "Closing"} : answer' = [answer EXCEPT ![c] = y]
    BY DEF BeginHydration
  <1> QED BY <1>2, <1>3, <1>4, RequestKeeps

\* What the application asks for are requests: ids without evidence, a path
\* of a stored response, or its own subgraph.
LEMMA HydrateKeeps ==
  ASSUME FacadeShape, HydrationInv, NEW c \in Callers,
         \/ \E request \in limits.requests : Hydrate(c, request)
         \/ \E i \in held : HydratePath(c, i)
         \/ \E profile : HydrateSubgraph(c, profile)
  PROVE  HydrationInv'
  <1>1. response' = response
    BY DEF Hydrate, HydratePath, HydrateSubgraph, FacadeUnchanged, requestVars
  <1>2. ASSUME NEW request \in limits.requests, Hydrate(c, request) PROVE HydrationInv'
    <2>1. IsRequest(request)
      BY SituationCallers DEF Situation, IsRequest
    <2> QED BY <1>1, <1>2, <2>1, BeginKeeps DEF Hydrate
  <1>3. ASSUME NEW i \in held, HydratePath(c, i) PROVE HydrationInv'
    <2> DEFINE request == PathRequest(response[i].path)
    <2>1. KnownPath(response[i].path)
      BY <1>3 DEF HydratePath, FacadeShape, HydrationInv, RecordInv
    <2>2. /\ request.op = "path" /\ request.profile = None
          /\ request.evidence = Range(response[i].path.steps)
      BY DEF PathRequest, HydrationRequest
    <2>3. IsRequest(request)
      BY <2>1, <2>2 DEF IsRequest, KnownPath
    <2> QED BY <1>1, <1>3, <2>3, BeginKeeps DEF HydratePath
  <1>4. ASSUME NEW profile, HydrateSubgraph(c, profile) PROVE HydrationInv'
    <2> DEFINE request == SubgraphRequest(sub, profile)
    <2>1. request.op = "subgraph"
      BY DEF SubgraphRequest, HydrationRequest
    <2>2. IsRequest(request)
      BY <2>1 DEF IsRequest
    <2> QED BY <1>1, <1>4, <2>2, BeginKeeps DEF HydrateSubgraph
  <1> QED BY <1>2, <1>3, <1>4

\* hydrate_subgraph's own call of hydrate.
LEMMA NestedKeeps ==
  ASSUME FacadeShape, HydrationInv, NEW c \in Callers, NestedHydration(c), response' = response
  PROVE  HydrationInv'
  <1> USE DEF Goto, Finish, Reply
  <1>1. UNCHANGED <<graph, image, writer, readers, batch, job>> /\ pc[c] = "nested"
    BY DEF NestedHydration
  <1>2. IsRequest(job'[c])
    BY <1>1 DEF HydrationInv, Reading
  <1>3. \E x \in {"nested", "image", "return"} :
           /\ pc' = [pc EXCEPT ![c] = x]
           /\ \/ answer' = answer /\ x # "return"
              \/ \E y \in {"HandleLimit", "Closing"} : answer' = [answer EXCEPT ![c] = y]
    BY DEF NestedHydration
  <1> QED BY <1>1, <1>2, <1>3, RequestKeeps

\* Under the read lock the image is the confirmed graph's, and so is a profile
\* that it packs.
LEMMA LockImageKeeps ==
  ASSUME FacadeShape, HydrationInv, NEW c \in Callers, LockImage(c), response' = response
  PROVE  HydrationInv'
  <1> USE DEF Goto, Finish, Reply
  <1>1. DOMAIN pc = Callers /\ DOMAIN answer = Callers
    BY DEF FacadeShape
  <1>2. /\ UNCHANGED <<graph, image, writer, job, batch>> /\ pc[c] = "image"
        /\ writer = None /\ readers' = readers \cup {c}
    BY DEF LockImage
  <1>3. \A d \in Callers : pc[d] # "publish"
    BY <1>2, HydrationAssumption DEF HydrationInv, Writing
  <1>4. image \in {None, Image(graph)}
    BY <1>3 DEF HydrationInv, RecordInv
  <1>5. \/ Packs(job[c].profile) /\ pc' = [pc EXCEPT ![c] = "read"] /\ answer' = answer
        \/ /\ pc' = [pc EXCEPT ![c] = "return"]
           /\ \E y \in {"RoutingUnavailable", "InvalidProfile"} : answer' = [answer EXCEPT ![c] = y]
    BY DEF LockImage
  <1>6. IsRequest(job[c])'
    <2>1. IsRequest(job[c])
      BY <1>2 DEF HydrationInv, Reading
    <2> QED BY <1>2, <2>1 DEF IsRequest, Known
  <1>7. Own(c)'
    <2>1. CASE Packs(job[c].profile) /\ pc' = [pc EXCEPT ![c] = "read"] /\ answer' = answer
      <3>1. pc'[c] = "read"
        BY <1>1, <2>1
      <3>2. job[c].profile = None \/ job[c].profile = graph.relations
        BY <1>4, <2>1, SMTT(60) DEF Packs, Image
      <3> QED BY <1>2, <1>6, <3>1, <3>2 DEF Own, Writing, Reading, Routing, Current, Answered
    <2>2. CASE /\ pc' = [pc EXCEPT ![c] = "return"]
               /\ \E y \in {"RoutingUnavailable", "InvalidProfile"} : answer' = [answer EXCEPT ![c] = y]
      <3>1. pc'[c] = "return" /\ answer'[c] \in {"RoutingUnavailable", "InvalidProfile"}
        BY <1>1, <2>2
      <3>2. pc'[c] \notin HydrationPlaces /\ answer'[c] \notin HydrationAnswers
        BY <3>1 DEF HydrationPlaces, HydrationAnswers
      <3> QED BY <3>2, ElsewhereOwn
    <2> QED BY <1>5, <2>1, <2>2
  <1>8. Locally(c)
    BY <1>2, <1>5, LocalStep
  <1>9. PathsKnown
    BY SamePaths
  <1> QED BY <1>2, <1>7, <1>8, <1>9, KeepsHydration

\* The records of a well-formed graph are never found corrupt.
LEMMA ReadKeeps ==
  ASSUME FacadeShape, HydrationInv, NEW c \in Callers, ReadRecords(c), response' = response
  PROVE  HydrationInv'
  <1> USE DEF Goto, Finish, Reply
  <1> DEFINE found == job[c].edges \cap graph.edges
             read == [nodes |-> job[c].nodes \cap graph.nodes,
                      edges |-> {Record(graph, e) : e \in found}]
  <1>1. DOMAIN pc = Callers /\ DOMAIN batch = Callers
    BY DEF FacadeShape, HydrationInv, RecordInv
  <1>2. UNCHANGED <<graph, image, writer, readers, job>> /\ pc[c] = "read"
    BY DEF ReadRecords
  <1>3. WellFormed(graph) /\ Reading(c) /\ (readers # {} => writer = None)
    BY DEF HydrationInv, RecordInv
  <1>4. \A e \in found : LET r == Record(graph, e) IN
           /\ {r.source, r.destination} \subseteq graph.nodes
           /\ r.relation \in graph.relations
    BY <1>3 DEF WellFormed
  <1>5. /\ batch' = [batch EXCEPT ![c] = read]
        /\ pc' = [pc EXCEPT ![c] = "answer"] /\ answer' = answer
    BY <1>4 DEF ReadRecords
  <1>6. /\ pc'[c] = "answer" /\ batch'[c] = read
    BY <1>1, <1>5
  <1>7. /\ batch'[c].nodes = job'[c].nodes \cap graph'.nodes
        /\ batch'[c].edges = {Record(graph', e) : e \in job'[c].edges \cap graph'.edges}
    BY <1>2, <1>6, SMTT(60) DEF Record
  <1>8. IsRequest(job[c])' /\ c \in readers' /\ (job'[c].profile = None \/ job'[c].profile = graph'.relations)
    <2>1. IsRequest(job[c]) /\ c \in readers /\ (job[c].profile = None \/ job[c].profile = graph.relations)
      BY <1>2, <1>3 DEF Reading
    <2> QED BY <1>2, <2>1 DEF IsRequest, Known
  <1>9. Own(c)'
    <2>1. Reading(c)'
      BY <1>6, <1>7, <1>8 DEF Reading, Record
    <2> QED BY <1>6, <2>1 DEF Own, Writing, Routing, Current, Answered
  <1>10. Locally(c)
    BY <1>2, <1>5, LocalStep
  <1>11. PathsKnown
    BY SamePaths
  <1> QED BY <1>2, <1>3, <1>9, <1>10, <1>11, KeepsHydration

\* An integrity failure is the caller's: the profile lists every relation kind
\* in use, and a path cites records as they are.
LEMMA IntegrityIsCited ==
  ASSUME WellFormed(graph), NEW request, IsRequest(request), NEW found,
         request.profile = None \/ request.profile = graph.relations,
         found.edges = {Record(graph, e) : e \in request.edges \cap graph.edges},
         NEW edge \in found.edges, Unprofiled(request, edge) \/ Contradicts(request, edge)
  PROVE  /\ request.op = "subgraph"
         /\ \E cited \in request.evidence : Ends(cited) # Ends(Record(graph, cited.id))
  <1>1. PICK e \in graph.edges : edge = graph.records[e]
    BY DEF Record
  <1>2. /\ e \in Edges /\ edge # None /\ edge.id = e /\ edge.relation \in graph.relations
    BY <1>1 DEF WellFormed, Record
  <1>3. Contradicts(request, edge)
    BY <1>2 DEF Unprofiled
  <1>4. PICK cited \in request.evidence :
           /\ cited.id = edge.id
           /\ IF request.op = "path" THEN cited # edge ELSE Ends(cited) # Ends(edge)
    BY <1>3 DEF Contradicts
  <1>5. request.op # "hydrate"
    BY <1>4 DEF IsRequest
  <1>6. request.op # "path"
    <2>1. ASSUME request.op = "path" PROVE FALSE
      <3>1. graph.records[cited.id] = cited /\ cited # edge
        BY <1>4, <2>1 DEF IsRequest, Known
      <3> QED BY <1>1, <1>2, <1>4, <3>1
    <2> QED BY <2>1
  <1>7. request.op = "subgraph"
    BY <1>5, <1>6 DEF IsRequest
  <1>8. Ends(cited) # Ends(Record(graph, cited.id))
    <2>1. Record(graph, cited.id) = edge
      BY <1>1, <1>2, <1>4 DEF Record
    <2> QED BY <1>4, <1>7, <2>1
  <1> QED BY <1>7, <1>8

\* The answer speaks of what was read, which is still so.
LEMMA AnswerKeeps ==
  ASSUME FacadeShape, HydrationInv, NEW c \in Callers, AnswerHydration(c), response' = response
  PROVE  HydrationInv'
  <1> USE DEF Goto, Finish, Reply
  <1> DEFINE a == HydrationAnswer(job[c], batch[c])
  <1>1. DOMAIN pc = Callers /\ DOMAIN answer = Callers
    BY DEF FacadeShape
  <1>2. /\ UNCHANGED <<graph, image, writer, readers, job, batch>> /\ pc[c] = "answer"
        /\ pc' = [pc EXCEPT ![c] = "return"] /\ answer' = [answer EXCEPT ![c] = a]
    BY DEF AnswerHydration
  <1>3. WellFormed(graph) /\ Reading(c) /\ (readers # {} => writer = None)
    BY DEF HydrationInv, RecordInv
  <1>4. /\ c \in readers /\ IsRequest(job[c])
        /\ job[c].profile = None \/ job[c].profile = graph.relations
        /\ batch[c].nodes = job[c].nodes \cap graph.nodes
        /\ batch[c].edges = {Record(graph, e) : e \in job[c].edges \cap graph.edges}
    BY <1>2, <1>3 DEF Reading
  <1>5. /\ a \in {"Complete", "Partial", "Unavailable", "Integrity"}
        /\ a = "Complete" => AllFound(job[c], batch[c])
        /\ a \in {"Unavailable", "Partial"} => ~AllFound(job[c], batch[c])
        /\ a = "Integrity" =>
             \E edge \in batch[c].edges : Unprofiled(job[c], edge) \/ Contradicts(job[c], edge)
    BY DEF HydrationAnswer
  <1>6. a = "Integrity" =>
          /\ job[c].op = "subgraph"
          /\ \E cited \in job[c].evidence : Ends(cited) # Ends(Record(graph, cited.id))
    BY <1>3, <1>4, <1>5, IntegrityIsCited
  <1> HIDE DEF a
  <1>7. pc'[c] = "return" /\ answer'[c] = a
    BY <1>1, <1>2
  <1>8. Current(c)'
    <2>1. a # "Corrupt"
      BY <1>5
    <2>2. /\ batch'[c].nodes = job'[c].nodes \cap graph'.nodes
          /\ batch'[c].edges = {Record(graph', e) : e \in job'[c].edges \cap graph'.edges}
      BY <1>2, <1>4
    <2>3. /\ a = "Complete" => AllFound(job'[c], batch'[c])
          /\ a \in {"Unavailable", "Partial"} => ~AllFound(job'[c], batch'[c])
          /\ a = "Integrity" =>
               /\ job'[c].op = "subgraph"
               /\ \E cited \in job'[c].evidence : Ends(cited) # Ends(Record(graph', cited.id))
      BY <1>2, <1>5, <1>6
    <2> QED BY <1>7, <2>1, <2>2, <2>3 DEF Current
  <1>9. Own(c)'
    BY <1>2, <1>4, <1>7, <1>8 DEF Own, Writing, Reading, Routing
  <1>10. Locally(c)
    BY <1>2, LocalStep
  <1>11. PathsKnown
    BY SamePaths
  <1> QED BY <1>2, <1>3, <1>9, <1>10, <1>11, KeepsHydration

\* The return of a call.
LEMMA ReturnKeeps ==
  ASSUME FacadeShape, HydrationInv, NEW c \in Callers, ReturnHydration(c), response' = response
  PROVE  HydrationInv'
  <1>1. DOMAIN pc = Callers
    BY DEF FacadeShape
  <1>2. /\ UNCHANGED <<graph, image, writer>> /\ pc[c] = "return" /\ readers' = readers \ {c}
        /\ pc' = [pc EXCEPT ![c] = "idle"] /\ job' = [job EXCEPT ![c] = None]
        /\ batch' = [batch EXCEPT ![c] = NoBatch] /\ answer' = [answer EXCEPT ![c] = None]
    BY DEF ReturnHydration, Return, Goto, Reply
  <1>3. pc'[c] = "idle"
    BY <1>1, <1>2
  <1>4. Own(c)'
    BY <1>3, ElsewhereOwn DEF HydrationPlaces
  <1>5. Locally(c)
    BY <1>2, LocalStep
  <1>6. readers' # {} => writer' = None
    BY <1>2 DEF HydrationInv, RecordInv
  <1>7. PathsKnown
    BY SamePaths
  <1> QED BY <1>2, <1>4, <1>5, <1>6, <1>7, KeepsHydration

-----------------------------------------------------------------------------
(* Every step.                                                              *)

\* The application's own steps: a handle taken or dropped, an edit of its
\* subgraph.
LEMMA ApplicationKeeps ==
  ASSUME HydrationInv, UNCHANGED hydrationVars,
         \A i \in RequestIds : response'[i] \in {response[i], None}
  PROVE  HydrationInv'
  <1>1. UNCHANGED <<graph, image, writer, readers, pc, job, batch, answer>>
    BY DEF hydrationVars
  <1>2. \A c \in Callers : Own(c)'
    <2>1. ASSUME NEW c \in Callers PROVE Own(c)'
      <3>1. Own(c)
        BY OwnParts
      <3> QED BY <1>1, <3>1, OthersKept
    <2> QED BY <2>1
  <1>3. RecordInv'
    <2>1. RecordInv
      BY DEF HydrationInv
    <2>2. \A i \in RequestIds : HasPath(i)' => KnownPath(response[i].path)'
      <3>1. ASSUME NEW i \in RequestIds, HasPath(i)' PROVE KnownPath(response[i].path)'
        <4>1. response'[i] = response[i]
          BY <3>1 DEF HasPath
        <4>2. KnownPath(response[i].path)
          BY <2>1, <3>1, <4>1 DEF RecordInv, HasPath
        <4>3. \A edge : Known(edge) => Known(edge)'
          BY <1>1 DEF Known
        <4>4. KnownPath(response'[i].path)
          BY <4>1, <4>2
        <4>5. /\ response'[i].path.steps \in Seq(EdgeRecords)
              /\ \A edge \in Range(response'[i].path.steps) : Known(edge)
          BY <4>4 DEF KnownPath
        <4> QED BY <4>3, <4>5 DEF KnownPath
      <3> QED BY <3>1
    <2>3. WellFormed(graph)' /\ (image' # None => KnownIds(image.edges)')
      BY <1>1, <2>1 DEF RecordInv, WellFormed, Record, KnownIds
    <2>4. /\ DOMAIN job' = Callers /\ DOMAIN batch' = Callers /\ (readers' # {} => writer' = None)
          /\ image' \in {None, Image(graph')} \/ \E c \in Callers : pc'[c] = "publish" /\ job'[c].op # "rebuild"
      BY <1>1, <2>1 DEF RecordInv
    <2> QED BY <2>2, <2>3, <2>4 DEF RecordInv, Image
  <1> QED BY <1>2, <1>3, OwnParts DEF HydrationInv, Own, HydrationIsCurrent, Current

\* The same by name.
LEMMA OwnStepKeeps ==
  ASSUME FacadeShape, HydrationInv,
         \/ \E supplied : RequestHandle(supplied)
         \/ \E i : DropHandle(i)
         \/ EditSubgraph
         \/ UNCHANGED vars
  PROVE  HydrationInv'
  <1>1. UNCHANGED hydrationVars
    BY DEF RequestHandle, DropHandle, EditSubgraph, vars
  <1>2. response' = response \/ \E v : response' = [response EXCEPT ![v] = None]
    BY DEF RequestHandle, DropHandle, EditSubgraph, FacadeUnchanged, vars, requestVars
  <1>3. \A i \in RequestIds : response'[i] \in {response[i], None}
    BY <1>2 DEF FacadeShape
  <1> QED BY <1>1, <1>3, ApplicationKeeps

\* A step within the engine.
LEMMA EngineKeeps ==
  ASSUME FacadeShape, HydrationInv, NEW c \in Callers, EngineStep(c)
  PROVE  HydrationInv'
  <1>1. HydrationStep(c) /\ response' = response
    BY DEF EngineStep, requestVars
  <1>2. CASE LockRouting(c)
    BY <1>1, <1>2, MutationKeeps
  <1>3. CASE WriteCatalog(c)
    <2>1. \/ graph' \in Effects(graph, job[c]) /\ Goto(c, "publish") /\ UNCHANGED <<writer, job, batch>>
          \/ graph' = graph /\ Return(c) /\ writer' = None
      BY <1>3 DEF WriteCatalog
    <2> QED BY <1>1, <1>3, <2>1, WriteKeeps, PublishKeeps
  <1>4. CASE PublishImage(c)
    BY <1>1, <1>4, PublishKeeps
  <1>5. CASE NestedHydration(c)
    BY <1>1, <1>5, NestedKeeps
  <1>6. CASE LockImage(c)
    BY <1>1, <1>6, LockImageKeeps
  <1>7. CASE ReadRecords(c)
    BY <1>1, <1>7, ReadKeeps
  <1>8. CASE AnswerHydration(c)
    BY <1>1, <1>8, AnswerKeeps
  <1>9. CASE ReturnHydration(c)
    BY <1>1, <1>9, ReturnKeeps
  <1> QED BY <1>1, <1>2, <1>3, <1>4, <1>5, <1>6, <1>7, <1>8, <1>9 DEF HydrationStep

\* The begin of a call.
LEMMA StartKeeps ==
  ASSUME FacadeShape, HydrationInv, StartCall
  PROVE  HydrationInv'
  <1>1. CASE (\E supplied \in limits.supplied : RequestHandle(supplied)) \/ \E i \in held : DropHandle(i)
    BY <1>1, OwnStepKeeps
  <1>2. CASE \E c \in limits.cancellers :
                \/ \E i \in held : CancelByHandle(c, i)
                \/ \E i \in limits.ids : CancelById(c, i)
    BY <1>2, SituationCallers, CancelElsewhere
  <1>3. CASE \E c \in limits.routers, i \in held : StartRoute(c, i)
    BY <1>3, SituationCallers, RouteElsewhere
  <1>4. CASE \E c \in limits.hydrators :
                \/ \E request \in limits.requests : Hydrate(c, request)
                \/ \E i \in held : HydratePath(c, i)
                \/ \E profile \in limits.profiles : HydrateSubgraph(c, profile)
    BY <1>4, SituationCallers, HydrateKeeps
  <1>5. CASE \E c \in limits.writers, change \in limits.changes :
                BeginMutation(c, change) /\ FacadeUnchanged /\ UNCHANGED <<req, sub>>
    BY <1>5, SituationCallers, MutationKeeps
  <1>6. CASE (\E c \in limits.externals : LockExternal(c)) \/ \E c \in limits.closers : BeginShutdown(c)
    BY <1>6, SituationCallers, ExternalElsewhere DEF ExternalAction
  <1> QED BY <1>1, <1>2, <1>3, <1>4, <1>5, <1>6 DEF StartCall

\* Every step keeps the invariant.
LEMMA StepHydration ==
  ASSUME FacadeShape, HydrationInv, [Next]_vars
  PROVE  HydrationInv'
  <1>1. CASE EditSubgraph \/ UNCHANGED vars
    BY <1>1, OwnStepKeeps
  <1>2. CASE StartCall
    BY <1>2, StartKeeps
  <1>3. ASSUME NEW c \in Callers, CancelStep(c) PROVE HydrationInv'
    BY <1>3, CancelElsewhere
  <1>4. ASSUME NEW c \in Callers, RouteStep(c) PROVE HydrationInv'
    BY <1>4, RouteElsewhere, LeaseKeeps, SearchKeeps, StoreKeeps DEF RouteStep
  <1>5. ASSUME NEW c \in Callers, ExternalStep(c) PROVE HydrationInv'
    BY <1>5, ExternalElsewhere DEF ExternalStep, ExternalAction
  <1>6. ASSUME NEW c \in Callers, EngineStep(c) PROVE HydrationInv'
    BY <1>6, EngineKeeps
  <1> QED BY <1>1, <1>2, <1>3, <1>4, <1>5, <1>6 DEF Next

\* An id that is handed out is a request id.
LEMMA NextIdInRange ==
  ASSUME NEW supplied \in RequestIds \cup {None}, NEW v \in NextId(supplied)
  PROVE  v \in RequestIds
  <1>1. 1 \in RequestIds
    BY FacadeAssumption, SMTT(60) DEF RequestIds
  <1> QED BY <1>1 DEF NextId

\* An assignment to an entry keeps a function's domain.
LEMMA ShapeKept ==
  ASSUME FacadeShape, NEW c, limits' = limits, held' = held,
         response' = response \/ \E r, z : response' = [response EXCEPT ![r] = z],
         pc' = pc \/ \E x : pc' = [pc EXCEPT ![c] = x],
         answer' = answer \/ \E y : answer' = [answer EXCEPT ![c] = y]
  PROVE  FacadeShape'
  <1>1. DOMAIN response' = DOMAIN response
    OBVIOUS
  <1>2. DOMAIN pc' = DOMAIN pc
    OBVIOUS
  <1>3. DOMAIN answer' = DOMAIN answer
    OBVIOUS
  <1> QED BY <1>1, <1>2, <1>3 DEF FacadeShape

\* A caller's step assigns to its own entries.
LEMMA CallerShape ==
  ASSUME FacadeShape, NEW c \in Callers,
         \/ CancelStep(c) \/ RouteStep(c) \/ ExternalAction(c) \/ EngineStep(c)
         \/ \E i : CancelByHandle(c, i) \/ CancelById(c, i) \/ StartRoute(c, i) \/ HydratePath(c, i)
         \/ \E request : Hydrate(c, request)
         \/ \E profile : HydrateSubgraph(c, profile)
         \/ \E change : BeginMutation(c, change) /\ FacadeUnchanged
  PROVE  FacadeShape'
  <1> USE DEF Goto, On, Finish, Reply
  <1>1. CASE CancelStep(c) \/ \E i : CancelByHandle(c, i) \/ CancelById(c, i)
    <2> USE DEF CancelUnchanged
    <2>1. limits' = limits /\ held' = held /\ response' = response
      BY <1>1 DEF CancelStep, CancelUnknown, CancelLoads, Load, CancelInEngine, SwapFlag, CancelOutcome,
                  CancelByHandle, CancelById
    <2>2. pc' = pc \/ \E x : pc' = [pc EXCEPT ![c] = x]
      BY <1>1 DEF CancelStep, CancelUnknown, CancelLoads, Load, CancelInEngine, SwapFlag, CancelOutcome,
                  CancelByHandle, CancelById, StartCancel, Told
    <2>3. answer' = answer \/ \E y : answer' = [answer EXCEPT ![c] = y]
      BY <1>1 DEF CancelStep, CancelUnknown, CancelLoads, Load, CancelInEngine, SwapFlag, CancelOutcome,
                  CancelByHandle, CancelById, StartCancel, Told
    <2> QED BY <2>1, <2>2, <2>3, ShapeKept
  <1>2. CASE RouteStep(c) \/ \E i : StartRoute(c, i)
    <2> USE DEF RouteUnchanged
    <2>1. /\ limits' = limits /\ held' = held
          /\ response' = response \/ \E r, z : response' = [response EXCEPT ![r] = z]
      BY <1>2 DEF RouteStep, ClaimRequest, CheckRoute, UnwindRoute, EnterEngine, RegisterFlag,
                  LeaseImage, Search, LeaveEngine, CompleteRoute, StoreResponse, StartRoute
    <2>2. pc' = pc \/ \E x : pc' = [pc EXCEPT ![c] = x]
      BY <1>2 DEF RouteStep, ClaimRequest, CheckRoute, UnwindRoute, EnterEngine, RegisterFlag,
                  LeaseImage, Search, LeaveEngine, CompleteRoute, StoreResponse, StartRoute
    <2>3. answer' = answer \/ \E y : answer' = [answer EXCEPT ![c] = y]
      BY <1>2 DEF RouteStep, ClaimRequest, CheckRoute, UnwindRoute, EnterEngine, RegisterFlag,
                  LeaseImage, Search, LeaveEngine, CompleteRoute, StoreResponse, StartRoute
    <2> QED BY <2>1, <2>2, <2>3, ShapeKept
  <1>3. CASE ExternalAction(c)
    <2> USE DEF ExternalUnchanged, requestVars
    <2>1. limits' = limits /\ held' = held /\ response' = response /\ answer' = answer
      BY <1>3 DEF ExternalAction, LockExternal, CheckOpen, FinishExternal, BeginShutdown,
                  LockForShutdown, CloseAdmission, SignalAll, Drain
    <2>2. pc' = pc \/ \E x : pc' = [pc EXCEPT ![c] = x]
      BY <1>3 DEF ExternalAction, LockExternal, CheckOpen, FinishExternal, BeginShutdown,
                  LockForShutdown, CloseAdmission, SignalAll, Drain
    <2> QED BY <2>1, <2>2, ShapeKept
  <1>4. CASE \/ EngineStep(c)
             \/ \E i : HydratePath(c, i)
             \/ \E request : Hydrate(c, request)
             \/ \E profile : HydrateSubgraph(c, profile)
             \/ \E change : BeginMutation(c, change) /\ FacadeUnchanged
    <2>1. limits' = limits /\ held' = held /\ response' = response
      BY <1>4 DEF EngineStep, HydratePath, Hydrate, HydrateSubgraph, FacadeUnchanged, requestVars
    <2>2. \/ HydrationStep(c) \/ \E request : BeginHydration(c, request)
          \/ \E change : BeginMutation(c, change)
      BY <1>4 DEF EngineStep, HydratePath, Hydrate, HydrateSubgraph
    <2>3. pc' = pc \/ \E x : pc' = [pc EXCEPT ![c] = x]
      BY <2>2 DEF HydrationStep, LockRouting, WriteCatalog, PublishImage, NestedHydration, LockImage,
                  ReadRecords, AnswerHydration, ReturnHydration, BeginHydration, BeginMutation, Return
    <2>4. answer' = answer \/ \E y : answer' = [answer EXCEPT ![c] = y]
      BY <2>2 DEF HydrationStep, LockRouting, WriteCatalog, PublishImage, NestedHydration, LockImage,
                  ReadRecords, AnswerHydration, ReturnHydration, BeginHydration, BeginMutation, Return
    <2> QED BY <2>1, <2>3, <2>4, ShapeKept
  <1> QED BY <1>1, <1>2, <1>3, <1>4

\* No step changes the shape.
LEMMA StepShape ==
  ASSUME FacadeShape, [Next]_vars
  PROVE  FacadeShape'
  <1>1. CASE \E supplied \in limits.supplied : RequestHandle(supplied)
    <2>1. PICK supplied \in limits.supplied : RequestHandle(supplied)
      BY <1>1
    <2>2. UNCHANGED <<pc, answer, limits>>
      BY <2>1 DEF RequestHandle, hydrationVars
    <2>3. CASE UNCHANGED <<held, response>>
      BY <2>2, <2>3 DEF FacadeShape
    <2>4. ASSUME NEW v \in NextId(supplied),
                 held' = held \cup {v} /\ response' = [response EXCEPT ![v] = None]
          PROVE  FacadeShape'
      <3>1. v \in RequestIds
        BY <2>1, <2>4, SituationCallers, NextIdInRange
      <3> QED BY <2>2, <2>4, <3>1 DEF FacadeShape
    <2> QED BY <2>1, <2>3, <2>4 DEF RequestHandle
  <1>2. CASE EditSubgraph \/ (\E i \in held : DropHandle(i)) \/ UNCHANGED vars
    <2>1. UNCHANGED <<pc, answer, limits, response>> /\ held' \subseteq held
      BY <1>2 DEF EditSubgraph, DropHandle, FacadeUnchanged, vars, hydrationVars, requestVars
    <2> QED BY <2>1 DEF FacadeShape
  <1>3. CASE StartCall
    <2>1. CASE (\E supplied \in limits.supplied : RequestHandle(supplied)) \/ \E i \in held : DropHandle(i)
      BY <1>1, <1>2, <2>1
    <2>2. CASE \E c \in limits.cancellers :
                  \/ \E i \in held : CancelByHandle(c, i)
                  \/ \E i \in limits.ids : CancelById(c, i)
      BY <2>2, SituationCallers, CallerShape
    <2>3. CASE \E c \in limits.routers, i \in held : StartRoute(c, i)
      BY <2>3, SituationCallers, CallerShape
    <2>4. CASE \E c \in limits.hydrators :
                  \/ \E request \in limits.requests : Hydrate(c, request)
                  \/ \E i \in held : HydratePath(c, i)
                  \/ \E profile \in limits.profiles : HydrateSubgraph(c, profile)
      BY <2>4, SituationCallers, CallerShape
    <2>5. CASE \E c \in limits.writers, change \in limits.changes :
                  BeginMutation(c, change) /\ FacadeUnchanged /\ UNCHANGED <<req, sub>>
      BY <2>5, SituationCallers, CallerShape
    <2>6. CASE (\E c \in limits.externals : LockExternal(c)) \/ \E c \in limits.closers : BeginShutdown(c)
      BY <2>6, SituationCallers, CallerShape DEF ExternalAction
    <2> QED BY <1>3, <2>1, <2>2, <2>3, <2>4, <2>5, <2>6 DEF StartCall
  <1>4. ASSUME NEW c \in Callers, CancelStep(c) \/ RouteStep(c) \/ ExternalStep(c) \/ EngineStep(c)
        PROVE  FacadeShape'
    BY <1>4, CallerShape DEF ExternalStep, ExternalAction
  <1> QED BY <1>2, <1>3, <1>4 DEF Next

\* At the start nobody reads or writes and the image is the graph's.
LEMMA InitHydration ==
  ASSUME Init
  PROVE  FacadeShape /\ HydrationInv
  <1>1. /\ \A c \in Callers : pc[c] = "idle"
        /\ DOMAIN job = Callers /\ DOMAIN batch = Callers
        /\ readers = {} /\ graph = limits.graph /\ image = Image(graph)
        /\ \A i \in RequestIds : response[i] = None
    BY DEF Init, HydrationInit
  <1>2. WellFormed(graph)
    BY <1>1, FacadeAssumption DEF Init, Situation
  <1>3. KnownIds(image.edges)
    <2>1. image.edges = graph.edges
      BY <1>1, SMTT(60) DEF Image
    <2> QED BY <1>2, <2>1 DEF KnownIds, WellFormed
  <1>4. RecordInv
    BY <1>1, <1>2, <1>3 DEF RecordInv, HasPath
  <1>5. \A c \in Callers : Own(c)
    BY <1>1 DEF Own, Writing, Reading, Routing, Current, Answered
  <1>6. FacadeShape
    BY DEF Init, HydrationInit, FacadeShape
  <1> QED BY <1>4, <1>5, <1>6, OwnParts

\* The inductive invariant of hydrations, mutations and responses.
THEOREM HydrationInvariant == Spec => [](FacadeShape /\ HydrationInv)
  BY InitHydration, StepShape, StepHydration, PTL DEF Spec

\* However mutations, rebuilds and routes interleave with it, a hydration
\* answers with one moment of the confirmed graph that is still the current one
\* when the answer is handed over.
THEOREM HydrationsAreCurrent == Spec => []HydrationIsCurrent
  <1>1. HydrationInv => HydrationIsCurrent
    BY DEF HydrationInv
  <1> QED BY <1>1, HydrationInvariant, PTL
=============================================================================
