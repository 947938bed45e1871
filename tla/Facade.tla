------------------------------- MODULE Facade -------------------------------
(***************************************************************************)
(* The consumer facade: request handles and their one route, cancellation  *)
(* by handle or by id, hydration and subgraph calls, checkpoint operations *)
(* outside the engine, and shutdown. A request's phase and its flag are    *)
(* atomics that the facade reads one at a time, without a lock, while the  *)
(* engine registers the same flag; every atomic access is a step here.     *)
(* The engine's side of a route is EngineCalls reduced to what the facade  *)
(* can see of it, and a search returns any walk of the leased image (that  *)
(* it is a shortest one is the subject of CpuSearch).                      *)
(***************************************************************************)
EXTENDS Hydration

CONSTANTS
    MaxId,          \* u64::MAX
    MaxPathSteps,   \* maximum_path_steps
    FacadeHandles,  \* maximum_hydration_handles
    Limits          \* the situations examined: who calls what, with which inputs

RequestIds == 0..MaxId

\* The mutations that write the catalog; a rebuild only republishes.
Writes == {"confirm", "deleteEdge", "deleteNode"}

EdgeRecords == [id : Nat, source : Nat, destination : Nat, relation : Nat]

\* Every confirmed edge has a record, and the record its endpoints and its
\* relation kind; a record that was ever made bears its id.
WellFormed(g) ==
    /\ g = [nodes |-> g.nodes, edges |-> g.edges, relations |-> g.relations, records |-> g.records]
    /\ g.records \in [Edges -> EdgeRecords \cup {None}]
    /\ \A e \in Edges : g.records[e] # None => g.records[e].id = e
    /\ g.edges \subseteq {e \in Edges : g.records[e] # None}
    /\ \A e \in g.edges : /\ {Record(g, e).source, Record(g, e).destination} \subseteq g.nodes
                          /\ Record(g, e).relation \in g.relations

\* What a situation may ask for: ids are u64, PathHydra::hydrate cites no
\* evidence, a caller's subgraph is finite, and the graph at the start is one
\* the catalog accepts.
Situation(s) ==
    /\ WellFormed(s.graph)
    /\ s.supplied \subseteq RequestIds \cup {None}
    /\ s.cancellers \cup s.routers \cup s.hydrators \cup s.writers \cup s.externals
         \cup s.closers \subseteq Callers
    /\ \A r \in s.requests : r.op = "hydrate" /\ r.evidence = {}
    /\ \A change \in s.changes :
          /\ change.op \in Writes \cup {"rebuild"}
          /\ change.op = "confirm" => change.edge \in EdgeRecords
    /\ \A other \in s.others : IsFiniteSet(other.nodes) /\ IsFiniteSet(DOMAIN other.edges)

ASSUME FacadeAssumption ==
    /\ MaxId \in Nat \ {0}
    /\ MaxPathSteps \in Nat
    /\ FacadeHandles \in Nat
    /\ None \notin Nat \cup EdgeRecords \cup {"Path", "Duplicate"}
    /\ \A s \in Limits : Situation(s)

VARIABLES
    highWater,     \* RequestAllocator.high_water
    table,         \* RequestAllocator.requests: ids with an entry, live or dead
    held,          \* ids whose handle the application still holds
    phase,         \* RequestState.phase; "none" before the id is allocated
    flag,          \* RequestState.cancellation, shared with the engine
    response,      \* RequestState.response
    registry,      \* RequestRegistry.active of the engine
    shuttingDown,  \* FacadeInner.shutting_down
    external,      \* who holds FacadeInner.external_operations
    req,           \* the request each caller works on
    swapped,       \* the call's own swap set the flag (newly_signalled)
    signals,       \* how many cancellations of the request reported Signalled
    sub,           \* the application's subgraph
    limits         \* the situation examined, a member of Limits

requestVars == <<highWater, table, held, phase, flag, response, signals>>
vars == <<hydrationVars, requestVars, registry, shuttingDown, external, req,
          swapped, sub, limits>>

Init ==
    /\ limits \in Limits
    /\ HydrationInit(limits.graph)
    /\ highWater = None
    /\ table = {}
    /\ held = {}
    /\ phase = [i \in RequestIds |-> "none"]
    /\ flag = [i \in RequestIds |-> FALSE]
    /\ response = [i \in RequestIds |-> None]
    /\ registry = {}
    /\ shuttingDown = FALSE
    /\ external = None
    /\ req = [c \in Callers |-> None]
    /\ swapped = [c \in Callers |-> FALSE]
    /\ signals = [i \in RequestIds |-> 0]
    /\ sub = EmptySubgraph

\* Some Arc<RequestState> exists: the application's or a running call's.
Live(i) == i \in held \/ \E c \in Callers : req[c] = i

EngineUnchanged == UNCHANGED <<lifecycle, permits, graph, image, writer, readers, job, batch>>

-----------------------------------------------------------------------------
(* RequestAllocator.                                                        *)

\* The id that an allocation assigns, if it assigns one: checked_add for an
\* automatic id, strictly above the high-water mark for a supplied one.
NextId(supplied) ==
    IF supplied = None
    THEN IF highWater = None THEN {1} ELSE {highWater + 1} \cap RequestIds
    ELSE IF highWater # None /\ supplied <= highWater THEN {} ELSE {supplied}

\* Dead entries are dropped first, even if no id is assigned then.
RequestHandle(supplied) ==
    /\ ~shuttingDown
    /\ \/ \E value \in NextId(supplied) :
             /\ highWater' = value
             /\ table' = {i \in table : Live(i)} \cup {value}
             /\ held' = held \cup {value}
             /\ phase' = [phase EXCEPT ![value] = "CREATED"]
             /\ flag' = [flag EXCEPT ![value] = FALSE]
             /\ response' = [response EXCEPT ![value] = None]
       \/ /\ NextId(supplied) = {}
          /\ table' = {i \in table : Live(i)}
          /\ UNCHANGED <<highWater, held, phase, flag, response>>
    /\ UNCHANGED <<hydrationVars, signals, registry, shuttingDown, external,
                   req, swapped, sub, limits>>

DropHandle(i) ==
    /\ i \in held
    /\ held' = held \ {i}
    /\ UNCHANGED <<hydrationVars, highWater, table, phase, flag, response, signals,
                   registry, shuttingDown, external, req, swapped, sub, limits>>

-----------------------------------------------------------------------------
(* Cancellation: PathHydra::cancel, RequestHandle::cancel, cancel_state.    *)

CancelUnchanged ==
    UNCHANGED <<highWater, held, phase, response, registry, shuttingDown,
                external, sub, limits>>

StartCancel(c, i) ==
    /\ req' = [req EXCEPT ![c] = i]
    /\ Goto(c, "cancel")

CancelByHandle(c, i) ==
    /\ pc[c] = "idle"
    /\ i \in held
    /\ StartCancel(c, i)
    /\ EngineUnchanged /\ CancelUnchanged
    /\ UNCHANGED <<answer, table, flag, swapped, signals>>

CancelById(c, i) ==
    /\ pc[c] = "idle"
    /\ IF i \in table /\ Live(i)
       THEN StartCancel(c, i) /\ table' = table
       ELSE /\ table' = table \ {i}
            /\ Goto(c, "unknown")
            /\ req' = req
    /\ EngineUnchanged /\ CancelUnchanged
    /\ UNCHANGED <<answer, flag, swapped, signals>>

CancelUnknown(c) ==
    /\ pc[c] = "unknown"
    /\ Finish(c, IF lifecycle = "Running" THEN "UnknownRequest" ELSE "ShuttingDown")
    /\ EngineUnchanged /\ CancelUnchanged
    /\ UNCHANGED <<table, req, flag, swapped, signals>>

\* The loads of the phase and of shutting_down before the flag is touched.
Load(c, at, found, then, else) ==
    /\ pc[c] = at
    /\ IF found THEN then ELSE else
    /\ EngineUnchanged /\ CancelUnchanged
    /\ UNCHANGED <<table, req, flag, swapped, signals>>

On(c, where) == Goto(c, where) /\ answer' = answer

CancelLoads(c) ==
    \/ Load(c, "cancel", phase[req[c]] = "COMPLETE",
            Finish(c, "AlreadyCompleted"), On(c, "created?"))
    \/ Load(c, "created?", phase[req[c]] = "CREATED", On(c, "closing?"), On(c, "executing?"))
    \/ Load(c, "closing?", shuttingDown, Finish(c, "ShuttingDown"), On(c, "executing?"))
    \/ Load(c, "executing?", phase[req[c]] = "EXECUTING", On(c, "engine"), On(c, "swap"))

Signal(c) ==
    /\ flag' = [flag EXCEPT ![req[c]] = TRUE]
    /\ swapped' = [swapped EXCEPT ![c] = ~flag[req[c]]]

Told(c, newly) ==
    /\ Finish(c, IF newly THEN "Signalled" ELSE "AlreadySignalled")
    /\ signals' = [signals EXCEPT ![req[c]] = IF newly /\ @ < 2 THEN @ + 1 ELSE @]

\* RequestRegistry::cancel, under the registry's lock. NotActive falls
\* through to the facade's own access to the flag.
CancelInEngine(c) ==
    /\ pc[c] = "engine"
    /\ IF req[c] \in registry
       THEN Signal(c) /\ Told(c, ~flag[req[c]])
       ELSE On(c, "swap") /\ UNCHANGED <<flag, swapped, signals>>
    /\ EngineUnchanged /\ CancelUnchanged
    /\ UNCHANGED <<table, req>>

\* Mutant: the flag is stored without looking at what it was.
SwapFlagBlindly(c) ==
    /\ pc[c] = "swap"
    /\ flag' = [flag EXCEPT ![req[c]] = TRUE]
    /\ swapped' = [swapped EXCEPT ![c] = TRUE]
    /\ On(c, "completed?")
    /\ EngineUnchanged /\ CancelUnchanged
    /\ UNCHANGED <<table, req, signals>>

SwapFlag(c) ==
    /\ pc[c] = "swap"
    /\ Signal(c)
    /\ On(c, "completed?")
    /\ EngineUnchanged /\ CancelUnchanged
    /\ UNCHANGED <<table, req, signals>>

CancelOutcome(c) ==
    /\ pc[c] = "completed?"
    /\ IF phase[req[c]] = "COMPLETE"
       THEN Finish(c, "AlreadyCompleted") /\ signals' = signals
       ELSE Told(c, swapped[c])
    /\ EngineUnchanged /\ CancelUnchanged
    /\ UNCHANGED <<table, req, flag, swapped>>

-----------------------------------------------------------------------------
(* RequestHandle::route.                                                    *)

RouteUnchanged ==
    UNCHANGED <<highWater, table, held, flag, signals, shuttingDown, external,
                swapped, sub, limits>>

\* begin: shutting_down is loaded, then the phase is compared and exchanged.
StartRoute(c, i) ==
    /\ pc[c] = "idle"
    /\ i \in held
    /\ req' = [req EXCEPT ![c] = i]
    /\ IF shuttingDown THEN Finish(c, "Shutdown") ELSE On(c, "claim")
    /\ EngineUnchanged /\ RouteUnchanged
    /\ UNCHANGED <<phase, response, registry>>

\* Mutant: the phase is overwritten instead of compared and exchanged.
ClaimRequestBlindly(c) ==
    /\ pc[c] = "claim"
    /\ phase' = [phase EXCEPT ![req[c]] = "EXECUTING"]
    /\ On(c, "checks")
    /\ EngineUnchanged /\ RouteUnchanged
    /\ UNCHANGED <<response, registry, req>>

ClaimRequest(c) ==
    /\ pc[c] = "claim"
    /\ IF phase[req[c]] = "CREATED"
       THEN phase' = [phase EXCEPT ![req[c]] = "EXECUTING"] /\ On(c, "checks")
       ELSE phase' = phase /\ Finish(c, "AlreadyExecuted")
    /\ EngineUnchanged /\ RouteUnchanged
    /\ UNCHANGED <<response, registry, req>>

\* The limits on destinations and profile, and the conversion of the request.
CheckRoute(c) ==
    /\ pc[c] = "checks"
    /\ \/ On(c, "enter")
       \/ On(c, "unwind")
    /\ EngineUnchanged /\ RouteUnchanged
    /\ UNCHANGED <<phase, response, registry, req>>

\* An error return: the RequestCompletion guard stores COMPLETE.
UnwindRoute(c) ==
    /\ pc[c] = "unwind"
    /\ phase' = [phase EXCEPT ![req[c]] = "COMPLETE"]
    /\ Finish(c, "Failed")
    /\ EngineUnchanged /\ RouteUnchanged
    /\ UNCHANGED <<response, registry, req>>

\* route_with_cancellation: the permit, which a closed engine or the engine's
\* own limit on destinations refuses.
EnterEngine(c) ==
    /\ pc[c] = "enter"
    /\ \/ lifecycle = "Running" /\ Acquire(c) /\ On(c, "register")
       \/ permits' = permits /\ On(c, "unwind")
    /\ UNCHANGED <<lifecycle, graph, image, writer, readers, job, batch>>
    /\ RouteUnchanged
    /\ UNCHANGED <<phase, response, registry, req>>

\* Mutant: the engine registers a flag of its own, not yet signalled.
RegisterOwnFlag(c) ==
    /\ pc[c] = "register"
    /\ req[c] \notin registry
    /\ registry' = registry \cup {req[c]}
    /\ flag' = [flag EXCEPT ![req[c]] = FALSE]
    /\ On(c, "lease")
    /\ EngineUnchanged
    /\ UNCHANGED <<highWater, table, held, phase, response, signals, shuttingDown,
                   external, req, swapped, sub, limits>>

RegisterFlag(c) ==
    /\ pc[c] = "register"
    /\ IF req[c] \in registry
       THEN Reply(c, "Duplicate") /\ Goto(c, "leave") /\ registry' = registry
       ELSE On(c, "lease") /\ registry' = registry \cup {req[c]}
    /\ EngineUnchanged /\ RouteUnchanged
    /\ UNCHANGED <<phase, response, req>>

\* The published image is cloned under the read lock, or the route fails
\* (no image, admission).
LeaseImage(c) ==
    /\ pc[c] = "lease"
    /\ writer = None
    /\ \/ /\ image # None
          /\ job' = [job EXCEPT ![c] = image]
          /\ On(c, "search")
       \/ Reply(c, "Failed") /\ Goto(c, "leave") /\ job' = job
    /\ UNCHANGED <<lifecycle, permits, graph, image, writer, readers, batch>>
    /\ RouteUnchanged
    /\ UNCHANGED <<phase, response, registry, req>>

Walks(g, origin, destination) ==
    LET edges == {Record(graph, e) : e \in g.edges}
    IN {w \in [origin : {origin}, destination : {destination},
               steps : {<<>>} \cup {<<a>> : a \in edges} \cup (edges \X edges)] : IsWalk(w)}

\* A search that finds the flag set is cancelled; otherwise it ends with a
\* path, without one, or in an error.
Search(c) ==
    /\ pc[c] = "search"
    /\ Goto(c, "leave")
    /\ IF flag[req[c]]
       THEN Reply(c, "Cancelled") /\ job' = [job EXCEPT ![c] = None]
       ELSE \/ \E d \in limits.destinations : \E path \in Walks(job[c], limits.origin, d) :
                  Reply(c, "Path") /\ job' = [job EXCEPT ![c] = path]
            \/ \E state \in {"NoPath", "Failed"} :
                  Reply(c, state) /\ job' = [job EXCEPT ![c] = None]
    /\ UNCHANGED <<lifecycle, permits, graph, image, writer, readers, batch>>
    /\ RouteUnchanged
    /\ UNCHANGED <<phase, response, registry, req>>

\* The registration and then the permit are dropped on every way out, here in
\* one step: in between the route is one that has left the registry, which
\* nobody but a shutdown waiting for the permit tells from one that is gone.
\* A duplicate has no registration of its own.
LeaveEngine(c) ==
    /\ pc[c] = "leave"
    /\ registry' = IF answer[c] = "Duplicate" THEN registry ELSE registry \ {req[c]}
    /\ Release(c)
    /\ Goto(c, IF answer[c] \in {"Failed", "Duplicate"} THEN "unwind" ELSE "complete")
    /\ UNCHANGED <<lifecycle, graph, image, writer, readers, job, batch, answer>>
    /\ RouteUnchanged
    /\ UNCHANGED <<phase, response, req>>

CompleteRoute(c) ==
    /\ pc[c] = "complete"
    /\ phase' = [phase EXCEPT ![req[c]] = "COMPLETE"]
    /\ On(c, "store")
    /\ EngineUnchanged /\ RouteUnchanged
    /\ UNCHANGED <<response, registry, req>>

StoreResponse(c) ==
    /\ pc[c] = "store"
    /\ IF answer[c] = "Path" /\ Len(job[c].steps) > MaxPathSteps
       THEN Finish(c, "PathStepLimit") /\ response' = response
       ELSE /\ response' = [response EXCEPT ![req[c]] = [state |-> answer[c], path |-> job[c]]]
            /\ On(c, "return")
    /\ EngineUnchanged /\ RouteUnchanged
    /\ UNCHANGED <<phase, registry, req>>

-----------------------------------------------------------------------------
(* Hydration and subgraph calls of the application.                         *)

\* completed_response, and the destination has an exact path.
HasPath(i) == response[i] # None /\ response[i].state = "Path"

\* A path is simple and a subgraph holds sets: only the lists of
\* PathHydra::hydrate can name an id again.
HydrationRequest(op, nodes, edges, profile, evidence) ==
    [op |-> op, nodes |-> nodes, edges |-> edges, profile |-> profile, evidence |-> evidence,
     repeats |-> 0]

PathRequest(path) ==
    HydrationRequest("path", {path.origin} \cup {s.destination : s \in Range(path.steps)},
                     {s.id : s \in Range(path.steps)}, None, Range(path.steps))

Cited(g, e) == [id |-> e, source |-> g.edges[e].source, destination |-> g.edges[e].destination]

SubgraphRequest(g, profile) ==
    HydrationRequest("subgraph", g.nodes, DOMAIN g.edges, profile,
                     {Cited(g, e) : e \in DOMAIN g.edges})

FacadeUnchanged ==
    UNCHANGED <<requestVars, registry, shuttingDown, external, swapped, limits>>

Hydrate(c, request) ==
    /\ HandleCount(request) <= FacadeHandles
    /\ BeginHydration(c, request)
    /\ FacadeUnchanged /\ UNCHANGED <<req, sub>>

HydratePath(c, i) ==
    /\ i \in held
    /\ HasPath(i)
    /\ BeginHydration(c, PathRequest(response[i].path))
    /\ req' = [req EXCEPT ![c] = i]
    /\ FacadeUnchanged /\ sub' = sub

HydrateSubgraph(c, profile) ==
    /\ Readable(sub)
    /\ BeginHydration(c, SubgraphRequest(sub, profile))
    /\ FacadeUnchanged /\ UNCHANGED <<req, sub>>

\* The subgraph is the application's own; an edit that fails leaves it alone.
EditSubgraph ==
    /\ \/ \E n \in limits.nodes :
             \/ sub' = SubgraphAddNode(sub, n).value
             \/ sub' = SubgraphRemoveNode(sub, n).value
       \/ \E cited \in limits.cited :
             \/ sub' = SubgraphAddEdge(sub, cited.id, Ends(cited)).value
             \/ sub' = SubgraphRemoveEdge(sub, cited.id).value
       \/ \E other \in limits.others : sub' = SubgraphUnion(sub, other).value
       \/ \E i \in held : HasPath(i) /\ sub' = AddPathToSubgraph(sub, response[i].path).value
    /\ FacadeUnchanged /\ UNCHANGED <<hydrationVars, req>>

-----------------------------------------------------------------------------
(* validate_checkpoint and restore_checkpoint work beside the engine, under *)
(* the external_operations lock; shutdown takes it before it closes.        *)

ExternalUnchanged == UNCHANGED <<requestVars, registry, req, swapped, sub, limits>>

\* Mutant: shutting_down is looked at before the lock is taken.
LockExternalLate(c) ==
    /\ pc[c] = "idle"
    /\ On(c, IF shuttingDown THEN "idle" ELSE "external")
    /\ external' = external
    /\ EngineUnchanged /\ ExternalUnchanged /\ shuttingDown' = shuttingDown

LockExternal(c) ==
    /\ pc[c] = "idle"
    /\ external = None
    /\ external' = c
    /\ On(c, "open?")
    /\ EngineUnchanged /\ ExternalUnchanged /\ shuttingDown' = shuttingDown

CheckOpen(c) ==
    /\ pc[c] = "open?"
    /\ IF shuttingDown
       THEN external' = None /\ On(c, "idle")
       ELSE external' = external /\ On(c, "external")
    /\ EngineUnchanged /\ ExternalUnchanged /\ shuttingDown' = shuttingDown

FinishExternal(c) ==
    /\ pc[c] = "external"
    /\ external' = None
    /\ On(c, "idle")
    /\ EngineUnchanged /\ ExternalUnchanged /\ shuttingDown' = shuttingDown

\* PathHydra::shutdown: under the allocator's lock, then the external lock,
\* then GraphEngine::shutdown.
BeginShutdown(c) ==
    /\ pc[c] = "idle"
    /\ shuttingDown' = TRUE
    /\ On(c, "lockExternal")
    /\ EngineUnchanged /\ ExternalUnchanged /\ external' = external

LockForShutdown(c) ==
    /\ pc[c] = "lockExternal"
    /\ external = None
    /\ IF lifecycle = "ShutDown"
       THEN external' = None /\ On(c, "idle")
       ELSE external' = c /\ On(c, "close")
    /\ EngineUnchanged /\ ExternalUnchanged /\ shuttingDown' = shuttingDown

CloseAdmission(c) ==
    /\ pc[c] = "close"
    /\ lifecycle' = "Closing"
    /\ On(c, "signal")
    /\ UNCHANGED <<permits, graph, image, writer, readers, job, batch>>
    /\ ExternalUnchanged /\ UNCHANGED <<external, shuttingDown>>

SignalAll(c) ==
    /\ pc[c] = "signal"
    /\ flag' = [i \in RequestIds |-> flag[i] \/ i \in registry]
    /\ On(c, "drain")
    /\ EngineUnchanged
    /\ UNCHANGED <<highWater, table, held, phase, response, signals, registry,
                   req, swapped, sub, limits, external, shuttingDown>>

\* wait_for_drain: all permits returned, or the timeout and a failed report.
Drain(c) ==
    /\ pc[c] = "drain"
    /\ \/ /\ \A d \in Callers : permits[d] = 0
          /\ lifecycle' = "ShutDown"
          /\ image' = None
       \/ /\ \E d \in Callers : permits[d] > 0
          /\ UNCHANGED <<lifecycle, image>>
    /\ external' = None
    /\ On(c, "idle")
    /\ UNCHANGED <<permits, graph, writer, readers, job, batch>>
    /\ ExternalUnchanged /\ shuttingDown' = shuttingDown

-----------------------------------------------------------------------------

CancelStep(c) ==
    \/ CancelUnknown(c) \/ CancelLoads(c) \/ CancelInEngine(c)
    \/ SwapFlag(c) \/ CancelOutcome(c)

RouteStep(c) ==
    \/ ClaimRequest(c) \/ CheckRoute(c) \/ UnwindRoute(c) \/ EnterEngine(c)
    \/ RegisterFlag(c) \/ LeaseImage(c) \/ Search(c) \/ LeaveEngine(c)
    \/ CompleteRoute(c) \/ StoreResponse(c)

ExternalStep(c) ==
    \/ CheckOpen(c) \/ FinishExternal(c)
    \/ LockForShutdown(c) \/ CloseAdmission(c) \/ SignalAll(c) \/ Drain(c)

\* A step inside the engine; a call that returns lets go of its request.
EngineStep(c) ==
    /\ HydrationStep(c)
    /\ req' = [req EXCEPT ![c] = IF pc'[c] = "idle" THEN None ELSE @]
    /\ swapped' = [swapped EXCEPT ![c] = IF pc'[c] = "idle" THEN FALSE ELSE @]
    /\ UNCHANGED <<requestVars, registry, shuttingDown, external, sub, limits>>

StartCall ==
    \/ \E supplied \in limits.supplied : RequestHandle(supplied)
    \/ \E i \in held : DropHandle(i)
    \/ \E c \in limits.cancellers :
          \/ \E i \in held : CancelByHandle(c, i)
          \/ \E i \in limits.ids : CancelById(c, i)
    \/ \E c \in limits.routers, i \in held : StartRoute(c, i)
    \/ \E c \in limits.hydrators :
          \/ \E request \in limits.requests : Hydrate(c, request)
          \/ \E i \in held : HydratePath(c, i)
          \/ \E profile \in limits.profiles : HydrateSubgraph(c, profile)
    \/ \E c \in limits.writers, change \in limits.changes :
          BeginMutation(c, change) /\ FacadeUnchanged /\ UNCHANGED <<req, sub>>
    \/ \E c \in limits.externals : LockExternal(c)
    \/ \E c \in limits.closers : BeginShutdown(c)

Next ==
    \/ StartCall
    \/ EditSubgraph
    \/ \E c \in Callers : CancelStep(c) \/ RouteStep(c) \/ ExternalStep(c) \/ EngineStep(c)

Spec == Init /\ [][Next]_vars

-----------------------------------------------------------------------------

\* A cancellation that answered Signalled before the search looks at its flag
\* is never lost: the search does not go on to return a path. The facade's
\* flag is the one the engine registers, whichever of cancel_state's two
\* ways to the flag the call took.
SignalStopsTheSearch ==
    [][\A c \in Callers :
         pc[c] = "search" /\ answer'[c] = "Path" => signals[req[c]] = 0]_vars

\* At most one cancellation of a request reports that it signalled it,
\* although the request can be signalled through the registry and through the
\* handle at once (both swap the one shared flag).
OneSignalPerRequest == \A i \in RequestIds : signals[i] <= 1

Rank == [none |-> 0, CREATED |-> 1, EXECUTING |-> 2, COMPLETE |-> 3]

\* A request id is given out once, its route executes once and its response
\* is final: the phase never goes back, a stored response never changes, and
\* the engine never meets the id of an active request again (begin's
\* compare_exchange, the allocator's high-water mark).
RequestRunsOnce ==
    [][/\ \A i \in RequestIds :
            /\ Rank[phase[i]] <= Rank[phase'[i]]
            /\ response[i] # None => response'[i] = response[i]
       /\ \A c \in Callers : answer'[c] # "Duplicate"]_vars

\* A checkpoint validation or restore only works while the engine's admission
\* is open: shutdown waits for it, and none starts behind it
\* (external_operations is locked before shutting_down is read).
ExternalWorkPrecedesClose ==
    (\E c \in Callers : pc[c] = "external") => lifecycle = "Running"

\* Every edit leaves a subgraph whose edges have their endpoints and which is
\* within its limits, and an edge keeps the endpoints it was added with for as
\* long as it stays (union checks every id before it changes anything).
SubgraphStaysConsistent ==
    [][/\ ValidHandles(sub') /\ WithinLimits(sub')
       /\ \A e \in DOMAIN sub.edges \cap DOMAIN sub'.edges : sub'.edges[e] = sub.edges[e]]_vars

\* docs/consumer-api.md says of already_completed that the complete response
\* won the race: then the cancellation that hears it has not itself stopped
\* the search.
CompletedWonTheRace ==
    \A c \in Callers :
        pc[c] = "return" /\ answer[c] = "AlreadyCompleted" /\ swapped[c] /\ response[req[c]] # None
            => response[req[c]].state # "Cancelled"
-----------------------------------------------------------------------------
(* The inductive invariant behind these properties.                         *)

Phases == {"none", "CREATED", "EXECUTING", "COMPLETE"}

FacadeTypes ==
    /\ limits \in Limits
    /\ highWater \in RequestIds \cup {None}
    /\ table \subseteq RequestIds
    /\ held \subseteq RequestIds
    /\ phase \in [RequestIds -> Phases]
    /\ flag \in [RequestIds -> BOOLEAN]
    /\ signals \in [RequestIds -> Nat]
    /\ req \in [Callers -> RequestIds \cup {None}]
    /\ swapped \in [Callers -> BOOLEAN]
    /\ DOMAIN response = RequestIds
    /\ DOMAIN pc = Callers
    /\ DOMAIN answer = Callers

\* The places of a call between its claim of the request and its completion,
\* and those at which the engine has its flag registered.
Executing == {"checks", "enter", "register", "lease", "search", "leave", "complete", "unwind"}
Registered == {"lease", "search", "leave"}
Cancels == {"cancel", "created?", "closing?", "executing?", "engine", "swap", "completed?"}

Owns(c) == pc[c] \in Executing \cup {"store"}

\* Ids above the high-water mark are untouched, and whoever works on a request
\* works on an allocated one.
IssueInv ==
    /\ \A i \in RequestIds :
          /\ phase[i] = "none" => i \notin held /\ ~flag[i] /\ signals[i] = 0
          /\ phase[i] # "none" => highWater # None /\ i <= highWater
          /\ phase[i] # "COMPLETE" => response[i] = None
    /\ \A c \in Callers :
          /\ req[c] # None => phase[req[c]] # "none"
          /\ pc[c] \in Cancels \cup {"claim"} \/ Owns(c) => req[c] # None

\* The caller that set the flag and has not reported it yet.
Signals(c) == pc[c] = "completed?" /\ swapped[c]

SignalInv ==
    /\ \A i \in RequestIds : signals[i] <= 1 /\ (~flag[i] => signals[i] = 0)
    /\ \A c \in Callers : Signals(c) => flag[req[c]] /\ signals[req[c]] = 0
    /\ \A c, d \in Callers : Signals(c) /\ Signals(d) /\ req[c] = req[d] => c = d

\* One call executes a request, and only it is registered for it.
RunInv ==
    /\ \A c \in Callers :
          /\ pc[c] \in Executing => phase[req[c]] = "EXECUTING"
          /\ pc[c] = "store" => phase[req[c]] = "COMPLETE" /\ response[req[c]] = None
          /\ answer[c] # "Duplicate"
          /\ answer[c] # None => pc[c] \in {"leave", "complete", "store", "unwind", "return"}
    /\ \A c, d \in Callers : Owns(c) /\ Owns(d) /\ req[c] = req[d] => c = d
    /\ \A i \in registry : \E c \in Callers : pc[c] \in Registered /\ req[c] = i

\* The external lock has one holder, and admission closes behind it.
CloseInv ==
    /\ lifecycle # "Running" => shuttingDown
    /\ \A c \in Callers :
          /\ pc[c] \in {"open?", "external", "close", "signal", "drain"} => external = c
          /\ pc[c] \in {"lockExternal", "close", "signal", "drain"} => shuttingDown
          /\ pc[c] = "external" => lifecycle = "Running"

FacadeInv == FacadeTypes /\ IssueInv /\ SignalInv /\ RunInv /\ CloseInv

\* What hydration relies on, call by call: a call that changes the catalog holds
\* the routing lock, a call that has read from it still holds the read lock and
\* what it read is still so, and a path cites records that were made once.
HydrationAnswers == {"Complete", "Partial", "Unavailable", "Integrity", "Corrupt"}

\* A record that was made once: deletions leave it, so it is what a path of an
\* older image still cites.
Known(edge) == edge \in EdgeRecords /\ edge.id \in Edges /\ graph.records[edge.id] = edge
KnownIds(edges) == \A e \in edges : e \in Edges /\ graph.records[e] # None
KnownPath(path) == path.steps \in Seq(EdgeRecords) /\ \A edge \in Range(path.steps) : Known(edge)

IsRequest(request) ==
    /\ request.op \in {"hydrate", "path", "subgraph"}
    /\ request.op = "hydrate" => request.evidence = {}
    /\ request.op = "path" => /\ request.profile = None
                              /\ \A edge \in request.evidence : Known(edge)

Writing(c) ==
    /\ pc[c] \in {"write", "publish"} => writer = c
    /\ pc[c] = "write" => job[c].op # "rebuild"
    /\ pc[c] \in {"lock", "write"} =>
         /\ job[c].op \in Writes \cup {"rebuild"}
         /\ job[c].op = "confirm" => job[c].edge \in EdgeRecords

Reading(c) ==
    /\ pc[c] \in {"nested", "image", "read", "answer"} => IsRequest(job[c])
    /\ pc[c] \in {"read", "answer"} \/ Answered(c) => c \in readers
    /\ pc[c] \in {"read", "answer"} => job[c].profile = None \/ job[c].profile = graph.relations
    /\ pc[c] = "answer" =>
         /\ batch[c].nodes = job[c].nodes \cap graph.nodes
         /\ batch[c].edges = {Record(graph, e) : e \in job[c].edges \cap graph.edges}

Routing(c) ==
    /\ pc[c] = "search" => KnownIds(job[c].edges)
    /\ pc[c] \in {"leave", "complete", "store"} =>
         /\ answer[c] \notin HydrationAnswers
         /\ answer[c] = "Path" => KnownPath(job[c])

\* The locks exclude each other, and the image is the confirmed graph's unless
\* the writer is about to replace it.
RecordInv ==
    /\ DOMAIN job = Callers /\ DOMAIN batch = Callers
    /\ readers # {} => writer = None
    /\ image \in {None, Image(graph)}
         \/ \E c \in Callers : pc[c] = "publish" /\ job[c].op # "rebuild"
    /\ WellFormed(graph)
    /\ image # None => KnownIds(image.edges)
    /\ \A i \in RequestIds : HasPath(i) => KnownPath(response[i].path)

HydrationInv ==
    /\ RecordInv
    /\ \A c \in Callers : Writing(c) /\ Reading(c) /\ Routing(c)
    /\ HydrationIsCurrent

\* The application's subgraph is a finite one that its own checks accept.
SubgraphInv ==
    /\ sub = [nodes |-> sub.nodes, edges |-> sub.edges]
    /\ IsFiniteSet(sub.nodes) /\ IsFiniteSet(DOMAIN sub.edges)
    /\ Readable(sub)
=============================================================================
