----------------------------- MODULE CudaRoutes -----------------------------
(***************************************************************************)
(* CUDA routes of the engine, from the choice of an image and a runtime to *)
(* the answer of the worker, composed with the worker (CudaWorker) and the *)
(* device cache its lanes share (TopologyCache).                           *)
(*                                                                         *)
(* A route takes the published image under the routing lock and the        *)
(* current runtime under another lock.  Meanwhile residency is rebuilt,    *)
(* CUDA is initialised again, and the engine shuts down.  A runtime that   *)
(* is no longer current is dropped by the last route that holds it; that   *)
(* shuts its worker down.  A route that is refused or fails runs on the    *)
(* CPU or returns an error, by policy; both are "returned" here.           *)
(***************************************************************************)
EXTENDS CudaWorker

CONSTANTS
    SearchBytes,            \* estimate_search_bytes of each route
    MaximumSearches,        \* maximum_concurrent_searches
    MaximumSearchBytes      \* maximum_reserved_search_bytes

ASSUME LimitsAreValid ==
    /\ MaxLanes \in Nat \ {0}
    /\ \A l \in Limits, p \in Partitions :
          l.slots # 0 /\ SizeOf[p] <= l.bytes /\ SizeOf[p] <= l.staging

VARIABLES
    call,           \* per route: its place, image and runtime
    slot,           \* the engine's current runtime, or None
    published,      \* the image of the published snapshot, or None
    context,        \* the runtime on which each image was uploaded
    healthy,        \* per runtime
    admission,      \* per runtime: active searches and reserved bytes
    closing         \* the engine is shut down

engineVars == <<call, slot, published, context, healthy, admission,
                closing>>

vars == <<cacheVars, workerVars, engineVars>>

NoCall == [at |-> "idle", image |-> None, runtime |-> None]

Returned == [NoCall EXCEPT !.at = "returned"]

Init ==
    /\ CacheInit
    /\ WorkerInit
    /\ call = [c \in Callers |-> NoCall]
    /\ slot = 1
    /\ published = 1
    /\ context = <<1>>
    /\ healthy = [g \in Runtimes |-> TRUE]
    /\ admission = [g \in Runtimes |-> [active |-> 0, bytes |-> 0]]
    /\ closing = FALSE

TakeExecution(c) ==
    /\ call[c].at = "idle"
    /\ ~closing
    /\ call' = [call EXCEPT ![c].at = "execution", ![c].image = published]
    /\ UNCHANGED <<slot, published, context, healthy, admission,
                   closing, cacheVars, workerVars>>

(* CudaAdmissionController::reserve *)
Admits(g, c) ==
    /\ admission[g].active < MaximumSearches
    /\ admission[g].bytes + SearchBytes[c] <= MaximumSearchBytes

(* The current runtime is used if it is healthy and has room.              *)
Admit(c) ==
    /\ call[c].at = "execution"
    /\ IF call[c].image # None /\ slot # None /\ healthy[slot] /\ Admits(slot, c)
       THEN /\ call' = [call EXCEPT ![c].at = "submit", ![c].runtime = slot]
            /\ admission' = [admission EXCEPT ![slot].active = @ + 1,
                                              ![slot].bytes = @ + SearchBytes[c]]
       ELSE /\ call' = [call EXCEPT ![c] = Returned]
            /\ UNCHANGED admission
    /\ UNCHANGED <<slot, published, context, healthy, closing,
                   cacheVars, workerVars>>

Submit(c) ==
    /\ call[c].at = "submit"
    /\ call' = [call EXCEPT ![c].at = "waiting"]
    /\ LET g == call[c].runtime
       IN  IF worker[g].stopping \/ IsAt(g, "exited")
           THEN reply' = Answered({c}, "Error") /\ UNCHANGED worker
           ELSE /\ worker' = [worker EXCEPT ![g].queued = @ + 1,
                                            ![g].channel = Append(@, c)]
                /\ UNCHANGED reply
    /\ UNCHANGED <<slot, published, context, healthy, admission,
                   closing, cacheVars>>

(* upload_topology on runtime g.  The bound counts attempts: one that      *)
(* fails leaves the snapshot without CUDA.                                 *)
Uploads(g) ==
    /\ Len(context) < limits.images
    /\ context' = Append(context, g)
    /\ published' \in {None, Len(context) + 1}

(* rebuild_routing_image: the new image is uploaded to the current         *)
(* runtime; past the bound the upload fails.                               *)
RebuildRoutingImage ==
    IF slot # None /\ Len(context) < limits.images
    THEN Uploads(slot)
    ELSE published' = None /\ UNCHANGED context

(* Dropping the reservation gives the admission back.                      *)
Released(c) ==
    [admission EXCEPT ![call[c].runtime].active = @ - 1,
                      ![call[c].runtime].bytes = @ - SearchBytes[c]]

(* An unreadable partition makes the route rebuild the image, with its     *)
(* reservation and its runtime still held.                                 *)
RebuildAfter(c) ==
    /\ call[c].at = "waiting"
    /\ reply[c] = "ImageAccess"
    /\ call' = [call EXCEPT ![c].at = "rebuilt"]
    /\ reply' = [reply EXCEPT ![c] = None]
    /\ RebuildRoutingImage
    /\ UNCHANGED <<worker, slot, healthy, admission, closing, cacheVars>>

Leaves(c) ==
    \/ call[c].at = "rebuilt"
    \/ call[c].at = "waiting" /\ reply[c] \notin {None, "ImageAccess"}

(* Return of a route whose reservation is forgotten.                       *)
ReturnKeepsBytes(c) ==
    /\ Leaves(c)
    /\ call' = [call EXCEPT ![c] = Returned]
    /\ reply' = [reply EXCEPT ![c] = None]
    /\ admission' = [admission EXCEPT ![call[c].runtime].active = @ - 1]
    /\ UNCHANGED <<healthy, published, context, slot, closing, worker,
                   cacheVars>>

(* CudaRuntime::failure, then the reservation, the registration and the    *)
(* runtime are dropped.  A route that comes in between is refused already. *)
Return(c) ==
    /\ Leaves(c)
    /\ call' = [call EXCEPT ![c] = Returned]
    /\ reply' = [reply EXCEPT ![c] = None]
    /\ cancelled' = cancelled \ {c}
    /\ healthy' = IF Poisons(reply[c])
                  THEN [healthy EXCEPT ![call[c].runtime] = FALSE] ELSE healthy
    /\ admission' = Released(c)
    /\ UNCHANGED <<published, context, slot, closing, worker,
                   limits, cache, lane, inflight, lost, abandoned>>

Cancel(c) ==
    /\ call[c].at = "waiting" /\ limits.cancel
    /\ cancelled' = cancelled \cup {c}
    /\ UNCHANGED <<limits, cache, lane, inflight, lost, abandoned, workerVars, engineVars>>

RebuildResidency ==
    /\ ~closing /\ limits.maintenance
    /\ slot # None
    /\ Uploads(slot)
    /\ UNCHANGED <<call, slot, healthy, admission, closing, workerVars, cacheVars>>

(* The new runtime replaces the old one only if the upload succeeds; one   *)
(* that cannot be initialised changes nothing.                             *)
ReinitializeCuda ==
    /\ ~closing /\ limits.maintenance
    /\ slot # None
    /\ slot + 1 \in Runtimes
    /\ Uploads(slot + 1)
    /\ slot' = IF published' = None THEN slot ELSE slot + 1
    /\ UNCHANGED <<call, healthy, admission, closing, workerVars, cacheVars>>

(* Shutdown takes the runtime once every route has drained.                *)
ShutDown ==
    /\ ~closing
    /\ \A c \in Callers : call[c].at \in {"idle", "returned"}
    /\ closing' = TRUE
    /\ slot' = None
    /\ published' = None
    /\ UNCHANGED <<call, context, healthy, admission, cacheVars,
                   workerVars>>

Holders(g) == {c \in Callers : call[c].runtime = g}

(* The last reference to a runtime is dropped: CudaWorker::shutdown.       *)
DropRuntime(g) ==
    /\ g # slot
    /\ g \in ToSet(context)
    /\ Holders(g) = {}
    /\ ~worker[g].stopping
    /\ worker' = [worker EXCEPT ![g].stopping = TRUE,
                                ![g].channel = Append(@, Shutdown)]
    /\ UNCHANGED <<reply, cacheVars, engineVars>>

ImageOf == [c \in Callers |-> call[c].image]

LaneStep(c) ==
    \/ CacheStep(c) /\ UNCHANGED <<workerVars, engineVars>>
    \/ SearchResident(c) /\ UNCHANGED engineVars
    \/ LaneReplies(c) /\ UNCHANGED engineVars

CallStep(c) ==
    TakeExecution(c) \/ Admit(c) \/ Submit(c) \/ RebuildAfter(c) \/ Return(c)

Thread(g) == WorkerStep(g, ImageOf) /\ UNCHANGED engineVars

Device(c) == KernelCompletes(c) /\ UNCHANGED <<workerVars, engineVars>>

(* A lane that waits in acquire for an entry nobody will settle, or for   *)
(* room in a cache in which such an entry takes some.                      *)
WaitsForAbandoned(c) ==
    /\ Acquiring(c)
    /\ \/ <<lane[c].image, lane[c].partition>> \in abandoned
       \/ /\ StateIn(c, {"Absent"})
          /\ PrepareSlot(c).decision = "Wait"
          /\ \E p \in Partitions : <<lane[c].image, p>> \in abandoned

(* Such a lane turns in the loop of acquire until it is cancelled.         *)
Spin(c) == WaitsForAbandoned(c) /\ UNCHANGED vars

(* Everything is shut down: nothing is left to do.                         *)
Finished ==
    /\ closing
    /\ \A g \in Runtimes : worker[g].stopping => IsAt(g, "exited")
    /\ UNCHANGED vars

Next ==
    \/ \E c \in Callers : CallStep(c) \/ Cancel(c) \/ LaneStep(c) \/ Device(c) \/ Spin(c)
    \/ \E g \in Runtimes : Thread(g) \/ DropRuntime(g)
    \/ RebuildResidency \/ ReinitializeCuda \/ ShutDown \/ Finished

(* Whatever callers, lanes, workers and the device can do, one of them     *)
(* does: every route takes finitely many steps, so no more is needed.      *)
(* Nothing makes a caller start, cancel, rebuild or shut down.             *)
Progress ==
    \/ \E c \in Callers :
          \/ Admit(c) \/ Submit(c) \/ RebuildAfter(c) \/ Return(c)
          \/ LaneStep(c) \/ Device(c)
    \/ \E g \in Runtimes : Thread(g) \/ DropRuntime(g)

Spec == Init /\ [][Next]_vars /\ WF_vars(Progress)

-----------------------------------------------------------------------------
(* Properties *)

Leases(i, p) ==
    {c \in Callers : /\ lane[c].image = i /\ lane[c].partition = p
                     /\ lane[c].at \in {"leased", "launched", "recorded"}}

Held(i, states) == {p \in Partitions : cache[i].entries[p].state \in states}

Bytes(partitions) == MapThenSumSet(LAMBDA p : SizeOf[p], partitions)

LoadersOf(i, p) ==
    {c \in Callers : /\ lane[c].image = i /\ lane[c].partition = p
                     /\ lane[c].at \in {"load", "staged", "copy"}}

EvictorsOf(i, p) ==
    {c \in Callers : lane[c].image = i /\ lane[c].victim = p /\ At(c, "evict")}

(* On every path of acquire, load_reserved, fail_reserved and of a dropped *)
(* lease, the bytes, staged bytes and users that the device cache counts   *)
(* are those of its entries and lanes, and stay within the limits. Two     *)
(* lanes never load or evict the same partition, and every pending entry   *)
(* has the one lane that will settle it, unless that lane panicked: then   *)
(* the entry keeps its slot and its bytes.  A poisoning failure leaves     *)
(* nothing pending.                                                        *)
DeviceCacheIsExact ==
    \A i \in Images :
        /\ cache[i].bytes = Bytes(Held(i, {"HostLoading", "Copying", "Ready"}))
        /\ cache[i].bytes <= limits.bytes
        /\ Cardinality(Occupied(cache[i].entries)) <= limits.slots
        /\ cache[i].staging <= limits.staging
        /\ cache[i].staging =
              MapThenSumSet(LAMBDA c : SizeOf[lane[c].partition],
                            {c \in Callers : /\ lane[c].image = i
                                             /\ lane[c].at \in {"staged", "copy"}})
        /\ \A p \in Partitions :
              LET settling == IF <<i, p>> \in abandoned THEN 0 ELSE 1
              IN  /\ cache[i].entries[p].users = Cardinality(Leases(i, p))
                  /\ cache[i].entries[p].state \in Pending =>
                        /\ ~cache[i].poison
                        /\ Cardinality(LoadersOf(i, p)) = settling
                  /\ cache[i].entries[p].state = "Evicting" =>
                        Cardinality(EvictorsOf(i, p)) = settling

(* No slot is evicted or reused while a lane leases it or a kernel on the  *)
(* device still reads it, even if the lane that launched the kernel failed *)
(* to wait for it and its route has long returned.                         *)
InFlightStaysResident ==
    /\ \A c \in Callers : lane[c].at \in {"leased", "launched", "recorded"} =>
          StateIn(c, {"Ready"})
    /\ \A kernel \in inflight :
          cache[kernel[2]].entries[kernel[3]].state = "Ready"

InSubmit(g) == {c \in Callers : call[c].runtime = g /\ call[c].at = "waiting"}

Live(g) ==
    {c \in ToSet(worker[g].lanes) : lane[c].at \notin {"exited", "panicked"}}

(* The worker's queued and active counts and the admission of a runtime    *)
(* agree with the routes in its channel, on its lanes and inside submit,   *)
(* whichever way a lane ends; the answered route is never queued again.    *)
WorkerCountsAreExact ==
    \A g \in Runtimes :
        LET waiting == worker[g].deferred \o worker[g].channel \o worker[g].batch
        IN  /\ worker[g].queued = Cardinality(Routes(waiting))
            /\ worker[g].active =
                  Cardinality(Live(g)) + (IF IsAt(g, "spawn")
                                          THEN Len(worker[g].batch) ELSE 0)
            /\ \A c \in Routes(waiting) : c \in InSubmit(g) /\ reply[c] = None
            /\ admission[g].active = Cardinality(Holders(g))
            /\ admission[g].bytes =
                  MapThenSumSet(LAMBDA c : SearchBytes[c], Holders(g))
            /\ admission[g].bytes <= MaximumSearchBytes

Submitted(c) == call[c].at \in {"waiting", "rebuilt"}

(* No route stays in submit or behind it for ever while the device works:  *)
(* no route is lost by batching, by a panicked or missing lane thread, by  *)
(* waiting for a slot or a loader, or by the worker's end.  The exception  *)
(* is a panic inside load_reserved or the release of a victim: a lane that *)
(* then waits for the entry goes on waiting, and with it the worker and    *)
(* its queue.                                                              *)
SubmittedRoutesReturn ==
    \A c \in Callers :
        []<>(\/ ~Submitted(c)
             \/ lost # {}
             \/ \E d \in Callers :
                   WaitsForAbandoned(d) /\ call[d].runtime = call[c].runtime)

(* Not so: the same without the exception.  acquire waits for a loader in  *)
(* a loop that only the loader or the route's cancellation ends.           *)
RoutesReturnAfterAnyPanic ==
    \A c \in Callers : []<>(~Submitted(c) \/ lost # {})

(* A runtime that was replaced or shut down joins its worker, and does so  *)
(* only when no route is left in its queue or on its lanes.                *)
WorkersStop ==
    \A g \in Runtimes :
        []<>(worker[g].stopping =>
                IsAt(g, "exited") /\ worker[g].queued = 0 /\ worker[g].active = 0)

(* A runtime is unhealthy only after a failure of its own context: the     *)
(* documentation has routes run against a matching image.                  *)
UnhealthyByOwnContext ==
    \A g \in Runtimes : ~healthy[g] => \E i \in lost : context[i] = g
=============================================================================
