----------------------------- MODULE HostCache -----------------------------
(***************************************************************************)
(* The shared partition cache of a ChunkedRoutingImage and its fixed pool  *)
(* of I/O workers: routes acquire decoded partitions, coalesce on loads in *)
(* progress, evict unpinned entries, and hand reads to the workers through *)
(* a bounded channel.  Every step is one critical section of the cache     *)
(* mutex, or one channel operation.                                        *)
(***************************************************************************)
EXTENDS Naturals, FiniteSets, Sequences, Weights

CONSTANTS
    Partitions,   \* partition ids, naturals
    Size,         \* topology_length + evidence_length of each partition
    Clients,      \* routes reading through the cache
    Workers,      \* io_worker_count threads
    MaxBytes,     \* maximum_bytes
    MaxStaging,   \* maximum_staging_bytes
    MaxEntries,   \* maximum_entries
    MaxQueued     \* maximum_queued_reads

Required(p) == 2 * Size[p]

\* ChunkedRoutingImage::open_shared refuses zero limits and any partition that
\* could never be cached or staged.
ASSUME CacheAssumption ==
    /\ Partitions \subseteq Nat \ {0} /\ IsFiniteSet(Partitions)
    /\ Size \in [Partitions -> Nat]
    /\ MaxBytes \in Nat /\ MaxStaging \in Nat
    /\ MaxEntries \in Nat \ {0}
    /\ MaxQueued \in Nat \ {0}
    /\ Workers # {} /\ IsFiniteSet(Workers)
    /\ \A p \in Partitions : Required(p) <= MaxBytes /\ Size[p] <= MaxStaging

Stop == 0   \* IoJob::Shutdown in the channel

VARIABLES
    entry,     \* CacheState.entries
    last,      \* CacheEntry::Ready.last, as a rank
    tick,      \* CacheState.tick, as a rank
    bytes,     \* CacheState.bytes
    staging,   \* CacheState.staging_bytes
    depth,     \* CacheState.queue_depth
    poison,    \* CacheState.poison is set
    pc,        \* "idle", "acquire", "enqueue", "holding", "failed"
    want,      \* the partition each route asked for
    why,       \* the ImageAccess reason a failed route returns
    queue,     \* the channel
    worker,    \* "idle", "taken" (job received), "load" or "stopped"
    job,       \* the partition each worker loads
    stop,      \* IoCoordinator::shutdown: "no", "sending" or "joined"
    stops      \* Shutdown messages it still has to send

cache == <<entry, last, tick, bytes, staging, depth, poison>>
clients == <<pc, want, why>>
pool == <<queue, worker, job, stop, stops>>
vars == <<entry, last, tick, bytes, staging, depth, poison, pc, want, why,
          queue, worker, job, stop, stops>>

Init ==
    /\ entry = [p \in Partitions |-> "absent"]
    /\ last = [p \in Partitions |-> 0]
    /\ tick = 0
    /\ bytes = 0
    /\ staging = 0
    /\ depth = 0
    /\ poison = FALSE
    /\ pc = [c \in Clients |-> "idle"]
    /\ want = [c \in Clients |-> Stop]
    /\ why = [c \in Clients |-> "none"]
    /\ queue = <<>>
    /\ worker = [w \in Workers |-> "idle"]
    /\ job = [w \in Workers |-> Stop]
    /\ stop = "no"
    /\ stops = 0

\* Only the order of ticks matters, so ticks are kept as ranks: the latest use
\* t, the uses l of the ready entries R.
SetTicks(l, t, R) ==
    LET used == {l[p] : p \in R} \cup {t}
        rank(n) == Cardinality({m \in used : m < n})
    IN  /\ last' = [p \in Partitions |-> IF p \in R THEN rank(l[p]) ELSE 0]
        /\ tick' = rank(t)

In(state) == {p \in Partitions : entry[p] = state}
Ready == In("ready")
Entries == {p \in Partitions : entry[p] # "absent"}

\* Arc::strong_count(data) > 1: a route holds the decoded partition.
Pinned(p) == \E c \in Clients : pc[c] = "holding" /\ want[c] = p
Evictable == {p \in Ready : ~Pinned(p)}

Before(p, q) == last[p] < last[q] \/ (last[p] = last[q] /\ p < q)

RequiredSum(S) == Weight(S, [p \in Partitions |-> Required(p)])

\* The condition under which the eviction loop stops, once V is evicted.
FitsWithout(p, V) ==
    /\ (bytes - RequiredSum(V)) + Required(p) <= MaxBytes
    /\ Cardinality(Entries \ V) < MaxEntries

EvictionPrefixes ==
    {V \in SUBSET Evictable : \A v \in V : \A u \in Evictable \ V : Before(v, u)}

\* The eviction loop removes the least (last, id) first and stops as soon as p
\* fits; when nothing evictable is left, all of it is gone.
Evicts(p, V) ==
    /\ V \in EvictionPrefixes
    /\ \A U \in EvictionPrefixes : U \subseteq V /\ U # V => ~FitsWithout(p, U)
    /\ FitsWithout(p, V) \/ V = Evictable

\* usize::saturating_sub and u64::saturating_sub.
SaturatingSub(a, b) == IF a >= b THEN a - b ELSE 0

Fail(c, reason) ==
    /\ pc' = [pc EXCEPT ![c] = "failed"]
    /\ why' = [why EXCEPT ![c] = reason]
    /\ want' = want

Step(c, where) ==
    /\ pc' = [pc EXCEPT ![c] = where]
    /\ UNCHANGED <<want, why>>

-----------------------------------------------------------------------------
(* HostCache::acquire, one turn of its loop per step.                       *)

\* edge_at or acquire_partition asks for p; routes come only before the engine
\* stops the workers (it has drained them by then).
Request(c, p) ==
    /\ pc[c] = "idle"
    /\ stop = "no"
    /\ pc' = [pc EXCEPT ![c] = "acquire"]
    /\ want' = [want EXCEPT ![c] = p]
    /\ UNCHANGED <<cache, why, pool>>

Return(c, where) ==
    /\ pc[c] = where
    /\ pc' = [pc EXCEPT ![c] = "idle"]
    /\ want' = [want EXCEPT ![c] = Stop]
    /\ why' = [why EXCEPT ![c] = "none"]

\* Cancelled at the head of the loop: Ok(None).
AcquireCancelled(c) ==
    /\ Return(c, "acquire")
    /\ UNCHANGED <<cache, pool>>

\* A load that fails poisons the cache and marks its entry in one critical
\* section, so a Failed entry is only ever met behind the poison.
AcquirePoisoned(c) ==
    /\ pc[c] = "acquire"
    /\ poison
    /\ Fail(c, "poisoned")
    /\ UNCHANGED <<cache, pool>>

\* Mutant: only a miss looks at the poison.
HitDespitePoison(c) ==
    /\ pc[c] = "acquire"
    /\ entry[want[c]] = "ready"
    /\ SetTicks([last EXCEPT ![want[c]] = tick + 1], tick + 1, Ready)
    /\ Step(c, "holding")
    /\ UNCHANGED <<entry, bytes, staging, depth, poison, pool>>

AcquireHit(c) ==
    /\ pc[c] = "acquire"
    /\ ~poison
    /\ entry[want[c]] = "ready"
    /\ SetTicks([last EXCEPT ![want[c]] = tick + 1], tick + 1, Ready)
    /\ Step(c, "holding")
    /\ UNCHANGED <<entry, bytes, staging, depth, poison, pool>>

\* Staging bytes or the read queue are exhausted.
Saturated(p) ==
    \/ staging + Size[p] > MaxStaging
    \/ depth >= MaxQueued + Cardinality(Workers)

\* Coalesce on a load in progress, or wait for staging and queue space.
AcquireWait(c) ==
    /\ pc[c] = "acquire"
    /\ ~poison
    /\ \/ entry[want[c]] = "loading"
       \/ entry[want[c]] = "absent" /\ Saturated(want[c])
    /\ SetTicks(last, tick + 1, Ready)
    /\ UNCHANGED <<entry, bytes, staging, depth, poison, clients, pool>>

\* A miss: evict, then reserve the entry, its bytes, its staging bytes and a
\* place in the read queue, or fail when what is left is pinned or loading.
AcquireMiss(c) ==
    /\ pc[c] = "acquire"
    /\ ~poison
    /\ entry[want[c]] = "absent"
    /\ ~Saturated(want[c])
    /\ \E V \in SUBSET Evictable :
         /\ Evicts(want[c], V)
         /\ SetTicks(last, tick + 1, Ready \ V)
         /\ IF FitsWithout(want[c], V)
            THEN /\ entry' = [q \in Partitions |->
                                IF q = want[c] THEN "loading"
                                ELSE IF q \in V THEN "absent" ELSE entry[q]]
                 /\ bytes' = (bytes - RequiredSum(V)) + Required(want[c])
                 /\ staging' = staging + Size[want[c]]
                 /\ depth' = depth + 1
                 /\ Step(c, "enqueue")
            ELSE /\ entry' = [q \in Partitions |-> IF q \in V THEN "absent" ELSE entry[q]]
                 /\ bytes' = bytes - RequiredSum(V)
                 /\ Fail(c, "full")
                 /\ UNCHANGED <<staging, depth>>
    /\ UNCHANGED <<poison, pool>>

\* IoCoordinator::enqueue got its job into the channel; back to the loop.  The
\* channel is never disconnected here: workers stop only after routes drained.
EnqueueSent(c) ==
    /\ pc[c] = "enqueue"
    /\ Len(queue) < MaxQueued
    /\ queue' = Append(queue, want[c])
    /\ Step(c, "acquire")
    /\ UNCHANGED <<cache, worker, job, stop, stops>>

\* Mutant: a cancelled enqueue leaves its entry loading.
CancelKeepsEntry(c) ==
    /\ Return(c, "enqueue")
    /\ entry' = entry
    /\ bytes' = SaturatingSub(bytes, Required(want[c]))
    /\ staging' = SaturatingSub(staging, Size[want[c]])
    /\ depth' = SaturatingSub(depth, 1)
    /\ UNCHANGED <<last, tick, poison, pool>>

\* Cancelled before the job was sent: the reservation is undone.
EnqueueCancelled(c) ==
    /\ Return(c, "enqueue")
    /\ entry' = [entry EXCEPT ![want[c]] = "absent"]
    /\ bytes' = SaturatingSub(bytes, Required(want[c]))
    /\ staging' = SaturatingSub(staging, Size[want[c]])
    /\ depth' = SaturatingSub(depth, 1)
    /\ UNCHANGED <<last, tick, poison, pool>>

Release(c) ==
    /\ Return(c, "holding")
    /\ UNCHANGED <<cache, pool>>

ReturnError(c) ==
    /\ Return(c, "failed")
    /\ UNCHANGED <<cache, pool>>

-----------------------------------------------------------------------------
(* io_worker and HostCache::load.                                           *)

\* receiver.recv(): a Shutdown ends the thread.
TakeJob(w) ==
    /\ worker[w] = "idle"
    /\ queue # <<>>
    /\ queue' = Tail(queue)
    /\ worker' = [worker EXCEPT ![w] = IF Head(queue) = Stop THEN "stopped" ELSE "taken"]
    /\ job' = [job EXCEPT ![w] = Head(queue)]
    /\ UNCHANGED <<cache, clients, stop, stops>>

\* The first critical section of load: the job leaves the read queue's depth.
StartLoad(w) ==
    /\ worker[w] = "taken"
    /\ worker' = [worker EXCEPT ![w] = "load"]
    /\ depth' = SaturatingSub(depth, 1)
    /\ UNCHANGED <<entry, last, tick, bytes, staging, poison, clients, queue, job, stop, stops>>

WorkerIdle(w) ==
    /\ worker' = [worker EXCEPT ![w] = "idle"]
    /\ job' = [job EXCEPT ![w] = Stop]
    /\ UNCHANGED <<queue, stop, stops>>

\* load_partition read, checked and decoded the partition.
LoadSucceeds(w) ==
    /\ worker[w] = "load"
    /\ entry' = [entry EXCEPT ![job[w]] = "ready"]
    /\ staging' = SaturatingSub(staging, Size[job[w]])
    /\ SetTicks([last EXCEPT ![job[w]] = tick], tick, Ready \cup {job[w]})
    /\ WorkerIdle(w)
    /\ UNCHANGED <<bytes, depth, poison, clients>>

\* Mutant: a failed load does not return its cache bytes.
FailKeepsBytes(w) ==
    /\ worker[w] = "load"
    /\ entry' = [entry EXCEPT ![job[w]] = "failed"]
    /\ staging' = SaturatingSub(staging, Size[job[w]])
    /\ bytes' = bytes
    /\ poison' = TRUE
    /\ WorkerIdle(w)
    /\ UNCHANGED <<last, tick, depth, clients>>

\* Mutant: a failed load poisons the cache and leaves its entry loading.
FailKeepsLoading(w) ==
    /\ worker[w] = "load"
    /\ entry' = entry
    /\ staging' = SaturatingSub(staging, Size[job[w]])
    /\ bytes' = SaturatingSub(bytes, Required(job[w]))
    /\ poison' = TRUE
    /\ WorkerIdle(w)
    /\ UNCHANGED <<last, tick, depth, clients>>

\* It failed: the partition's bytes are given back and the bundle is poisoned.
LoadFails(w) ==
    /\ worker[w] = "load"
    /\ entry' = [entry EXCEPT ![job[w]] = "failed"]
    /\ staging' = SaturatingSub(staging, Size[job[w]])
    /\ bytes' = SaturatingSub(bytes, Required(job[w]))
    /\ poison' = TRUE
    /\ WorkerIdle(w)
    /\ UNCHANGED <<last, tick, depth, clients>>

-----------------------------------------------------------------------------
(* IoCoordinator::shutdown, called once routes have drained.                *)

\* Mutant: one Shutdown message too few is sent.
StopTooFew ==
    /\ stop = "no"
    /\ \A c \in Clients : pc[c] = "idle"
    /\ stop' = "sending"
    /\ stops' = Cardinality(Workers) - 1
    /\ UNCHANGED <<cache, clients, queue, worker, job>>

BeginStop ==
    /\ stop = "no"
    /\ \A c \in Clients : pc[c] = "idle"
    /\ stop' = "sending"
    /\ stops' = Cardinality(Workers)
    /\ UNCHANGED <<cache, clients, queue, worker, job>>

SendStop ==
    /\ stop = "sending"
    /\ stops > 0
    /\ Len(queue) < MaxQueued
    /\ queue' = Append(queue, Stop)
    /\ stops' = stops - 1
    /\ UNCHANGED <<cache, clients, worker, job, stop>>

JoinWorkers ==
    /\ stop = "sending"
    /\ stops = 0
    /\ \A w \in Workers : worker[w] = "stopped"
    /\ stop' = "joined"
    /\ UNCHANGED <<cache, clients, queue, worker, job, stops>>

-----------------------------------------------------------------------------
Route(c) ==
    \/ \E p \in Partitions : Request(c, p)
    \/ AcquireCancelled(c)
    \/ EnqueueCancelled(c)
    \/ Release(c)
    \/ ReturnError(c)

Acquire(c) ==
    \/ AcquirePoisoned(c)
    \/ AcquireHit(c)
    \/ AcquireWait(c)
    \/ AcquireMiss(c)

Load(w) == StartLoad(w) \/ LoadSucceeds(w) \/ LoadFails(w)

Finished == stop = "joined" /\ UNCHANGED vars

Next ==
    \/ \E c \in Clients : Route(c) \/ Acquire(c) \/ EnqueueSent(c)
    \/ \E w \in Workers : TakeJob(w) \/ Load(w)
    \/ BeginStop
    \/ SendStop
    \/ JoinWorkers
    \/ Finished

Spec == Init /\ [][Next]_vars

\* Worker threads are scheduled, a load ends, and the channel serves its blocked
\* senders and receivers in turn.  Nothing is asked of the routes: they may
\* cancel, wait or hold their partitions for ever.
FairSpec ==
    /\ Spec
    /\ \A w \in Workers : SF_vars(TakeJob(w)) /\ WF_vars(Load(w))
    /\ \A c \in Clients : SF_vars(EnqueueSent(c))
    /\ WF_vars(SendStop)
    /\ WF_vars(JoinWorkers)

-----------------------------------------------------------------------------
\* The routes, channel places and workers that answer for a load of p.
Askers(p) == {c \in Clients : pc[c] = "enqueue" /\ want[c] = p}
Places(p) == {i \in DOMAIN queue : queue[i] = p}
Loaders(p) == {w \in Workers : worker[w] \in {"taken", "load"} /\ job[w] = p}
Owners(p) == Cardinality(Askers(p)) + Cardinality(Places(p)) + Cardinality(Loaders(p))

\* Coalescing: whatever the routes and workers do, a loading entry has exactly
\* one load under way and no other entry has any, so a route that waits on
\* CacheEntry::Loading is never left behind and nothing is read twice.
LoadsAreCoalesced ==
    \A p \in Partitions : Owners(p) = IF entry[p] = "loading" THEN 1 ELSE 0

\* The counters admission reads equal what they stand for, through cancellation,
\* failure and eviction, and never exceed the configured limits; what a route
\* holds is a cached and counted copy ("pinned entries cannot be evicted",
\* decision 0008), and a joined pool leaves no read and no staging behind.
CacheAccounting ==
    LET loading == In("loading")
    IN  /\ bytes = RequiredSum(Ready \cup loading)
        /\ bytes <= MaxBytes
        /\ staging = Weight(loading, Size)
        /\ staging <= MaxStaging
        /\ depth = Cardinality(loading) - Cardinality({w \in Workers : worker[w] = "load"})
        /\ depth <= MaxQueued + Cardinality(Workers)
        /\ Cardinality(Entries) <= MaxEntries
        /\ \A c \in Clients : pc[c] = "holding" => entry[want[c]] = "ready"
        /\ stop = "joined" => queue = <<>> /\ staging = 0

\* docs/routing-image.md, "A failure poisons that bundle for new routes": once
\* a load failed, no route is handed a partition and no load is started.
PoisonIsTerminal ==
    [][ poison => /\ poison'
                  /\ \A c \in Clients : pc'[c] = "holding" => pc[c] = "holding"
                  /\ In("loading")' \subseteq In("loading") ]_vars

\* Decision 0008, "Presence, eviction, and request interleaving affect only
\* performance": a route never fails because other routes occupy the cache.
PressureNeverFails == \A c \in Clients : why[c] # "full"

\* A load that was reserved is settled: the waiting routes get an answer.
LoadsSettle ==
    \A p \in Partitions : entry[p] = "loading" ~> entry[p] # "loading"

\* Stopping the pool ends, although its messages go through the bounded channel
\* behind reads nobody waits for any more.
PoolStops == stop = "sending" ~> stop = "joined"

-----------------------------------------------------------------------------
(* The inductive invariant.                                                 *)

TypeOK ==
    /\ entry \in [Partitions -> {"absent", "loading", "ready", "failed"}]
    /\ bytes \in Nat /\ staging \in Nat /\ depth \in Nat
    /\ poison \in BOOLEAN
    /\ pc \in [Clients -> {"idle", "acquire", "enqueue", "holding", "failed"}]
    /\ want \in [Clients -> Partitions \cup {Stop}]
    /\ queue \in Seq(Partitions \cup {Stop})
    /\ worker \in [Workers -> {"idle", "taken", "load", "stopped"}]
    /\ job \in [Workers -> Partitions \cup {Stop}]
    /\ stop \in {"no", "sending", "joined"}
    /\ stops \in Nat

\* What a route holds is ready; routes have returned before the pool is stopped.
RouteInv ==
    /\ \A c \in Clients : pc[c] \in {"acquire", "enqueue", "holding"} => want[c] \in Partitions
    /\ \A c \in Clients : pc[c] = "holding" => entry[want[c]] = "ready"
    /\ stop # "no" => \A c \in Clients : pc[c] = "idle"

\* A load has one owner: the route that reserved it, then a place in the
\* channel, then a worker.
Owned(p) ==
    \/ \E c \in Clients : Askers(p) = {c} /\ Places(p) = {} /\ Loaders(p) = {}
    \/ \E i \in DOMAIN queue : Askers(p) = {} /\ Places(p) = {i} /\ Loaders(p) = {}
    \/ \E w \in Workers : Askers(p) = {} /\ Places(p) = {} /\ Loaders(p) = {w}

Unowned(p) == Askers(p) = {} /\ Places(p) = {} /\ Loaders(p) = {}

OwnedIfLoading(p) == IF entry[p] = "loading" THEN Owned(p) ELSE Unowned(p)

LoadInv ==
    /\ \A p \in Partitions : OwnedIfLoading(p)
    /\ \A w \in Workers : worker[w] \in {"taken", "load"} => job[w] \in Partitions

\* The channel holds reads and behind them Shutdown messages; with those not
\* yet sent and the workers already stopped, there is one for each worker.
Stopped == {w \in Workers : worker[w] = "stopped"}

Reads(n) == \A i \in DOMAIN queue : queue[i] = Stop <=> i > n

StopInv ==
    /\ \E n \in 0..Len(queue) :
         /\ Reads(n)
         /\ stop = "no" => n = Len(queue)
         /\ Stopped # {} => n = 0
         /\ stop # "no" => (Len(queue) - n) + stops + Cardinality(Stopped) = Cardinality(Workers)
    /\ stop = "no" => Stopped = {}
    /\ stop = "joined" => stops = 0 /\ Stopped = Workers

\* The counters.  A read leaves the queue's depth when a worker starts it.
Cached == In("ready") \cup In("loading")
Started == {w \in Workers : worker[w] = "load"}
Unstarted == {p \in In("loading") : \A w \in Started : job[w] # p}

CountInv ==
    /\ bytes = RequiredSum(Cached) /\ bytes <= MaxBytes
    /\ staging = Weight(In("loading"), Size) /\ staging <= MaxStaging
    /\ depth = Cardinality(Unstarted) /\ depth <= MaxQueued + Cardinality(Workers)
    /\ Cardinality(In("loading")) = depth + Cardinality(Started)
    /\ Cardinality(Entries) <= MaxEntries

CacheInv ==
    /\ TypeOK
    /\ RouteInv
    /\ LoadInv
    /\ StopInv
    /\ CountInv
=============================================================================
