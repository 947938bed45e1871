--------------------------- MODULE TopologyCache ---------------------------
(***************************************************************************)
(* The device cache of a partitioned CUDA image and the lanes that use it. *)
(*                                                                         *)
(* A lane executes one route.  In every phase it acquires the partitions   *)
(* it needs one after another, launches a kernel on each, records a        *)
(* completion event, waits for the stream and gives the partition back.    *)
(* Which partitions a route needs is the search's business (CudaSearch):   *)
(* here the lane asks for any of them, at most limits.acquisitions times.  *)
(*                                                                         *)
(* A wait on the condition variable always ends after 2 ms and starts the  *)
(* loop of acquire again, so a lane that waits is one whose actions are    *)
(* disabled.  The victim of an eviction is any idle entry: the order of    *)
(* use is not modelled.                                                    *)
(***************************************************************************)
EXTENDS Naturals, FiniteSets, FiniteSetsExt

CONSTANTS
    Callers,            \* the routes; a lane is named after its route
    Images,             \* uploaded images, numbered in order of upload
    Partitions,         \* partition numbers
    SizeOf,             \* device bytes of each partition
    Limits,             \* configurations: bytes and slots of the cache, staging
                        \* bytes; with them the bounds of the model: partitions,
                        \* acquisitions of one lane, uploaded images, whether routes
                        \* are cancelled and CUDA is maintained, the images that
                        \* are fully resident, and where lanes panic
    None

VARIABLES
    limits,     \* the configuration of this engine
    cache,      \* per image: entries, accounted bytes, poison, staged bytes
    lane,       \* per route: where its lane is
    cancelled,  \* routes whose cancellation flag is set
    inflight,   \* kernels the device has not finished: route, image, partition
    lost,       \* images of which an operation failed in a poisoning way
    abandoned   \* entries of which the loading or evicting lane panicked

cacheVars == <<limits, cache, lane, cancelled, inflight, lost, abandoned>>

Absent == [state |-> "Absent", users |-> 0, events |-> {}]

EmptyCache ==
    [entries |-> [p \in Partitions |-> Absent], bytes |-> 0,
     poison |-> FALSE, staging |-> 0]

NoLane == [at |-> "off", image |-> None, partition |-> None, victim |-> None,
           left |-> 0, outcome |-> None]

CacheInit ==
    /\ limits \in Limits
    /\ cache = [i \in Images |-> EmptyCache]
    /\ lane = [c \in Callers |-> NoLane]
    /\ cancelled = {}
    /\ inflight = {}
    /\ lost = {}
    /\ abandoned = {}

(* CudaError::new: a lost device, a failed launch or synchronisation       *)
(* poisons the context.  Of the other kinds only an unreadable image is    *)
(* told apart by the callers.                                              *)
Poisons(kind) == kind = "Poisoning"

EntriesOf(c) == cache[lane[c].image].entries

EntryOf(c) == EntriesOf(c)[lane[c].partition]

StateIn(c, states) == EntryOf(c).state \in states

At(c, place) == lane[c].at = place

Go(c, place) == lane' = [lane EXCEPT ![c].at = place]

(* The lane's route ends with a response or an error.                      *)
Finish(c, outcome) ==
    lane' = [lane EXCEPT ![c].at = "done", ![c].outcome = outcome]

PutEntry(c, entry) ==
    cache' = [cache EXCEPT ![lane[c].image].entries[lane[c].partition] = entry]

(***************************************************************************)
(* acquire                                                                 *)
(***************************************************************************)

(* The next partition of the phase; a cancelled or finished route stops.   *)
NextPartition(c) ==
    /\ At(c, "next")
    /\ IF c \in cancelled \/ lane[c].left = 0
       THEN Finish(c, "Ok")
       ELSE \E p \in Partitions :
                /\ p <= limits.partitions
                /\ lane' = [lane EXCEPT ![c].at = "acquire", ![c].partition = p,
                                        ![c].left = @ - 1]
    /\ UNCHANGED <<limits, cache, cancelled, inflight, lost, abandoned>>

AcquireStops(c) ==
    /\ At(c, "acquire")
    /\ c \in cancelled
    /\ Finish(c, "Ok")
    /\ UNCHANGED <<limits, cache, cancelled, inflight, lost, abandoned>>

AcquirePoisoned(c) ==
    /\ At(c, "acquire")
    /\ c \notin cancelled
    /\ cache[lane[c].image].poison
    /\ Finish(c, "Error")
    /\ UNCHANGED <<limits, cache, cancelled, inflight, lost, abandoned>>

Acquiring(c) ==
    /\ At(c, "acquire")
    /\ c \notin cancelled
    /\ ~cache[lane[c].image].poison

AcquireHit(c) ==
    /\ Acquiring(c)
    /\ StateIn(c, {"Ready"})
    /\ PutEntry(c, [EntryOf(c) EXCEPT !.users = @ + 1])
    /\ Go(c, "leased")
    /\ UNCHANGED <<limits, cancelled, inflight, lost, abandoned>>

(* A recorded failure is given to the next lane that asks, and forgotten.  *)
AcquireFailed(c) ==
    /\ Acquiring(c)
    /\ StateIn(c, {"Failed"})
    /\ PutEntry(c, Absent)
    /\ Finish(c, "Error")
    /\ UNCHANGED <<limits, cancelled, inflight, lost, abandoned>>

(* An entry is in use only while a lane leases it.                         *)
InUseByLease(entry) == entry.users # 0

InUse(entry) == entry.users # 0 \/ entry.events # {}

Evictable(entries) ==
    {p \in DOMAIN entries : entries[p].state = "Ready" /\ ~InUse(entries[p])}

Occupied(entries) == {p \in DOMAIN entries : entries[p].state # "Absent"}

(* prepare_slot first takes failed entries, in the order of their numbers, *)
(* until the partition fits: they hold a slot and no bytes.                *)
DropFailed(entries, bytesFull) ==
    LET failed == {p \in DOMAIN entries : entries[p].state = "Failed"}
        room == limits.slots - Cardinality(Occupied(entries))
        dropped == {p \in failed :
                       bytesFull \/ room
                           + Cardinality({q \in failed : q < p}) < 1}
    IN  [p \in DOMAIN entries |->
            IF p \in dropped THEN Absent ELSE entries[p]]

PrepareSlot(c) ==
    LET held == cache[lane[c].image]
        bytesFull == held.bytes + SizeOf[lane[c].partition] > limits.bytes
        entries == DropFailed(held.entries, bytesFull)
    IN  [entries |-> entries,
         decision |->
            IF ~bytesFull /\ Cardinality(Occupied(entries)) < limits.slots
            THEN "Available"
            ELSE IF Evictable(entries) # {} THEN "Evict" ELSE "Wait"]

AcquireReserves(c) ==
    /\ Acquiring(c)
    /\ StateIn(c, {"Absent"})
    /\ LET slot == PrepareSlot(c)  i == lane[c].image  p == lane[c].partition
       IN  /\ slot.decision = "Available"
           /\ cache' = [cache EXCEPT
                 ![i].entries = [slot.entries EXCEPT
                                    ![p] = [Absent EXCEPT !.state = "HostLoading"]],
                 ![i].bytes = @ + SizeOf[p]]
    /\ Go(c, "load")
    /\ UNCHANGED <<limits, cancelled, inflight, lost, abandoned>>

(* The victim's bytes are given back and its slot stays taken while the    *)
(* allocation is released outside the lock.                                *)
AcquireEvicts(c) ==
    /\ Acquiring(c)
    /\ StateIn(c, {"Absent"})
    /\ LET slot == PrepareSlot(c)  i == lane[c].image
       IN  /\ slot.decision = "Evict"
           /\ \E v \in Evictable(slot.entries) :
                 /\ cache' = [cache EXCEPT
                       ![i].entries = [slot.entries EXCEPT
                                          ![v] = [Absent EXCEPT !.state = "Evicting"]],
                       ![i].bytes = @ - SizeOf[v]]
                 /\ lane' = [lane EXCEPT ![c].at = "evict", ![c].victim = v]
    /\ UNCHANGED <<limits, cancelled, inflight, lost, abandoned>>

(* Waiting for a slot drops failed entries too.                            *)
AcquireWaits(c) ==
    /\ Acquiring(c)
    /\ StateIn(c, {"Absent"})
    /\ LET slot == PrepareSlot(c)
       IN  /\ slot.decision = "Wait"
           /\ slot.entries # EntriesOf(c)
           /\ cache' = [cache EXCEPT ![lane[c].image].entries = slot.entries]
    /\ UNCHANGED <<limits, lane, cancelled, inflight, lost, abandoned>>

FinishEviction(c) ==
    /\ At(c, "evict")
    /\ LET i == lane[c].image  v == lane[c].victim
       IN  cache' = [cache EXCEPT ![i].entries[v] =
                        IF @.state = "Evicting" THEN Absent ELSE @]
    /\ lane' = [lane EXCEPT ![c].at = "acquire", ![c].victim = None]
    /\ UNCHANGED <<limits, cancelled, inflight, lost, abandoned>>

(***************************************************************************)
(* load_reserved                                                           *)
(***************************************************************************)

Pending == {"HostLoading", "Copying"}

(* cancel_reserved *)
CancelReserved(c) ==
    IF StateIn(c, Pending)
    THEN [cache EXCEPT ![lane[c].image].entries[lane[c].partition] = Absent,
                       ![lane[c].image].bytes = @ - SizeOf[lane[c].partition]]
    ELSE cache

PendingBytes(entries) ==
    MapThenSumSet(LAMBDA p : SizeOf[p],
                  {p \in DOMAIN entries : entries[p].state \in Pending})

(* fail_reserved, without giving the reserved bytes back.                  *)
FailKeepsBytes(c, kind) ==
    LET i == lane[c].image
        failing == IF Poisons(kind) THEN Partitions ELSE {lane[c].partition}
    IN  [cache EXCEPT
            ![i].poison = @ \/ Poisons(kind),
            ![i].entries = [p \in Partitions |->
                IF p \in failing /\ @[p].state \in Pending
                THEN [Absent EXCEPT !.state = "Failed"] ELSE @[p]]]

(* fail_reserved: a poisoning error fails every pending entry.             *)
FailReserved(c, kind) ==
    LET i == lane[c].image
        failing == IF Poisons(kind) THEN Partitions ELSE {lane[c].partition}
        entries == cache[i].entries
    IN  [cache EXCEPT
            ![i].poison = @ \/ Poisons(kind),
            ![i].entries = [p \in Partitions |->
                IF p \in failing /\ @[p].state \in Pending
                THEN [Absent EXCEPT !.state = "Failed"] ELSE @[p]],
            ![i].bytes = @ - PendingBytes([p \in failing |-> entries[p]])]

Unstaged(held, c) ==
    [held EXCEPT ![lane[c].image].staging = @ - SizeOf[lane[c].partition]]

Lose(c, kind) == lost' = IF Poisons(kind) THEN lost \cup {lane[c].image} ELSE lost

LoadCancelled(c) ==
    /\ At(c, "load")
    /\ c \in cancelled
    /\ cache' = CancelReserved(c)
    /\ Finish(c, "Ok")
    /\ UNCHANGED <<limits, cancelled, inflight, lost, abandoned>>

(* The host cache's errors and a failed pinned allocation.                 *)
LoadFails(c) ==
    /\ At(c, "load")
    /\ \E kind \in {"ImageAccess", "Error"} :
          /\ cache' = FailReserved(c, kind)
          /\ Finish(c, kind)
    /\ UNCHANGED <<limits, cancelled, inflight, lost, abandoned>>

StagingFits(c) ==
    cache[lane[c].image].staging + SizeOf[lane[c].partition] <= limits.staging

StagingRefused(c) ==
    /\ At(c, "load")
    /\ c \notin cancelled
    /\ ~StagingFits(c)
    /\ cache' = FailReserved(c, "Error")
    /\ Finish(c, "Error")
    /\ UNCHANGED <<limits, cancelled, inflight, lost, abandoned>>

StagingReserved(c) ==
    /\ At(c, "load")
    /\ c \notin cancelled
    /\ StagingFits(c)
    /\ cache' = [cache EXCEPT
          ![lane[c].image].staging = @ + SizeOf[lane[c].partition]]
    /\ Go(c, "staged")
    /\ UNCHANGED <<limits, cancelled, inflight, lost, abandoned>>

(* The entry may have been failed by another lane since it was reserved.   *)
StartCopy(c) ==
    /\ At(c, "staged")
    /\ IF cache[lane[c].image].poison \/ ~StateIn(c, {"HostLoading"})
       THEN cache' = Unstaged(cache, c) /\ Finish(c, "Error")
       ELSE /\ cache' = [cache EXCEPT
                  ![lane[c].image].entries[lane[c].partition].state = "Copying"]
            /\ Go(c, "copy")
    /\ UNCHANGED <<limits, cancelled, inflight, lost, abandoned>>

CopyDone(c) ==
    /\ At(c, "copy")
    /\ IF cache[lane[c].image].poison \/ ~StateIn(c, {"Copying"})
       THEN cache' = Unstaged(cache, c) /\ Finish(c, "Error")
       ELSE /\ cache' = Unstaged([cache EXCEPT
                  ![lane[c].image].entries[lane[c].partition] =
                      [state |-> "Ready", users |-> 1, events |-> {}]], c)
            /\ Go(c, "leased")
    /\ UNCHANGED <<limits, cancelled, inflight, lost, abandoned>>

CopyFails(c) ==
    /\ At(c, "copy")
    /\ \E kind \in {"Error", "Poisoning"} :
          /\ cache' = Unstaged(FailReserved(c, kind), c)
          /\ Finish(c, kind)
          /\ Lose(c, kind)
    /\ UNCHANGED <<limits, cancelled, inflight, abandoned>>

(***************************************************************************)
(* one partition of launch_all_frontier and launch_all_delta               *)
(***************************************************************************)

(* DevicePartitionLease::drop                                              *)
Release(c) ==
    PutEntry(c, IF StateIn(c, {"Ready"})
                THEN [EntryOf(c) EXCEPT !.users = @ - 1] ELSE EntryOf(c))

Kernel(c) == <<c, lane[c].image, lane[c].partition>>

LeaseUnused(c) ==
    /\ At(c, "leased")
    /\ Release(c)
    /\ IF c \in cancelled THEN Finish(c, "Ok") ELSE Go(c, "next")
    /\ UNCHANGED <<limits, cancelled, inflight, lost, abandoned>>

LaunchFails(c) ==
    /\ At(c, "leased")
    /\ c \notin cancelled
    /\ \E kind \in {"Error", "Poisoning"} : Finish(c, kind) /\ Lose(c, kind)
    /\ Release(c)
    /\ UNCHANGED <<limits, cancelled, inflight, abandoned>>

LaunchKernel(c) ==
    /\ At(c, "leased")
    /\ c \notin cancelled
    /\ inflight' = inflight \cup {Kernel(c)}
    /\ Go(c, "launched")
    /\ UNCHANGED <<limits, cache, cancelled, lost, abandoned>>

(* record_completion: the event is complete when the kernel is.            *)
RecordCompletion(c) ==
    /\ At(c, "launched")
    /\ IF StateIn(c, {"Ready"})
       THEN /\ PutEntry(c, [EntryOf(c) EXCEPT
                  !.events = @ \cup ({Kernel(c)} \cap inflight)])
            /\ Go(c, "recorded")
       ELSE Finish(c, "Error") /\ UNCHANGED cache
    /\ UNCHANGED <<limits, cancelled, inflight, lost, abandoned>>

(* Without an event the stream is waited for before the lease is dropped;  *)
(* the result of that wait is ignored, and it is assumed to succeed.       *)
EventFails(c) ==
    /\ At(c, "launched")
    /\ Kernel(c) \notin inflight
    /\ Release(c)
    /\ Finish(c, "Poisoning")
    /\ Lose(c, "Poisoning")
    /\ UNCHANGED <<limits, cancelled, inflight, abandoned>>

Synchronize(c) ==
    /\ At(c, "recorded")
    /\ Kernel(c) \notin inflight
    /\ Release(c)
    /\ Go(c, "next")
    /\ UNCHANGED <<limits, cancelled, inflight, lost, abandoned>>

(* A failed wait says nothing about the kernel: the event still guards it. *)
SynchronizeFails(c) ==
    /\ At(c, "recorded")
    /\ Release(c)
    /\ Finish(c, "Poisoning")
    /\ Lose(c, "Poisoning")
    /\ UNCHANGED <<limits, cancelled, inflight, abandoned>>

(* The device finishes a kernel and the event recorded behind it.          *)
KernelCompletes(c) ==
    /\ \E kernel \in inflight :
          /\ kernel[1] = c
          /\ inflight' = inflight \ {kernel}
          /\ cache' = [cache EXCEPT
                ![kernel[2]].entries[kernel[3]].events = @ \ {kernel}]
    /\ UNCHANGED <<limits, lane, cancelled, lost, abandoned>>

(***************************************************************************)
(* A panic of the lane                                                     *)
(***************************************************************************)

(* Where a lane runs code of others outside the lock of the cache: the     *)
(* search, the host cache, the copy, the release of a victim, and what     *)
(* leads to a launch.  Left out: a panic with the lock held, after which   *)
(* every acquire of the image fails on the poisoned lock, and one between  *)
(* a launch and its event, where only calls that return errors are made.   *)
MayPanic == {"search", "next", "evict", "load", "staged", "copy", "leased"}

(* The entry that only this lane would have settled: a reservation in      *)
(* load_reserved or a victim being released.  Neither has a guard.         *)
Unsettled(c) ==
    IF At(c, "evict") THEN {<<lane[c].image, lane[c].victim>>}
    ELSE IF lane[c].at \in {"load", "staged", "copy"} /\ StateIn(c, Pending)
    THEN {<<lane[c].image, lane[c].partition>>} ELSE {}

(* Unwinding drops the lease or the staging reservation and nothing else.  *)
Unwind(c) ==
    /\ lane[c].at \in MayPanic \cap limits.panics
    /\ IF At(c, "leased") THEN Release(c)
       ELSE cache' = IF lane[c].at \in {"staged", "copy"}
                     THEN Unstaged(cache, c) ELSE cache
    /\ abandoned' = abandoned \cup Unsettled(c)
    /\ Go(c, "panicked")
    /\ UNCHANGED <<limits, cancelled, inflight, lost>>

CacheStep(c) ==
    \/ NextPartition(c) \/ AcquireStops(c) \/ AcquirePoisoned(c) \/ AcquireHit(c)
    \/ AcquireFailed(c) \/ AcquireReserves(c) \/ AcquireEvicts(c) \/ AcquireWaits(c)
    \/ FinishEviction(c) \/ LoadCancelled(c) \/ LoadFails(c) \/ StagingRefused(c)
    \/ StagingReserved(c) \/ StartCopy(c) \/ CopyDone(c) \/ CopyFails(c) \/ LeaseUnused(c)
    \/ LaunchFails(c) \/ LaunchKernel(c) \/ RecordCompletion(c) \/ EventFails(c)
    \/ Synchronize(c) \/ SynchronizeFails(c)
=============================================================================
