-------------------------- MODULE HostCacheProofs --------------------------
(***************************************************************************)
(* Proofs that the partition cache coalesces loads, keeps its counters and *)
(* limits, and never serves a route once poisoned, for every number of     *)
(* routes, workers and partitions, all sizes and all limits.               *)
(***************************************************************************)
EXTENDS HostCache, WeightTheorems

\* A step is proved by Zenon unless it names SMT, for arithmetic and sequences.
USE ZenonT(60)

\* The Shutdown message is not the id of a partition.
LEMMA StopIsNoPartition == Stop \notin Partitions
  BY CacheAssumption, SMTT(60) DEF Stop

-----------------------------------------------------------------------------
(* The channel.                                                             *)

\* A message takes the place behind the others.
LEMMA AppendPlaces ==
  ASSUME TypeOK, NEW x \in Partitions \cup {Stop}, queue' = Append(queue, x), NEW p
  PROVE  Places(p)' = IF p = x THEN Places(p) \cup {Len(queue) + 1} ELSE Places(p)
  <1>1. /\ Len(queue) \in Nat /\ DOMAIN queue = 1..Len(queue)
        /\ DOMAIN queue' = 1..(Len(queue) + 1)
        /\ queue'[Len(queue) + 1] = x
        /\ \A i \in 1..Len(queue) : queue'[i] = queue[i]
    BY SMTT(60) DEF TypeOK
  <1> QED BY <1>1, SMTT(60) DEF Places

\* When the first message leaves, the others move up.
LEMMA TailPlaces ==
  ASSUME TypeOK, queue # <<>>, queue' = Tail(queue), NEW p
  PROVE  Places(p)' = {i \in 1..(Len(queue) - 1) : i + 1 \in Places(p)}
  <1>1. /\ Len(queue) \in Nat /\ DOMAIN queue = 1..Len(queue)
        /\ DOMAIN queue' = 1..(Len(queue) - 1)
        /\ \A i \in 1..(Len(queue) - 1) : queue'[i] = queue[i + 1]
    BY SMTT(60) DEF TypeOK
  <1> QED BY <1>1, SMTT(60) DEF Places

\* So a message that is once in the channel stays there once, unless it left.
LEMMA TailKeepsOne ==
  ASSUME TypeOK, queue # <<>>, queue' = Tail(queue), NEW p
  PROVE  /\ Places(p) = {} => Places(p)' = {}
         /\ \A k : Places(p) = {k} /\ p = Head(queue) => Places(p)' = {}
         /\ \A k : Places(p) = {k} /\ p # Head(queue) =>
                     k - 1 \in DOMAIN queue' /\ Places(p)' = {k - 1}
  <1>1. Places(p)' = {i \in 1..(Len(queue) - 1) : i + 1 \in Places(p)}
    BY TailPlaces
  <1>2. /\ Len(queue) \in Nat /\ DOMAIN queue = 1..Len(queue) /\ 1 \in DOMAIN queue
        /\ DOMAIN queue' = 1..(Len(queue) - 1) /\ Head(queue) = queue[1]
    BY SMTT(60) DEF TypeOK
  <1>3. Places(p) \subseteq 1..Len(queue) /\ (1 \in Places(p) <=> p = Head(queue))
    BY <1>2 DEF Places
  <1>4. Places(p) = {} => Places(p)' = {}
    BY <1>1
  <1>5. ASSUME NEW k, Places(p) = {k}, p = Head(queue) PROVE Places(p)' = {}
    <2>1. k = 1
      BY <1>3, <1>5
    <2> QED BY <1>1, <1>5, <2>1, SMTT(60)
  <1>6. ASSUME NEW k, Places(p) = {k}, p # Head(queue)
        PROVE  k - 1 \in DOMAIN queue' /\ Places(p)' = {k - 1}
    <2>1. k \in 1..Len(queue) /\ k # 1
      BY <1>3, <1>6
    <2>2. k \in Nat /\ k - 1 \in 1..(Len(queue) - 1) /\ (k - 1) + 1 = k
      BY <1>2, <2>1, SMTT(60)
    <2>3. \A i \in 1..(Len(queue) - 1) : i + 1 = k => i = k - 1
      BY <2>2, SMTT(60)
    <2> QED BY <1>1, <1>2, <1>6, <2>2, <2>3
  <1> QED BY <1>4, <1>5, <1>6

-----------------------------------------------------------------------------
(* Who owns a load.                                                         *)

\* Nothing that concerns the load of p changes.
SameLoad(p) ==
    /\ Askers(p)' = Askers(p) /\ Places(p)' = Places(p) /\ Loaders(p)' = Loaders(p)
    /\ entry'[p] = "loading" <=> entry[p] = "loading"

\* A load that a step does not concern keeps its owner.
LEMMA LoadKept ==
  ASSUME NEW p, OwnedIfLoading(p), SameLoad(p)
  PROVE  OwnedIfLoading(p)'
  <1>1. CASE entry[p] = "loading"
    <2>1. Owned(p)
      BY <1>1 DEF OwnedIfLoading
    <2>2. CASE \E c \in Clients : Askers(p) = {c} /\ Places(p) = {} /\ Loaders(p) = {}
      BY <1>1, <2>2 DEF SameLoad, OwnedIfLoading, Owned
    <2>3. CASE \E i \in DOMAIN queue : Askers(p) = {} /\ Places(p) = {i} /\ Loaders(p) = {}
      <3>1. PICK i \in DOMAIN queue : Askers(p) = {} /\ Places(p) = {i} /\ Loaders(p) = {}
        BY <2>3
      <3>2. Places(p)' = {i}
        BY <3>1 DEF SameLoad
      <3>3. i \in DOMAIN queue'
        BY <3>2 DEF Places
      <3> QED BY <1>1, <3>1, <3>2, <3>3 DEF SameLoad, OwnedIfLoading, Owned
    <2>4. CASE \E w \in Workers : Askers(p) = {} /\ Places(p) = {} /\ Loaders(p) = {w}
      BY <1>1, <2>4 DEF SameLoad, OwnedIfLoading, Owned
    <2> QED BY <2>1, <2>2, <2>3, <2>4 DEF Owned
  <1>2. CASE entry[p] # "loading"
    BY <1>2 DEF SameLoad, OwnedIfLoading, Unowned
  <1> QED BY <1>1, <1>2

\* An owner is the only one, and its entry is loading.
LEMMA OwnerIsAlone ==
  ASSUME NEW p, OwnedIfLoading(p)
  PROVE  /\ \A c \in Askers(p) :
              entry[p] = "loading" /\ Askers(p) = {c} /\ Places(p) = {} /\ Loaders(p) = {}
         /\ \A i \in Places(p) :
              entry[p] = "loading" /\ Askers(p) = {} /\ Places(p) = {i} /\ Loaders(p) = {}
         /\ \A w \in Loaders(p) :
              entry[p] = "loading" /\ Askers(p) = {} /\ Places(p) = {} /\ Loaders(p) = {w}
  BY DEF OwnedIfLoading, Owned, Unowned

\* A route that neither had nor gets a read to send leaves the askers alone.
LEMMA AskersKept ==
  ASSUME NEW c, pc[c] # "enqueue", pc'[c] # "enqueue",
         \A d \in Clients : d # c => pc'[d] = pc[d] /\ want'[d] = want[d],
         NEW p
  PROVE  Askers(p)' = Askers(p)
  BY DEF Askers

-----------------------------------------------------------------------------
(* Counters and stopping, for steps that do not concern them.               *)

\* The counters stay right when entries and started loads stay.
LEMMA CountKept ==
  ASSUME CountInv, UNCHANGED <<entry, bytes, staging, depth>>, Started' = Started,
         \A w \in Started : job'[w] = job[w]
  PROVE  CountInv'
  <1>1. \A x : In(x)' = In(x)
    BY DEF In
  <1>2. Cached' = Cached /\ Entries' = Entries
    BY <1>1 DEF Cached, Entries
  <1>3. Unstarted' = Unstarted
    BY <1>1 DEF Unstarted
  <1>4. RequiredSum(Cached)' = RequiredSum(Cached)
    BY <1>2 DEF RequiredSum
  <1> QED BY <1>1, <1>2, <1>3, <1>4 DEF CountInv

\* Stopping the pool is where it was when the channel and the stopped workers
\* stay.
LEMMA StopKept ==
  ASSUME StopInv, UNCHANGED <<queue, stop, stops>>, Stopped' = Stopped
  PROVE  StopInv'
  BY DEF StopInv, Reads

-----------------------------------------------------------------------------
(* The steps of a route that reserve nothing.                               *)

RouteOnly(c) ==
    /\ UNCHANGED <<entry, bytes, staging, depth, queue, worker, job, stop, stops>>
    /\ poison' \in BOOLEAN
    /\ pc' \in [Clients -> {"idle", "acquire", "enqueue", "holding", "failed"}]
    /\ want' \in [Clients -> Partitions \cup {Stop}]
    /\ \A d \in Clients : d # c => pc'[d] = pc[d] /\ want'[d] = want[d]
    /\ pc[c] # "enqueue" /\ pc'[c] # "enqueue"
    /\ pc'[c] \in {"acquire", "holding"} => want'[c] \in Partitions
    /\ pc'[c] = "holding" => entry[want'[c]] = "ready"
    /\ stop # "no" => pc'[c] = "idle"

\* Asking for a partition, cancellation at the head of the loop, the poison, a
\* hit, a wait, and the return of a route with its partition or an error.
LEMMA RouteOnlySteps ==
  ASSUME CacheInv, NEW c \in Clients,
         \/ \E p \in Partitions : Request(c, p)
         \/ AcquireCancelled(c) \/ Release(c) \/ ReturnError(c)
         \/ AcquirePoisoned(c) \/ AcquireHit(c) \/ AcquireWait(c)
  PROVE  RouteOnly(c)
  <1> USE DEF cache, pool, clients
  <1>0. TypeOK /\ RouteInv
    BY DEF CacheInv
  <1>1. ASSUME NEW p \in Partitions, Request(c, p) PROVE RouteOnly(c)
    BY <1>0, <1>1 DEF Request, RouteOnly, TypeOK
  <1>2. ASSUME NEW where \in {"acquire", "holding", "failed"}, Return(c, where),
               UNCHANGED <<cache, pool>>
        PROVE  RouteOnly(c)
    BY <1>0, <1>2 DEF Return, RouteOnly, TypeOK
  <1>3. CASE AcquirePoisoned(c)
    BY <1>0, <1>3 DEF AcquirePoisoned, Fail, RouteOnly, TypeOK, RouteInv
  <1>4. CASE AcquireHit(c)
    <2>1. /\ UNCHANGED <<entry, bytes, staging, depth, poison, queue, worker, job, stop, stops, want>>
          /\ pc[c] = "acquire" /\ entry[want[c]] = "ready"
          /\ pc' = [pc EXCEPT ![c] = "holding"]
      BY <1>4 DEF AcquireHit, Step
    <2> QED BY <1>0, <2>1 DEF RouteOnly, TypeOK, RouteInv
  <1>5. CASE AcquireWait(c)
    <2>1. UNCHANGED <<entry, bytes, staging, depth, poison, queue, worker, job, stop, stops, want, pc>>
      BY <1>5 DEF AcquireWait
    <2>2. pc[c] = "acquire"
      BY <1>5 DEF AcquireWait
    <2> QED BY <1>0, <2>1, <2>2 DEF RouteOnly, TypeOK, RouteInv
  <1> QED BY <1>1, <1>2, <1>3, <1>4, <1>5 DEF AcquireCancelled, Release, ReturnError

\* They keep the invariant.
LEMMA RouteOnlyInv ==
  ASSUME CacheInv, NEW c \in Clients, RouteOnly(c)
  PROVE  CacheInv'
  <1>1. TypeOK'
    BY DEF CacheInv, TypeOK, RouteOnly
  <1>2. RouteInv'
    BY DEF CacheInv, RouteInv, RouteOnly
  <1>3. LoadInv'
    <2>1. ASSUME NEW p \in Partitions PROVE OwnedIfLoading(p)'
      <3>1. Askers(p)' = Askers(p)
        BY AskersKept DEF RouteOnly
      <3>2. Places(p)' = Places(p) /\ Loaders(p)' = Loaders(p)
        BY DEF RouteOnly, Places, Loaders
      <3> QED BY <3>1, <3>2, LoadKept DEF CacheInv, LoadInv, SameLoad, RouteOnly
    <2> QED BY <2>1 DEF CacheInv, LoadInv, RouteOnly
  <1>4. StopInv'
    BY StopKept DEF CacheInv, RouteOnly, Stopped
  <1>5. CountInv'
    BY CountKept DEF CacheInv, RouteOnly, Started
  <1> QED BY <1>1, <1>2, <1>3, <1>4, <1>5 DEF CacheInv

-----------------------------------------------------------------------------
(* Sums over partitions.                                                    *)

\* Partitions have natural sizes.
LEMMA SizeType ==
  ASSUME NEW p \in Partitions
  PROVE  Size[p] \in Nat /\ Required(p) \in Nat /\ Required(p) = [q \in Partitions |-> Required(q)][p]
  BY CacheAssumption, SMTT(60) DEF Required

\* Sets of partitions are finite and have natural sums.
LEMMA PartitionSums ==
  ASSUME NEW S \in SUBSET Partitions
  PROVE  /\ IsFiniteSet(S) /\ Cardinality(S) \in Nat
         /\ IsFiniteSet(Units(S, Size)) /\ Weight(S, Size) \in Nat
         /\ IsFiniteSet(Units(S, [q \in Partitions |-> Required(q)])) /\ RequiredSum(S) \in Nat
  <1>1. IsFiniteSet(S) /\ Cardinality(S) \in Nat
    BY CacheAssumption, FS_Subset, CountType
  <1>2. /\ \A p \in S : Size[p] \in Nat
        /\ \A p \in S : [q \in Partitions |-> Required(q)][p] \in Nat
    BY SizeType
  <1> QED BY <1>1, <1>2, WeightFinite DEF RequiredSum

\* A load adds the sizes of its partition to the sums ...
LEMMA SumsAdd ==
  ASSUME NEW S \in SUBSET Partitions, NEW p \in Partitions, p \notin S
  PROVE  /\ Cardinality(S \cup {p}) = Cardinality(S) + 1
         /\ Weight(S \cup {p}, Size) = Weight(S, Size) + Size[p]
         /\ RequiredSum(S \cup {p}) = RequiredSum(S) + Required(p)
  <1> DEFINE w == [q \in Partitions |-> Required(q)]
  <1>1. IsFiniteSet(S) /\ IsFiniteSet(Units(S, Size)) /\ IsFiniteSet(Units(S, w))
    BY PartitionSums
  <1>2. Size[p] \in Nat /\ w[p] = Required(p) /\ w[p] \in Nat
    BY SizeType
  <1> HIDE DEF w
  <1>3. Weight(S \cup {p}, w) = Weight(S, w) + w[p]
    BY <1>1, <1>2, WeightAdd
  <1>4. Weight(S \cup {p}, Size) = Weight(S, Size) + Size[p]
    BY <1>1, <1>2, WeightAdd
  <1>5. Cardinality(S \cup {p}) = Cardinality(S) + 1
    BY <1>1, CountAdd
  <1> QED BY <1>2, <1>3, <1>4, <1>5 DEF RequiredSum, w

\* ... and a partition that goes takes them away.
LEMMA SumsRemove ==
  ASSUME NEW S \in SUBSET Partitions, NEW p \in S
  PROVE  /\ Cardinality(S) = Cardinality(S \ {p}) + 1
         /\ Weight(S, Size) = Weight(S \ {p}, Size) + Size[p]
         /\ RequiredSum(S) = RequiredSum(S \ {p}) + Required(p)
  <1> DEFINE w == [q \in Partitions |-> Required(q)]
  <1>1. IsFiniteSet(S) /\ IsFiniteSet(Units(S, Size)) /\ IsFiniteSet(Units(S, w))
    BY PartitionSums
  <1>2. Size[p] \in Nat /\ w[p] = Required(p) /\ w[p] \in Nat
    BY SizeType
  <1> HIDE DEF w
  <1>3. Weight(S, w) = Weight(S \ {p}, w) + w[p]
    BY <1>1, <1>2, WeightRemove
  <1>4. Weight(S, Size) = Weight(S \ {p}, Size) + Size[p]
    BY <1>1, <1>2, WeightRemove
  <1>5. Cardinality(S) = Cardinality(S \ {p}) + 1
    BY <1>1, CountRemove
  <1> QED BY <1>2, <1>3, <1>4, <1>5 DEF RequiredSum, w

\* An eviction takes the sums of what it evicts.
LEMMA SumsSplit ==
  ASSUME NEW S \in SUBSET Partitions, NEW V \in SUBSET S
  PROVE  RequiredSum(S) = RequiredSum(S \ V) + RequiredSum(V)
  BY PartitionSums, WeightSplit DEF RequiredSum

\* The sets that the counters stand for are sets of partitions, and the workers
\* that load are finitely many.
LEMMA CountedSets ==
  /\ Cached \in SUBSET Partitions /\ Entries \in SUBSET Partitions
  /\ \A x : In(x) \in SUBSET Partitions
  /\ Unstarted \in SUBSET Partitions
  /\ IsFiniteSet(Workers) /\ Cardinality(Workers) \in Nat
  /\ IsFiniteSet(Started) /\ Cardinality(Started) \in Nat
  /\ IsFiniteSet(Stopped) /\ Cardinality(Stopped) \in Nat
  BY CacheAssumption, FS_Subset, CountType
  DEF Cached, Entries, In, Unstarted, Started, Stopped

-----------------------------------------------------------------------------
(* The route that owns a load.                                              *)

\* A read that was sent: its place in the channel owns the load.
LEMMA EnqueueSentInv ==
  ASSUME CacheInv, NEW c \in Clients, EnqueueSent(c)
  PROVE  CacheInv'
  <1> DEFINE p == want[c]
  <1>0. TypeOK /\ RouteInv /\ LoadInv /\ StopInv /\ CountInv
    BY DEF CacheInv
  <1>1. /\ pc[c] = "enqueue" /\ queue' = Append(queue, p) /\ pc' = [pc EXCEPT ![c] = "acquire"]
        /\ UNCHANGED <<entry, bytes, staging, depth, poison, want, worker, job, stop, stops>>
    BY DEF EnqueueSent, Step, cache
  <1>2. p \in Partitions /\ c \in Askers(p) /\ stop = "no"
    BY <1>0, <1>1 DEF RouteInv, Askers
  <1>3. /\ pc'[c] = "acquire" /\ \A d \in Clients : d # c => pc'[d] = pc[d]
        /\ pc' \in [Clients -> {"idle", "acquire", "enqueue", "holding", "failed"}]
    BY <1>0, <1>1 DEF TypeOK
  <1>4. TypeOK'
    <2>1. queue' \in Seq(Partitions \cup {Stop})
      BY <1>0, <1>1, <1>2, SMTT(60) DEF TypeOK
    <2> QED BY <1>0, <1>1, <1>3, <2>1 DEF TypeOK
  <1>5. RouteInv'
    BY <1>0, <1>1, <1>2, <1>3 DEF RouteInv
  <1>6. LoadInv'
    <2>1. ASSUME NEW q \in Partitions, q # p PROVE OwnedIfLoading(q)'
      <3>1. Askers(q)' = Askers(q)
        BY <1>1, <1>3, <2>1 DEF Askers
      <3>2. Places(q)' = Places(q)
        BY <1>0, <1>1, <1>2, <2>1, AppendPlaces
      <3>3. Loaders(q)' = Loaders(q)
        BY <1>1 DEF Loaders
      <3> QED BY <1>0, <1>1, <3>1, <3>2, <3>3, LoadKept DEF LoadInv, SameLoad
    <2>2. OwnedIfLoading(p)'
      <3>1. entry[p] = "loading" /\ Askers(p) = {c} /\ Places(p) = {} /\ Loaders(p) = {}
        BY <1>0, <1>2, OwnerIsAlone DEF LoadInv
      <3>2. Askers(p)' = {}
        BY <1>1, <1>3, <3>1 DEF Askers
      <3>3. Places(p)' = {Len(queue) + 1}
        BY <1>0, <1>1, <1>2, <3>1, AppendPlaces
      <3>4. Loaders(p)' = {}
        BY <1>1, <3>1 DEF Loaders
      <3>5. Len(queue) + 1 \in DOMAIN queue'
        BY <3>3 DEF Places
      <3> QED BY <1>1, <3>1, <3>2, <3>3, <3>4, <3>5 DEF OwnedIfLoading, Owned
    <2> QED BY <1>0, <1>1, <2>1, <2>2 DEF LoadInv
  <1>7. StopInv'
    <2>1. Stopped' = {} /\ Stopped = {}
      BY <1>0, <1>1, <1>2 DEF StopInv, Stopped
    <2>2. Reads(Len(queue))
      BY <1>0, <1>2 DEF StopInv
    <2>3. /\ Len(queue') = Len(queue) + 1 /\ Len(queue) \in Nat
          /\ DOMAIN queue = 1..Len(queue) /\ DOMAIN queue' = 1..(Len(queue) + 1)
          /\ queue'[Len(queue) + 1] = p
          /\ \A i \in 1..Len(queue) : queue'[i] = queue[i]
      BY <1>0, <1>1, SMTT(60) DEF TypeOK
    <2>4. p # Stop
      BY <1>2, StopIsNoPartition
    <2>5. \A i \in DOMAIN queue' : ~(i > Len(queue')) /\ queue'[i] # Stop
      BY <2>2, <2>3, <2>4, SMTT(60) DEF Reads
    <2>6. Reads(Len(queue))'
      BY <2>5 DEF Reads
    <2>7. Len(queue') \in 0..Len(queue')
      BY <2>3, SMTT(60)
    <2> QED BY <1>1, <1>2, <2>1, <2>6, <2>7 DEF StopInv
  <1>8. CountInv'
    BY <1>0, <1>1, CountKept DEF Started
  <1> QED BY <1>4, <1>5, <1>6, <1>7, <1>8 DEF CacheInv

\* What an eviction removes is ready and held by no route.
LEMMA EvictedAreFree ==
  ASSUME CacheInv, NEW V \in SUBSET Evictable
  PROVE  /\ V \subseteq Cached /\ V \subseteq Entries /\ V \cap In("loading") = {}
         /\ \A q \in V : q \in Partitions /\ entry[q] = "ready"
         /\ \A c \in Clients : pc[c] = "holding" => want[c] \notin V
  BY DEF Evictable, Ready, In, Cached, Entries, Pinned

\* A miss for which there is room: the route that reserved owns the load, and the
\* limits that acquire compares with still hold.
LEMMA MissReserves ==
  ASSUME CacheInv, NEW c \in Clients, AcquireMiss(c), NEW V \in SUBSET Evictable,
         FitsWithout(want[c], V),
         entry' = [q \in Partitions |-> IF q = want[c] THEN "loading"
                                        ELSE IF q \in V THEN "absent" ELSE entry[q]],
         bytes' = (bytes - RequiredSum(V)) + Required(want[c]),
         staging' = staging + Size[want[c]], depth' = depth + 1, Step(c, "enqueue")
  PROVE  CacheInv'
  <1>0. TypeOK /\ RouteInv /\ LoadInv /\ StopInv /\ CountInv
    BY DEF CacheInv
  <1>p. PICK p \in Partitions : p = want[c]
    BY <1>0 DEF AcquireMiss, RouteInv
  <1>1. /\ pc[c] = "acquire" /\ entry[p] = "absent" /\ ~Saturated(p)
        /\ pc' = [pc EXCEPT ![c] = "enqueue"]
        /\ UNCHANGED <<want, poison, queue, worker, job, stop, stops>>
    BY <1>p DEF AcquireMiss, Step, pool
  <1>2. stop = "no"
    BY <1>0, <1>1 DEF RouteInv
  <1>3. /\ pc'[c] = "enqueue" /\ \A d \in Clients : d # c => pc'[d] = pc[d]
        /\ pc' \in [Clients -> {"idle", "acquire", "enqueue", "holding", "failed"}]
    BY <1>0, <1>1 DEF TypeOK
  <1>4. /\ V \subseteq Cached /\ V \subseteq Entries /\ V \cap In("loading") = {}
        /\ \A q \in V : q \in Partitions /\ entry[q] = "ready"
        /\ \A d \in Clients : pc[d] = "holding" => want[d] \notin V
    BY EvictedAreFree
  <1>5. /\ entry' \in [Partitions -> {"absent", "loading", "ready", "failed"}]
        /\ entry'[p] = "loading"
        /\ \A q \in Partitions : q # p => entry'[q] = IF q \in V THEN "absent" ELSE entry[q]
    BY <1>0, <1>p DEF TypeOK
  <1>6. /\ In("loading")' = In("loading") \cup {p} /\ p \notin In("loading")
        /\ Cached' = (Cached \ V) \cup {p} /\ p \notin Cached \ V
        /\ Entries' = (Entries \ V) \cup {p} /\ p \notin Entries \ V
    <2>1. p \notin V
      BY <1>1, <1>4
    <2>2. /\ In("loading")' = In("loading") \cup {p}
          /\ In("ready")' = In("ready") \ V
          /\ Entries' = (Entries \ V) \cup {p}
      BY <1>1, <1>4, <1>5, <2>1, SMTT(60) DEF In, Entries
    <2>3. p \notin In("loading") /\ p \notin In("ready") /\ p \notin Entries
      BY <1>1 DEF In, Entries
    <2> QED BY <1>4, <2>2, <2>3 DEF Cached
  <1>7. Unowned(p)
    BY <1>0, <1>1, <1>2 DEF LoadInv, OwnedIfLoading
  <1>8. Started' = Started /\ Unstarted' = Unstarted \cup {p} /\ p \notin Unstarted
    <2>1. Started' = Started
      BY <1>1 DEF Started
    <2>2. \A w \in Started : job[w] # p
      BY <1>7 DEF Unowned, Loaders, Started
    <2> QED BY <1>1, <1>6, <2>1, <2>2 DEF Unstarted
  <1>9. CountInv'
    <2>1. /\ Cached \in SUBSET Partitions /\ V \in SUBSET Cached
          /\ Cached \ V \in SUBSET Partitions /\ Entries \ V \in SUBSET Partitions
          /\ In("loading") \in SUBSET Partitions /\ Unstarted \in SUBSET Partitions
      BY <1>4, CountedSets
    <2>2. RequiredSum(Cached) = RequiredSum(Cached \ V) + RequiredSum(V)
      BY <2>1, SumsSplit
    <2>3. RequiredSum(Cached') = RequiredSum(Cached \ V) + Required(p)
      BY <1>6, <2>1, SumsAdd
    <2>4. /\ RequiredSum(Cached \ V) \in Nat /\ RequiredSum(V) \in Nat /\ Required(p) \in Nat
          /\ Size[p] \in Nat /\ Weight(In("loading"), Size) \in Nat
      BY <2>1, PartitionSums, SizeType
    <2>5. bytes' = RequiredSum(Cached') /\ bytes' <= MaxBytes
      <3>1. /\ bytes = RequiredSum(Cached) /\ (bytes - RequiredSum(V)) + Required(p) <= MaxBytes
            /\ bytes' = (bytes - RequiredSum(V)) + Required(p)
        BY <1>0, <1>p DEF CountInv, FitsWithout
      <3> QED BY <2>2, <2>3, <2>4, <3>1, SMTT(60)
    <2>6. Weight(In("loading")', Size) = Weight(In("loading"), Size) + Size[p]
      BY <1>6, <2>1, SumsAdd
    <2>7. staging' = Weight(In("loading")', Size) /\ staging' <= MaxStaging
      <3>1. /\ staging = Weight(In("loading"), Size) /\ staging' = staging + Size[p]
            /\ ~(staging + Size[p] > MaxStaging)
        BY <1>0, <1>1, <1>p DEF CountInv, Saturated
      <3> QED BY <2>4, <2>6, <3>1, CacheAssumption, SMTT(60)
    <2>8. Cardinality(Unstarted') = Cardinality(Unstarted) + 1
      BY <1>8, <2>1, SumsAdd
    <2>9. Cardinality(In("loading")') = Cardinality(In("loading")) + 1
      BY <1>6, <2>1, SumsAdd
    <2>10. Cardinality(Entries') = Cardinality(Entries \ V) + 1
      BY <1>6, <2>1, SumsAdd
    <2>11. /\ Cardinality(Unstarted) \in Nat /\ Cardinality(In("loading")) \in Nat
           /\ Cardinality(Entries \ V) \in Nat
           /\ Cardinality(Workers) \in Nat /\ Cardinality(Started) \in Nat
      BY <2>1, PartitionSums, CountedSets
    <2>12. /\ depth = Cardinality(Unstarted) /\ ~(depth >= MaxQueued + Cardinality(Workers))
           /\ Cardinality(In("loading")) = depth + Cardinality(Started)
           /\ Cardinality(Entries \ V) < MaxEntries
      BY <1>0, <1>1, <1>p DEF CountInv, Saturated, FitsWithout
    <2>13. /\ depth' = Cardinality(Unstarted') /\ depth' <= MaxQueued + Cardinality(Workers)
           /\ Cardinality(In("loading")') = depth' + Cardinality(Started)
      BY <2>8, <2>9, <2>11, <2>12, CacheAssumption, SMTT(60)
    <2>14. Cardinality(Entries') <= MaxEntries
      BY <2>10, <2>11, <2>12, CacheAssumption, SMTT(60)
    <2>15. RequiredSum(Cached)' = RequiredSum(Cached') /\ Weight(In("loading"), Size)' = Weight(In("loading")', Size)
      BY DEF RequiredSum
    <2> QED BY <1>8, <2>5, <2>7, <2>13, <2>14, <2>15 DEF CountInv
  <1>10. TypeOK'
    <2>1. bytes' \in Nat /\ staging' \in Nat /\ depth' \in Nat
      <3>1. Cached' \in SUBSET Partitions /\ In("loading")' \in SUBSET Partitions
        BY <1>6, CountedSets
      <3>2. RequiredSum(Cached') \in Nat /\ Weight(In("loading")', Size) \in Nat
        BY <3>1, PartitionSums
      <3>3. depth' \in Nat
        BY <1>0, SMTT(60) DEF TypeOK
      <3> QED BY <1>9, <3>2, <3>3 DEF CountInv, RequiredSum
    <2> QED BY <1>0, <1>1, <1>3, <1>5, <2>1 DEF TypeOK
  <1>11. RouteInv'
    BY <1>0, <1>1, <1>2, <1>3, <1>4, <1>5, <1>p DEF RouteInv
  <1>12. LoadInv'
    <2>1. ASSUME NEW q \in Partitions PROVE Places(q)' = Places(q) /\ Loaders(q)' = Loaders(q)
      BY <1>1 DEF Places, Loaders
    <2>2. ASSUME NEW q \in Partitions, q # p PROVE OwnedIfLoading(q)'
      <3>1. Askers(q)' = Askers(q)
        BY <1>1, <1>3, <1>p, <2>2 DEF Askers
      <3>2. entry'[q] = "loading" <=> entry[q] = "loading"
        BY <1>4, <1>5, <2>2 DEF In
      <3> QED BY <1>0, <2>1, <3>1, <3>2, LoadKept, <2>2 DEF LoadInv, SameLoad
    <2>3. OwnedIfLoading(p)'
      <3>1. Askers(p)' = {c}
        BY <1>1, <1>3, <1>7, <1>p DEF Askers, Unowned
      <3>2. Places(p)' = {} /\ Loaders(p)' = {}
        BY <1>7, <2>1 DEF Unowned
      <3>3. Owned(p)'
        BY <3>1, <3>2 DEF Owned
      <3> QED BY <1>5, <3>3 DEF OwnedIfLoading
    <2> QED BY <1>0, <1>1, <2>2, <2>3 DEF LoadInv
  <1>13. StopInv'
    BY <1>0, <1>1, StopKept DEF Stopped
  <1> QED BY <1>9, <1>10, <1>11, <1>12, <1>13 DEF CacheInv

\* A miss that finds no room has only evicted.
LEMMA MissFails ==
  ASSUME CacheInv, NEW c \in Clients, AcquireMiss(c), NEW V \in SUBSET Evictable,
         entry' = [q \in Partitions |-> IF q \in V THEN "absent" ELSE entry[q]],
         bytes' = bytes - RequiredSum(V), UNCHANGED <<staging, depth>>, Fail(c, "full")
  PROVE  CacheInv'
  <1>0. TypeOK /\ RouteInv /\ LoadInv /\ StopInv /\ CountInv
    BY DEF CacheInv
  <1>1. /\ pc[c] = "acquire" /\ pc' = [pc EXCEPT ![c] = "failed"]
        /\ UNCHANGED <<want, poison, queue, worker, job, stop, stops>>
    BY DEF AcquireMiss, Fail, pool
  <1>2. stop = "no"
    BY <1>0, <1>1 DEF RouteInv
  <1>3. /\ pc'[c] = "failed" /\ \A d \in Clients : d # c => pc'[d] = pc[d]
        /\ pc' \in [Clients -> {"idle", "acquire", "enqueue", "holding", "failed"}]
    BY <1>0, <1>1 DEF TypeOK
  <1>4. /\ V \subseteq Cached /\ V \subseteq Entries /\ V \cap In("loading") = {}
        /\ \A q \in V : q \in Partitions /\ entry[q] = "ready"
        /\ \A d \in Clients : pc[d] = "holding" => want[d] \notin V
    BY EvictedAreFree
  <1>5. /\ entry' \in [Partitions -> {"absent", "loading", "ready", "failed"}]
        /\ \A q \in Partitions : entry'[q] = IF q \in V THEN "absent" ELSE entry[q]
    BY <1>0 DEF TypeOK
  <1>6. In("loading")' = In("loading") /\ Cached' = Cached \ V /\ Entries' = Entries \ V
    <2>1. /\ In("loading")' = In("loading")
          /\ In("ready")' = In("ready") \ V
          /\ Entries' = Entries \ V
      BY <1>4, <1>5, SMTT(60) DEF In, Entries
    <2> QED BY <1>4, <2>1 DEF Cached
  <1>7. Started' = Started /\ Unstarted' = Unstarted
    BY <1>1, <1>6 DEF Started, Unstarted
  <1>8. CountInv' /\ bytes' \in Nat
    <2>1. /\ Cached \in SUBSET Partitions /\ V \in SUBSET Cached
          /\ Entries \in SUBSET Partitions /\ Entries \ V \in SUBSET Entries
      BY <1>4, CountedSets
    <2>2. RequiredSum(Cached) = RequiredSum(Cached \ V) + RequiredSum(V)
      BY <2>1, SumsSplit
    <2>3. RequiredSum(Cached \ V) \in Nat /\ RequiredSum(V) \in Nat
      BY <2>1, PartitionSums
    <2>4. bytes = RequiredSum(Cached) /\ bytes <= MaxBytes
      BY <1>0 DEF CountInv
    <2>5. bytes' = RequiredSum(Cached \ V) /\ bytes' <= MaxBytes /\ bytes' \in Nat
      BY <2>2, <2>3, <2>4, CacheAssumption, SMTT(60)
    <2>6. Cardinality(Entries \ V) <= Cardinality(Entries)
      BY <2>1, PartitionSums, FS_Subset
    <2>7. Cardinality(Entries \ V) \in Nat /\ Cardinality(Entries) \in Nat
      BY <2>1, PartitionSums
    <2>8. Cardinality(Entries) <= MaxEntries
      BY <1>0 DEF CountInv
    <2>9. Cardinality(Entries') <= MaxEntries
      BY <1>6, <2>6, <2>7, <2>8, CacheAssumption, SMTT(60)
    <2>10. RequiredSum(Cached)' = RequiredSum(Cached \ V)
      BY <1>6 DEF RequiredSum
    <2> QED BY <1>0, <1>6, <1>7, <2>5, <2>9, <2>10 DEF CountInv
  <1>9. TypeOK'
    BY <1>0, <1>1, <1>3, <1>5, <1>8 DEF TypeOK
  <1>10. RouteInv'
    BY <1>0, <1>1, <1>2, <1>3, <1>4, <1>5 DEF RouteInv
  <1>11. LoadInv'
    <2>1. ASSUME NEW q \in Partitions PROVE OwnedIfLoading(q)'
      <3>1. Askers(q)' = Askers(q)
        BY <1>1, <1>3, AskersKept
      <3>2. Places(q)' = Places(q) /\ Loaders(q)' = Loaders(q)
        BY <1>1 DEF Places, Loaders
      <3>3. entry'[q] = "loading" <=> entry[q] = "loading"
        BY <1>4, <1>5 DEF In
      <3> QED BY <1>0, <3>1, <3>2, <3>3, LoadKept DEF LoadInv, SameLoad
    <2> QED BY <1>0, <1>1, <2>1 DEF LoadInv
  <1>12. StopInv'
    BY <1>0, <1>1, StopKept DEF Stopped
  <1> QED BY <1>8, <1>9, <1>10, <1>11, <1>12 DEF CacheInv

\* A miss reserves or fails.
LEMMA AcquireMissInv ==
  ASSUME CacheInv, NEW c \in Clients, AcquireMiss(c)
  PROVE  CacheInv'
  <1>1. PICK V \in SUBSET Evictable :
          IF FitsWithout(want[c], V)
          THEN /\ entry' = [q \in Partitions |->
                              IF q = want[c] THEN "loading"
                              ELSE IF q \in V THEN "absent" ELSE entry[q]]
               /\ bytes' = (bytes - RequiredSum(V)) + Required(want[c])
               /\ staging' = staging + Size[want[c]]
               /\ depth' = depth + 1
               /\ Step(c, "enqueue")
          ELSE /\ entry' = [q \in Partitions |-> IF q \in V THEN "absent" ELSE entry[q]]
               /\ bytes' = bytes - RequiredSum(V)
               /\ Fail(c, "full")
               /\ UNCHANGED <<staging, depth>>
    BY DEF AcquireMiss
  <1> QED BY <1>1, MissReserves, MissFails

\* The sums that an entry leaves which stops loading: saturating_sub never
\* saturates.
LEMMA LoadEndsCount ==
  ASSUME CacheInv, NEW p \in Partitions, entry[p] = "loading"
  PROVE  /\ SaturatingSub(bytes, Required(p)) = RequiredSum(Cached \ {p})
         /\ SaturatingSub(bytes, Required(p)) \in Nat
         /\ SaturatingSub(bytes, Required(p)) <= MaxBytes
         /\ SaturatingSub(staging, Size[p]) = Weight(In("loading") \ {p}, Size)
         /\ SaturatingSub(staging, Size[p]) \in Nat
         /\ SaturatingSub(staging, Size[p]) <= MaxStaging
         /\ Cardinality(In("loading") \ {p}) \in Nat
         /\ Cardinality(In("loading")) = Cardinality(In("loading") \ {p}) + 1
  <1>1. /\ Cached \in SUBSET Partitions /\ p \in Cached
        /\ In("loading") \in SUBSET Partitions /\ p \in In("loading")
        /\ Cached \ {p} \in SUBSET Partitions /\ In("loading") \ {p} \in SUBSET Partitions
    BY CountedSets DEF Cached, In
  <1>2. RequiredSum(Cached) = RequiredSum(Cached \ {p}) + Required(p)
    BY <1>1, SumsRemove
  <1>3. /\ Weight(In("loading"), Size) = Weight(In("loading") \ {p}, Size) + Size[p]
        /\ Cardinality(In("loading")) = Cardinality(In("loading") \ {p}) + 1
    BY <1>1, SumsRemove
  <1>4. /\ RequiredSum(Cached \ {p}) \in Nat /\ Weight(In("loading") \ {p}, Size) \in Nat
        /\ Cardinality(In("loading") \ {p}) \in Nat
    BY <1>1, PartitionSums
  <1>5. Size[p] \in Nat /\ Required(p) \in Nat
    BY SizeType
  <1>6. /\ bytes = RequiredSum(Cached) /\ bytes <= MaxBytes
        /\ staging = Weight(In("loading"), Size) /\ staging <= MaxStaging
    BY DEF CacheInv, CountInv
  <1>7. /\ SaturatingSub(bytes, Required(p)) = RequiredSum(Cached \ {p})
        /\ SaturatingSub(bytes, Required(p)) <= MaxBytes
    BY <1>2, <1>4, <1>5, <1>6, CacheAssumption, SMTT(60) DEF SaturatingSub
  <1>8. /\ SaturatingSub(staging, Size[p]) = Weight(In("loading") \ {p}, Size)
        /\ SaturatingSub(staging, Size[p]) <= MaxStaging
    BY <1>3, <1>4, <1>5, <1>6, CacheAssumption, SMTT(60) DEF SaturatingSub
  <1> QED BY <1>3, <1>4, <1>7, <1>8

\* A route that gives up before its read was sent undoes the reservation.
LEMMA EnqueueCancelledInv ==
  ASSUME CacheInv, NEW c \in Clients, EnqueueCancelled(c)
  PROVE  CacheInv'
  <1>0. TypeOK /\ RouteInv /\ LoadInv /\ StopInv /\ CountInv
    BY DEF CacheInv
  <1>1. PICK p \in Partitions : p = want[c]
    BY <1>0 DEF EnqueueCancelled, Return, RouteInv
  <1>2. /\ pc[c] = "enqueue" /\ pc' = [pc EXCEPT ![c] = "idle"] /\ want' = [want EXCEPT ![c] = Stop]
        /\ entry' = [entry EXCEPT ![p] = "absent"]
        /\ bytes' = SaturatingSub(bytes, Required(p))
        /\ staging' = SaturatingSub(staging, Size[p])
        /\ depth' = SaturatingSub(depth, 1)
        /\ UNCHANGED <<poison, queue, worker, job, stop, stops>>
    BY <1>1 DEF EnqueueCancelled, Return, pool
  <1>3. /\ pc'[c] = "idle" /\ \A d \in Clients : d # c => pc'[d] = pc[d] /\ want'[d] = want[d]
        /\ pc' \in [Clients -> {"idle", "acquire", "enqueue", "holding", "failed"}]
        /\ want' \in [Clients -> Partitions \cup {Stop}]
    BY <1>0, <1>2 DEF TypeOK
  <1>4. entry[p] = "loading" /\ Askers(p) = {c} /\ Places(p) = {} /\ Loaders(p) = {}
    <2>1. c \in Askers(p)
      BY <1>1, <1>2 DEF Askers
    <2> QED BY <1>0, <2>1, OwnerIsAlone DEF LoadInv
  <1>5. /\ entry' \in [Partitions -> {"absent", "loading", "ready", "failed"}]
        /\ entry'[p] = "absent" /\ \A q \in Partitions : q # p => entry'[q] = entry[q]
    BY <1>0, <1>2 DEF TypeOK
  <1>6. /\ In("loading")' = In("loading") \ {p} /\ Cached' = Cached \ {p} /\ Entries' = Entries \ {p}
        /\ p \in Entries
    <2>1. /\ In("loading")' = In("loading") \ {p}
          /\ In("ready")' = In("ready") /\ p \notin In("ready")
          /\ Entries' = Entries \ {p}
      BY <1>4, <1>5, SMTT(60) DEF In, Entries
    <2> QED BY <1>4, <2>1 DEF Cached, Entries
  <1>7. Started' = Started /\ Unstarted' = Unstarted \ {p} /\ p \in Unstarted
    <2>1. Started' = Started
      BY <1>2 DEF Started
    <2>2. \A w \in Started : job[w] # p
      BY <1>4 DEF Loaders, Started
    <2>3. p \in In("loading")
      BY <1>4 DEF In
    <2> QED BY <1>2, <1>6, <2>1, <2>2, <2>3 DEF Unstarted
  <1>8. CountInv' /\ bytes' \in Nat /\ staging' \in Nat /\ depth' \in Nat
    <2>1. /\ bytes' = RequiredSum(Cached \ {p}) /\ bytes' \in Nat /\ bytes' <= MaxBytes
          /\ staging' = Weight(In("loading") \ {p}, Size) /\ staging' \in Nat /\ staging' <= MaxStaging
          /\ Cardinality(In("loading") \ {p}) \in Nat
          /\ Cardinality(In("loading")) = Cardinality(In("loading") \ {p}) + 1
      BY <1>2, <1>4, LoadEndsCount
    <2>2. Cardinality(Unstarted) = Cardinality(Unstarted \ {p}) + 1
      BY <1>7, CountedSets, SumsRemove
    <2>3. Cardinality(Entries) = Cardinality(Entries \ {p}) + 1
      BY <1>6, CountedSets, SumsRemove
    <2>4. Unstarted \ {p} \in SUBSET Partitions /\ Entries \ {p} \in SUBSET Partitions
      BY CountedSets
    <2>5. /\ Cardinality(Unstarted \ {p}) \in Nat /\ Cardinality(Entries \ {p}) \in Nat
          /\ Cardinality(Workers) \in Nat /\ Cardinality(Started) \in Nat
      BY <2>4, PartitionSums, CountedSets
    <2>6. /\ depth = Cardinality(Unstarted) /\ depth <= MaxQueued + Cardinality(Workers)
          /\ Cardinality(In("loading")) = depth + Cardinality(Started)
          /\ Cardinality(Entries) <= MaxEntries
      BY <1>0 DEF CountInv
    <2>7. /\ depth' = Cardinality(Unstarted \ {p}) /\ depth' <= MaxQueued + Cardinality(Workers)
          /\ Cardinality(In("loading") \ {p}) = depth' + Cardinality(Started)
          /\ depth' \in Nat
      BY <1>2, <2>1, <2>2, <2>5, <2>6, CacheAssumption, SMTT(60) DEF SaturatingSub
    <2>8. Cardinality(Entries \ {p}) <= MaxEntries
      BY <2>3, <2>5, <2>6, CacheAssumption, SMTT(60)
    <2>9. RequiredSum(Cached)' = RequiredSum(Cached \ {p})
      BY <1>6 DEF RequiredSum
    <2> QED BY <1>6, <1>7, <2>1, <2>7, <2>8, <2>9 DEF CountInv
  <1>9. TypeOK'
    BY <1>0, <1>2, <1>3, <1>5, <1>8 DEF TypeOK
  <1>10. RouteInv'
    BY <1>0, <1>2, <1>3, <1>4, <1>5 DEF RouteInv
  <1>11. LoadInv'
    <2>1. ASSUME NEW q \in Partitions PROVE Places(q)' = Places(q) /\ Loaders(q)' = Loaders(q)
      BY <1>2 DEF Places, Loaders
    <2>2. ASSUME NEW q \in Partitions, q # p PROVE OwnedIfLoading(q)'
      <3>1. Askers(q)' = Askers(q)
        BY <1>1, <1>2, <1>3, <2>2 DEF Askers
      <3> QED BY <1>0, <1>5, <2>1, <2>2, <3>1, LoadKept DEF LoadInv, SameLoad
    <2>3. OwnedIfLoading(p)'
      <3>1. Askers(p)' = {}
        BY <1>3, <1>4 DEF Askers
      <3> QED BY <1>4, <1>5, <2>1, <3>1 DEF OwnedIfLoading, Unowned
    <2> QED BY <1>0, <1>2, <2>2, <2>3 DEF LoadInv
  <1>12. StopInv'
    BY <1>0, <1>2, StopKept DEF Stopped
  <1> QED BY <1>8, <1>9, <1>10, <1>11, <1>12 DEF CacheInv

-----------------------------------------------------------------------------
(* The workers.                                                             *)

\* A worker loads a partition that nobody else loads.
LEMMA LoaderIsAlone ==
  ASSUME CacheInv, NEW w \in Workers, worker[w] \in {"taken", "load"}
  PROVE  /\ job[w] \in Partitions /\ entry[job[w]] = "loading"
         /\ Askers(job[w]) = {} /\ Places(job[w]) = {} /\ Loaders(job[w]) = {w}
  <1>1. job[w] \in Partitions /\ w \in Loaders(job[w])
    BY DEF CacheInv, LoadInv, Loaders
  <1> QED BY <1>1, OwnerIsAlone DEF CacheInv, LoadInv

\* A load that starts leaves the depth of the read queue.
LEMMA StartLoadInv ==
  ASSUME CacheInv, NEW w \in Workers, StartLoad(w)
  PROVE  CacheInv'
  <1>0. TypeOK /\ RouteInv /\ LoadInv /\ StopInv /\ CountInv
    BY DEF CacheInv
  <1>1. /\ worker[w] = "taken" /\ worker' = [worker EXCEPT ![w] = "load"]
        /\ depth' = SaturatingSub(depth, 1)
        /\ UNCHANGED <<entry, bytes, staging, poison, pc, want, queue, job, stop, stops>>
    BY DEF StartLoad, clients
  <1>2. PICK p \in Partitions : p = job[w]
    BY <1>1, LoaderIsAlone
  <1>3. entry[p] = "loading" /\ Loaders(p) = {w}
    BY <1>1, <1>2, LoaderIsAlone
  <1>4. /\ worker'[w] = "load" /\ \A v \in Workers : v # w => worker'[v] = worker[v]
        /\ worker' \in [Workers -> {"idle", "taken", "load", "stopped"}]
    BY <1>0, <1>1 DEF TypeOK
  <1>5. Started' = Started \cup {w} /\ w \notin Started /\ Stopped' = Stopped
    BY <1>1, <1>4 DEF Started, Stopped
  <1>6. \A q : In(q)' = In(q)
    BY <1>1 DEF In
  <1>7. p \in Unstarted /\ Unstarted' = Unstarted \ {p}
    <2>1. \A v \in Started : job[v] # p
      BY <1>3, <1>5 DEF Loaders, Started
    <2>2. p \in In("loading")
      BY <1>3 DEF In
    <2> QED BY <1>1, <1>2, <1>5, <1>6, <2>1, <2>2 DEF Unstarted
  <1>8. CountInv' /\ depth' \in Nat
    <2>1. /\ Cardinality(Started') = Cardinality(Started) + 1 /\ Cardinality(Started) \in Nat
          /\ Cardinality(Workers) \in Nat
      BY <1>5, CountedSets, CountAdd
    <2>2. Cardinality(Unstarted) = Cardinality(Unstarted \ {p}) + 1
      BY <1>7, CountedSets, SumsRemove
    <2>3. Unstarted \ {p} \in SUBSET Partitions
      BY CountedSets
    <2>4. Cardinality(Unstarted \ {p}) \in Nat
      BY <2>3, PartitionSums
    <2>5. /\ depth = Cardinality(Unstarted) /\ depth <= MaxQueued + Cardinality(Workers)
          /\ Cardinality(In("loading")) = depth + Cardinality(Started)
      BY <1>0 DEF CountInv
    <2>6. /\ depth' = Cardinality(Unstarted \ {p}) /\ depth' <= MaxQueued + Cardinality(Workers)
          /\ Cardinality(In("loading")) = depth' + Cardinality(Started') /\ depth' \in Nat
      BY <1>1, <2>1, <2>2, <2>4, <2>5, CacheAssumption, SMTT(60) DEF SaturatingSub
    <2>7. Cached' = Cached /\ Entries' = Entries
      BY <1>1, <1>6 DEF Cached, Entries
    <2>8. RequiredSum(Cached)' = RequiredSum(Cached)
      BY <2>7 DEF RequiredSum
    <2> QED BY <1>0, <1>1, <1>6, <1>7, <2>6, <2>7, <2>8 DEF CountInv
  <1>9. TypeOK' /\ RouteInv'
    BY <1>0, <1>1, <1>4, <1>8 DEF TypeOK, RouteInv
  <1>10. LoadInv'
    <2>1. ASSUME NEW q \in Partitions PROVE OwnedIfLoading(q)'
      <3>1. Askers(q)' = Askers(q) /\ Places(q)' = Places(q)
        BY <1>1 DEF Askers, Places
      <3>2. Loaders(q)' = Loaders(q)
        BY <1>1, <1>4 DEF Loaders
      <3> QED BY <1>0, <1>1, <3>1, <3>2, LoadKept DEF LoadInv, SameLoad
    <2>2. \A v \in Workers : worker'[v] \in {"taken", "load"} => job'[v] \in Partitions
      BY <1>0, <1>1, <1>4 DEF LoadInv
    <2> QED BY <2>1, <2>2 DEF LoadInv
  <1>11. StopInv'
    BY <1>0, <1>1, <1>5, StopKept
  <1> QED BY <1>8, <1>9, <1>10, <1>11 DEF CacheInv

\* A load that ends, well or not, has given back its staging bytes; the bytes of
\* the cache stay with a partition that is ready.
LEMMA LoadEndsInv ==
  ASSUME CacheInv, NEW w \in Workers, worker[w] = "load",
         NEW state \in {"ready", "failed"},
         entry' = [entry EXCEPT ![job[w]] = state],
         bytes' = IF state = "ready" THEN bytes ELSE SaturatingSub(bytes, Required(job[w])),
         staging' = SaturatingSub(staging, Size[job[w]]),
         WorkerIdle(w), UNCHANGED <<depth, clients>>, poison' \in BOOLEAN
  PROVE  CacheInv'
  <1>0. TypeOK /\ RouteInv /\ LoadInv /\ StopInv /\ CountInv
    BY DEF CacheInv
  <1>1. PICK p \in Partitions : p = job[w]
    BY LoaderIsAlone
  <1>2. entry[p] = "loading" /\ Askers(p) = {} /\ Places(p) = {} /\ Loaders(p) = {w}
    BY <1>1, LoaderIsAlone
  <1>3. /\ worker' = [worker EXCEPT ![w] = "idle"] /\ job' = [job EXCEPT ![w] = Stop]
        /\ UNCHANGED <<queue, stop, stops, pc, want>>
    BY DEF WorkerIdle, clients
  <1>4. /\ worker'[w] = "idle"
        /\ \A v \in Workers : v # w => worker'[v] = worker[v] /\ job'[v] = job[v]
        /\ worker' \in [Workers -> {"idle", "taken", "load", "stopped"}]
        /\ job' \in [Workers -> Partitions \cup {Stop}]
    BY <1>0, <1>3 DEF TypeOK
  <1>5. /\ entry' \in [Partitions -> {"absent", "loading", "ready", "failed"}]
        /\ entry'[p] = state /\ \A q \in Partitions : q # p => entry'[q] = entry[q]
    BY <1>0, <1>1 DEF TypeOK
  <1>6. /\ In("loading")' = In("loading") \ {p} /\ Entries' = Entries
        /\ Cached' = IF state = "ready" THEN Cached ELSE Cached \ {p}
    <2>1. In("loading")' = In("loading") \ {p} /\ Entries' = Entries
      BY <1>2, <1>5, SMTT(60) DEF In, Entries
    <2>2. In("ready")' = IF state = "ready" THEN In("ready") \cup {p} ELSE In("ready")
      BY <1>2, <1>5, SMTT(60) DEF In
    <2>3. p \in In("loading") /\ p \notin In("ready")
      BY <1>2 DEF In
    <2> QED BY <2>1, <2>2, <2>3 DEF Cached
  <1>7. Started' = Started \ {w} /\ w \in Started /\ Stopped' = Stopped
    BY <1>4 DEF Started, Stopped
  <1>8. Unstarted' = Unstarted
    <2>1. ASSUME NEW q \in In("loading"), q # p
          PROVE  (\A v \in Started' : job'[v] # q) <=> (\A v \in Started : job[v] # q)
      BY <1>1, <1>4, <1>7, <2>1 DEF Started
    <2>2. p \notin Unstarted /\ p \notin Unstarted'
      BY <1>1, <1>6, <1>7 DEF Unstarted
    <2> QED BY <1>6, <2>1, <2>2 DEF Unstarted
  <1>9. CountInv' /\ bytes' \in Nat /\ staging' \in Nat
    <2>1. /\ SaturatingSub(bytes, Required(p)) = RequiredSum(Cached \ {p})
          /\ SaturatingSub(bytes, Required(p)) \in Nat
          /\ SaturatingSub(bytes, Required(p)) <= MaxBytes
          /\ staging' = Weight(In("loading") \ {p}, Size) /\ staging' \in Nat /\ staging' <= MaxStaging
          /\ Cardinality(In("loading") \ {p}) \in Nat
          /\ Cardinality(In("loading")) = Cardinality(In("loading") \ {p}) + 1
      BY <1>1, <1>2, LoadEndsCount
    <2>2. bytes' = RequiredSum(Cached') /\ bytes' \in Nat /\ bytes' <= MaxBytes
      BY <1>0, <1>1, <1>6, <2>1 DEF CountInv, TypeOK
    <2>3. /\ Cardinality(Started) = Cardinality(Started') + 1 /\ Cardinality(Started') \in Nat
      BY <1>7, CountedSets, CountRemove
    <2>4. Cardinality(In("loading")) = depth + Cardinality(Started) /\ depth \in Nat
      BY <1>0 DEF CountInv, TypeOK
    <2>5. Cardinality(In("loading") \ {p}) = depth + Cardinality(Started')
      BY <2>1, <2>3, <2>4, SMTT(60)
    <2>6. RequiredSum(Cached)' = RequiredSum(Cached')
      BY DEF RequiredSum
    <2> QED BY <1>0, <1>6, <1>8, <2>1, <2>2, <2>5, <2>6 DEF CountInv
  <1>10. TypeOK' /\ RouteInv'
    <2>1. TypeOK'
      BY <1>0, <1>3, <1>4, <1>5, <1>9 DEF TypeOK
    <2>2. RouteInv'
      BY <1>0, <1>2, <1>3, <1>5 DEF RouteInv
    <2> QED BY <2>1, <2>2
  <1>11. LoadInv'
    <2>1. ASSUME NEW q \in Partitions PROVE Askers(q)' = Askers(q) /\ Places(q)' = Places(q)
      BY <1>3 DEF Askers, Places
    <2>2. ASSUME NEW q \in Partitions, q # p PROVE OwnedIfLoading(q)'
      <3>1. Loaders(q)' = Loaders(q)
        BY <1>1, <1>4, <2>2 DEF Loaders
      <3> QED BY <1>0, <1>5, <2>1, <2>2, <3>1, LoadKept DEF LoadInv, SameLoad
    <2>3. OwnedIfLoading(p)'
      <3>1. Loaders(p)' = {}
        BY <1>2, <1>4 DEF Loaders
      <3> QED BY <1>2, <1>5, <2>1, <3>1 DEF OwnedIfLoading, Unowned
    <2>4. \A v \in Workers : worker'[v] \in {"taken", "load"} => job'[v] \in Partitions
      BY <1>0, <1>4 DEF LoadInv
    <2> QED BY <2>2, <2>3, <2>4 DEF LoadInv
  <1>12. StopInv'
    BY <1>0, <1>3, <1>7, StopKept
  <1> QED BY <1>9, <1>10, <1>11, <1>12 DEF CacheInv

\* Reads behind the first message of the channel move up with their owners.
LEMMA TailShifts ==
  ASSUME TypeOK, queue # <<>>, queue' = Tail(queue), entry' = entry,
         NEW p, p # Head(queue), OwnedIfLoading(p),
         Askers(p)' = Askers(p), Loaders(p)' = Loaders(p)
  PROVE  OwnedIfLoading(p)'
  <1>1. CASE Places(p) = {}
    <2>1. Places(p)' = Places(p)
      BY <1>1, TailKeepsOne
    <2> QED BY <2>1, LoadKept DEF SameLoad
  <1>2. CASE Places(p) # {}
    <2>1. PICK k \in Places(p) : TRUE
      BY <1>2
    <2>2. entry[p] = "loading" /\ Askers(p) = {} /\ Places(p) = {k} /\ Loaders(p) = {}
      BY <2>1, OwnerIsAlone
    <2>3. k - 1 \in DOMAIN queue' /\ Places(p)' = {k - 1}
      BY <2>2, TailKeepsOne
    <2>4. Owned(p)'
      BY <2>2, <2>3 DEF Owned
    <2> QED BY <2>2, <2>4 DEF OwnedIfLoading
  <1> QED BY <1>1, <1>2

\* A worker takes the first message: a read, or its Shutdown, which leaves one
\* message fewer to come.
LEMMA TakeJobStop ==
  ASSUME CacheInv, NEW w \in Workers, TakeJob(w)
  PROVE  StopInv'
  <1>0. TypeOK /\ StopInv
    BY DEF CacheInv
  <1>1. /\ worker[w] = "idle" /\ queue # <<>> /\ queue' = Tail(queue)
        /\ worker' = [worker EXCEPT ![w] = IF Head(queue) = Stop THEN "stopped" ELSE "taken"]
        /\ UNCHANGED <<stop, stops>>
    BY DEF TakeJob
  <1>2. PICK n \in 0..Len(queue) :
          /\ Reads(n)
          /\ stop = "no" => n = Len(queue)
          /\ Stopped # {} => n = 0
          /\ stop # "no" => (Len(queue) - n) + stops + Cardinality(Stopped) = Cardinality(Workers)
    BY <1>0 DEF StopInv
  <1>3. /\ Len(queue) \in Nat /\ Len(queue) > 0 /\ DOMAIN queue = 1..Len(queue)
        /\ Head(queue) = queue[1] /\ Len(queue') = Len(queue) - 1 /\ Len(queue') \in Nat
        /\ DOMAIN queue' = 1..(Len(queue) - 1)
        /\ \A i \in 1..(Len(queue) - 1) : queue'[i] = queue[i + 1]
    BY <1>0, <1>1, SMTT(60) DEF TypeOK
  <1>4. Cardinality(Stopped) \in Nat /\ Cardinality(Workers) \in Nat /\ stops \in Nat /\ n \in Nat
    <2>1. n \in Nat
      BY <1>3, SMTT(60)
    <2> QED BY <1>0, <2>1, CountedSets DEF TypeOK
  <1>5. w \notin Stopped /\ (stop = "joined" => Stopped = Workers) /\ (stop = "no" => Stopped = {})
    BY <1>0, <1>1 DEF Stopped, StopInv
  <1>6. CASE Head(queue) = Stop
    <2>0. \A i \in 1..Len(queue) : queue[i] = Stop <=> i > n
      BY <1>2, <1>3 DEF Reads
    <2>1. n = 0 /\ Reads(0)'
      <3>1. n = 0
        BY <1>3, <1>4, <1>6, <2>0, SMTT(60)
      <3>2. \A i \in 1..(Len(queue) - 1) : queue'[i] = Stop /\ i > 0
        BY <1>3, <2>0, <3>1, SMTT(60)
      <3> QED BY <1>3, <3>1, <3>2 DEF Reads
    <2>2. stop # "no" /\ stop # "joined"
      <3>1. stop # "no"
        BY <1>2, <1>3, <2>1, SMTT(60)
      <3> QED BY <1>5, <3>1
    <2>3. Stopped' = Stopped \cup {w}
      BY <1>0, <1>1, <1>6 DEF Stopped, TypeOK
    <2>4. Cardinality(Stopped') = Cardinality(Stopped) + 1
      BY <1>5, <2>3, CountedSets, CountAdd
    <2>5. (Len(queue') - 0) + stops + Cardinality(Stopped') = Cardinality(Workers)
      <3>1. (Len(queue) - 0) + stops + Cardinality(Stopped) = Cardinality(Workers)
        BY <1>2, <2>1, <2>2
      <3>2. Len(queue') = Len(queue) - 1 /\ Len(queue) \in Nat
        BY <1>3
      <3> QED BY <1>4, <2>4, <3>1, <3>2, SMTT(60)
    <2>6. 0 \in 0..Len(queue')
      BY <1>3, SMTT(60)
    <2> QED BY <1>1, <2>1, <2>2, <2>5, <2>6 DEF StopInv
  <1>7. CASE Head(queue) # Stop
    <2>0. \A i \in 1..Len(queue) : queue[i] = Stop <=> i > n
      BY <1>2, <1>3 DEF Reads
    <2>1. n - 1 \in 0..Len(queue') /\ Reads(n - 1)' /\ n # 0
      <3>1. n # 0 /\ n - 1 \in 0..Len(queue')
        BY <1>3, <1>4, <1>7, <2>0, SMTT(60)
      <3>2. \A i \in 1..(Len(queue) - 1) : queue'[i] = Stop <=> i > n - 1
        BY <1>3, <1>4, <2>0, SMTT(60)
      <3> QED BY <1>3, <3>1, <3>2 DEF Reads
    <2>2. Stopped = {} /\ Stopped' = Stopped
      BY <1>0, <1>1, <1>2, <1>7, <2>1 DEF Stopped, TypeOK
    <2>3. /\ stop = "no" => n - 1 = Len(queue')
          /\ stop # "no" => (Len(queue') - (n - 1)) + stops + Cardinality(Stopped) = Cardinality(Workers)
      <3>1. /\ Len(queue') = Len(queue) - 1 /\ Len(queue) \in Nat
            /\ stop = "no" => n = Len(queue)
            /\ stop # "no" => (Len(queue) - n) + stops + Cardinality(Stopped) = Cardinality(Workers)
        BY <1>2, <1>3
      <3> QED BY <1>4, <3>1, SMTT(60)
    <2>4. /\ stop' = "no" => n - 1 = Len(queue')
          /\ stop' # "no" => (Len(queue') - (n - 1)) + stops' + Cardinality(Stopped') = Cardinality(Workers)
          /\ Stopped' = {}
      BY <1>1, <2>2, <2>3
    <2>5. stop' = "joined" => stops' = 0 /\ Stopped' = Workers
      BY <1>0, <1>1, <2>2 DEF StopInv
    <2> QED BY <2>1, <2>4, <2>5 DEF StopInv
  <1> QED BY <1>6, <1>7

\* The worker owns the read it took.
LEMMA TakeJobInv ==
  ASSUME CacheInv, NEW w \in Workers, TakeJob(w)
  PROVE  CacheInv'
  <1>0. TypeOK /\ RouteInv /\ LoadInv /\ CountInv
    BY DEF CacheInv
  <1>1. /\ worker[w] = "idle" /\ queue # <<>> /\ queue' = Tail(queue)
        /\ worker' = [worker EXCEPT ![w] = IF Head(queue) = Stop THEN "stopped" ELSE "taken"]
        /\ job' = [job EXCEPT ![w] = Head(queue)]
        /\ UNCHANGED <<entry, bytes, staging, depth, poison, pc, want, stop, stops>>
    BY DEF TakeJob, cache, clients
  <1>2. PICK h \in Partitions \cup {Stop} : h = Head(queue) /\ 1 \in Places(h)
    <2>1. 1 \in DOMAIN queue /\ queue[1] = Head(queue) /\ Head(queue) \in Partitions \cup {Stop}
      BY <1>0, <1>1, SMTT(60) DEF TypeOK
    <2> QED BY <2>1 DEF Places
  <1>3. /\ worker'[w] = (IF h = Stop THEN "stopped" ELSE "taken") /\ job'[w] = h
        /\ \A v \in Workers : v # w => worker'[v] = worker[v] /\ job'[v] = job[v]
        /\ worker' \in [Workers -> {"idle", "taken", "load", "stopped"}]
        /\ job' \in [Workers -> Partitions \cup {Stop}]
    BY <1>0, <1>1, <1>2 DEF TypeOK
  <1>4. TypeOK' /\ RouteInv'
    <2>1. queue' \in Seq(Partitions \cup {Stop})
      BY <1>0, <1>1, SMTT(60) DEF TypeOK
    <2> QED BY <1>0, <1>1, <1>3, <2>1 DEF TypeOK, RouteInv
  <1>5. LoadInv'
    <2>1. ASSUME NEW q \in Partitions PROVE Askers(q)' = Askers(q)
      BY <1>1 DEF Askers
    <2>2. ASSUME NEW q \in Partitions, q # h PROVE OwnedIfLoading(q)'
      <3>1. Loaders(q)' = Loaders(q)
        BY <1>1, <1>3, <2>2 DEF Loaders
      <3> QED BY <1>0, <1>1, <1>2, <2>1, <2>2, <3>1, TailShifts DEF LoadInv
    <2>3. ASSUME h \in Partitions PROVE OwnedIfLoading(h)'
      <3>1. entry[h] = "loading" /\ Askers(h) = {} /\ Places(h) = {1} /\ Loaders(h) = {}
        BY <1>0, <1>2, <2>3, OwnerIsAlone DEF LoadInv
      <3>2. Places(h)' = {}
        BY <1>0, <1>1, <1>2, <3>1, TailKeepsOne
      <3>3. Loaders(h)' = {w}
        <4>1. h # Stop
          BY <2>3, StopIsNoPartition
        <4>2. w \in Loaders(h)'
          BY <1>3, <4>1 DEF Loaders
        <4>3. \A v \in Loaders(h)' : v = w
          BY <1>3, <3>1 DEF Loaders
        <4> QED BY <4>2, <4>3
      <3>4. Owned(h)'
        BY <2>1, <2>3, <3>1, <3>2, <3>3 DEF Owned
      <3> QED BY <1>1, <3>1, <3>4 DEF OwnedIfLoading
    <2>4. \A v \in Workers : worker'[v] \in {"taken", "load"} => job'[v] \in Partitions
      BY <1>0, <1>3 DEF LoadInv
    <2> QED BY <2>2, <2>3, <2>4 DEF LoadInv
  <1>6. CountInv'
    <2>1. Started' = Started
      BY <1>1, <1>3 DEF Started
    <2>2. \A v \in Started : job'[v] = job[v]
      BY <1>1, <1>3 DEF Started
    <2> QED BY <1>0, <1>1, <2>1, <2>2, CountKept
  <1> QED BY <1>4, <1>5, <1>6, TakeJobStop DEF CacheInv

-----------------------------------------------------------------------------
(* Stopping the pool.                                                       *)

\* A Shutdown message goes behind the reads.
LEMMA SendStopInv ==
  ASSUME CacheInv, SendStop
  PROVE  CacheInv'
  <1>0. TypeOK /\ RouteInv /\ LoadInv /\ StopInv /\ CountInv
    BY DEF CacheInv
  <1>1. /\ stop = "sending" /\ stops > 0 /\ queue' = Append(queue, Stop) /\ stops' = stops - 1
        /\ UNCHANGED <<entry, bytes, staging, depth, poison, pc, want, worker, job, stop>>
    BY DEF SendStop, cache, clients
  <1>2. TypeOK' /\ RouteInv'
    <2>1. queue' \in Seq(Partitions \cup {Stop})
      BY <1>0, <1>1, SMTT(60) DEF TypeOK
    <2>2. stops' \in Nat
      BY <1>0, <1>1, SMTT(60) DEF TypeOK
    <2> QED BY <1>0, <1>1, <2>1, <2>2 DEF TypeOK, RouteInv
  <1>3. LoadInv'
    <2>1. ASSUME NEW q \in Partitions PROVE OwnedIfLoading(q)'
      <3>1. Askers(q)' = Askers(q) /\ Loaders(q)' = Loaders(q)
        BY <1>1 DEF Askers, Loaders
      <3>2. q # Stop
        BY StopIsNoPartition
      <3>3. Places(q)' = Places(q)
        BY <1>0, <1>1, <3>2, AppendPlaces
      <3> QED BY <1>0, <1>1, <3>1, <3>3, LoadKept DEF LoadInv, SameLoad
    <2> QED BY <1>0, <1>1, <2>1 DEF LoadInv
  <1>4. StopInv'
    <2>1. PICK n \in 0..Len(queue) :
            /\ Reads(n)
            /\ Stopped # {} => n = 0
            /\ (Len(queue) - n) + stops + Cardinality(Stopped) = Cardinality(Workers)
      BY <1>0, <1>1 DEF StopInv
    <2>2. /\ Len(queue) \in Nat /\ Len(queue') = Len(queue) + 1
          /\ DOMAIN queue = 1..Len(queue) /\ DOMAIN queue' = 1..(Len(queue) + 1)
          /\ queue'[Len(queue) + 1] = Stop
          /\ \A i \in 1..Len(queue) : queue'[i] = queue[i]
      BY <1>0, <1>1, SMTT(60) DEF TypeOK
    <2>3. n \in Nat /\ n \in 0..Len(queue')
      BY <2>2, SMTT(60)
    <2>4. Reads(n)'
      <3>1. \A i \in 1..Len(queue) : queue[i] = Stop <=> i > n
        BY <2>1, <2>2 DEF Reads
      <3>2. \A i \in 1..(Len(queue) + 1) : queue'[i] = Stop <=> i > n
        BY <2>2, <3>1, SMTT(60)
      <3> QED BY <2>2, <3>2 DEF Reads
    <2>5. Stopped' = Stopped
      BY <1>1 DEF Stopped
    <2>6. Cardinality(Stopped) \in Nat /\ Cardinality(Workers) \in Nat /\ stops \in Nat
      BY <1>0, CountedSets DEF TypeOK
    <2>7. (Len(queue') - n) + stops' + Cardinality(Stopped) = Cardinality(Workers)
      <3>1. (Len(queue) - n) + stops + Cardinality(Stopped) = Cardinality(Workers)
        BY <2>1
      <3>2. Len(queue) \in Nat /\ Len(queue') = Len(queue) + 1 /\ stops' = stops - 1
        BY <1>1, <2>2
      <3> QED BY <2>3, <2>6, <3>1, <3>2, SMTT(60)
    <2> QED BY <1>1, <2>1, <2>3, <2>4, <2>5, <2>7 DEF StopInv
  <1>5. CountInv'
    BY <1>0, <1>1, CountKept DEF Started
  <1> QED BY <1>2, <1>3, <1>4, <1>5 DEF CacheInv

\* The pool is stopped when routes are gone, and joined when every worker is.
LEMMA StopStepsInv ==
  ASSUME CacheInv, BeginStop \/ JoinWorkers
  PROVE  CacheInv'
  <1>0. TypeOK /\ RouteInv /\ LoadInv /\ StopInv /\ CountInv
    BY DEF CacheInv
  <1>1. UNCHANGED <<entry, bytes, staging, depth, poison, pc, want, queue, worker, job>>
    BY DEF BeginStop, JoinWorkers, cache, clients
  <1>2. LoadInv'
    <2>1. ASSUME NEW q \in Partitions PROVE OwnedIfLoading(q)'
      <3>1. Askers(q)' = Askers(q) /\ Loaders(q)' = Loaders(q) /\ Places(q)' = Places(q)
        BY <1>1 DEF Askers, Loaders, Places
      <3> QED BY <1>0, <1>1, <3>1, LoadKept DEF LoadInv, SameLoad
    <2> QED BY <1>0, <1>1, <2>1 DEF LoadInv
  <1>3. CountInv'
    BY <1>0, <1>1, CountKept DEF Started
  <1>4. Stopped' = Stopped
    BY <1>1 DEF Stopped
  <1>5. CASE BeginStop
    <2>1. /\ stop = "no" /\ stop' = "sending" /\ stops' = Cardinality(Workers)
          /\ \A c \in Clients : pc[c] = "idle"
      BY <1>5 DEF BeginStop
    <2>2. Reads(Len(queue)) /\ Stopped = {} /\ Len(queue) \in 0..Len(queue)
      BY <1>0, <2>1 DEF StopInv
    <2>3. Len(queue) \in Nat /\ Cardinality(Workers) \in Nat
      <3>1. Len(queue) \in Nat
        BY <1>0, SMTT(60) DEF TypeOK
      <3> QED BY <3>1, CountedSets
    <2>4. Cardinality(Stopped) = 0
      BY <2>2, CountEmpty
    <2>5. (Len(queue) - Len(queue)) + stops' + Cardinality(Stopped) = Cardinality(Workers)
      BY <2>1, <2>3, <2>4, SMTT(60)
    <2>6. Reads(Len(queue))' /\ Len(queue') = Len(queue)
      BY <1>1, <2>2 DEF Reads
    <2>7. StopInv'
      BY <1>1, <1>4, <2>1, <2>2, <2>5, <2>6 DEF StopInv
    <2>8. TypeOK' /\ RouteInv'
      BY <1>0, <1>1, <2>1, <2>3 DEF TypeOK, RouteInv
    <2> QED BY <1>2, <1>3, <2>7, <2>8 DEF CacheInv
  <1>6. CASE JoinWorkers
    <2>1. /\ stop = "sending" /\ stops = 0 /\ stop' = "joined" /\ stops' = stops
          /\ \A w \in Workers : worker[w] = "stopped"
      BY <1>6 DEF JoinWorkers
    <2>2. Stopped = Workers
      BY <2>1 DEF Stopped
    <2>3. StopInv'
      BY <1>0, <1>1, <1>4, <2>1, <2>2 DEF StopInv, Reads
    <2>4. TypeOK' /\ RouteInv'
      BY <1>0, <1>1, <2>1 DEF TypeOK, RouteInv
    <2> QED BY <1>2, <1>3, <2>3, <2>4 DEF CacheInv
  <1> QED BY <1>5, <1>6

-----------------------------------------------------------------------------
(* The theorems.                                                            *)

\* An empty cache, an empty channel and idle workers.
LEMMA InitCache == Init => CacheInv
  <1>1. SUFFICES ASSUME Init PROVE CacheInv
    OBVIOUS
  <1>2. /\ \A q \in Partitions : entry[q] = "absent"
        /\ \A c \in Clients : pc[c] = "idle"
        /\ \A w \in Workers : worker[w] = "idle"
        /\ stop = "no" /\ stops = 0 /\ bytes = 0 /\ staging = 0 /\ depth = 0
    BY <1>1 DEF Init
  <1>3. DOMAIN queue = {} /\ Len(queue) = 0 /\ queue \in Seq(Partitions \cup {Stop}) /\ 0 \in 0..0
    BY <1>1, SMTT(60) DEF Init
  <1>4. TypeOK /\ RouteInv
    <2>1. 0 \in Nat
      BY SMTT(60)
    <2> QED BY <1>1, <1>2, <1>3, <2>1 DEF Init, TypeOK, RouteInv
  <1>5. LoadInv
    BY <1>2, <1>3 DEF LoadInv, OwnedIfLoading, Unowned, Askers, Places, Loaders
  <1>6. StopInv
    BY <1>2, <1>3 DEF StopInv, Reads, Stopped
  <1>7. In("loading") = {} /\ Cached = {} /\ Entries = {} /\ Unstarted = {} /\ Started = {}
    BY <1>2 DEF In, Cached, Entries, Unstarted, Started
  <1>8. Cardinality({}) = 0 /\ Weight({}, Size) = 0 /\ RequiredSum({}) = 0
    BY CountEmpty, WeightEmpty DEF RequiredSum
  <1>9. Cardinality(Workers) \in Nat
    BY CountedSets
  <1>10. 0 <= MaxBytes /\ 0 <= MaxStaging /\ 0 <= MaxEntries /\ 0 <= MaxQueued + Cardinality(Workers) /\ 0 = 0 + 0
    BY <1>9, CacheAssumption, SMTT(60)
  <1>11. CountInv
    BY <1>2, <1>7, <1>8, <1>10 DEF CountInv
  <1> QED BY <1>4, <1>5, <1>6, <1>11 DEF CacheInv

\* Every step keeps the invariant.
LEMMA StepCache ==
  ASSUME CacheInv, [Next]_vars
  PROVE  CacheInv'
  <1>1. ASSUME NEW c \in Clients, Route(c) \/ Acquire(c) \/ EnqueueSent(c) PROVE CacheInv'
    BY <1>1, RouteOnlySteps, RouteOnlyInv, EnqueueSentInv, EnqueueCancelledInv, AcquireMissInv
    DEF Route, Acquire
  <1>2. ASSUME NEW w \in Workers, LoadSucceeds(w) PROVE CacheInv'
    <2>1. /\ worker[w] = "load" /\ entry' = [entry EXCEPT ![job[w]] = "ready"]
          /\ bytes' = bytes /\ staging' = SaturatingSub(staging, Size[job[w]])
          /\ WorkerIdle(w) /\ UNCHANGED <<depth, clients>> /\ poison' = poison
      BY <1>2 DEF LoadSucceeds
    <2>2. poison' \in BOOLEAN
      BY <2>1 DEF CacheInv, TypeOK
    <2> QED BY <2>1, <2>2, LoadEndsInv
  <1>3. ASSUME NEW w \in Workers, LoadFails(w) PROVE CacheInv'
    <2>1. /\ worker[w] = "load" /\ entry' = [entry EXCEPT ![job[w]] = "failed"]
          /\ bytes' = SaturatingSub(bytes, Required(job[w]))
          /\ staging' = SaturatingSub(staging, Size[job[w]])
          /\ WorkerIdle(w) /\ UNCHANGED <<depth, clients>> /\ poison' \in BOOLEAN
      BY <1>3 DEF LoadFails
    <2> QED BY <2>1, LoadEndsInv
  <1>4. CASE UNCHANGED vars
    <2>1. UNCHANGED <<entry, bytes, staging, depth, poison, pc, want, queue, worker, job, stop, stops>>
      BY <1>4 DEF vars
    <2>2. TypeOK' /\ RouteInv'
      BY <2>1 DEF CacheInv, TypeOK, RouteInv
    <2>3. LoadInv'
      <3>1. ASSUME NEW q \in Partitions PROVE OwnedIfLoading(q)'
        <4>1. Askers(q)' = Askers(q) /\ Loaders(q)' = Loaders(q) /\ Places(q)' = Places(q)
          BY <2>1 DEF Askers, Loaders, Places
        <4> QED BY <2>1, <4>1, LoadKept DEF CacheInv, LoadInv, SameLoad
      <3> QED BY <2>1, <3>1 DEF CacheInv, LoadInv
    <2>4. StopInv' /\ CountInv'
      BY <2>1, StopKept, CountKept DEF CacheInv, Stopped, Started
    <2> QED BY <2>2, <2>3, <2>4 DEF CacheInv
  <1> QED BY <1>1, <1>2, <1>3, <1>4, StartLoadInv, TakeJobInv, SendStopInv, StopStepsInv
          DEF Next, Load, Finished

\* The invariant of the cache, its routes, its channel and its workers.
THEOREM CacheInvariant == Spec => []CacheInv
  BY InitCache, StepCache, PTL DEF Spec

\* Coalescing, for every number of routes and workers: a loading entry has exactly
\* one load under way, and no other entry has any.
THEOREM LoadsCoalesce == Spec => []LoadsAreCoalesced
  <1>1. CacheInv => LoadsAreCoalesced
    <2>1. SUFFICES ASSUME CacheInv, NEW p \in Partitions
                   PROVE  Owners(p) = IF entry[p] = "loading" THEN 1 ELSE 0
      BY DEF LoadsAreCoalesced
    <2>2. Cardinality({}) = 0 /\ \A x : Cardinality({x}) = 1
      BY FS_EmptySet, FS_Singleton
    <2>3. 0 + 0 + 0 = 0 /\ 1 + 0 + 0 = 1 /\ 0 + 1 + 0 = 1 /\ 0 + 0 + 1 = 1
      BY SMTT(60)
    <2>4. OwnedIfLoading(p)
      BY <2>1 DEF CacheInv, LoadInv
    <2>5. CASE entry[p] # "loading"
      BY <2>2, <2>3, <2>4, <2>5 DEF OwnedIfLoading, Unowned, Owners
    <2>6. CASE entry[p] = "loading"
      <3>1. Owned(p)
        BY <2>4, <2>6 DEF OwnedIfLoading
      <3>2. Owners(p) = 1
        BY <2>2, <2>3, <3>1 DEF Owned, Owners
      <3> QED BY <2>6, <3>2
    <2> QED BY <2>5, <2>6
  <1> QED BY <1>1, CacheInvariant, PTL

\* The counters that acquire compares with its limits are exact and within them,
\* no saturating_sub saturates, what a route holds is cached, and a joined pool
\* leaves no read and no staging behind.
THEOREM AccountingHolds == Spec => []CacheAccounting
  <1>1. CacheInv => CacheAccounting
    <2>1. SUFFICES ASSUME CacheInv PROVE CacheAccounting
      OBVIOUS
    <2>2. TypeOK /\ RouteInv /\ LoadInv /\ StopInv /\ CountInv
      BY <2>1 DEF CacheInv
    <2>3. depth = Cardinality(In("loading")) - Cardinality(Started)
      <3>1. /\ Cardinality(In("loading")) = depth + Cardinality(Started)
            /\ depth \in Nat /\ Cardinality(Started) \in Nat
        BY <2>2, CountedSets DEF CountInv, TypeOK
      <3> QED BY <3>1, SMTT(60)
    <2>4. ASSUME stop = "joined" PROVE queue = <<>> /\ staging = 0
      <3>1. stops = 0 /\ Stopped = Workers
        BY <2>2, <2>4 DEF StopInv
      <3>2. Workers # {}
        BY CacheAssumption
      <3>3. (Len(queue) - 0) + 0 + Cardinality(Workers) = Cardinality(Workers)
        BY <2>2, <2>4, <3>1, <3>2 DEF StopInv
      <3>4. Cardinality(Workers) \in Nat
        BY CountedSets
      <3>5. Len(queue) \in Nat
        BY <2>2, SMTT(60) DEF TypeOK
      <3>6. Len(queue) = 0
        BY <3>3, <3>4, <3>5, SMTT(60)
      <3>7. queue = <<>> /\ DOMAIN queue = {}
        BY <2>2, <3>6, SMTT(60) DEF TypeOK
      <3>8. ASSUME NEW p \in Partitions PROVE entry[p] # "loading"
        <4>1. Askers(p) = {} /\ Places(p) = {}
          BY <2>2, <2>4, <3>7 DEF RouteInv, Askers, Places
        <4>2. Loaders(p) = {}
          BY <3>1 DEF Stopped, Loaders
        <4> QED BY <2>2, <4>1, <4>2 DEF LoadInv, OwnedIfLoading, Owned
      <3>9. In("loading") = {}
        BY <3>8 DEF In
      <3> QED BY <2>2, <3>7, <3>9, WeightEmpty DEF CountInv
    <2> QED BY <2>2, <2>3, <2>4 DEF CacheAccounting, CountInv, RouteInv, Cached, Ready, Started
  <1> QED BY <1>1, CacheInvariant, PTL

\* A poisoned cache stays poisoned: no route is handed a partition and no load is
\* started, whatever was queued or loading when the failure was found.
THEOREM PoisonHolds == Spec => PoisonIsTerminal
  <1>1. ASSUME TypeOK, Next, poison
        PROVE  /\ poison'
               /\ \A c \in Clients : pc'[c] = "holding" => pc[c] = "holding"
               /\ In("loading")' \subseteq In("loading")
    <2> USE DEF cache, clients, pool
    <2>0. /\ pc \in [Clients -> {"idle", "acquire", "enqueue", "holding", "failed"}]
          /\ entry \in [Partitions -> {"absent", "loading", "ready", "failed"}]
      BY <1>1 DEF TypeOK
    <2>1. ASSUME NEW c \in Clients, Route(c) \/ Acquire(c) \/ EnqueueSent(c)
          PROVE  /\ poison' = poison
                 /\ \A d \in Clients : pc'[d] = "holding" => pc[d] = "holding"
                 /\ entry' = entry \/ entry' = [entry EXCEPT ![want[c]] = "absent"]
      <3>1. /\ poison' = poison
            /\ entry' = entry \/ entry' = [entry EXCEPT ![want[c]] = "absent"]
        BY <1>1, <2>1 DEF Route, Acquire, EnqueueSent, Request, AcquireCancelled, EnqueueCancelled,
           Release, ReturnError, AcquirePoisoned, AcquireHit, AcquireWait, AcquireMiss
      <3>2. \/ pc' = pc
            \/ \E x \in {"idle", "acquire", "enqueue", "failed"} : pc' = [pc EXCEPT ![c] = x]
        BY <1>1, <2>1 DEF Route, Acquire, EnqueueSent, Request, AcquireCancelled, EnqueueCancelled,
           Release, ReturnError, AcquirePoisoned, AcquireHit, AcquireWait, AcquireMiss, Return, Fail, Step
      <3>3. \A d \in Clients : pc'[d] = "holding" => pc[d] = "holding"
        BY <2>0, <3>2
      <3> QED BY <3>1, <3>3
    <2>2. ASSUME NEW w \in Workers, TakeJob(w) \/ Load(w)
          PROVE  /\ poison' = poison \/ poison' = TRUE
                 /\ pc' = pc
                 /\ \E x \in {"ready", "failed"} : entry' = entry \/ entry' = [entry EXCEPT ![job[w]] = x]
      BY <2>2 DEF TakeJob, Load, StartLoad, LoadSucceeds, LoadFails
    <2>3. CASE BeginStop \/ SendStop \/ JoinWorkers \/ Finished
      BY <1>1, <2>3 DEF BeginStop, SendStop, JoinWorkers, Finished, vars, In
    <2>4. ASSUME NEW x, x # "loading", NEW q, entry' = entry \/ entry' = [entry EXCEPT ![q] = x]
          PROVE  In("loading")' \subseteq In("loading")
      BY <2>0, <2>4 DEF In
    <2>5. ASSUME NEW c \in Clients, Route(c) \/ Acquire(c) \/ EnqueueSent(c)
          PROVE  In("loading")' \subseteq In("loading")
      BY <2>1, <2>4, <2>5
    <2>6. ASSUME NEW w \in Workers, TakeJob(w) \/ Load(w)
          PROVE  In("loading")' \subseteq In("loading")
      BY <2>2, <2>4, <2>6
    <2> QED BY <1>1, <2>1, <2>2, <2>3, <2>5, <2>6 DEF Next
  <1>2. CacheInv => TypeOK
    BY DEF CacheInv
  <1>3. TypeOK /\ [Next]_vars =>
          [poison => /\ poison'
                     /\ \A c \in Clients : pc'[c] = "holding" => pc[c] = "holding"
                     /\ In("loading")' \subseteq In("loading")]_vars
    BY <1>1
  <1> QED BY <1>2, <1>3, CacheInvariant, PTL DEF Spec, PoisonIsTerminal
=============================================================================
