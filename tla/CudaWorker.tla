----------------------------- MODULE CudaWorker -----------------------------
(***************************************************************************)
(* The CUDA worker thread of each runtime: it receives routes over a       *)
(* channel, collects compatible ones into a batch, runs every member of    *)
(* the batch on a thread of its own and joins them before the next batch.  *)
(*                                                                         *)
(* submit borrows the worker and shutdown needs it exclusively, so a       *)
(* shutdown is sent only when no route is inside submit; CudaRoutes        *)
(* enforces that.  The collection window may close at any moment.  The     *)
(* counters that only feed reports (batches, launches, failures, peak and  *)
(* cancellations) are left out.                                            *)
(***************************************************************************)
EXTENDS TopologyCache, Sequences, SequencesExt

CONSTANTS
    Runtimes,       \* CUDA runtimes, numbered in order of initialisation
    MaxLanes        \* maximum_batch_lanes

VARIABLES
    worker,     \* per runtime: the worker thread, its channel and counters
    reply       \* per route: the answer in its reply channel

workerVars == <<worker, reply>>

Shutdown == "Shutdown"

StartedWorker ==
    [at |-> "receive", channel |-> <<>>, deferred |-> <<>>, batch |-> <<>>,
     lanes |-> <<>>, stopping |-> FALSE, queued |-> 0, active |-> 0]

WorkerInit ==
    /\ worker = [g \in Runtimes |-> StartedWorker]
    /\ reply = [c \in Callers |-> None]

IsAt(g, place) == worker[g].at = place

(* The next command: deferred routes come before the channel.              *)
Head1(w) == IF w.deferred # <<>> THEN Head(w.deferred) ELSE Head(w.channel)

Behind(w) ==
    IF w.deferred # <<>> THEN [w EXCEPT !.deferred = Tail(@)]
    ELSE [w EXCEPT !.channel = Tail(@)]

Answered(routes, answer) ==
    [c \in Callers |-> IF c \in routes THEN answer ELSE reply[c]]

Routes(commands) == ToSet(commands) \ {Shutdown}

(* Reject every queued route and return; the receiver is dropped.          *)
ShutDownLoop(g, w) ==
    LET rejected == Routes(w.deferred) \cup Routes(w.channel)
    IN  /\ worker' = [worker EXCEPT ![g] =
              [w EXCEPT !.at = "exited", !.deferred = <<>>, !.channel = <<>>,
                        !.queued = @ - Cardinality(rejected)]]
        /\ reply' = Answered(rejected, "Error")

RejectQueued(g, w, c, kind) ==
    /\ worker' = [worker EXCEPT ![g] = [w EXCEPT !.queued = @ - 1]]
    /\ reply' = Answered({c}, kind)

Receive(g) ==
    /\ IsAt(g, "receive")
    /\ worker[g].deferred # <<>> \/ worker[g].channel # <<>>
    /\ LET command == Head1(worker[g])  w == Behind(worker[g])
       IN  IF command = Shutdown THEN ShutDownLoop(g, w)
           ELSE IF w.stopping THEN RejectQueued(g, w, command, "Error")
           ELSE /\ worker' = [worker EXCEPT ![g] =
                      [w EXCEPT !.at = "collect", !.batch = <<command>>]]
                /\ UNCHANGED reply
    /\ UNCHANGED cacheVars

(* No memory for the batch queue.                                          *)
ReceiveOutOfMemory(g) ==
    /\ IsAt(g, "receive")
    /\ worker[g].deferred # <<>> \/ worker[g].channel # <<>>
    /\ Head1(worker[g]) # Shutdown
    /\ RejectQueued(g, Behind(worker[g]), Head1(worker[g]), "Error")
    /\ UNCHANGED cacheVars

(* A route joins the batch if it is for the same image.  The code compares *)
(* the algorithms too; those of one worker are all the algorithm of its    *)
(* runtime (CudaRuntime::algorithm), so they never differ.                 *)
Collect(g, imageOf) ==
    /\ IsAt(g, "collect")
    /\ Len(worker[g].batch) < MaxLanes
    /\ worker[g].channel # <<>>
    /\ LET command == Head(worker[g].channel)
           w == [worker[g] EXCEPT !.channel = Tail(@)]
       IN  IF command # Shutdown /\ w.stopping
           THEN RejectQueued(g, w, command, "Error")
           ELSE /\ worker' = [worker EXCEPT ![g] =
                      IF command # Shutdown
                         /\ imageOf[command] = imageOf[Head(w.batch)]
                      THEN [w EXCEPT !.batch = Append(@, command)]
                      ELSE [w EXCEPT !.deferred = Append(@, command)]]
                /\ UNCHANGED reply
    /\ UNCHANGED cacheVars

(* The window closes: the batch is counted active before its lanes start.  *)
CloseWindow(g) ==
    /\ IsAt(g, "collect")
    /\ worker' = [worker EXCEPT ![g].at = "spawn",
                                ![g].active = Len(worker[g].batch)]
    /\ UNCHANGED <<reply, cacheVars>>

(* No memory to grow the batch: the route is rejected, the window closes.  *)
CollectOutOfMemory(g, imageOf) ==
    /\ IsAt(g, "collect")
    /\ Len(worker[g].batch) < MaxLanes
    /\ worker[g].channel # <<>>
    /\ ~worker[g].stopping
    /\ imageOf[Head(worker[g].channel)] = imageOf[Head(worker[g].batch)]
    /\ worker' = [worker EXCEPT ![g].at = "spawn", ![g].queued = @ - 1,
                                ![g].channel = Tail(@),
                                ![g].active = Len(worker[g].batch)]
    /\ reply' = Answered({Head(worker[g].channel)}, "Error")
    /\ UNCHANGED cacheVars

(* No memory for the list of lanes: the whole batch is rejected.           *)
BatchOutOfMemory(g) ==
    /\ IsAt(g, "collect")
    /\ worker' = [worker EXCEPT ![g].at = "receive", ![g].batch = <<>>,
                                ![g].queued = @ - Len(worker[g].batch)]
    /\ reply' = Answered(ToSet(worker[g].batch), "Error")
    /\ UNCHANGED cacheVars

StartLane(c, i) ==
    lane' = [lane EXCEPT ![c] =
                [NoLane EXCEPT !.at = IF i \in limits.resident THEN "search" ELSE "next",
                               !.image = i, !.left = limits.acquisitions]]

SpawnLane(g, imageOf) ==
    /\ IsAt(g, "spawn")
    /\ worker[g].batch # <<>>
    /\ worker' = [worker EXCEPT ![g].batch = Tail(@), ![g].queued = @ - 1,
                                ![g].lanes = Append(@, Head(worker[g].batch))]
    /\ StartLane(Head(worker[g].batch), imageOf[Head(worker[g].batch)])
    /\ UNCHANGED <<reply, limits, cache, cancelled, inflight, lost, abandoned>>

(* A lane thread that is not created, whose active count is kept.          *)
SpawnFailsActive(g) ==
    /\ IsAt(g, "spawn")
    /\ worker[g].batch # <<>>
    /\ worker' = [worker EXCEPT ![g].batch = Tail(@), ![g].queued = @ - 1]
    /\ reply' = Answered({Head(worker[g].batch)}, "Error")
    /\ UNCHANGED cacheVars

SpawnFails(g) ==
    /\ IsAt(g, "spawn")
    /\ worker[g].batch # <<>>
    /\ worker' = [worker EXCEPT ![g].batch = Tail(@), ![g].queued = @ - 1,
                                ![g].active = @ - 1]
    /\ reply' = Answered({Head(worker[g].batch)}, "Error")
    /\ UNCHANGED cacheVars

(* The search of a resident image, without its steps (CudaSearch).         *)
SearchResident(c) ==
    /\ At(c, "search")
    /\ \E kind \in {"Ok", "Error", "Poisoning"} :
          Finish(c, kind) /\ Lose(c, kind)
    /\ UNCHANGED <<limits, cache, cancelled, inflight, abandoned, worker, reply>>

(* A panic unwinds the lane: its guard gives the count back, no answer.    *)
LanePanics(g, c) ==
    /\ Unwind(c)
    /\ worker' = [worker EXCEPT ![g].active = @ - 1]
    /\ UNCHANGED reply

(* The answer is sent before the guard gives the count back.               *)
LaneReplies(c) ==
    /\ At(c, "done")
    /\ reply' = Answered({c}, lane[c].outcome)
    /\ Go(c, "replied")
    /\ UNCHANGED <<worker, limits, cache, cancelled, inflight, lost, abandoned>>

LaneExits(g, c) ==
    /\ At(c, "replied")
    /\ Go(c, "exited")
    /\ worker' = [worker EXCEPT ![g].active = @ - 1]
    /\ UNCHANGED <<reply, limits, cache, cancelled, inflight, lost, abandoned>>

(* Lanes are joined in the order in which they were spawned, and nobody    *)
(* answers for a panicked one.                                             *)
JoinForgetsPanicked(g) ==
    /\ IsAt(g, "spawn")
    /\ worker[g].batch = <<>>
    /\ worker[g].lanes # <<>>
    /\ lane[Head(worker[g].lanes)].at \in {"exited", "panicked"}
    /\ worker' = [worker EXCEPT ![g].lanes = Tail(@)]
    /\ lane' = [lane EXCEPT ![Head(worker[g].lanes)] = NoLane]
    /\ UNCHANGED <<reply, limits, cache, cancelled, inflight, lost, abandoned>>

(* A panicked lane is answered by its join, behind the lanes before it.    *)
JoinLane(g) ==
    /\ IsAt(g, "spawn")
    /\ worker[g].batch = <<>>
    /\ worker[g].lanes # <<>>
    /\ LET c == Head(worker[g].lanes)
       IN  /\ lane[c].at \in {"exited", "panicked"}
           /\ reply' = IF At(c, "panicked") THEN Answered({c}, "Error") ELSE reply
           /\ lane' = [lane EXCEPT ![c] = NoLane]
    /\ worker' = [worker EXCEPT ![g].lanes = Tail(@)]
    /\ UNCHANGED <<limits, cache, cancelled, inflight, lost, abandoned>>

EndScope(g) ==
    /\ IsAt(g, "spawn")
    /\ worker[g].batch = <<>>
    /\ worker[g].lanes = <<>>
    /\ worker' = [worker EXCEPT ![g].at = "receive"]
    /\ UNCHANGED <<reply, cacheVars>>

WorkerStep(g, imageOf) ==
    \/ Receive(g) \/ ReceiveOutOfMemory(g) \/ Collect(g, imageOf)
    \/ CollectOutOfMemory(g, imageOf) \/ CloseWindow(g) \/ BatchOutOfMemory(g)
    \/ SpawnLane(g, imageOf) \/ SpawnFails(g) \/ JoinLane(g) \/ EndScope(g)
    \/ \E c \in ToSet(worker[g].lanes) : LanePanics(g, c) \/ LaneExits(g, c)
=============================================================================
