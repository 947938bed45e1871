---------------------------- MODULE MCCudaRoutes ----------------------------
(***************************************************************************)
(* Two routes and two runtimes in three configurations: lanes that share a *)
(* cache with a small staging pool, while an unreadable partition makes    *)
(* the engine upload a second image; lanes that compete for one slot; and  *)
(* resident images, rebuilt and initialised again while routes run.  Lanes *)
(* panic in every place in one of the three.                               *)
(***************************************************************************)
EXTENDS CudaRoutes

MCLimits ==
    {[bytes |-> 2, slots |-> 2, staging |-> 1, partitions |-> 2,
      acquisitions |-> 1, images |-> 2, resident |-> {},
      cancel |-> TRUE, maintenance |-> FALSE, panics |-> {"load", "copy"}],
     [bytes |-> 2, slots |-> 1, staging |-> 2, partitions |-> 2,
      acquisitions |-> 2, images |-> 1, resident |-> {},
      cancel |-> FALSE, maintenance |-> FALSE,
      panics |-> {"next", "evict", "staged", "leased"}],
     [bytes |-> 2, slots |-> 2, staging |-> 2, partitions |-> 1,
      acquisitions |-> 1, images |-> 2, resident |-> {1, 2},
      cancel |-> FALSE, maintenance |-> TRUE, panics |-> {"search"}]}

MCSizeOf == [p \in Partitions |-> 1]

MCSearchBytes == [c \in Callers |-> 1]
=============================================================================
