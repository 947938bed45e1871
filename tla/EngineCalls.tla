---------------------------- MODULE EngineCalls ----------------------------
(***************************************************************************)
(* The calls of GraphEngine against its shared controllers: the lifecycle  *)
(* permits, the registry of active requests, route admission and the       *)
(* owned catalog and CUDA handles, with `shutdown` racing all of them.     *)
(* Each step is one critical section; RAII drops are steps of their own,   *)
(* in the order the locals of route_with_cancellation are dropped.         *)
(***************************************************************************)
EXTENDS Integers, FiniteSets, Weights

CONSTANTS
    Calls,           \* calls made to the engine, each runs once
    Closers,         \* threads that call shutdown, again and again
    Ids,             \* RequestIds the callers choose
    Sizes,           \* working-set estimates, in bytes
    MaxActive,       \* max_concurrent_routes
    MaxBytes,        \* max_reserved_route_bytes
    MaxMaintenance,  \* maximum_maintenance_workers
    None             \* no request id, no registered call

ASSUME CallAssumption ==
    /\ MaxActive \in Nat \ {0}
    /\ MaxBytes \in Nat \ {0}
    /\ MaxMaintenance \in Nat \ {0}
    /\ Sizes \subseteq Nat \ {0}
    /\ None \notin Ids \cup Calls

Kinds == {"route", "mutation", "checkpoint", "maintenance"}
Handles == {"catalog", "cuda"}

VARIABLES
    lifecycle,   \* EngineLifecycleState
    active,      \* ActiveOperationCounts
    registry,    \* RequestRegistry.active: the call registered under each id
    flag,        \* each call's cancellation flag
    slots,       \* AdmissionController: active
    reserved,    \* AdmissionController: reserved
    bytes,       \* AdmissionPermit.bytes of each call
    admitted,    \* AdmissionPermit.admitted of each call
    pc,          \* where each call is
    kind,        \* the lifecycle permit each call holds
    id,          \* the request id of each call
    refs,        \* the Arc clones of engine-owned handles each call holds
    owned,       \* handles the engine still owns
    image,       \* an execution image is published (not RoutingState::ShutDown)
    closer,      \* where each shutdown call is
    failed       \* shutdown calls with a nonempty failure list

callVars == <<registry, flag, slots, reserved, bytes, admitted, id, refs>>
closeVars == <<owned, image, closer, failed>>
vars == <<lifecycle, active, pc, kind, callVars, closeVars>>

Init ==
    /\ lifecycle = "Running"
    /\ active = [k \in Kinds |-> 0]
    /\ registry = [i \in Ids |-> None]
    /\ flag = [c \in Calls |-> FALSE]
    /\ slots = 0
    /\ reserved = 0
    /\ bytes = [c \in Calls |-> 0]
    /\ admitted = [c \in Calls |-> FALSE]
    /\ pc = [c \in Calls |-> "idle"]
    /\ kind = [c \in Calls |-> "none"]
    /\ id = [c \in Calls |-> None]
    /\ refs = [c \in Calls |-> {}]
    /\ owned = Handles
    /\ image = TRUE
    /\ closer = [s \in Closers |-> "idle"]
    /\ failed = [s \in Closers |-> FALSE]

Total == active["route"] + active["mutation"] + active["checkpoint"] + active["maintenance"]

Goto(c, where) == pc' = [pc EXCEPT ![c] = where]

-----------------------------------------------------------------------------
(* LifecycleController.                                                     *)

CanBegin(k) ==
    /\ lifecycle = "Running"
    /\ k = "maintenance" => active[k] < MaxMaintenance

\* begin / begin_maintenance for a call that is not a route.
BeginOperation(c, k) ==
    /\ pc[c] = "idle"
    /\ k # "route"
    /\ CanBegin(k)
    /\ active' = [active EXCEPT ![k] = @ + 1]
    /\ kind' = [kind EXCEPT ![c] = k]
    /\ Goto(c, "operating")
    /\ UNCHANGED <<lifecycle, callVars, closeVars>>

BeginRoute(c) ==
    /\ pc[c] = "idle"
    /\ CanBegin("route")
    /\ active' = [active EXCEPT !["route"] = @ + 1]
    /\ kind' = [kind EXCEPT ![c] = "route"]
    /\ Goto(c, "begun")
    /\ UNCHANGED <<lifecycle, callVars, closeVars>>

\* with_catalog after a permit; a taken catalog makes the call fail.
UseCatalog(c) ==
    /\ pc[c] = "operating"
    /\ IF "catalog" \in owned
       THEN refs' = [refs EXCEPT ![c] = {"catalog"}] /\ Goto(c, "using")
       ELSE refs' = refs /\ Goto(c, "dropOperation")
    /\ UNCHANGED <<lifecycle, active, kind, registry, flag, slots, reserved,
                   bytes, admitted, id, closeVars>>

FinishOperation(c) ==
    /\ pc[c] = "using"
    /\ refs' = [refs EXCEPT ![c] = {}]
    /\ Goto(c, "dropOperation")
    /\ UNCHANGED <<lifecycle, active, kind, registry, flag, slots, reserved,
                   bytes, admitted, id, closeVars>>

\* Reads and health clone a handle without any permit.
BeginRead(c, h) ==
    /\ pc[c] = "idle"
    /\ h \in owned
    /\ refs' = [refs EXCEPT ![c] = {h}]
    /\ Goto(c, "reading")
    /\ UNCHANGED <<lifecycle, active, kind, registry, flag, slots, reserved,
                   bytes, admitted, id, closeVars>>

FinishRead(c) ==
    /\ pc[c] = "reading"
    /\ refs' = [refs EXCEPT ![c] = {}]
    /\ Goto(c, "done")
    /\ UNCHANGED <<lifecycle, active, kind, registry, flag, slots, reserved,
                   bytes, admitted, id, closeVars>>

\* LifecyclePermit::drop.
DropOperation(c) ==
    /\ pc[c] = "dropOperation"
    /\ active' = [active EXCEPT ![kind[c]] = @ - 1]
    /\ kind' = [kind EXCEPT ![c] = "none"]
    /\ Goto(c, "done")
    /\ UNCHANGED <<lifecycle, callVars, closeVars>>

-----------------------------------------------------------------------------
(* route_with_cancellation: registry and admission.                         *)

RejectDestinations(c) ==
    /\ pc[c] = "begun"
    /\ Goto(c, "dropOperation")
    /\ UNCHANGED <<lifecycle, active, kind, callVars, closeVars>>

\* Mutant: a registration overwrites an active one of the same id.
RegisterAnyway(c, i) ==
    /\ pc[c] = "begun"
    /\ registry' = [registry EXCEPT ![i] = c]
    /\ id' = [id EXCEPT ![c] = i]
    /\ Goto(c, "registered")
    /\ UNCHANGED <<lifecycle, active, kind, flag, slots, reserved, bytes,
                   admitted, refs, closeVars>>

\* RequestRegistry::register_flag.
Register(c, i) ==
    /\ pc[c] = "begun"
    /\ IF registry[i] = None
       THEN /\ registry' = [registry EXCEPT ![i] = c]
            /\ id' = [id EXCEPT ![c] = i]
            /\ Goto(c, "registered")
       ELSE UNCHANGED <<registry, id>> /\ Goto(c, "dropOperation")
    /\ UNCHANGED <<lifecycle, active, kind, flag, slots, reserved, bytes,
                   admitted, refs, closeVars>>

\* AdmissionController::acquire_slot.
AcquireSlot(c) ==
    /\ pc[c] = "registered"
    /\ IF slots < MaxActive
       THEN slots' = slots + 1 /\ Goto(c, "slotted")
       ELSE slots' = slots /\ Goto(c, "dropRegistration")
    /\ UNCHANGED <<lifecycle, active, kind, registry, flag, reserved, bytes,
                   admitted, id, refs, closeVars>>

LeaseImage(c) ==
    /\ pc[c] = "slotted"
    /\ Goto(c, IF image THEN "leased" ELSE "dropSlot")
    /\ UNCHANGED <<lifecycle, active, kind, callVars, closeVars>>

\* AdmissionPermit::reserve: the first call reserves, a later one (the CPU
\* fallback after a CUDA attempt) replaces what this permit holds.  A refusal
\* leaves the permit as it was and ends the route.
Reserve(c, n) ==
    LET total == (reserved - (IF admitted[c] THEN bytes[c] ELSE 0)) + n
    IN  IF n <= MaxBytes /\ total <= MaxBytes
        THEN /\ reserved' = total
             /\ bytes' = [bytes EXCEPT ![c] = n]
             /\ admitted' = [admitted EXCEPT ![c] = TRUE]
             /\ Goto(c, "searching")
        ELSE /\ UNCHANGED <<reserved, bytes, admitted>>
             /\ Goto(c, "dropSlot")

\* A CUDA attempt reserves zero host bytes, and uses the runtime handle.
AttemptCuda(c) ==
    /\ pc[c] = "leased"
    /\ ~admitted[c]
    /\ "cuda" \in owned
    /\ Reserve(c, 0)
    /\ refs' = [refs EXCEPT ![c] = {"cuda"}]
    /\ UNCHANGED <<lifecycle, active, kind, registry, flag, slots, id, closeVars>>

FallBackToCpu(c) ==
    /\ pc[c] = "searching"
    /\ refs[c] = {"cuda"}
    /\ refs' = [refs EXCEPT ![c] = {}]
    /\ Goto(c, "leased")
    /\ UNCHANGED <<lifecycle, active, kind, registry, flag, slots, reserved,
                   bytes, admitted, id, closeVars>>

ReserveCpu(c, n) ==
    /\ pc[c] = "leased"
    /\ Reserve(c, n)
    /\ UNCHANGED <<lifecycle, active, kind, registry, flag, slots, id, refs,
                   closeVars>>

FinishSearch(c) ==
    /\ pc[c] = "searching"
    /\ refs' = [refs EXCEPT ![c] = {}]
    /\ Goto(c, "dropSlot")
    /\ UNCHANGED <<lifecycle, active, kind, registry, flag, slots, reserved,
                   bytes, admitted, id, closeVars>>

\* ImageAccess: rebuild_routing_image under a second, maintenance permit, if
\* it can begin; the runtime handle of a CUDA attempt is still held.
RepairImage(c) ==
    /\ pc[c] = "searching"
    /\ IF CanBegin("maintenance")
       THEN /\ active' = [active EXCEPT !["maintenance"] = @ + 1]
            /\ refs' = [refs EXCEPT ![c] = @ \cup ({"catalog"} \cap owned)]
            /\ Goto(c, "repairing")
       ELSE /\ active' = active
            /\ refs' = [refs EXCEPT ![c] = {}]
            /\ Goto(c, "dropSlot")
    /\ UNCHANGED <<lifecycle, kind, registry, flag, slots, reserved, bytes,
                   admitted, id, closeVars>>

\* Mutant: the maintenance permit of a repair is never dropped.
FinishRepairLeaks(c) ==
    /\ pc[c] = "repairing"
    /\ active' = active
    /\ refs' = [refs EXCEPT ![c] = {}]
    /\ Goto(c, "dropSlot")
    /\ UNCHANGED <<lifecycle, kind, registry, flag, slots, reserved, bytes,
                   admitted, id, closeVars>>

FinishRepair(c) ==
    /\ pc[c] = "repairing"
    /\ active' = [active EXCEPT !["maintenance"] = @ - 1]
    /\ refs' = [refs EXCEPT ![c] = {}]
    /\ Goto(c, "dropSlot")
    /\ UNCHANGED <<lifecycle, kind, registry, flag, slots, reserved, bytes,
                   admitted, id, closeVars>>

\* Mutant: the permit returns its slot and forgets its bytes.
DropSlotOnly(c) ==
    /\ pc[c] = "dropSlot"
    /\ slots' = slots - 1
    /\ reserved' = reserved
    /\ bytes' = [bytes EXCEPT ![c] = 0]
    /\ admitted' = [admitted EXCEPT ![c] = FALSE]
    /\ Goto(c, "dropRegistration")
    /\ UNCHANGED <<lifecycle, active, kind, registry, flag, id, refs, closeVars>>

\* AdmissionPermit::drop.
DropSlot(c) ==
    /\ pc[c] = "dropSlot"
    /\ slots' = slots - 1
    /\ reserved' = IF admitted[c] THEN reserved - bytes[c] ELSE reserved
    /\ bytes' = [bytes EXCEPT ![c] = 0]
    /\ admitted' = [admitted EXCEPT ![c] = FALSE]
    /\ Goto(c, "dropRegistration")
    /\ UNCHANGED <<lifecycle, active, kind, registry, flag, id, refs, closeVars>>

\* RequestRegistration::drop.
DropRegistration(c) ==
    /\ pc[c] = "dropRegistration"
    /\ registry' = [registry EXCEPT ![id[c]] = None]
    /\ id' = [id EXCEPT ![c] = None]
    /\ Goto(c, "dropOperation")
    /\ UNCHANGED <<lifecycle, active, kind, flag, slots, reserved, bytes,
                   admitted, refs, closeVars>>

\* RequestRegistry::cancel, by any caller that knows an active id.
Cancel(i) ==
    /\ flag' = [c \in Calls |-> flag[c] \/ c = registry[i]]
    /\ flag' # flag
    /\ UNCHANGED <<lifecycle, active, pc, kind, registry, slots, reserved, bytes,
                   admitted, id, refs, closeVars>>

-----------------------------------------------------------------------------
(* GraphEngine::shutdown.                                                   *)

CloserGoto(s, where) == closer' = [closer EXCEPT ![s] = where]

\* The first snapshot: a call that finds ShutDown reports and returns.
EnterShutdown(s) ==
    /\ closer[s] = "idle"
    /\ lifecycle # "ShutDown"
    /\ CloserGoto(s, "entered")
    /\ failed' = [failed EXCEPT ![s] = FALSE]
    /\ UNCHANGED <<lifecycle, active, pc, kind, callVars, owned, image>>

\* Mutant: closing an engine that is shut down reopens Closing.
CloseAdmissionAgain(s) ==
    /\ closer[s] = "entered"
    /\ lifecycle' = "Closing"
    /\ CloserGoto(s, "closed")
    /\ UNCHANGED <<active, pc, kind, callVars, owned, image, failed>>

CloseAdmission(s) ==
    /\ closer[s] = "entered"
    /\ lifecycle' = IF lifecycle = "Running" THEN "Closing" ELSE lifecycle
    /\ CloserGoto(s, "closed")
    /\ UNCHANGED <<active, pc, kind, callVars, owned, image, failed>>

\* RequestRegistry::cancel_all signals the calls that are registered now.
CancelAll(s) ==
    /\ closer[s] = "closed"
    /\ flag' = [c \in Calls |-> flag[c] \/ \E i \in Ids : registry[i] = c]
    /\ CloserGoto(s, "signalled")
    /\ UNCHANGED <<lifecycle, active, pc, kind, registry, slots, reserved, bytes,
                   admitted, id, refs, owned, image, failed>>

\* wait_for_drain: drained, or timed out and returned with the engine Closing.
WaitForDrain(s) ==
    /\ closer[s] = "signalled"
    /\ CloserGoto(s, IF Total = 0 THEN "drained" ELSE "idle")
    /\ UNCHANGED <<lifecycle, active, pc, kind, callVars, owned, image, failed>>

\* RoutingState::ShutDown replaces the image; joining its I/O workers can fail.
StopRouting(s) ==
    /\ closer[s] = "drained"
    /\ image' = FALSE
    /\ failed' \in {failed, [failed EXCEPT ![s] = failed[s] \/ image]}
    /\ CloserGoto(s, "stopped")
    /\ UNCHANGED <<lifecycle, active, pc, kind, callVars, owned>>

Unreferenced(h) == \A c \in Calls : h \notin refs[c]

\* Arc::try_unwrap of the CUDA runtime: joined, its thread perhaps found
\* panicked, or put back.
StopCuda(s) ==
    /\ closer[s] = "stopped"
    /\ IF Unreferenced("cuda")
       THEN /\ owned' = owned \ {"cuda"}
            /\ failed' \in {failed, [failed EXCEPT ![s] = failed[s] \/ "cuda" \in owned]}
       ELSE owned' = owned /\ failed' = [failed EXCEPT ![s] = TRUE]
    /\ CloserGoto(s, "joined")
    /\ UNCHANGED <<lifecycle, active, pc, kind, callVars, image>>

\* Arc::try_unwrap of the catalog and prepare_for_close: closed, or put back.
\* The reap that follows belongs to module Publication.
ReleaseCatalog(s) ==
    /\ closer[s] = "joined"
    /\ \/ /\ "catalog" \in owned => Unreferenced("catalog")
          /\ owned' = owned \ {"catalog"}
          /\ failed' = failed
       \/ /\ "catalog" \in owned
          /\ owned' = owned
          /\ failed' = [failed EXCEPT ![s] = TRUE]
    /\ CloserGoto(s, "released")
    /\ UNCHANGED <<lifecycle, active, pc, kind, callVars, image>>

\* Mutant: an incomplete shutdown is marked complete.
MarkDespiteFailure(s) ==
    /\ closer[s] = "released"
    /\ lifecycle' = IF Total = 0 THEN "ShutDown" ELSE lifecycle
    /\ CloserGoto(s, "idle")
    /\ UNCHANGED <<active, pc, kind, callVars, owned, image, failed>>

\* mark_shut_down, refused while an operation is active.
MarkShutDown(s) ==
    /\ closer[s] = "released"
    /\ lifecycle' = IF ~failed[s] /\ Total = 0 THEN "ShutDown" ELSE lifecycle
    /\ CloserGoto(s, "idle")
    /\ UNCHANGED <<active, pc, kind, callVars, owned, image, failed>>

-----------------------------------------------------------------------------
CallStep(c) ==
    \/ UseCatalog(c) \/ FinishOperation(c) \/ FinishRead(c) \/ DropOperation(c)
    \/ RejectDestinations(c) \/ AcquireSlot(c) \/ LeaseImage(c)
    \/ AttemptCuda(c) \/ FallBackToCpu(c) \/ FinishSearch(c)
    \/ RepairImage(c) \/ FinishRepair(c) \/ DropSlot(c) \/ DropRegistration(c)
    \/ \E i \in Ids : Register(c, i)
    \/ \E n \in Sizes : ReserveCpu(c, n)

BeginCall(c) ==
    \/ BeginRoute(c)
    \/ \E k \in Kinds : BeginOperation(c, k)
    \/ \E h \in Handles : BeginRead(c, h)

CloserStep(s) ==
    \/ EnterShutdown(s) \/ CloseAdmission(s) \/ CancelAll(s) \/ WaitForDrain(s)
    \/ StopRouting(s) \/ StopCuda(s) \/ ReleaseCatalog(s) \/ MarkShutDown(s)

Next ==
    \/ \E c \in Calls : BeginCall(c) \/ CallStep(c)
    \/ \E i \in Ids : Cancel(i)
    \/ \E s \in Closers : CloserStep(s)

Spec == Init /\ [][Next]_vars

\* Calls that began run to their end; a caller whose shutdown failed or timed
\* out calls it again; a flush that fails and a join that fails are transient.
FlushSucceeds(s) == ReleaseCatalog(s) /\ "catalog" \notin owned'

FairSpec ==
    /\ Spec
    /\ \A c \in Calls : WF_vars(CallStep(c))
    /\ \A s \in Closers : WF_vars(CloserStep(s)) /\ SF_vars(FlushSucceeds(s))

-----------------------------------------------------------------------------
(* Properties.                                                              *)

SlotPlaces == {"slotted", "leased", "searching", "repairing", "dropSlot"}
RegisteredPlaces == SlotPlaces \cup {"registered", "dropRegistration"}

HoldsSlot == {c \in Calls : pc[c] \in SlotPlaces}
HoldsRegistration == {c \in Calls : pc[c] \in RegisteredPlaces}
HoldsPermit(k) == {c \in Calls : kind[c] = k}
Repairing == {c \in Calls : pc[c] = "repairing"}
Admitted == {c \in HoldsSlot : admitted[c]}

\* Every early return of a route gives back exactly what it took: the
\* controllers' counters always equal what the running calls hold, and stay
\* within the configured limits.
AccountingIsExact ==
    /\ slots = Cardinality(HoldsSlot)
    /\ slots <= MaxActive
    /\ reserved = Weight(Admitted, bytes)
    /\ reserved <= MaxBytes
    /\ \A k \in Kinds :
         active[k] = Cardinality(HoldsPermit(k))
                       + (IF k = "maintenance" THEN Cardinality(Repairing) ELSE 0)
    /\ active["maintenance"] <= MaxMaintenance

\* An id names at most one running route, the one whose flag `cancel` sets, and
\* is free again only when that route can no longer observe the flag.
RegistryIsExact ==
    \A i \in Ids : \A c \in Calls :
        registry[i] = c <=> (c \in HoldsRegistration /\ id[c] = i)

\* ShutDown is reported only once nothing runs under a permit, nothing holds
\* the catalog or the CUDA runtime, and no image is published; and on the way
\* there a handle is released only when the engine holds the last reference.
ShutDownIsComplete ==
    /\ lifecycle = "ShutDown" =>
          /\ Total = 0
          /\ owned = {}
          /\ ~image
    /\ \A h \in Handles \ owned : Unreferenced(h)

\* Closing is a one-way boundary: the lifecycle never goes back, and once it
\* has left Running no operation is admitted, a route's repair included.
ClosingIsFinal ==
    [][lifecycle # "Running" =>
         /\ lifecycle' # "Running"
         /\ lifecycle = "ShutDown" => lifecycle' = "ShutDown"
         /\ \A k \in Kinds : active'[k] <= active[k]]_vars

\* Repeated shutdown calls complete once the calls in flight have returned.
ShutdownCompletes == lifecycle = "Closing" ~> lifecycle = "ShutDown"

\* shutdown cancels active work: while it waits for the drain, every registered
\* route, one that held its permit before admission closed, has been signalled.
ClosingSignalsActiveRoutes ==
    \A s \in Closers : closer[s] = "signalled" =>
        \A c \in HoldsRegistration : flag[c]

-----------------------------------------------------------------------------
(* The inductive invariant.                                                 *)

UnpermittedPlaces == {"idle", "reading", "done"}
Places == RegisteredPlaces \cup UnpermittedPlaces
            \cup {"begun", "operating", "using", "dropOperation"}
ClosePlaces == {"idle", "entered", "closed", "signalled", "drained", "stopped",
                "joined", "released"}

TypeInv ==
    /\ lifecycle \in {"Running", "Closing", "ShutDown"}
    /\ active \in [Kinds -> Int]
    /\ registry \in [Ids -> Calls \cup {None}]
    /\ slots \in Int
    /\ reserved \in Int
    /\ bytes \in [Calls -> Nat]
    /\ admitted \in [Calls -> BOOLEAN]
    /\ pc \in [Calls -> Places]
    /\ kind \in [Calls -> Kinds \cup {"none"}]
    /\ id \in [Calls -> Ids \cup {None}]
    /\ refs \in [Calls -> SUBSET Handles]
    /\ owned \subseteq Handles
    /\ image \in BOOLEAN
    /\ closer \in [Closers -> ClosePlaces]
    /\ failed \in [Closers -> BOOLEAN]

\* What a call holds follows from where it is.
PlaceInv ==
    \A c \in Calls :
        /\ kind[c] = "none" <=> pc[c] \in UnpermittedPlaces
        /\ pc[c] \in RegisteredPlaces => id[c] \in Ids
        /\ admitted[c] => pc[c] \in SlotPlaces

\* What a shutdown call that has recorded no failure has already stopped.
CloserInv ==
    \A s \in Closers :
        /\ closer[s] \in {"stopped", "joined", "released"} => ~image
        /\ closer[s] \in {"joined", "released"} /\ ~failed[s] => "cuda" \notin owned
        /\ closer[s] = "released" /\ ~failed[s] => "catalog" \notin owned

CoreInv == TypeInv /\ PlaceInv /\ CloserInv /\ RegistryIsExact /\ ShutDownIsComplete

\* The counters, and that what they count stays finite.
SlotInv ==
    /\ IsFiniteSet(HoldsSlot)
    /\ slots = Cardinality(HoldsSlot)
    /\ slots <= MaxActive

ReservationInv ==
    /\ IsFiniteSet(Units(Admitted, bytes))
    /\ reserved = Weight(Admitted, bytes)
    /\ reserved <= MaxBytes

PermitInv ==
    /\ IsFiniteSet(Repairing)
    /\ \A k \in Kinds :
         /\ IsFiniteSet(HoldsPermit(k))
         /\ active[k] = Cardinality(HoldsPermit(k))
                          + (IF k = "maintenance" THEN Cardinality(Repairing) ELSE 0)
    /\ active["maintenance"] <= MaxMaintenance

CountInv == SlotInv /\ ReservationInv /\ PermitInv

CallsInv == CoreInv /\ CountInv
=============================================================================
