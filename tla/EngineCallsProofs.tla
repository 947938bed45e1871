------------------------- MODULE EngineCallsProofs -------------------------
(***************************************************************************)
(* Proofs that the controllers of GraphEngine account exactly for every    *)
(* call, and that shutdown is complete and final, for any number of calls  *)
(* and of shutdown callers, any ids and estimates and every limit.  First  *)
(* every step keeps CoreInv: what a call holds follows from where it is,   *)
(* the registry names its routes, and shutdown releases only what nothing  *)
(* uses; there the counters are only known to count the permits that are   *)
(* held.  Then the counters.                                               *)
(***************************************************************************)
EXTENDS EngineCalls, WeightTheorems

\* A step is proved by Zenon unless it names SMT, for arithmetic and for
\* functions and sequences as wholes.
USE ZenonT(60)

\* A permit that is held is counted.
PermitsCounted ==
    /\ active \in [Kinds -> Nat]
    /\ \A c \in Calls : kind[c] # "none" => active[kind[c]] >= 1

\* None is not a call.
LEMMA NoneIsNoCall == \A c \in Calls : c # None
  BY CallAssumption

\* Nothing is held before the first call.
LEMMA InitCore == Init => CoreInv
  <1> SUFFICES ASSUME Init PROVE CoreInv
    OBVIOUS
  <1>1. TypeInv
    BY SMTT(60) DEF Init, TypeInv, Places, UnpermittedPlaces, ClosePlaces, Handles, Kinds
  <1>2. PlaceInv
    BY DEF Init, PlaceInv, UnpermittedPlaces, RegisteredPlaces, SlotPlaces
  <1>3. RegistryIsExact
    BY NoneIsNoCall
    DEF Init, RegistryIsExact, HoldsRegistration, RegisteredPlaces, SlotPlaces
  <1>4. CloserInv /\ ShutDownIsComplete
    BY DEF Init, CloserInv, ShutDownIsComplete, Handles
  <1> QED BY <1>1, <1>2, <1>3, <1>4 DEF CoreInv

\* Four counts that add up to zero, as ActiveOperationCounts::total tests.
LEMMA ZeroSum ==
  ASSUME NEW a \in Nat, NEW b \in Nat, NEW c \in Nat, NEW d \in Nat, a + b + c + d = 0
  PROVE  a = 0 /\ b = 0 /\ c = 0 /\ d = 0
  BY SMTT(60)

\* Once the engine is shut down no call holds a permit.
LEMMA NoPermitAfterShutDown ==
  ASSUME CoreInv, PermitsCounted, lifecycle = "ShutDown", NEW c \in Calls
  PROVE  kind[c] = "none" /\ pc[c] \in UnpermittedPlaces
  <1>1. Total = 0
    BY DEF CoreInv, ShutDownIsComplete
  <1>2. \A k \in Kinds : active[k] = 0
    <2>1. /\ active["route"] \in Nat /\ active["mutation"] \in Nat
          /\ active["checkpoint"] \in Nat /\ active["maintenance"] \in Nat
      BY DEF PermitsCounted, Kinds
    <2>2. /\ active["route"] = 0 /\ active["mutation"] = 0
          /\ active["checkpoint"] = 0 /\ active["maintenance"] = 0
      BY <1>1, <2>1, ZeroSum DEF Total
    <2> QED BY <2>2 DEF Kinds
  <1>3. kind[c] \in Kinds \cup {"none"}
    BY DEF CoreInv, TypeInv
  <1>4. kind[c] = "none"
    BY <1>2, <1>3, SMTT(60) DEF PermitsCounted
  <1> QED BY <1>4 DEF CoreInv, PlaceInv

\* A step of call c that keeps its permit and its registration: it moves on,
\* drops handles or clones ones the engine owns, and may change the counters.
Moves(c) ==
    /\ pc' = [pc EXCEPT ![c] = pc'[c]]
    /\ pc'[c] \in Places
    /\ pc[c] \in RegisteredPlaces <=> pc'[c] \in RegisteredPlaces
    /\ pc[c] \in UnpermittedPlaces <=> pc'[c] \in UnpermittedPlaces
    /\ refs' = [refs EXCEPT ![c] = refs'[c]]
    /\ refs'[c] \subseteq refs[c] \cup owned
    /\ UNCHANGED <<lifecycle, kind, registry, id>>
    /\ UNCHANGED closeVars

\* Of the counters it may change only those of a permit it holds.
Counters(c) ==
    /\ pc[c] \in UnpermittedPlaces => active' = active
    /\ active' \in [Kinds -> Int]
    /\ slots' \in Int
    /\ reserved' \in Int
    /\ bytes' \in [Calls -> Nat]
    /\ admitted' = [admitted EXCEPT ![c] = admitted'[c]]
    /\ admitted'[c] \in BOOLEAN
    /\ admitted'[c] => pc'[c] \in SlotPlaces

\* Such a step keeps the invariant.
LEMMA MovesCore ==
  ASSUME CoreInv, PermitsCounted, NEW c \in Calls, Moves(c), Counters(c)
  PROVE  CoreInv'
  <1>1. /\ pc' = [pc EXCEPT ![c] = pc'[c]]
        /\ pc[c] \in RegisteredPlaces <=> pc'[c] \in RegisteredPlaces
        /\ pc[c] \in UnpermittedPlaces <=> pc'[c] \in UnpermittedPlaces
        /\ pc \in [Calls -> Places] /\ pc' \in [Calls -> Places]
    BY DEF Moves, CoreInv, TypeInv
  <1>2. UNCHANGED <<lifecycle, kind, registry, id, owned, image, closer, failed>>
    BY DEF Moves, closeVars
  <1>3. /\ refs' = [refs EXCEPT ![c] = refs'[c]] /\ refs'[c] \subseteq refs[c] \cup owned
        /\ refs \in [Calls -> SUBSET Handles] /\ refs' \in [Calls -> SUBSET Handles]
    BY DEF Moves, CoreInv, TypeInv
  <1>4. HoldsRegistration' = HoldsRegistration
    BY <1>1 DEF HoldsRegistration
  <1>5. TypeInv'
    BY <1>1, <1>2, <1>3 DEF CoreInv, TypeInv, Counters
  <1>6. PlaceInv'
    BY <1>1, <1>2, SMTT(60) DEF CoreInv, TypeInv, PlaceInv, Counters
  <1>7. RegistryIsExact' /\ CloserInv'
    BY <1>2, <1>4 DEF CoreInv, RegistryIsExact, CloserInv
  <1>8. ShutDownIsComplete'
    <2>1. lifecycle = "ShutDown" => active' = active
      BY NoPermitAfterShutDown DEF Counters
    <2>2. \A h \in Handles \ owned : Unreferenced(h)'
      BY <1>3 DEF CoreInv, ShutDownIsComplete, Unreferenced
    <2> QED BY <1>2, <2>1, <2>2 DEF CoreInv, ShutDownIsComplete, Total
  <1> QED BY <1>5, <1>6, <1>7, <1>8 DEF CoreInv

\* What the counters count, and the counters, stay as they are.
SameCounts ==
    /\ UNCHANGED <<active, slots, reserved, bytes, admitted>>
    /\ UNCHANGED <<HoldsSlot, Repairing, Admitted>>
    /\ \A k \in Kinds : HoldsPermit(k)' = HoldsPermit(k)

\* A step that takes and returns nothing.
Quiet(c) ==
    /\ Moves(c)
    /\ pc[c] \in SlotPlaces <=> pc'[c] \in SlotPlaces
    /\ pc[c] # "repairing" /\ pc'[c] # "repairing"
    /\ UNCHANGED <<active, slots, reserved, bytes, admitted>>

\* Such a step keeps the invariant and every count.
LEMMA QuietCore ==
  ASSUME CoreInv, PermitsCounted, NEW c \in Calls, Quiet(c)
  PROVE  CoreInv' /\ SameCounts
  <1>1. /\ pc' = [pc EXCEPT ![c] = pc'[c]]
        /\ pc[c] \in SlotPlaces <=> pc'[c] \in SlotPlaces
        /\ pc[c] # "repairing" /\ pc'[c] # "repairing"
        /\ pc \in [Calls -> Places]
        /\ UNCHANGED <<kind, active, slots, reserved, bytes, admitted>>
    BY DEF Quiet, Moves, CoreInv, TypeInv
  <1>2. UNCHANGED <<HoldsSlot, Repairing>>
    BY <1>1 DEF HoldsSlot, Repairing
  <1>3. SameCounts
    BY <1>1, <1>2 DEF SameCounts, Admitted, HoldsPermit
  <1>4. Counters(c)
    BY <1>1 DEF CoreInv, TypeInv, PlaceInv, Counters
  <1> QED BY <1>3, <1>4, MovesCore DEF Quiet

\* Using and dropping a handle, an early return before anything is taken and
\* the turns of a search are quiet.
LEMMA QuietSteps ==
  ASSUME CoreInv, NEW c \in Calls,
         \/ UseCatalog(c) \/ FinishOperation(c) \/ FinishRead(c) \/ RejectDestinations(c)
         \/ LeaseImage(c) \/ FallBackToCpu(c) \/ FinishSearch(c)
         \/ \E h \in Handles : BeginRead(c, h)
  PROVE  Quiet(c)
  <1>1. pc \in [Calls -> Places] /\ refs \in [Calls -> SUBSET Handles]
    BY DEF CoreInv, TypeInv
  <1> USE DEF Goto, callVars, Places, SlotPlaces, RegisteredPlaces, UnpermittedPlaces
  <1>2. CASE UseCatalog(c)
    BY <1>1, <1>2, SMTT(60) DEF UseCatalog, Quiet, Moves
  <1>3. CASE FinishOperation(c) \/ FinishRead(c)
    BY <1>1, <1>3 DEF FinishOperation, FinishRead, Quiet, Moves
  <1>4. CASE RejectDestinations(c) \/ LeaseImage(c)
    BY <1>1, <1>4 DEF RejectDestinations, LeaseImage, Quiet, Moves
  <1>5. CASE FallBackToCpu(c) \/ FinishSearch(c)
    BY <1>1, <1>5 DEF FallBackToCpu, FinishSearch, Quiet, Moves
  <1>6. ASSUME NEW h \in Handles, BeginRead(c, h) PROVE Quiet(c)
    BY <1>1, <1>6 DEF BeginRead, Quiet, Moves
  <1> QED BY <1>2, <1>3, <1>4, <1>5, <1>6

\* So are the refusals: of an id in use, of a slot, of an estimate and of a
\* repair.
LEMMA RefusalsAreQuiet ==
  ASSUME CoreInv, NEW c \in Calls,
         \/ \E i \in Ids : Register(c, i) /\ registry[i] # None
         \/ AcquireSlot(c) /\ ~(slots < MaxActive)
         \/ RepairImage(c) /\ ~CanBegin("maintenance")
         \/ /\ AttemptCuda(c) \/ \E n \in Sizes : ReserveCpu(c, n)
            /\ UNCHANGED <<reserved, bytes, admitted>> /\ Goto(c, "dropSlot")
  PROVE  Quiet(c)
  <1>1. pc \in [Calls -> Places] /\ refs \in [Calls -> SUBSET Handles]
    BY DEF CoreInv, TypeInv
  <1> USE DEF Goto, Places, SlotPlaces, RegisteredPlaces, UnpermittedPlaces
  <1>2. ASSUME NEW i \in Ids, Register(c, i), registry[i] # None PROVE Quiet(c)
    BY <1>1, <1>2 DEF Register, Quiet, Moves
  <1>3. CASE AcquireSlot(c) /\ ~(slots < MaxActive)
    BY <1>1, <1>3 DEF AcquireSlot, Quiet, Moves
  <1>4. CASE RepairImage(c) /\ ~CanBegin("maintenance")
    BY <1>1, <1>4 DEF RepairImage, Quiet, Moves
  <1>5. ASSUME AttemptCuda(c), UNCHANGED <<reserved, bytes, admitted>>, Goto(c, "dropSlot")
        PROVE  Quiet(c)
    BY <1>1, <1>5 DEF AttemptCuda, Quiet, Moves
  <1>6. ASSUME NEW n \in Sizes, ReserveCpu(c, n),
               UNCHANGED <<reserved, bytes, admitted>>, Goto(c, "dropSlot")
        PROVE  Quiet(c)
    BY <1>1, <1>6 DEF ReserveCpu, Quiet, Moves
  <1> QED BY <1>2, <1>3, <1>4, <1>5, <1>6

\* A slot, an estimate and a repair's permit are taken and returned by moves.
LEMMA SlotMoves ==
  ASSUME CoreInv, PermitsCounted, NEW c \in Calls,
         \/ AcquireSlot(c) /\ slots < MaxActive
         \/ DropSlot(c)
  PROVE  CoreInv'
  <1>1. /\ pc \in [Calls -> Places] /\ refs \in [Calls -> SUBSET Handles]
        /\ active \in [Kinds -> Int] /\ slots \in Int /\ reserved \in Int
        /\ bytes \in [Calls -> Nat] /\ admitted \in [Calls -> BOOLEAN]
        /\ admitted[c] => pc[c] \in SlotPlaces
    BY DEF CoreInv, TypeInv, PlaceInv
  <1> USE DEF Goto, Places, SlotPlaces, RegisteredPlaces, UnpermittedPlaces
  <1>2. CASE AcquireSlot(c) /\ slots < MaxActive
    <2>1. Moves(c) /\ Counters(c)
      BY <1>1, <1>2, SMTT(60) DEF AcquireSlot, Moves, Counters
    <2> QED BY <2>1, MovesCore
  <1>3. CASE DropSlot(c)
    <2>1. Moves(c) /\ Counters(c)
      BY <1>1, <1>3, SMTT(60) DEF DropSlot, Moves, Counters
    <2> QED BY <2>1, MovesCore
  <1> QED BY <1>2, <1>3

\* A repair takes and returns a maintenance permit beside the call's own.
LEMMA RepairMoves ==
  ASSUME CoreInv, PermitsCounted, NEW c \in Calls,
         \/ RepairImage(c) /\ CanBegin("maintenance")
         \/ FinishRepair(c)
  PROVE  CoreInv'
  <1>1. /\ pc \in [Calls -> Places] /\ refs \in [Calls -> SUBSET Handles]
        /\ active \in [Kinds -> Int] /\ slots \in Int /\ reserved \in Int
        /\ bytes \in [Calls -> Nat] /\ admitted \in [Calls -> BOOLEAN]
        /\ owned \subseteq Handles
    BY DEF CoreInv, TypeInv
  <1> USE DEF Goto, Places, SlotPlaces, RegisteredPlaces, UnpermittedPlaces
  <1>2. CASE RepairImage(c) /\ CanBegin("maintenance")
    <2>1. Moves(c) /\ Counters(c)
      BY <1>1, <1>2, SMTT(60) DEF RepairImage, Moves, Counters, Kinds
    <2> QED BY <2>1, MovesCore
  <1>3. CASE FinishRepair(c)
    <2>1. Moves(c) /\ Counters(c)
      BY <1>1, <1>3, SMTT(60) DEF FinishRepair, Moves, Counters, Kinds
    <2> QED BY <2>1, MovesCore
  <1> QED BY <1>2, <1>3

\* AdmissionPermit::reserve grants n bytes, in place of what c held before.
Reserves(c, n) ==
    /\ pc[c] = "leased"
    /\ reserved' = (reserved - (IF admitted[c] THEN bytes[c] ELSE 0)) + n
    /\ reserved' <= MaxBytes
    /\ bytes' = [bytes EXCEPT ![c] = n]
    /\ admitted' = [admitted EXCEPT ![c] = TRUE]
    /\ Goto(c, "searching")
    /\ refs' = [refs EXCEPT ![c] = refs'[c]]
    /\ refs'[c] \subseteq refs[c] \cup owned
    /\ UNCHANGED <<lifecycle, active, kind, registry, slots, id>>
    /\ UNCHANGED closeVars

\* Both reservations of a route are granted or refused.
LEMMA ReservesOrRefuses ==
  ASSUME CoreInv, NEW c \in Calls,
         AttemptCuda(c) \/ \E n \in Sizes : ReserveCpu(c, n)
  PROVE  \/ \E n \in Nat : Reserves(c, n)
         \/ Quiet(c)
  <1>1. refs \in [Calls -> SUBSET Handles]
    BY DEF CoreInv, TypeInv
  <1>2. CASE AttemptCuda(c)
    <2>1. Reserves(c, 0) \/ (UNCHANGED <<reserved, bytes, admitted>> /\ Goto(c, "dropSlot"))
      BY <1>1, <1>2 DEF AttemptCuda, Reserve, Reserves
    <2> QED BY <1>2, <2>1, RefusalsAreQuiet
  <1>3. ASSUME NEW n \in Sizes, ReserveCpu(c, n)
        PROVE  Reserves(c, n) \/ Quiet(c)
    <2>1. Reserves(c, n) \/ (UNCHANGED <<reserved, bytes, admitted>> /\ Goto(c, "dropSlot"))
      BY <1>1, <1>3 DEF ReserveCpu, Reserve, Reserves
    <2> QED BY <1>3, <2>1, RefusalsAreQuiet
  <1> QED BY <1>2, <1>3, CallAssumption

\* A reservation only moves the call that makes it.
LEMMA ReserveMoves ==
  ASSUME CoreInv, PermitsCounted, NEW c \in Calls, NEW n \in Nat, Reserves(c, n)
  PROVE  CoreInv'
  <1>1. /\ pc \in [Calls -> Places] /\ active \in [Kinds -> Int] /\ slots \in Int
        /\ reserved \in Int /\ bytes \in [Calls -> Nat] /\ admitted \in [Calls -> BOOLEAN]
    BY DEF CoreInv, TypeInv
  <1> USE DEF Goto, Places, SlotPlaces, RegisteredPlaces, UnpermittedPlaces
  <1>2. Moves(c)
    BY <1>1 DEF Reserves, Moves
  <1>3. Counters(c)
    BY <1>1, SMTT(60) DEF Reserves, Counters
  <1> QED BY <1>2, <1>3, MovesCore

\* Both ways a permit begins.
Begins(c, k) ==
    /\ pc[c] = "idle"
    /\ CanBegin(k)
    /\ active' = [active EXCEPT ![k] = @ + 1]
    /\ kind' = [kind EXCEPT ![c] = k]
    /\ Goto(c, pc'[c])
    /\ pc'[c] \in {"operating", "begun"}
    /\ UNCHANGED <<lifecycle, callVars, closeVars>>

\* The begin of a call takes a permit of its kind, or only looks.
LEMMA BeginsOrReads ==
  ASSUME CoreInv, NEW c \in Calls, BeginCall(c)
  PROVE  \/ \E k \in Kinds : Begins(c, k)
         \/ Quiet(c)
  <1>1. pc \in [Calls -> Places]
    BY DEF CoreInv, TypeInv
  <1>2. CASE BeginRoute(c)
    <2>1. Begins(c, "route")
      BY <1>1, <1>2 DEF BeginRoute, Begins, Goto
    <2> QED BY <2>1 DEF Kinds
  <1>3. ASSUME NEW k \in Kinds, BeginOperation(c, k) PROVE Begins(c, k)
    BY <1>1, <1>3 DEF BeginOperation, Begins, Goto
  <1> QED BY <1>2, <1>3, QuietSteps DEF BeginCall

\* A call that begins holds nothing else yet, and none begins after shutdown.
LEMMA BeginCore ==
  ASSUME CoreInv, NEW c \in Calls, NEW k \in Kinds, Begins(c, k)
  PROVE  CoreInv'
  <1>1. /\ pc \in [Calls -> Places] /\ pc' = [pc EXCEPT ![c] = pc'[c]]
        /\ kind \in [Calls -> Kinds \cup {"none"}] /\ kind' = [kind EXCEPT ![c] = k]
        /\ active' \in [Kinds -> Int]
    BY SMTT(60) DEF CoreInv, TypeInv, Goto, Begins
  <1>2. UNCHANGED <<lifecycle, registry, slots, reserved, bytes, admitted, id, refs,
                    owned, image, closer, failed>>
    BY DEF Begins, callVars, closeVars
  <1>3. /\ pc'[c] \in Places
        /\ pc'[c] \notin RegisteredPlaces /\ pc'[c] \notin UnpermittedPlaces
        /\ pc[c] \notin RegisteredPlaces /\ pc[c] \in UnpermittedPlaces
    BY DEF Begins, Places, RegisteredPlaces, UnpermittedPlaces, SlotPlaces
  <1>4. HoldsRegistration' = HoldsRegistration
    BY <1>1, <1>3 DEF HoldsRegistration
  <1>5. TypeInv'
    BY <1>1, <1>2, <1>3, SMTT(60) DEF CoreInv, TypeInv
  <1>6. PlaceInv'
    BY <1>1, <1>2, <1>3 DEF CoreInv, PlaceInv, RegisteredPlaces, Kinds
  <1>7. RegistryIsExact' /\ CloserInv' /\ ShutDownIsComplete'
    BY <1>2, <1>4
    DEF CoreInv, RegistryIsExact, CloserInv, ShutDownIsComplete, Unreferenced, Begins, CanBegin
  <1> QED BY <1>5, <1>6, <1>7 DEF CoreInv

\* LifecyclePermit::drop.
LEMMA DropOperationCore ==
  ASSUME CoreInv, PermitsCounted, NEW c \in Calls, DropOperation(c)
  PROVE  CoreInv' /\ kind[c] \in Kinds
  <1>1. /\ pc \in [Calls -> Places] /\ pc[c] = "dropOperation" /\ pc' = [pc EXCEPT ![c] = "done"]
        /\ kind \in [Calls -> Kinds \cup {"none"}] /\ kind' = [kind EXCEPT ![c] = "none"]
        /\ active \in [Kinds -> Int] /\ active' = [active EXCEPT ![kind[c]] = @ - 1]
    BY DEF CoreInv, TypeInv, Goto, DropOperation
  <1>2. UNCHANGED <<lifecycle, registry, slots, reserved, bytes, admitted, id, refs,
                    owned, image, closer, failed>>
    BY DEF DropOperation, callVars, closeVars
  <1>3. /\ "done" \in Places /\ "done" \notin RegisteredPlaces /\ "done" \in UnpermittedPlaces
        /\ pc[c] \notin RegisteredPlaces /\ pc[c] \notin UnpermittedPlaces
    BY <1>1 DEF Places, RegisteredPlaces, UnpermittedPlaces, SlotPlaces
  <1>4. HoldsRegistration' = HoldsRegistration
    BY <1>1, <1>3 DEF HoldsRegistration
  <1>5. kind[c] \in Kinds
    BY <1>1, <1>3 DEF CoreInv, PlaceInv
  <1>6. TypeInv'
    BY <1>1, <1>2, <1>3, <1>5, SMTT(60) DEF CoreInv, TypeInv
  <1>7. PlaceInv'
    BY <1>1, <1>2, <1>3 DEF CoreInv, PlaceInv, RegisteredPlaces
  <1>8. lifecycle # "ShutDown"
    BY <1>3, NoPermitAfterShutDown
  <1>9. RegistryIsExact' /\ CloserInv' /\ ShutDownIsComplete'
    BY <1>2, <1>4, <1>8
    DEF CoreInv, RegistryIsExact, CloserInv, ShutDownIsComplete, Unreferenced
  <1> QED BY <1>5, <1>6, <1>7, <1>9 DEF CoreInv

\* RequestRegistry::register_flag: an id that is free names the call.
LEMMA RegisterCore ==
  ASSUME CoreInv, NEW c \in Calls, NEW i \in Ids, Register(c, i), registry[i] = None
  PROVE  CoreInv' /\ SameCounts
  <1>1. /\ pc \in [Calls -> Places] /\ pc[c] = "begun" /\ pc' = [pc EXCEPT ![c] = "registered"]
        /\ id \in [Calls -> Ids \cup {None}] /\ id' = [id EXCEPT ![c] = i]
        /\ registry \in [Ids -> Calls \cup {None}] /\ registry' = [registry EXCEPT ![i] = c]
    BY DEF CoreInv, TypeInv, Goto, Register
  <1>2. UNCHANGED <<lifecycle, active, kind, slots, reserved, bytes, admitted, refs,
                    owned, image, closer, failed>>
    BY DEF Register, closeVars
  <1>3. /\ "registered" \in Places /\ "registered" \in RegisteredPlaces
        /\ "registered" \notin SlotPlaces /\ "registered" \notin UnpermittedPlaces
        /\ pc[c] \notin RegisteredPlaces /\ pc[c] \notin UnpermittedPlaces /\ pc[c] \notin SlotPlaces
    BY <1>1 DEF Places, RegisteredPlaces, UnpermittedPlaces, SlotPlaces
  <1>4. UNCHANGED <<HoldsSlot, Repairing>>
    BY <1>1, <1>3 DEF HoldsSlot, Repairing
  <1>5. SameCounts
    BY <1>2, <1>4 DEF SameCounts, Admitted, HoldsPermit
  <1>6. TypeInv'
    <2>1. /\ registry' \in [Ids -> Calls \cup {None}] /\ id' \in [Calls -> Ids \cup {None}]
          /\ pc' \in [Calls -> Places]
      BY <1>1, <1>3
    <2> QED BY <1>2, <2>1 DEF CoreInv, TypeInv
  <1>7. PlaceInv'
    BY <1>1, <1>2, <1>3 DEF CoreInv, PlaceInv
  <1>8. RegistryIsExact'
    <2>1. c \notin HoldsRegistration /\ HoldsRegistration' = HoldsRegistration \cup {c}
      BY <1>1, <1>3 DEF HoldsRegistration
    <2> QED BY <1>1, <2>1, NoneIsNoCall, SMTT(60) DEF CoreInv, RegistryIsExact
  <1>9. CloserInv' /\ ShutDownIsComplete'
    BY <1>2 DEF CoreInv, CloserInv, ShutDownIsComplete, Unreferenced, Total
  <1> QED BY <1>5, <1>6, <1>7, <1>8, <1>9 DEF CoreInv

\* RequestRegistration::drop: the id it held is free again.
LEMMA DropRegistrationCore ==
  ASSUME CoreInv, NEW c \in Calls, DropRegistration(c)
  PROVE  CoreInv' /\ SameCounts
  <1>1. /\ pc \in [Calls -> Places] /\ pc[c] = "dropRegistration"
        /\ pc' = [pc EXCEPT ![c] = "dropOperation"]
        /\ id \in [Calls -> Ids \cup {None}] /\ id' = [id EXCEPT ![c] = None]
        /\ registry \in [Ids -> Calls \cup {None}] /\ registry' = [registry EXCEPT ![id[c]] = None]
    BY DEF CoreInv, TypeInv, Goto, DropRegistration
  <1>2. UNCHANGED <<lifecycle, active, kind, slots, reserved, bytes, admitted, refs,
                    owned, image, closer, failed>>
    BY DEF DropRegistration, closeVars
  <1>3. /\ "dropOperation" \in Places /\ "dropOperation" \notin RegisteredPlaces
        /\ "dropOperation" \notin SlotPlaces /\ "dropOperation" \notin UnpermittedPlaces
        /\ pc[c] \in RegisteredPlaces /\ pc[c] \notin UnpermittedPlaces /\ pc[c] \notin SlotPlaces
    BY <1>1 DEF Places, RegisteredPlaces, UnpermittedPlaces, SlotPlaces
  <1>4. UNCHANGED <<HoldsSlot, Repairing>>
    BY <1>1, <1>3 DEF HoldsSlot, Repairing
  <1>5. SameCounts
    BY <1>2, <1>4 DEF SameCounts, Admitted, HoldsPermit
  <1>6. id[c] \in Ids
    BY <1>3 DEF CoreInv, PlaceInv
  <1>7. /\ registry' \in [Ids -> Calls \cup {None}] /\ id' \in [Calls -> Ids \cup {None}]
        /\ pc' \in [Calls -> Places]
    BY <1>1, <1>3, <1>6
  <1>8. TypeInv'
    BY <1>2, <1>7 DEF CoreInv, TypeInv
  <1>9. PlaceInv'
    BY <1>1, <1>2, <1>3 DEF CoreInv, PlaceInv
  <1>10. RegistryIsExact'
    <2>1. c \in HoldsRegistration /\ HoldsRegistration' = HoldsRegistration \ {c}
      BY <1>1, <1>3 DEF HoldsRegistration
    <2> QED BY <1>1, <1>6, <2>1, NoneIsNoCall, SMTT(60) DEF CoreInv, RegistryIsExact
  <1>11. CloserInv' /\ ShutDownIsComplete'
    BY <1>2 DEF CoreInv, CloserInv, ShutDownIsComplete, Unreferenced, Total
  <1> QED BY <1>5, <1>8, <1>9, <1>10, <1>11 DEF CoreInv

\* A step of a shutdown call, or a cancellation, leaves every call alone.
SameCalls ==
    /\ UNCHANGED <<active, pc, kind, registry, slots, reserved, bytes, admitted, id, refs>>

\* It keeps the invariant and every count.
LEMMA SameCallsCore ==
  ASSUME CoreInv, SameCalls,
         lifecycle' \in {"Running", "Closing", "ShutDown"}, owned' \subseteq owned,
         image' \in BOOLEAN, closer' \in [Closers -> ClosePlaces],
         failed' \in [Closers -> BOOLEAN], CloserInv',
         lifecycle' = "ShutDown" => Total = 0 /\ owned' = {} /\ ~image',
         \A h \in owned \ owned' : Unreferenced(h)
  PROVE  CoreInv' /\ SameCounts
  <1>1. UNCHANGED <<active, pc, kind, registry, slots, reserved, bytes, admitted, id, refs>>
    BY DEF SameCalls
  <1>2. UNCHANGED <<HoldsSlot, Repairing, HoldsRegistration>>
    BY <1>1 DEF HoldsSlot, Repairing, HoldsRegistration
  <1>3. SameCounts
    BY <1>1, <1>2 DEF SameCounts, Admitted, HoldsPermit
  <1>4. TypeInv' /\ PlaceInv' /\ RegistryIsExact'
    BY <1>1, <1>2 DEF CoreInv, TypeInv, PlaceInv, RegistryIsExact
  <1>5. ShutDownIsComplete'
    BY <1>1 DEF CoreInv, ShutDownIsComplete, Total, Unreferenced
  <1> QED BY <1>3, <1>4, <1>5 DEF CoreInv

\* RequestRegistry::cancel, and the steps of shutdown that only move it on.
LEMMA ShutdownProceeds ==
  ASSUME CoreInv, NEW s \in Closers,
         \/ EnterShutdown(s) \/ CloseAdmission(s) \/ CancelAll(s) \/ WaitForDrain(s)
  PROVE  CoreInv' /\ SameCounts
  <1>1. /\ lifecycle \in {"Running", "Closing", "ShutDown"} /\ image \in BOOLEAN
        /\ closer \in [Closers -> ClosePlaces] /\ failed \in [Closers -> BOOLEAN]
    BY DEF CoreInv, TypeInv
  <1>2. SameCalls /\ UNCHANGED <<owned, image>>
    BY DEF EnterShutdown, CloseAdmission, CancelAll, WaitForDrain, SameCalls, callVars
  <1>3. /\ closer' = [closer EXCEPT ![s] = closer'[s]]
        /\ closer'[s] \in {"idle", "entered", "closed", "signalled", "drained"}
    BY <1>1 DEF EnterShutdown, CloseAdmission, CancelAll, WaitForDrain, CloserGoto
  <1>4. failed' = failed \/ failed' = [failed EXCEPT ![s] = FALSE]
    BY DEF EnterShutdown, CloseAdmission, CancelAll, WaitForDrain
  <1>5. /\ lifecycle' \in {"Running", "Closing", "ShutDown"}
        /\ lifecycle' = "ShutDown" => lifecycle = "ShutDown"
    BY <1>1 DEF EnterShutdown, CloseAdmission, CancelAll, WaitForDrain
  <1>6. closer' \in [Closers -> ClosePlaces] /\ failed' \in [Closers -> BOOLEAN]
    <2>1. closer' \in [Closers -> ClosePlaces]
      BY <1>1, <1>3 DEF ClosePlaces
    <2>2. failed' \in [Closers -> BOOLEAN]
      BY <1>1, <1>4
    <2> QED BY <2>1, <2>2
  <1>7. CloserInv'
    BY <1>1, <1>2, <1>3, <1>4 DEF CoreInv, CloserInv
  <1>8. lifecycle' = "ShutDown" => Total = 0 /\ owned' = {} /\ ~image'
    BY <1>2, <1>5 DEF CoreInv, ShutDownIsComplete
  <1> QED BY <1>1, <1>2, <1>5, <1>6, <1>7, <1>8, SameCallsCore

\* The steps that stop the image's workers and the CUDA runtime and release the
\* catalog: each handle goes only when nothing references it.
LEMMA ShutdownReleases ==
  ASSUME CoreInv, NEW s \in Closers,
         StopRouting(s) \/ StopCuda(s) \/ ReleaseCatalog(s)
  PROVE  CoreInv' /\ SameCounts
  <1>1. /\ lifecycle \in {"Running", "Closing", "ShutDown"} /\ image \in BOOLEAN
        /\ closer \in [Closers -> ClosePlaces] /\ failed \in [Closers -> BOOLEAN]
        /\ owned \subseteq Handles
    BY DEF CoreInv, TypeInv
  <1>2. SameCalls /\ lifecycle' = lifecycle
    BY DEF StopRouting, StopCuda, ReleaseCatalog, SameCalls, callVars
  <1>3. closer' \in [Closers -> ClosePlaces] /\ failed' \in [Closers -> BOOLEAN]
    <2>1. closer' \in [Closers -> ClosePlaces]
      BY <1>1 DEF StopRouting, StopCuda, ReleaseCatalog, CloserGoto, ClosePlaces
    <2>2. \E f \in BOOLEAN : failed' = failed \/ failed' = [failed EXCEPT ![s] = f]
      BY DEF StopRouting, StopCuda, ReleaseCatalog
    <2>3. failed' \in [Closers -> BOOLEAN]
      BY <1>1, <2>2
    <2> QED BY <2>1, <2>3
  <1>4. image' \in BOOLEAN /\ (image' => image) /\ owned' \subseteq owned
    <2>1. CASE StopRouting(s)
      BY <2>1 DEF StopRouting
    <2>2. CASE StopCuda(s)
      BY <1>1, <2>2 DEF StopCuda
    <2>3. CASE ReleaseCatalog(s)
      BY <1>1, <2>3 DEF ReleaseCatalog
    <2> QED BY <2>1, <2>2, <2>3
  <1>5. \A h \in owned \ owned' : Unreferenced(h)
    <2>1. CASE StopRouting(s)
      BY <2>1 DEF StopRouting
    <2>2. CASE StopCuda(s)
      BY <1>1, <2>2 DEF StopCuda
    <2>3. CASE ReleaseCatalog(s)
      BY <1>1, <2>3 DEF ReleaseCatalog
    <2> QED BY <2>1, <2>2, <2>3
  <1>6. CloserInv'
    <2>1. CASE StopRouting(s)
      BY <1>1, <2>1 DEF StopRouting, CloserGoto, CoreInv, CloserInv
    <2>2. CASE StopCuda(s)
      BY <1>1, <2>2 DEF StopCuda, CloserGoto, CoreInv, CloserInv
    <2>3. CASE ReleaseCatalog(s)
      BY <1>1, <2>3 DEF ReleaseCatalog, CloserGoto, CoreInv, CloserInv
    <2> QED BY <2>1, <2>2, <2>3
  <1>7. lifecycle' = "ShutDown" => Total = 0 /\ owned' = {} /\ ~image'
    BY <1>2, <1>4 DEF CoreInv, ShutDownIsComplete
  <1> QED BY <1>1, <1>2, <1>3, <1>4, <1>5, <1>6, <1>7, SameCallsCore

\* mark_shut_down: a shutdown that recorded no failure has released everything.
LEMMA ShutdownCompletesCore ==
  ASSUME CoreInv, NEW s \in Closers, MarkShutDown(s)
  PROVE  CoreInv' /\ SameCounts
  <1>1. /\ lifecycle \in {"Running", "Closing", "ShutDown"} /\ image \in BOOLEAN
        /\ closer \in [Closers -> ClosePlaces] /\ failed \in [Closers -> BOOLEAN]
        /\ owned \subseteq Handles
    BY DEF CoreInv, TypeInv
  <1>2. SameCalls /\ UNCHANGED <<owned, image, failed>>
    BY DEF MarkShutDown, SameCalls, callVars
  <1>3. closer' \in [Closers -> ClosePlaces] /\ CloserInv'
    BY <1>1, <1>2, SMTT(60) DEF MarkShutDown, CloserGoto, ClosePlaces, CoreInv, CloserInv
  <1>4. lifecycle' = "ShutDown" => Total = 0 /\ owned' = {} /\ ~image'
    BY <1>1, <1>2, SMTT(60) DEF MarkShutDown, CoreInv, CloserInv, ShutDownIsComplete, Handles
  <1>5. lifecycle' \in {"Running", "Closing", "ShutDown"}
    BY <1>1 DEF MarkShutDown
  <1> QED BY <1>1, <1>2, <1>3, <1>4, <1>5, SameCallsCore

\* A step that changes nothing but flags keeps the invariant.
LEMMA UnchangedCore ==
  ASSUME CoreInv, SameCalls, UNCHANGED <<lifecycle, owned, image, closer, failed>>
  PROVE  CoreInv' /\ SameCounts
  <1>1. /\ lifecycle \in {"Running", "Closing", "ShutDown"} /\ image \in BOOLEAN
        /\ closer \in [Closers -> ClosePlaces] /\ failed \in [Closers -> BOOLEAN]
    BY DEF CoreInv, TypeInv
  <1>2. CloserInv' /\ (lifecycle = "ShutDown" => Total = 0 /\ owned = {} /\ ~image)
    BY <1>1 DEF CoreInv, CloserInv, ShutDownIsComplete
  <1> QED BY <1>1, <1>2, SameCallsCore

\* RequestRegistry::cancel only sets flags.
LEMMA CancelCore ==
  ASSUME CoreInv, NEW i \in Ids, Cancel(i)
  PROVE  CoreInv' /\ SameCounts
  <1>1. SameCalls /\ UNCHANGED <<lifecycle, owned, image, closer, failed>>
    BY DEF Cancel, SameCalls, closeVars
  <1> QED BY <1>1, UnchangedCore

-----------------------------------------------------------------------------
(* The counters.                                                            *)

\* Nothing is counted before the first call.
LEMMA InitCount == Init => CountInv
  <1> SUFFICES ASSUME Init PROVE CountInv
    OBVIOUS
  <1>1. HoldsSlot = {} /\ Repairing = {} /\ Admitted = {} /\ \A k \in Kinds : HoldsPermit(k) = {}
    BY DEF Init, HoldsSlot, SlotPlaces, Repairing, Admitted, HoldsPermit, Kinds
  <1>2. SlotInv
    BY <1>1, CountEmpty, CallAssumption, SMTT(60) DEF Init, SlotInv
  <1>3. ReservationInv
    BY <1>1, WeightEmpty, CallAssumption, SMTT(60) DEF Init, ReservationInv
  <1>4. PermitInv
    <2>1. IsFiniteSet({}) /\ Cardinality({}) = 0
      BY CountEmpty
    <2>2. \A k \in Kinds : active[k] = 0
      BY DEF Init
    <2>3. active["maintenance"] <= MaxMaintenance
      BY <2>2, CallAssumption, SMTT(60) DEF Kinds
    <2> QED BY <1>1, <2>1, <2>2, <2>3, SMTT(60) DEF PermitInv
  <1> QED BY <1>2, <1>3, <1>4 DEF CountInv

\* A permit that is held is counted.
LEMMA CountedPermits ==
  ASSUME CoreInv, CountInv
  PROVE  PermitsCounted
  <1>1. kind \in [Calls -> Kinds \cup {"none"}] /\ active \in [Kinds -> Int]
    BY DEF CoreInv, TypeInv
  <1>2. \A k \in Kinds :
          /\ IsFiniteSet(HoldsPermit(k))
          /\ active[k] = Cardinality(HoldsPermit(k))
                           + (IF k = "maintenance" THEN Cardinality(Repairing) ELSE 0)
    BY DEF CountInv, PermitInv
  <1>3. Cardinality(Repairing) \in Nat
    BY CountType DEF CountInv, PermitInv
  <1>4. ASSUME NEW k \in Kinds PROVE active[k] \in Nat /\ active[k] >= Cardinality(HoldsPermit(k))
    <2>1. Cardinality(HoldsPermit(k)) \in Nat
      BY <1>2, CountType
    <2> QED BY <1>2, <1>3, <2>1, SMTT(60)
  <1>5. ASSUME NEW c \in Calls, kind[c] # "none" PROVE active[kind[c]] >= 1
    <2>1. PICK k \in Kinds : kind[c] = k
      BY <1>1, <1>5
    <2>2. c \in HoldsPermit(k)
      BY <2>1 DEF HoldsPermit
    <2>3. /\ Cardinality(HoldsPermit(k) \ {c}) \in Nat
          /\ Cardinality(HoldsPermit(k)) = Cardinality(HoldsPermit(k) \ {c}) + 1
      BY <1>2, <2>2, CountRemove
    <2> QED BY <1>4, <2>1, <2>3, SMTT(60)
  <1> QED BY <1>1, <1>4, <1>5 DEF PermitsCounted

\* A step that leaves a counter and what it counts alone keeps its count.
SlotsKept == UNCHANGED <<slots, HoldsSlot>>
ReservationsKept == UNCHANGED <<reserved, bytes, Admitted>>
PermitsKept ==
    /\ UNCHANGED <<active, Repairing>>
    /\ \A k \in Kinds : HoldsPermit(k)' = HoldsPermit(k)

\* A count is right as long as neither it nor what it counts changes.
LEMMA KeptCounts ==
  ASSUME CountInv
  PROVE  /\ SlotsKept => SlotInv'
         /\ ReservationsKept => ReservationInv'
         /\ PermitsKept => PermitInv'
  <1>1. SlotsKept => SlotInv'
    BY DEF CountInv, SlotsKept, SlotInv
  <1>2. ReservationsKept => ReservationInv'
    BY DEF CountInv, ReservationsKept, ReservationInv
  <1>3. PermitsKept => PermitInv'
    BY DEF CountInv, PermitsKept, PermitInv
  <1> QED BY <1>1, <1>2, <1>3

\* So a step that changes none of them keeps all three.
LEMMA SameCountsInv ==
  ASSUME CountInv, SameCounts
  PROVE  CountInv'
  BY KeptCounts DEF SameCounts, SlotsKept, ReservationsKept, PermitsKept, CountInv

\* A call enters the places that hold a slot.
LEMMA AcquireSlotCount ==
  ASSUME CoreInv, CountInv, NEW c \in Calls, AcquireSlot(c), slots < MaxActive
  PROVE  CountInv'
  <1>1. /\ pc \in [Calls -> Places] /\ pc[c] = "registered" /\ pc' = [pc EXCEPT ![c] = "slotted"]
        /\ slots' = slots + 1 /\ slots \in Int /\ ~admitted[c]
    BY DEF CoreInv, TypeInv, PlaceInv, AcquireSlot, Goto, SlotPlaces
  <1>2. UNCHANGED <<active, kind, reserved, bytes, admitted>>
    BY DEF AcquireSlot
  <1>3. c \notin HoldsSlot /\ HoldsSlot' = HoldsSlot \cup {c} /\ Repairing' = Repairing
    BY <1>1 DEF HoldsSlot, SlotPlaces, Repairing
  <1>4. ReservationsKept /\ PermitsKept
    BY <1>1, <1>2, <1>3 DEF ReservationsKept, PermitsKept, Admitted, HoldsPermit
  <1>5. SlotInv'
    <2>1. IsFiniteSet(HoldsSlot) /\ slots = Cardinality(HoldsSlot)
      BY DEF CountInv, SlotInv
    <2>2. /\ IsFiniteSet(HoldsSlot \cup {c})
          /\ Cardinality(HoldsSlot \cup {c}) = Cardinality(HoldsSlot) + 1
      BY <1>3, <2>1, CountAdd
    <2> QED BY <1>1, <1>3, <2>1, <2>2, CallAssumption, SMTT(60) DEF SlotInv
  <1> QED BY <1>4, <1>5, KeptCounts DEF CountInv

\* What the other calls have reserved, while c holds a slot.
LEMMA WithoutCall ==
  ASSUME CoreInv, CountInv, NEW c \in HoldsSlot
  PROVE  /\ IsFiniteSet(Units(Admitted \ {c}, bytes))
         /\ Weight(Admitted \ {c}, bytes) \in Nat
         /\ Weight(Admitted \ {c}, bytes) = reserved - (IF admitted[c] THEN bytes[c] ELSE 0)
  <1>1. c \in Calls /\ bytes[c] \in Nat
    BY DEF CoreInv, TypeInv, HoldsSlot
  <1>2. IsFiniteSet(Units(Admitted, bytes)) /\ reserved = Weight(Admitted, bytes)
    BY DEF CountInv, ReservationInv
  <1>3. Weight(Admitted, bytes) \in Nat
    BY <1>2, WeightType
  <1>4. CASE admitted[c]
    <2>1. c \in Admitted
      BY <1>4 DEF Admitted
    <2>2. /\ IsFiniteSet(Units(Admitted \ {c}, bytes))
          /\ Weight(Admitted, bytes) = Weight(Admitted \ {c}, bytes) + bytes[c]
      BY <1>1, <1>2, <2>1, WeightRemove
    <2>3. Weight(Admitted \ {c}, bytes) \in Nat
      BY <2>2, WeightType
    <2> QED BY <1>1, <1>2, <1>4, <2>2, <2>3, SMTT(60)
  <1>5. CASE ~admitted[c]
    <2>1. Admitted \ {c} = Admitted
      <3>1. c \notin Admitted
        BY <1>5 DEF Admitted
      <3> QED BY <3>1
    <2>2. /\ IsFiniteSet(Units(Admitted \ {c}, bytes))
          /\ Weight(Admitted \ {c}, bytes) = Weight(Admitted, bytes)
      BY <1>2, <2>1
    <2> QED BY <1>2, <1>3, <1>5, <2>2, SMTT(60)
  <1> QED BY <1>4, <1>5

\* AdmissionPermit::drop: the slot and the bytes go back together.
LEMMA DropSlotCount ==
  ASSUME CoreInv, CountInv, NEW c \in Calls, DropSlot(c)
  PROVE  CountInv'
  <1>1. /\ pc \in [Calls -> Places] /\ pc[c] = "dropSlot"
        /\ pc' = [pc EXCEPT ![c] = "dropRegistration"]
        /\ slots' = slots - 1 /\ slots \in Int
        /\ admitted \in [Calls -> BOOLEAN] /\ admitted' = [admitted EXCEPT ![c] = FALSE]
        /\ bytes \in [Calls -> Nat] /\ bytes' = [bytes EXCEPT ![c] = 0]
        /\ reserved' = IF admitted[c] THEN reserved - bytes[c] ELSE reserved
    BY DEF CoreInv, TypeInv, DropSlot, Goto
  <1>2. c \in HoldsSlot /\ HoldsSlot' = HoldsSlot \ {c} /\ Repairing' = Repairing
    BY <1>1 DEF HoldsSlot, SlotPlaces, Repairing
  <1>3. PermitsKept
    BY <1>2 DEF DropSlot, PermitsKept, HoldsPermit
  <1>4. Admitted' = Admitted \ {c} /\ \A d \in Admitted \ {c} : bytes'[d] = bytes[d]
    BY <1>1, <1>2 DEF Admitted, HoldsSlot
  <1>5. SlotInv'
    <2>1. IsFiniteSet(HoldsSlot) /\ slots = Cardinality(HoldsSlot) /\ slots <= MaxActive
      BY DEF CountInv, SlotInv
    <2>2. /\ IsFiniteSet(HoldsSlot \ {c}) /\ Cardinality(HoldsSlot \ {c}) \in Nat
          /\ Cardinality(HoldsSlot) = Cardinality(HoldsSlot \ {c}) + 1
      BY <1>2, <2>1, CountRemove
    <2> QED BY <1>1, <1>2, <2>1, <2>2, CallAssumption, SMTT(60) DEF SlotInv
  <1>6. ReservationInv'
    <2>1. /\ Units(Admitted \ {c}, bytes') = Units(Admitted \ {c}, bytes)
          /\ Weight(Admitted \ {c}, bytes') = Weight(Admitted \ {c}, bytes)
      BY <1>4, WeightKept
    <2>2. /\ IsFiniteSet(Units(Admitted \ {c}, bytes))
          /\ Weight(Admitted \ {c}, bytes) = reserved - (IF admitted[c] THEN bytes[c] ELSE 0)
      BY <1>2, WithoutCall
    <2>3. reserved \in Int /\ reserved <= MaxBytes /\ bytes[c] \in Nat
      BY DEF CoreInv, TypeInv, CountInv, ReservationInv
    <2>4. IsFiniteSet(Units(Admitted, bytes))' /\ Weight(Admitted, bytes)' = reserved'
      BY <1>1, <1>4, <2>1, <2>2, <2>3, SMTT(60)
    <2>5. reserved' <= MaxBytes
      BY <1>1, <2>3, CallAssumption, SMTT(60)
    <2> QED BY <2>4, <2>5 DEF ReservationInv
  <1> QED BY <1>3, <1>5, <1>6, KeptCounts DEF CountInv

\* AdmissionPermit::reserve: the new estimate takes the place of the old one.
LEMMA ReserveCount ==
  ASSUME CoreInv, CountInv, NEW c \in Calls, NEW n \in Nat, Reserves(c, n)
  PROVE  CountInv'
  <1>1. /\ pc \in [Calls -> Places] /\ pc[c] = "leased" /\ pc' = [pc EXCEPT ![c] = "searching"]
        /\ admitted \in [Calls -> BOOLEAN] /\ admitted' = [admitted EXCEPT ![c] = TRUE]
        /\ bytes \in [Calls -> Nat] /\ bytes' = [bytes EXCEPT ![c] = n]
    BY DEF CoreInv, TypeInv, Reserves, Goto
  <1>2. c \in HoldsSlot /\ HoldsSlot' = HoldsSlot /\ Repairing' = Repairing
    BY <1>1 DEF HoldsSlot, SlotPlaces, Repairing
  <1>3. SlotsKept /\ PermitsKept
    BY <1>2 DEF Reserves, SlotsKept, PermitsKept, HoldsPermit
  <1>4. /\ Admitted' = (Admitted \ {c}) \cup {c} /\ bytes'[c] = n
        /\ \A d \in Admitted \ {c} : bytes'[d] = bytes[d]
    BY <1>1, <1>2 DEF Admitted, HoldsSlot
  <1>5. ReservationInv'
    <2>1. /\ Units(Admitted \ {c}, bytes') = Units(Admitted \ {c}, bytes)
          /\ Weight(Admitted \ {c}, bytes') = Weight(Admitted \ {c}, bytes)
      BY <1>4, WeightKept
    <2>2. /\ IsFiniteSet(Units(Admitted \ {c}, bytes))
          /\ Weight(Admitted \ {c}, bytes) = reserved - (IF admitted[c] THEN bytes[c] ELSE 0)
      BY <1>2, WithoutCall
    <2>3. /\ IsFiniteSet(Units((Admitted \ {c}) \cup {c}, bytes'))
          /\ Weight((Admitted \ {c}) \cup {c}, bytes') = Weight(Admitted \ {c}, bytes') + bytes'[c]
      <3>1. IsFiniteSet(Units(Admitted \ {c}, bytes'))
        BY <2>1, <2>2
      <3>2. c \notin Admitted \ {c} /\ bytes'[c] \in Nat
        BY <1>4
      <3> QED BY <3>1, <3>2, WeightAdd
    <2>4. /\ reserved' = (reserved - (IF admitted[c] THEN bytes[c] ELSE 0)) + n
          /\ reserved' <= MaxBytes
      BY DEF Reserves
    <2>5. IsFiniteSet(Units(Admitted, bytes))' /\ Weight(Admitted, bytes)' = reserved'
      BY <1>4, <2>1, <2>2, <2>3, <2>4, SMTT(60)
    <2> QED BY <2>4, <2>5 DEF ReservationInv
  <1> QED BY <1>3, <1>5, KeptCounts DEF CountInv

\* The permits of kind k are counted anew, the others are as they were.
Recounted(k) ==
    /\ \A j \in Kinds : j # k => active'[j] = active[j] /\ HoldsPermit(j)' = HoldsPermit(j)
    /\ k # "maintenance" => Repairing' = Repairing
    /\ IsFiniteSet(HoldsPermit(k)')
    /\ IsFiniteSet(Repairing')
    /\ active'[k] = Cardinality(HoldsPermit(k)')
                      + (IF k = "maintenance" THEN Cardinality(Repairing') ELSE 0)
    /\ k = "maintenance" => active'[k] <= MaxMaintenance

\* Recounting the permits of one kind keeps the others right.
LEMMA RecountedPermits ==
  ASSUME CountInv, NEW k \in Kinds, Recounted(k)
  PROVE  PermitInv'
  <1>1. active'["maintenance"] <= MaxMaintenance
    BY DEF CountInv, PermitInv, Kinds, Recounted
  <1>2. ASSUME NEW j \in Kinds
        PROVE  /\ IsFiniteSet(HoldsPermit(j)')
               /\ active'[j] = Cardinality(HoldsPermit(j)')
                    + (IF j = "maintenance" THEN Cardinality(Repairing') ELSE 0)
    <2>1. CASE j = k
      BY <2>1 DEF Recounted
    <2>2. CASE j # k
      <3>1. /\ IsFiniteSet(HoldsPermit(j))
            /\ active[j] = Cardinality(HoldsPermit(j))
                 + (IF j = "maintenance" THEN Cardinality(Repairing) ELSE 0)
        BY DEF CountInv, PermitInv
      <3> QED BY <2>2, <3>1 DEF Recounted
    <2> QED BY <2>1, <2>2
  <1>3. IsFiniteSet(Repairing')
    BY DEF Recounted
  <1> QED BY <1>1, <1>2, <1>3 DEF PermitInv

\* LifecycleController::begin: a permit is counted when it begins.
LEMMA BeginCount ==
  ASSUME CoreInv, CountInv, NEW c \in Calls, NEW k \in Kinds, Begins(c, k)
  PROVE  CountInv'
  <1>1. /\ pc \in [Calls -> Places] /\ pc[c] = "idle" /\ pc' = [pc EXCEPT ![c] = pc'[c]]
        /\ pc'[c] \in {"operating", "begun"} /\ active \in [Kinds -> Int]
        /\ kind \in [Calls -> Kinds \cup {"none"}] /\ kind' = [kind EXCEPT ![c] = k]
        /\ UNCHANGED <<slots, reserved, bytes, admitted>>
    BY DEF CoreInv, TypeInv, Begins, Goto, callVars
  <1>2. UNCHANGED <<HoldsSlot, Repairing>>
    BY <1>1 DEF HoldsSlot, SlotPlaces, Repairing
  <1>3. SlotsKept /\ ReservationsKept
    BY <1>1, <1>2 DEF SlotsKept, ReservationsKept, Admitted
  <1>4. kind[c] = "none"
    BY <1>1 DEF CoreInv, PlaceInv, UnpermittedPlaces
  <1>5. /\ c \notin HoldsPermit(k) /\ HoldsPermit(k)' = HoldsPermit(k) \cup {c}
        /\ \A j \in Kinds : j # k => HoldsPermit(j)' = HoldsPermit(j)
    BY <1>1, <1>4 DEF HoldsPermit, Kinds
  <1>6. /\ IsFiniteSet(HoldsPermit(k)) /\ IsFiniteSet(Repairing)
        /\ active[k] = Cardinality(HoldsPermit(k))
                         + (IF k = "maintenance" THEN Cardinality(Repairing) ELSE 0)
    BY DEF CountInv, PermitInv
  <1>7. /\ IsFiniteSet(HoldsPermit(k) \cup {c})
        /\ Cardinality(HoldsPermit(k) \cup {c}) = Cardinality(HoldsPermit(k)) + 1
        /\ Cardinality(HoldsPermit(k)) \in Nat /\ Cardinality(Repairing) \in Nat
    BY <1>5, <1>6, CountAdd, CountType
  <1>8. /\ active'[k] = active[k] + 1 /\ \A j \in Kinds : j # k => active'[j] = active[j]
        /\ k = "maintenance" => active'[k] <= MaxMaintenance
    BY <1>1, CallAssumption, SMTT(60) DEF Begins, CanBegin
  <1>9. Recounted(k)
    BY <1>2, <1>5, <1>6, <1>7, <1>8, SMTT(60) DEF Recounted
  <1> QED BY <1>3, <1>9, KeptCounts, RecountedPermits, SMTT(60) DEF CountInv

\* LifecyclePermit::drop: a permit is no longer counted when it ends.
LEMMA DropOperationCount ==
  ASSUME CoreInv, CountInv, NEW c \in Calls, DropOperation(c), NEW k \in Kinds, kind[c] = k
  PROVE  CountInv'
  <1>1. /\ pc \in [Calls -> Places] /\ pc[c] = "dropOperation" /\ pc' = [pc EXCEPT ![c] = "done"]
        /\ kind \in [Calls -> Kinds \cup {"none"}] /\ kind' = [kind EXCEPT ![c] = "none"]
        /\ active \in [Kinds -> Int] /\ active' = [active EXCEPT ![k] = @ - 1]
        /\ UNCHANGED <<slots, reserved, bytes, admitted>>
    BY DEF CoreInv, TypeInv, DropOperation, Goto, callVars
  <1>2. UNCHANGED <<HoldsSlot, Repairing>>
    BY <1>1 DEF HoldsSlot, SlotPlaces, Repairing
  <1>3. SlotsKept /\ ReservationsKept
    BY <1>1, <1>2 DEF SlotsKept, ReservationsKept, Admitted
  <1>4. /\ c \in HoldsPermit(k) /\ HoldsPermit(k)' = HoldsPermit(k) \ {c}
        /\ \A j \in Kinds : j # k => HoldsPermit(j)' = HoldsPermit(j)
    BY <1>1 DEF HoldsPermit, Kinds
  <1>5. /\ IsFiniteSet(HoldsPermit(k)) /\ IsFiniteSet(Repairing)
        /\ active[k] = Cardinality(HoldsPermit(k))
                         + (IF k = "maintenance" THEN Cardinality(Repairing) ELSE 0)
    BY DEF CountInv, PermitInv
  <1>6. /\ IsFiniteSet(HoldsPermit(k) \ {c}) /\ Cardinality(HoldsPermit(k) \ {c}) \in Nat
        /\ Cardinality(HoldsPermit(k)) = Cardinality(HoldsPermit(k) \ {c}) + 1
        /\ Cardinality(Repairing) \in Nat
    BY <1>4, <1>5, CountRemove, CountType
  <1>7. /\ active'[k] = active[k] - 1 /\ \A j \in Kinds : j # k => active'[j] = active[j]
        /\ k = "maintenance" => active'[k] <= MaxMaintenance
    BY <1>1, CallAssumption, SMTT(60) DEF CountInv, PermitInv
  <1>8. Recounted(k)
    BY <1>2, <1>4, <1>5, <1>6, <1>7, SMTT(60) DEF Recounted
  <1> QED BY <1>3, <1>8, KeptCounts, RecountedPermits, SMTT(60) DEF CountInv

\* A repair's second permit is counted with the call that repairs.
LEMMA RepairCount ==
  ASSUME CoreInv, CountInv, NEW c \in Calls, RepairImage(c), CanBegin("maintenance")
  PROVE  CountInv'
  <1>1. /\ pc \in [Calls -> Places] /\ pc[c] = "searching" /\ pc' = [pc EXCEPT ![c] = "repairing"]
        /\ active \in [Kinds -> Int] /\ active' = [active EXCEPT !["maintenance"] = @ + 1]
        /\ UNCHANGED <<kind, slots, reserved, bytes, admitted>>
    BY DEF CoreInv, TypeInv, RepairImage, Goto
  <1>2. /\ HoldsSlot' = HoldsSlot /\ c \notin Repairing /\ Repairing' = Repairing \cup {c}
        /\ \A j \in Kinds : HoldsPermit(j)' = HoldsPermit(j)
    BY <1>1 DEF HoldsSlot, SlotPlaces, Repairing, HoldsPermit
  <1>3. SlotsKept /\ ReservationsKept
    BY <1>1, <1>2 DEF SlotsKept, ReservationsKept, Admitted
  <1>4. /\ IsFiniteSet(HoldsPermit("maintenance")) /\ IsFiniteSet(Repairing)
        /\ active["maintenance"] = Cardinality(HoldsPermit("maintenance")) + Cardinality(Repairing)
    BY DEF CountInv, PermitInv, Kinds
  <1>5. /\ IsFiniteSet(Repairing \cup {c})
        /\ Cardinality(Repairing \cup {c}) = Cardinality(Repairing) + 1
        /\ Cardinality(HoldsPermit("maintenance")) \in Nat /\ Cardinality(Repairing) \in Nat
    BY <1>2, <1>4, CountAdd, CountType
  <1>6. /\ active'["maintenance"] = active["maintenance"] + 1
        /\ \A j \in Kinds : j # "maintenance" => active'[j] = active[j]
        /\ active'["maintenance"] <= MaxMaintenance
    BY <1>1, CallAssumption, SMTT(60) DEF CanBegin, Kinds
  <1>7. Recounted("maintenance")
    BY <1>2, <1>4, <1>5, <1>6, SMTT(60) DEF Recounted, Kinds
  <1> QED BY <1>3, <1>7, KeptCounts, RecountedPermits, SMTT(60) DEF CountInv, Kinds

\* A repair that ends gives its maintenance permit back.
LEMMA FinishRepairCount ==
  ASSUME CoreInv, CountInv, NEW c \in Calls, FinishRepair(c)
  PROVE  CountInv'
  <1>1. /\ pc \in [Calls -> Places] /\ pc[c] = "repairing" /\ pc' = [pc EXCEPT ![c] = "dropSlot"]
        /\ active \in [Kinds -> Int] /\ active' = [active EXCEPT !["maintenance"] = @ - 1]
        /\ UNCHANGED <<kind, slots, reserved, bytes, admitted>>
    BY DEF CoreInv, TypeInv, FinishRepair, Goto, Kinds
  <1>2. /\ HoldsSlot' = HoldsSlot /\ c \in Repairing /\ Repairing' = Repairing \ {c}
        /\ \A j \in Kinds : HoldsPermit(j)' = HoldsPermit(j)
    BY <1>1 DEF HoldsSlot, SlotPlaces, Repairing, HoldsPermit
  <1>3. SlotsKept /\ ReservationsKept
    BY <1>1, <1>2 DEF SlotsKept, ReservationsKept, Admitted
  <1>4. /\ IsFiniteSet(HoldsPermit("maintenance")) /\ IsFiniteSet(Repairing)
        /\ active["maintenance"] = Cardinality(HoldsPermit("maintenance")) + Cardinality(Repairing)
    BY DEF CountInv, PermitInv, Kinds
  <1>5. /\ IsFiniteSet(Repairing \ {c}) /\ Cardinality(Repairing \ {c}) \in Nat
        /\ Cardinality(Repairing) = Cardinality(Repairing \ {c}) + 1
        /\ Cardinality(HoldsPermit("maintenance")) \in Nat
    BY <1>2, <1>4, CountRemove, CountType
  <1>6. /\ active'["maintenance"] = active["maintenance"] - 1
        /\ \A j \in Kinds : j # "maintenance" => active'[j] = active[j]
        /\ active'["maintenance"] <= MaxMaintenance
    BY <1>1, CallAssumption, SMTT(60) DEF CountInv, PermitInv, Kinds
  <1>7. Recounted("maintenance")
    BY <1>2, <1>4, <1>5, <1>6, SMTT(60) DEF Recounted, Kinds
  <1> QED BY <1>3, <1>7, KeptCounts, RecountedPermits DEF CountInv, Kinds

\* Every step of a call keeps the invariant.
LEMMA CallStepInv ==
  ASSUME CallsInv, NEW c \in Calls, BeginCall(c) \/ CallStep(c)
  PROVE  CallsInv'
  <1>1. CoreInv /\ CountInv /\ PermitsCounted
    BY CountedPermits DEF CallsInv
  <1>2. CASE Quiet(c)
    BY <1>1, <1>2, QuietCore, SameCountsInv, SMTT(60) DEF CallsInv
  <1>3. CASE BeginCall(c)
    BY <1>1, <1>2, <1>3, BeginsOrReads, BeginCore, BeginCount DEF CallsInv
  <1>4. CASE DropOperation(c)
    BY <1>1, <1>4, DropOperationCore, DropOperationCount DEF CallsInv
  <1>5. CASE AcquireSlot(c) \/ DropSlot(c)
    BY <1>1, <1>2, <1>5, RefusalsAreQuiet, SlotMoves, AcquireSlotCount, DropSlotCount, SMTT(60) DEF CallsInv
  <1>6. CASE AttemptCuda(c) \/ \E n \in Sizes : ReserveCpu(c, n)
    BY <1>1, <1>2, <1>6, ReservesOrRefuses, ReserveMoves, ReserveCount DEF CallsInv
  <1>7. CASE RepairImage(c) \/ FinishRepair(c)
    BY <1>1, <1>2, <1>7, RefusalsAreQuiet, RepairMoves, RepairCount, FinishRepairCount, SMTT(60) DEF CallsInv
  <1>8. CASE DropRegistration(c)
    BY <1>1, <1>8, DropRegistrationCore, SameCountsInv, SMTT(60) DEF CallsInv
  <1>9. ASSUME NEW i \in Ids, Register(c, i) PROVE CallsInv'
    BY <1>1, <1>2, <1>9, RefusalsAreQuiet, RegisterCore, SameCountsInv DEF CallsInv
  <1> QED BY <1>1, <1>2, <1>3, <1>4, <1>5, <1>6, <1>7, <1>8, <1>9, QuietSteps
          DEF CallStep

\* So does every other step, and every stuttering step.
LEMMA StepInv == CallsInv /\ [Next]_vars => CallsInv'
  <1> SUFFICES ASSUME CallsInv, [Next]_vars PROVE CallsInv'
    OBVIOUS
  <1>1. CoreInv /\ CountInv
    BY DEF CallsInv
  <1>2. ASSUME NEW i \in Ids, Cancel(i) PROVE CallsInv'
    BY <1>1, <1>2, CancelCore, SameCountsInv DEF CallsInv
  <1>3. ASSUME NEW s \in Closers, CloserStep(s) PROVE CallsInv'
    BY <1>1, <1>3, ShutdownProceeds, ShutdownReleases, ShutdownCompletesCore, SameCountsInv DEF CallsInv, CloserStep
  <1>4. CASE UNCHANGED vars
    <2>1. SameCalls /\ UNCHANGED <<lifecycle, owned, image, closer, failed>>
      BY <1>4 DEF vars, callVars, closeVars, SameCalls
    <2> QED BY <1>1, <2>1, UnchangedCore, SameCountsInv DEF CallsInv
  <1> QED BY <1>2, <1>3, <1>4, CallStepInv DEF Next

\* Closing is a one-way boundary for one step: nothing begins beyond it.
Final ==
    lifecycle # "Running" =>
        /\ lifecycle' # "Running"
        /\ lifecycle = "ShutDown" => lifecycle' = "ShutDown"
        /\ \A k \in Kinds : active'[k] <= active[k]

\* No step reopens admission or lets a closed engine begin an operation.
LEMMA StepFinal == CallsInv /\ [Next]_vars => Final
  <1> SUFFICES ASSUME CallsInv, [Next]_vars PROVE Final
    OBVIOUS
  <1>1. active \in [Kinds -> Int] /\ CoreInv
    BY DEF CallsInv, CoreInv, TypeInv
  <1>2. CASE UNCHANGED <<lifecycle, active>>
    BY <1>1, <1>2, SMTT(60) DEF Final
  <1>3. CASE UNCHANGED vars \/ \E i \in Ids : Cancel(i)
    BY <1>2, <1>3 DEF vars, Cancel
  <1>4. ASSUME NEW c \in Calls, BeginCall(c) PROVE Final
    <2>1. Quiet(c) => UNCHANGED <<lifecycle, active>>
      BY DEF Quiet, Moves
    <2>2. ASSUME NEW k \in Kinds, Begins(c, k) PROVE lifecycle = "Running"
      BY <2>2 DEF Begins, CanBegin
    <2> QED BY <1>1, <1>2, <1>4, <2>1, <2>2, BeginsOrReads DEF Final
  <1>5. ASSUME NEW c \in Calls, DropOperation(c) \/ FinishRepair(c) PROVE Final
    BY <1>1, <1>5, SMTT(60) DEF DropOperation, FinishRepair, Final
  <1>6. ASSUME NEW c \in Calls, RepairImage(c) PROVE Final
    BY <1>2, <1>6 DEF RepairImage, CanBegin, Final
  <1>7. ASSUME NEW c \in Calls, CallStep(c) PROVE Final
    <2>1. CASE \/ UseCatalog(c) \/ FinishOperation(c) \/ FinishRead(c) \/ RejectDestinations(c)
               \/ AcquireSlot(c) \/ LeaseImage(c) \/ AttemptCuda(c) \/ FallBackToCpu(c)
      BY <1>2, <2>1
      DEF UseCatalog, FinishOperation, FinishRead, RejectDestinations, AcquireSlot, LeaseImage,
          AttemptCuda, FallBackToCpu
    <2>2. CASE \/ FinishSearch(c) \/ DropSlot(c) \/ DropRegistration(c)
               \/ \E i \in Ids : Register(c, i)
               \/ \E n \in Sizes : ReserveCpu(c, n)
      BY <1>2, <2>2
      DEF FinishSearch, DropSlot, DropRegistration, Register, ReserveCpu
    <2> QED BY <1>5, <1>6, <1>7, <2>1, <2>2 DEF CallStep
  <1>8. ASSUME NEW s \in Closers, CloserStep(s) PROVE Final
    <2>1. active' = active
      BY <1>8
      DEF CloserStep, EnterShutdown, CloseAdmission, CancelAll, WaitForDrain, StopRouting,
          StopCuda, ReleaseCatalog, MarkShutDown
    <2>2. \/ lifecycle' = lifecycle
          \/ lifecycle = "Running" /\ lifecycle' = "Closing"
          \/ lifecycle' = "ShutDown"
      BY <1>8
      DEF CloserStep, EnterShutdown, CloseAdmission, CancelAll, WaitForDrain, StopRouting,
          StopCuda, ReleaseCatalog, MarkShutDown
    <2> QED BY <1>1, <2>1, <2>2, SMTT(60) DEF Final
  <1> QED BY <1>3, <1>4, <1>7, <1>8 DEF Next

\* The controllers' invariant holds in every reachable state, whatever the
\* number of calls, closers, ids and estimates and whatever the limits.
THEOREM CallsInvariant == Spec => []CallsInv
  <1>1. Init => CallsInv
    BY InitCore, InitCount DEF CallsInv
  <1> QED BY <1>1, StepInv, PTL DEF Spec

\* Every early return of a route gives back exactly what it took: slots,
\* reserved bytes and lifecycle permits equal what the running calls hold.
THEOREM AccountingHolds == Spec => []AccountingIsExact
  <1>1. CallsInv => AccountingIsExact
    BY DEF CallsInv, CountInv, SlotInv, ReservationInv, PermitInv, AccountingIsExact
  <1> QED BY <1>1, CallsInvariant, PTL

\* A request id names exactly the running route that registered it.
THEOREM RegistryHolds == Spec => []RegistryIsExact
  <1>1. CallsInv => RegistryIsExact
    BY DEF CallsInv, CoreInv
  <1> QED BY <1>1, CallsInvariant, PTL

\* ShutDown is reported only when nothing runs and everything is released.
THEOREM ShutDownHolds == Spec => []ShutDownIsComplete
  <1>1. CallsInv => ShutDownIsComplete
    BY DEF CallsInv, CoreInv
  <1> QED BY <1>1, CallsInvariant, PTL

\* The lifecycle never goes back and nothing is admitted once it left Running.
THEOREM ClosingHolds == Spec => ClosingIsFinal
  <1>1. CallsInv /\ [Next]_vars => [Final]_vars
    BY StepFinal
  <1> QED BY <1>1, CallsInvariant, PTL DEF Spec, ClosingIsFinal, Final
=============================================================================
