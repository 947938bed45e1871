---------------------------- MODULE FacadeProofs ----------------------------
(***************************************************************************)
(* Proofs that a request runs once and is signalled once, that a signal is *)
(* not lost, and that checkpoint operations precede the close of           *)
(* admission, for every number of callers, every range of ids and every    *)
(* situation.                                                              *)
(***************************************************************************)
EXTENDS Facade, TLAPS

\* A step is proved by Zenon unless it names SMT, for arithmetic.
USE ZenonT(60)

\* None is no caller, no request id and no answer.
LEMMA NoneIsOutside ==
  None \notin Callers /\ None \notin RequestIds /\ None # "Duplicate" /\ None # "Path"
  <1>1. RequestIds \subseteq Nat
    BY SMTT(60), FacadeAssumption DEF RequestIds
  <1> QED BY <1>1, HydrationAssumption, FacadeAssumption

-----------------------------------------------------------------------------
(* What a step of one caller leaves of the others.                          *)

\* Where the external lock is held or shutdown has begun.
ClosingPlaces == {"open?", "external", "lockExternal", "close", "signal", "drain"}

CallerStep(c) ==
    /\ DOMAIN pc' = Callers /\ DOMAIN answer' = Callers
    /\ req' \in [Callers -> RequestIds \cup {None}]
    /\ swapped' \in [Callers -> BOOLEAN]
    /\ \A d \in Callers : d # c => /\ pc'[d] = pc[d] /\ req'[d] = req[d]
                                   /\ swapped'[d] = swapped[d] /\ answer'[d] = answer[d]

\* A flag is only ever set, and only one of an allocated request.
FlagsRise ==
    /\ flag' \in [RequestIds -> BOOLEAN]
    /\ \A i \in RequestIds : flag[i] => flag'[i]
    /\ \A i \in RequestIds : flag'[i] => flag[i] \/ phase[i] # "none"

\* Every action writes the caller's own entries.
LEMMA OwnEntries ==
  ASSUME FacadeTypes, NEW c \in Callers,
         \E x : pc' = [pc EXCEPT ![c] = x],
         answer' = answer \/ \E y : answer' = [answer EXCEPT ![c] = y],
         req' = req \/ \E i \in RequestIds \cup {None} : req' = [req EXCEPT ![c] = i],
         swapped' = swapped \/ \E v \in BOOLEAN : swapped' = [swapped EXCEPT ![c] = v]
  PROVE  CallerStep(c)
  <1>1. DOMAIN pc' = Callers /\ \A d \in Callers : d # c => pc'[d] = pc[d]
    BY DEF FacadeTypes
  <1>2. DOMAIN answer' = Callers /\ \A d \in Callers : d # c => answer'[d] = answer[d]
    BY DEF FacadeTypes
  <1>3. /\ req' \in [Callers -> RequestIds \cup {None}]
        /\ \A d \in Callers : d # c => req'[d] = req[d]
    <2>1. req \in [Callers -> RequestIds \cup {None}]
      BY DEF FacadeTypes
    <2>2. CASE req' = req
      BY <2>1, <2>2
    <2>3. CASE \E i \in RequestIds \cup {None} : req' = [req EXCEPT ![c] = i]
      BY <2>1, <2>3
    <2> QED BY <2>2, <2>3
  <1>4. /\ swapped' \in [Callers -> BOOLEAN]
        /\ \A d \in Callers : d # c => swapped'[d] = swapped[d]
    <2>1. swapped \in [Callers -> BOOLEAN]
      BY DEF FacadeTypes
    <2>2. CASE swapped' = swapped
      BY <2>1, <2>2
    <2>3. CASE \E v \in BOOLEAN : swapped' = [swapped EXCEPT ![c] = v]
      BY <2>1, <2>3
    <2> QED BY <2>2, <2>3
  <1> QED BY <1>1, <1>2, <1>3, <1>4 DEF CallerStep

\* A call that cancels works on an id.
LEMMA CancelsRequest ==
  ASSUME FacadeTypes, IssueInv, NEW d \in Callers, pc[d] \in Cancels
  PROVE  req[d] \in RequestIds /\ req[d] # None /\ phase[req[d]] # "none"
  <1>1. req[d] \in RequestIds \cup {None}
    BY DEF FacadeTypes
  <1>2. req[d] # None
    BY DEF IssueInv
  <1>3. phase[req[d]] # "none"
    BY <1>2 DEF IssueInv
  <1> QED BY <1>1, <1>2, <1>3

\* So does one that is about to report a signal.
LEMMA SignalsRequest ==
  ASSUME FacadeTypes, IssueInv, NEW d \in Callers, Signals(d)
  PROVE  req[d] \in RequestIds /\ req[d] # None
  <1>1. pc[d] \in Cancels
    BY DEF Signals, Cancels
  <1> QED BY <1>1, CancelsRequest

\* Allocation is where it was when no id is allocated, and the caller works on
\* a request that is.
LEMMA IssueKept ==
  ASSUME FacadeInv, NEW c \in Callers, CallerStep(c), highWater' = highWater, held' \subseteq held,
         \A i \in RequestIds : phase'[i] = "none" <=> phase[i] = "none",
         \A i \in RequestIds : phase[i] = "none" => (flag'[i] => flag[i]) /\ signals'[i] = signals[i],
         \A i \in RequestIds : phase'[i] # "COMPLETE" => response'[i] = None,
         req'[c] # None => phase[req'[c]] # "none",
         pc'[c] \in Cancels \cup {"claim"} \/ Owns(c)' => req'[c] # None
  PROVE  IssueInv'
  <1>1. IssueInv /\ FacadeTypes
    BY DEF FacadeInv
  <1>2. ASSUME NEW i \in RequestIds
        PROVE  /\ phase'[i] = "none" => i \notin held' /\ ~flag'[i] /\ signals'[i] = 0
               /\ phase'[i] # "none" => highWater' # None /\ i <= highWater'
               /\ phase'[i] # "COMPLETE" => response'[i] = None
    BY <1>1 DEF IssueInv
  <1>3. ASSUME NEW d \in Callers
        PROVE  /\ req'[d] # None => phase'[req'[d]] # "none"
               /\ pc'[d] \in Cancels \cup {"claim"} \/ Owns(d)' => req'[d] # None
    <2>1. req'[d] \in RequestIds \cup {None}
      BY DEF CallerStep
    <2>2. req'[d] # None => phase[req'[d]] # "none"
      BY <1>1 DEF IssueInv, CallerStep
    <2>3. pc'[d] \in Cancels \cup {"claim"} \/ Owns(d)' => req'[d] # None
      BY <1>1 DEF IssueInv, CallerStep, Owns
    <2> QED BY <2>1, <2>2, <2>3
  <1> QED BY <1>2, <1>3 DEF IssueInv

\* Signals stay right when none is reported and the caller is about to report
\* none.
LEMMA SignalKept ==
  ASSUME FacadeInv, NEW c \in Callers, CallerStep(c), signals' = signals,
         \A i \in RequestIds : flag[i] => flag'[i],
         pc'[c] # "completed?"
  PROVE  SignalInv'
  <1>1. SignalInv /\ IssueInv /\ FacadeTypes
    BY DEF FacadeInv
  <1>2. \A i \in RequestIds : signals'[i] <= 1 /\ (~flag'[i] => signals'[i] = 0)
    BY <1>1 DEF SignalInv
  <1>3. ASSUME NEW d \in Callers, Signals(d)'
        PROVE  Signals(d) /\ d # c /\ req'[d] = req[d] /\ req[d] \in RequestIds
    <2>1. Signals(d) /\ d # c /\ req'[d] = req[d]
      BY <1>3 DEF Signals, CallerStep
    <2>2. req[d] \in RequestIds
      BY <1>1, <2>1, SignalsRequest
    <2> QED BY <2>1, <2>2
  <1>4. \A d \in Callers : Signals(d)' => flag'[req'[d]] /\ signals'[req'[d]] = 0
    BY <1>1, <1>3 DEF SignalInv
  <1>5. \A d, e \in Callers : Signals(d)' /\ Signals(e)' /\ req'[d] = req'[e] => d = e
    BY <1>1, <1>3 DEF SignalInv
  <1> QED BY <1>2, <1>4, <1>5 DEF SignalInv

\* Execution is where it was when the caller neither executes a request nor
\* had one registered.
LEMMA RunKept ==
  ASSUME FacadeInv, NEW c \in Callers, CallerStep(c), UNCHANGED <<phase, response, registry>>,
         pc[c] \notin Registered, ~Owns(c)', answer'[c] # "Duplicate",
         answer'[c] # None => pc'[c] = "return"
  PROVE  RunInv'
  <1>1. RunInv
    BY DEF FacadeInv
  <1>2. ASSUME NEW d \in Callers
        PROVE  /\ pc'[d] \in Executing => phase'[req'[d]] = "EXECUTING"
               /\ pc'[d] = "store" => phase'[req'[d]] = "COMPLETE" /\ response'[req'[d]] = None
    <2>1. CASE d = c
      BY <2>1 DEF Owns
    <2>2. CASE d # c
      <3>1. pc'[d] = pc[d] /\ req'[d] = req[d]
        BY <2>2 DEF CallerStep
      <3>2. /\ pc[d] \in Executing => phase[req[d]] = "EXECUTING"
            /\ pc[d] = "store" => phase[req[d]] = "COMPLETE" /\ response[req[d]] = None
        BY <1>1 DEF RunInv
      <3> QED BY <3>1, <3>2
    <2> QED BY <2>1, <2>2
  <1>3. ASSUME NEW d \in Callers
        PROVE  /\ answer'[d] # "Duplicate"
               /\ answer'[d] # None => pc'[d] \in {"leave", "complete", "store", "unwind", "return"}
    <2>1. CASE d = c
      BY <2>1
    <2>2. CASE d # c
      <3>1. pc'[d] = pc[d] /\ answer'[d] = answer[d]
        BY <2>2 DEF CallerStep
      <3>2. /\ answer[d] # "Duplicate"
            /\ answer[d] # None => pc[d] \in {"leave", "complete", "store", "unwind", "return"}
        BY <1>1 DEF RunInv
      <3> QED BY <3>1, <3>2
    <2> QED BY <2>1, <2>2
  <1>4. ASSUME NEW d \in Callers, NEW e \in Callers, Owns(d)', Owns(e)', req'[d] = req'[e]
        PROVE  d = e
    <2>1. Owns(d) /\ Owns(e) /\ req[d] = req[e]
      BY <1>4 DEF CallerStep, Owns
    <2> QED BY <1>1, <2>1 DEF RunInv
  <1>5. ASSUME NEW i \in registry'
        PROVE  \E d \in Callers : pc'[d] \in Registered /\ req'[d] = i
    <2>1. PICK d \in Callers : pc[d] \in Registered /\ req[d] = i
      BY <1>1, <1>5 DEF RunInv
    <2>2. d # c
      BY <2>1
    <2> QED BY <2>1, <2>2 DEF CallerStep
  <1> QED BY <1>2, <1>3, <1>4, <1>5 DEF RunInv

\* Nothing opens or closes when the caller is not on its way to it.
LEMMA CloseKept ==
  ASSUME FacadeInv, NEW c \in Callers, CallerStep(c), UNCHANGED <<lifecycle, shuttingDown, external>>,
         pc'[c] \notin ClosingPlaces
  PROVE  CloseInv'
  BY DEF FacadeInv, CloseInv, CallerStep, ClosingPlaces

-----------------------------------------------------------------------------
(* Steps that concern no execution of a request and no report of a signal.  *)

Quiet(c) ==
    /\ CallerStep(c)
    /\ UNCHANGED <<highWater, held, phase, response, signals, registry, limits>>
    /\ table' \subseteq RequestIds
    /\ FlagsRise
    /\ pc[c] \notin Registered
    /\ ~Owns(c)'
    /\ pc'[c] # "completed?"
    /\ pc'[c] \in Cancels \cup {"claim"} => req'[c] # None
    /\ req'[c] # None => phase[req'[c]] # "none"
    /\ answer'[c] # "Duplicate"
    /\ answer'[c] # None => pc'[c] = "return"

\* Quiet, and without regard to the external lock and the closing of admission.
Calm(c) ==
    Quiet(c) /\ UNCHANGED <<lifecycle, shuttingDown, external>> /\ pc'[c] \notin ClosingPlaces

\* Quiet steps keep all but possibly the closing of admission.
LEMMA QuietInv ==
  ASSUME FacadeInv, NEW c \in Callers, Quiet(c)
  PROVE  FacadeTypes' /\ IssueInv' /\ SignalInv' /\ RunInv'
  <1>1. FacadeTypes /\ IssueInv
    BY DEF FacadeInv
  <1>2. FacadeTypes'
    BY <1>1 DEF FacadeTypes, Quiet, CallerStep, FlagsRise
  <1>3. IssueInv'
    <2>1. \A i \in RequestIds : phase[i] = "none" => (flag'[i] => flag[i])
      BY DEF Quiet, FlagsRise
    <2>2. \A i \in RequestIds : phase'[i] # "COMPLETE" => response'[i] = None
      BY <1>1 DEF IssueInv, Quiet
    <2>3. /\ \A i \in RequestIds : phase'[i] = "none" <=> phase[i] = "none"
          /\ \A i \in RequestIds : signals'[i] = signals[i]
          /\ held' \subseteq held /\ highWater' = highWater /\ CallerStep(c)
      BY DEF Quiet
    <2>4. /\ req'[c] # None => phase[req'[c]] # "none"
          /\ pc'[c] \in Cancels \cup {"claim"} \/ Owns(c)' => req'[c] # None
      BY DEF Quiet
    <2> QED BY <2>1, <2>2, <2>3, <2>4, IssueKept
  <1>4. SignalInv'
    BY SignalKept DEF Quiet, FlagsRise
  <1>5. RunInv'
    BY RunKept DEF Quiet
  <1> QED BY <1>2, <1>3, <1>4, <1>5

\* Where a quiet step goes, and what it answers.
QuietPlaces ==
    {"idle", "return", "unknown", "claim", "lock", "write", "publish", "nested", "image", "read",
     "answer", "open?", "external", "lockExternal", "close", "signal", "drain"}
       \cup (Cancels \ {"completed?"})

Moves(c) ==
    \E x \in QuietPlaces :
        /\ pc' = [pc EXCEPT ![c] = x]
        /\ \/ answer' = answer /\ pc[c] # "return"
           \/ answer' = [answer EXCEPT ![c] = None]
           \/ x = "return" /\ \E y : y # "Duplicate" /\ answer' = [answer EXCEPT ![c] = y]

\* A step to such a place is quiet.
LEMMA MovesQuietly ==
  ASSUME FacadeInv, NEW c \in Callers, Moves(c), ~Owns(c),
         UNCHANGED <<highWater, held, phase, response, signals, registry, limits>>,
         table' \subseteq RequestIds, FlagsRise,
         req' = req \/ \E i \in RequestIds \cup {None} : req' = [req EXCEPT ![c] = i],
         swapped' = swapped \/ \E v \in BOOLEAN : swapped' = [swapped EXCEPT ![c] = v],
         pc'[c] \in Cancels \cup {"claim"} => req'[c] # None,
         req'[c] # None => phase[req'[c]] # "none"
  PROVE  Quiet(c)
  <1>1. FacadeTypes /\ RunInv
    BY DEF FacadeInv
  <1>2. CallerStep(c)
    <2>1. (\E x : pc' = [pc EXCEPT ![c] = x])
          /\ (answer' = answer \/ \E y : answer' = [answer EXCEPT ![c] = y])
      BY DEF Moves
    <2> QED BY <1>1, <2>1, OwnEntries
  <1>3. PICK x \in QuietPlaces :
           /\ pc' = [pc EXCEPT ![c] = x]
           /\ \/ answer' = answer /\ pc[c] # "return"
              \/ answer' = [answer EXCEPT ![c] = None]
              \/ x = "return" /\ \E y : y # "Duplicate" /\ answer' = [answer EXCEPT ![c] = y]
    BY DEF Moves
  <1>4. pc'[c] = x
    BY <1>1, <1>3 DEF FacadeTypes
  <1>5. pc[c] \notin Registered
    BY DEF Owns, Registered, Executing
  <1>6. ~Owns(c)' /\ pc'[c] # "completed?"
    BY <1>4 DEF Owns, Executing, QuietPlaces, Cancels
  <1>7. answer'[c] # "Duplicate" /\ (answer'[c] # None => pc'[c] = "return")
    <2>1. CASE answer' = answer /\ pc[c] # "return"
      BY <1>1, <2>1 DEF RunInv, Owns, Executing
    <2>2. CASE answer' = [answer EXCEPT ![c] = None]
      <3>1. answer'[c] = None
        BY <1>1, <2>2 DEF FacadeTypes
      <3> QED BY <3>1, NoneIsOutside
    <2>3. CASE x = "return" /\ \E y : y # "Duplicate" /\ answer' = [answer EXCEPT ![c] = y]
      BY <1>1, <1>4, <2>3 DEF FacadeTypes
    <2> QED BY <1>3, <2>1, <2>2, <2>3
  <1> QED BY <1>2, <1>5, <1>6, <1>7 DEF Quiet

\* The steps of hydrations and mutations inside the engine.
LEMMA EngineStepQuiet ==
  ASSUME FacadeInv, NEW c \in Callers, EngineStep(c)
  PROVE  Calm(c)
  <1> USE DEF requestVars
  <1>1. FacadeTypes /\ IssueInv
    BY DEF FacadeInv
  <1>2. /\ UNCHANGED <<highWater, table, held, phase, response, signals, registry, limits>>
        /\ UNCHANGED <<flag, lifecycle, shuttingDown, external>>
    BY DEF EngineStep, HydrationStep, LockRouting, WriteCatalog, PublishImage, NestedHydration,
           LockImage, ReadRecords, AnswerHydration, ReturnHydration
  <1>3. Moves(c) /\ ~Owns(c) /\ pc'[c] \notin Cancels \cup {"claim"} /\ pc'[c] \notin ClosingPlaces
    <2> USE DEF Owns, Executing, Cancels, ClosingPlaces, Moves, QuietPlaces, Goto
    <2>1. DOMAIN pc = Callers
      BY <1>1 DEF FacadeTypes
    <2>2. CASE LockRouting(c)
      BY <2>1, <2>2 DEF LockRouting
    <2>3. CASE WriteCatalog(c)
      BY <2>1, <2>3 DEF WriteCatalog, Return
    <2>4. CASE PublishImage(c)
      BY <2>1, <2>4 DEF PublishImage, Return
    <2>5. CASE NestedHydration(c)
      BY <2>1, <2>5 DEF NestedHydration, Finish, Reply
    <2>6. CASE LockImage(c)
      BY <2>1, <2>6 DEF LockImage, Finish, Reply
    <2>7. CASE ReadRecords(c)
      BY <2>1, <2>7 DEF ReadRecords, Finish, Reply
    <2>8. CASE AnswerHydration(c)
      <3>1. HydrationAnswer(job[c], batch[c]) # "Duplicate"
        BY DEF HydrationAnswer
      <3> QED BY <2>1, <2>8, <3>1 DEF AnswerHydration, Finish, Reply
    <2>9. CASE ReturnHydration(c)
      BY <2>1, <2>9 DEF ReturnHydration, Return, Reply
    <2> QED BY <2>2, <2>3, <2>4, <2>5, <2>6, <2>7, <2>8, <2>9 DEF EngineStep, HydrationStep
  <1>4. /\ req'[c] = None \/ req'[c] = req[c]
        /\ req' = req \/ \E i \in RequestIds \cup {None} : req' = [req EXCEPT ![c] = i]
        /\ swapped' = swapped \/ \E v \in BOOLEAN : swapped' = [swapped EXCEPT ![c] = v]
    <2>1. /\ req' = [req EXCEPT ![c] = IF pc'[c] = "idle" THEN None ELSE req[c]]
          /\ swapped' = [swapped EXCEPT ![c] = IF pc'[c] = "idle" THEN FALSE ELSE swapped[c]]
      BY <1>1 DEF EngineStep, FacadeTypes
    <2>2. req[c] \in RequestIds \cup {None} /\ swapped[c] \in BOOLEAN
      BY <1>1 DEF FacadeTypes
    <2> QED BY <1>1, <2>1, <2>2 DEF FacadeTypes
  <1>5. req'[c] # None => phase[req'[c]] # "none"
    BY <1>1, <1>4 DEF IssueInv
  <1>6. FlagsRise
    BY <1>1, <1>2 DEF FlagsRise, FacadeTypes
  <1>7. table' \subseteq RequestIds
    BY <1>1, <1>2 DEF FacadeTypes
  <1> QED BY <1>2, <1>3, <1>4, <1>5, <1>6, <1>7, MovesQuietly DEF Calm

\* A call with a handle, or with the id of a live request, works on an allocated
\* request.
LEMMA LiveIsIssued ==
  ASSUME FacadeInv, NEW i, i \in held \/ (i \in table /\ Live(i))
  PROVE  i \in RequestIds /\ i # None /\ phase[i] # "none"
  <1>1. FacadeTypes /\ IssueInv
    BY DEF FacadeInv
  <1>2. i \in RequestIds
    BY <1>1 DEF FacadeTypes
  <1>3. i # None
    BY <1>2, NoneIsOutside
  <1> QED BY <1>1, <1>2, <1>3 DEF IssueInv, Live

\* The begin of a call of the application, other than the checkpoint operations
\* and shutdown.
LEMMA StartQuiet ==
  ASSUME FacadeInv, NEW c \in Callers,
         \/ \E i \in held : CancelByHandle(c, i) \/ StartRoute(c, i) \/ HydratePath(c, i)
         \/ \E i : CancelById(c, i)
         \/ \E request : Hydrate(c, request)
         \/ \E profile : HydrateSubgraph(c, profile)
         \/ \E change : BeginMutation(c, change) /\ FacadeUnchanged /\ UNCHANGED <<req, sub>>
  PROVE  /\ Quiet(c) /\ UNCHANGED <<lifecycle, shuttingDown, external>>
         /\ pc'[c] \in Cancels \cup {"claim", "return", "unknown", "lock", "nested", "image"}
  <1> DEFINE Begins == {"cancel", "claim", "return", "unknown", "lock", "nested", "image"}
             Same == /\ UNCHANGED <<highWater, held, phase, flag, response, signals, registry, limits>>
                     /\ UNCHANGED <<swapped, lifecycle, shuttingDown, external>>
             Goes(W) == \E x \in W :
                           /\ pc[c] = "idle" /\ pc' = [pc EXCEPT ![c] = x]
                           /\ \/ answer' = answer
                              \/ x = "return" /\ \E y : y # "Duplicate" /\ answer' = [answer EXCEPT ![c] = y]
  <1>1. FacadeTypes /\ IssueInv
    BY DEF FacadeInv
  <1>2. ASSUME NEW W \in SUBSET Begins, Same, Goes(W), table' \subseteq RequestIds,
               \/ req' = req /\ "cancel" \notin W /\ "claim" \notin W
               \/ \E i : /\ i \in held \/ (i \in table /\ Live(i))
                         /\ req' = [req EXCEPT ![c] = i]
        PROVE  /\ Quiet(c) /\ UNCHANGED <<lifecycle, shuttingDown, external>>
               /\ pc'[c] \in Cancels \cup {"claim", "return", "unknown", "lock", "nested", "image"}
    <2>1. Moves(c) /\ ~Owns(c)
      BY <1>2 DEF Moves, QuietPlaces, Cancels, Owns, Executing
    <2>2. pc'[c] \in W
      BY <1>1, <1>2 DEF FacadeTypes
    <2>3. FlagsRise
      BY <1>1, <1>2 DEF FlagsRise, FacadeTypes
    <2>4. req' = req \/ \E i \in RequestIds \cup {None} : req' = [req EXCEPT ![c] = i]
      BY <1>2, LiveIsIssued
    <2>5. CASE req' = req /\ "cancel" \notin W /\ "claim" \notin W
      <3>1. pc'[c] \notin Cancels \cup {"claim"}
        BY <2>2, <2>5 DEF Cancels
      <3>2. req'[c] # None => phase[req'[c]] # "none"
        BY <1>1, <2>5 DEF IssueInv
      <3>3. pc'[c] \in Cancels \cup {"claim", "return", "unknown", "lock", "nested", "image"}
        BY <2>2 DEF Cancels
      <3> QED BY <1>2, <2>1, <2>3, <2>4, <2>5, <3>1, <3>2, <3>3, MovesQuietly
    <2>6. CASE \E i : /\ i \in held \/ (i \in table /\ Live(i))
                      /\ req' = [req EXCEPT ![c] = i]
      <3>1. req'[c] # None /\ phase[req'[c]] # "none"
        BY <1>1, <2>6, LiveIsIssued DEF FacadeTypes
      <3>2. pc'[c] \in Cancels \cup {"claim", "return", "unknown", "lock", "nested", "image"}
        BY <2>2 DEF Cancels
      <3> QED BY <1>2, <2>1, <2>3, <2>4, <3>1, <3>2, MovesQuietly
    <2> QED BY <1>2, <2>5, <2>6
  <1> USE DEF requestVars, EngineUnchanged, CancelUnchanged, RouteUnchanged, FacadeUnchanged,
              Goto, On, Finish, Reply
  <1>3. table \subseteq RequestIds
    BY <1>1 DEF FacadeTypes
  <1>4. ASSUME NEW i \in held, CancelByHandle(c, i) \/ StartRoute(c, i)
        PROVE  /\ Same /\ Goes({"cancel", "claim", "return"}) /\ table' = table
               /\ req' = [req EXCEPT ![c] = i]
    BY <1>4 DEF CancelByHandle, StartRoute, StartCancel
  <1>5. ASSUME NEW i, CancelById(c, i), i \in table /\ Live(i)
        PROVE  Same /\ Goes({"cancel"}) /\ table' = table /\ req' = [req EXCEPT ![c] = i]
    BY <1>5 DEF CancelById, StartCancel
  <1>6. ASSUME NEW i, CancelById(c, i), ~(i \in table /\ Live(i))
        PROVE  Same /\ Goes({"unknown"}) /\ table' \subseteq table /\ req' = req
    BY <1>6 DEF CancelById
  <1>7. ASSUME NEW request, BeginHydration(c, request), FacadeUnchanged
        PROVE  Same /\ Goes({"return", "nested", "image"}) /\ table' = table
    BY <1>7 DEF BeginHydration
  <1>8. ASSUME NEW change, BeginMutation(c, change), FacadeUnchanged
        PROVE  Same /\ Goes({"lock"}) /\ table' = table
    BY <1>8 DEF BeginMutation
  <1> HIDE DEF Same, Goes
  <1>9. ASSUME NEW i \in held, CancelByHandle(c, i) \/ StartRoute(c, i)
        PROVE  Quiet(c) /\ UNCHANGED <<lifecycle, shuttingDown, external>>
               /\ pc'[c] \in Cancels \cup {"claim", "return", "unknown", "lock", "nested", "image"}
    BY <1>2, <1>3, <1>4, <1>9
  <1>10. ASSUME NEW i, CancelById(c, i)
         PROVE  Quiet(c) /\ UNCHANGED <<lifecycle, shuttingDown, external>>
                /\ pc'[c] \in Cancels \cup {"claim", "return", "unknown", "lock", "nested", "image"}
    BY <1>2, <1>3, <1>5, <1>6, <1>10
  <1>11. ASSUME NEW request, Hydrate(c, request)
         PROVE  Quiet(c) /\ UNCHANGED <<lifecycle, shuttingDown, external>>
                /\ pc'[c] \in Cancels \cup {"claim", "return", "unknown", "lock", "nested", "image"}
    BY <1>2, <1>3, <1>7, <1>11 DEF Hydrate
  <1>12. ASSUME NEW i \in held, HydratePath(c, i)
         PROVE  Quiet(c) /\ UNCHANGED <<lifecycle, shuttingDown, external>>
                /\ pc'[c] \in Cancels \cup {"claim", "return", "unknown", "lock", "nested", "image"}
    BY <1>2, <1>3, <1>7, <1>12 DEF HydratePath
  <1>13. ASSUME NEW profile, HydrateSubgraph(c, profile)
         PROVE  Quiet(c) /\ UNCHANGED <<lifecycle, shuttingDown, external>>
                /\ pc'[c] \in Cancels \cup {"claim", "return", "unknown", "lock", "nested", "image"}
    BY <1>2, <1>3, <1>7, <1>13 DEF HydrateSubgraph
  <1>14. ASSUME NEW change, BeginMutation(c, change), FacadeUnchanged, UNCHANGED <<req, sub>>
         PROVE  Quiet(c) /\ UNCHANGED <<lifecycle, shuttingDown, external>>
                /\ pc'[c] \in Cancels \cup {"claim", "return", "unknown", "lock", "nested", "image"}
    BY <1>2, <1>3, <1>8, <1>14
  <1> QED BY <1>9, <1>10, <1>11, <1>12, <1>13, <1>14

\* The loads of a cancellation, and its ends without a report.
LEMMA CancelQuiet ==
  ASSUME FacadeInv, NEW c \in Callers,
         \/ CancelUnknown(c) \/ CancelLoads(c)
         \/ CancelInEngine(c) /\ req[c] \notin registry
         \/ CancelOutcome(c) /\ phase[req[c]] = "COMPLETE"
  PROVE  /\ Quiet(c) /\ UNCHANGED <<lifecycle, shuttingDown, external>>
         /\ pc'[c] \in Cancels \cup {"return"}
  <1> USE DEF EngineUnchanged, CancelUnchanged, Goto, On, Finish, Reply
  <1>1. FacadeTypes /\ IssueInv
    BY DEF FacadeInv
  <1>2. /\ UNCHANGED <<highWater, table, held, phase, flag, response, signals, registry, limits>>
        /\ UNCHANGED <<req, swapped, lifecycle, shuttingDown, external>>
    BY DEF CancelUnknown, CancelLoads, Load, CancelInEngine, CancelOutcome
  <1> DEFINE Goes == \E x \in {"created?", "closing?", "executing?", "engine", "swap", "return"} :
                        /\ pc' = [pc EXCEPT ![c] = x]
                        /\ \/ answer' = answer
                           \/ x = "return" /\ \E y : y # "Duplicate" /\ answer' = [answer EXCEPT ![c] = y]
  <1>3. \/ pc[c] = "unknown" /\ Goes /\ pc' = [pc EXCEPT ![c] = "return"]
        \/ pc[c] \in Cancels /\ Goes
    <2> USE DEF Cancels
    <2>1. CASE CancelUnknown(c)
      BY <2>1 DEF CancelUnknown
    <2>2. CASE CancelLoads(c)
      BY <2>2 DEF CancelLoads, Load
    <2>3. CASE CancelInEngine(c) /\ req[c] \notin registry
      BY <2>3 DEF CancelInEngine
    <2>4. CASE CancelOutcome(c) /\ phase[req[c]] = "COMPLETE"
      BY <2>4 DEF CancelOutcome
    <2> QED BY <2>1, <2>2, <2>3, <2>4
  <1>4. Moves(c) /\ ~Owns(c)
    BY <1>3 DEF Moves, QuietPlaces, Cancels, Owns, Executing
  <1>5. FlagsRise
    BY <1>1, <1>2 DEF FlagsRise, FacadeTypes
  <1>6. pc'[c] \in Cancels \cup {"return"}
    BY <1>1, <1>3 DEF Cancels, FacadeTypes
  <1>7. pc'[c] \in Cancels \cup {"claim"} => req'[c] # None
    <2>1. CASE pc[c] = "unknown" /\ pc' = [pc EXCEPT ![c] = "return"]
      <3>1. pc'[c] = "return"
        BY <1>1, <2>1 DEF FacadeTypes
      <3> QED BY <3>1 DEF Cancels
    <2>2. CASE pc[c] \in Cancels
      BY <1>1, <1>2, <2>2 DEF IssueInv
    <2> QED BY <1>3, <2>1, <2>2
  <1>8. req'[c] # None => phase[req'[c]] # "none"
    BY <1>1, <1>2 DEF IssueInv
  <1>9. table' \subseteq RequestIds
    BY <1>1, <1>2 DEF FacadeTypes
  <1> QED BY <1>2, <1>4, <1>5, <1>6, <1>7, <1>8, <1>9, MovesQuietly

-----------------------------------------------------------------------------
(* Checkpoint operations and shutdown.                                      *)

ExternalAction(c) ==
    \/ LockExternal(c) \/ CheckOpen(c) \/ FinishExternal(c) \/ BeginShutdown(c)
    \/ LockForShutdown(c) \/ CloseAdmission(c) \/ SignalAll(c) \/ Drain(c)

\* They leave the requests alone, except that shutdown signals the active ones.
LEMMA ExternalQuiet ==
  ASSUME FacadeInv, NEW c \in Callers, ExternalAction(c)
  PROVE  Quiet(c)
  <1> USE DEF EngineUnchanged, ExternalUnchanged, requestVars, Goto, On
  <1>1. FacadeTypes /\ IssueInv /\ RunInv
    BY DEF FacadeInv
  <1>2. /\ UNCHANGED <<highWater, table, held, phase, response, signals, registry, limits>>
        /\ UNCHANGED <<req, swapped, answer>>
    BY DEF ExternalAction, LockExternal, CheckOpen, FinishExternal, BeginShutdown,
           LockForShutdown, CloseAdmission, SignalAll, Drain
  <1>3. /\ pc[c] \in {"idle", "open?", "external", "lockExternal", "close", "signal", "drain"}
        /\ \E x \in {"idle", "open?", "external", "lockExternal", "close", "signal", "drain"} :
              pc' = [pc EXCEPT ![c] = x]
    BY DEF ExternalAction, LockExternal, CheckOpen, FinishExternal, BeginShutdown,
           LockForShutdown, CloseAdmission, SignalAll, Drain
  <1>4. Moves(c) /\ ~Owns(c)
    BY <1>2, <1>3 DEF Moves, QuietPlaces, Owns, Executing
  <1>5. pc'[c] \notin Cancels \cup {"claim"}
    BY <1>1, <1>3 DEF FacadeTypes, Cancels
  <1>6. FlagsRise
    <2>1. CASE SignalAll(c)
      <3>1. flag' = [i \in RequestIds |-> flag[i] \/ i \in registry]
        BY <2>1 DEF SignalAll
      <3>2. ASSUME NEW i \in RequestIds, i \in registry PROVE phase[i] # "none"
        <4>1. PICK d \in Callers : req[d] = i
          BY <1>1, <3>2 DEF RunInv
        <4>2. phase[req[d]] # "none"
          BY <1>1, <4>1, NoneIsOutside DEF IssueInv
        <4> QED BY <4>1, <4>2
      <3>3. flag' \in [RequestIds -> BOOLEAN]
        BY <1>1, <3>1 DEF FacadeTypes
      <3> QED BY <3>1, <3>2, <3>3 DEF FlagsRise
    <2>2. CASE flag' = flag
      BY <1>1, <2>2 DEF FlagsRise, FacadeTypes
    <2> QED BY <2>1, <2>2 DEF ExternalAction, LockExternal, CheckOpen, FinishExternal, BeginShutdown,
           LockForShutdown, CloseAdmission, Drain
  <1>7. req'[c] # None => phase[req'[c]] # "none"
    BY <1>1, <1>2 DEF IssueInv
  <1>8. table' \subseteq RequestIds
    BY <1>1, <1>2 DEF FacadeTypes
  <1> QED BY <1>2, <1>4, <1>5, <1>6, <1>7, <1>8, MovesQuietly

\* The external lock has one holder, so that admission closes behind the
\* operation that has it.
LEMMA ExternalClose ==
  ASSUME FacadeInv, NEW c \in Callers, ExternalAction(c)
  PROVE  CloseInv'
  <1> USE DEF EngineUnchanged, ExternalUnchanged, Goto, On
  <1>1. FacadeTypes /\ CloseInv
    BY DEF FacadeInv
  <1>2. None \notin Callers /\ DOMAIN pc = Callers
    BY <1>1, NoneIsOutside DEF FacadeTypes
  <1>3. CASE LockExternal(c)
    BY <1>1, <1>2, <1>3 DEF LockExternal, CloseInv
  <1>4. CASE CheckOpen(c)
    BY <1>1, <1>2, <1>4 DEF CheckOpen, CloseInv
  <1>5. CASE FinishExternal(c)
    BY <1>1, <1>2, <1>5 DEF FinishExternal, CloseInv
  <1>6. CASE BeginShutdown(c)
    BY <1>1, <1>2, <1>6 DEF BeginShutdown, CloseInv
  <1>7. CASE LockForShutdown(c)
    BY <1>1, <1>2, <1>7 DEF LockForShutdown, CloseInv
  <1>8. CASE CloseAdmission(c)
    BY <1>1, <1>2, <1>8 DEF CloseAdmission, CloseInv
  <1>9. CASE SignalAll(c)
    BY <1>1, <1>2, <1>9 DEF SignalAll, CloseInv
  <1>10. CASE Drain(c)
    BY <1>1, <1>2, <1>10 DEF Drain, CloseInv
  <1> QED BY <1>3, <1>4, <1>5, <1>6, <1>7, <1>8, <1>9, <1>10 DEF ExternalAction

-----------------------------------------------------------------------------
(* Setting the flag and reporting it.                                       *)

\* A step of a cancellation: only the flag and the reports of its request may
\* change, and the call stays a cancellation or returns.
Reports(c) ==
    /\ CallerStep(c)
    /\ UNCHANGED <<highWater, table, held, phase, response, registry, limits, req>>
    /\ UNCHANGED <<lifecycle, shuttingDown, external>>
    /\ pc[c] \in Cancels
    /\ pc'[c] \in {"completed?", "return"}
    /\ answer'[c] # "Duplicate"
    /\ answer'[c] # None => pc'[c] = "return"
    /\ \/ flag' = flag /\ flag[req[c]]
       \/ flag' = [flag EXCEPT ![req[c]] = TRUE]
    /\ \/ signals' = signals
       \/ signals[req[c]] = 0 /\ signals' = [signals EXCEPT ![req[c]] = 1]

\* It keeps all but possibly the reports.
LEMMA ReportsKeep ==
  ASSUME FacadeInv, NEW c \in Callers, Reports(c)
  PROVE  /\ FacadeTypes' /\ IssueInv' /\ RunInv' /\ CloseInv'
         /\ req[c] \in RequestIds /\ phase[req[c]] # "none"
         /\ flag'[req[c]]
         /\ \A i \in RequestIds : i # req[c] => flag'[i] = flag[i] /\ signals'[i] = signals[i]
  <1>1. FacadeTypes /\ IssueInv /\ RunInv
    BY DEF FacadeInv
  <1>2. req[c] \in RequestIds /\ req[c] # None /\ phase[req[c]] # "none"
    <2>1. pc[c] \in Cancels
      BY DEF Reports
    <2> QED BY <1>1, <2>1, CancelsRequest
  <1>3. 1 \in Nat
    BY SMTT(60)
  <1>4. /\ flag' \in [RequestIds -> BOOLEAN] /\ flag'[req[c]]
        /\ \A i \in RequestIds : i # req[c] => flag'[i] = flag[i]
    BY <1>1, <1>2 DEF FacadeTypes, Reports
  <1>5. /\ signals' \in [RequestIds -> Nat]
        /\ \A i \in RequestIds : i # req[c] => signals'[i] = signals[i]
    BY <1>1, <1>2, <1>3 DEF FacadeTypes, Reports
  <1>6. FacadeTypes'
    BY <1>1, <1>4, <1>5 DEF FacadeTypes, Reports, CallerStep
  <1>7. IssueInv'
    <2>1. \A i \in RequestIds : phase[i] = "none" => (flag'[i] => flag[i]) /\ signals'[i] = signals[i]
      BY <1>2, <1>4, <1>5
    <2>2. /\ \A i \in RequestIds : phase'[i] # "COMPLETE" => response'[i] = None
          /\ \A i \in RequestIds : phase'[i] = "none" <=> phase[i] = "none"
      BY <1>1 DEF IssueInv, Reports
    <2>3. req'[c] # None /\ phase[req'[c]] # "none" /\ held' \subseteq held /\ highWater' = highWater
      BY <1>2 DEF Reports
    <2> QED BY <2>1, <2>2, <2>3, IssueKept DEF Reports
  <1>8. RunInv'
    <2>1. pc[c] \notin Registered /\ ~Owns(c)'
      BY DEF Reports, Cancels, Registered, Owns, Executing
    <2> QED BY <2>1, RunKept DEF Reports
  <1>9. CloseInv'
    BY CloseKept DEF Reports, ClosingPlaces
  <1> QED BY <1>2, <1>4, <1>5, <1>6, <1>7, <1>8, <1>9

\* Who sets the flag first is the only one to report it: through the registry,
\* which reports at once ...
LEMMA CancelInEngineInv ==
  ASSUME FacadeInv, NEW c \in Callers, CancelInEngine(c), req[c] \in registry
  PROVE  FacadeInv'
  <1> DEFINE r == req[c]
  <1>0. FacadeTypes /\ IssueInv /\ RunInv /\ SignalInv
    BY DEF FacadeInv
  <1>1. /\ pc[c] = "engine" /\ pc' = [pc EXCEPT ![c] = "return"] /\ req' = req
        /\ flag' = [flag EXCEPT ![r] = TRUE]
        /\ \E v \in BOOLEAN : swapped' = [swapped EXCEPT ![c] = v]
        /\ \E y \in {"Signalled", "AlreadySignalled"} : answer' = [answer EXCEPT ![c] = y]
        /\ signals' = [signals EXCEPT ![r] = IF ~flag[r] /\ signals[r] < 2 THEN signals[r] + 1 ELSE signals[r]]
        /\ UNCHANGED <<highWater, table, held, phase, response, registry, limits>>
        /\ UNCHANGED <<lifecycle, shuttingDown, external>>
    BY <1>0 DEF CancelInEngine, Told, Signal, Finish, Reply, Goto, EngineUnchanged, CancelUnchanged, FacadeTypes
  <1>2. r \in RequestIds
    <2>1. pc[c] \in Cancels
      BY <1>1 DEF Cancels
    <2> QED BY <1>0, <2>1, CancelsRequest
  <1>3. 0 < 2 /\ 0 + 1 = 1 /\ 1 <= 1
    BY SMTT(60)
  <1>4. IF flag[r] THEN signals' = signals ELSE signals[r] = 0 /\ signals' = [signals EXCEPT ![r] = 1]
    <2>1. signals \in [RequestIds -> Nat]
      BY <1>0 DEF FacadeTypes
    <2>2. CASE flag[r]
      <3>1. signals' = [signals EXCEPT ![r] = signals[r]]
        BY <1>1, <2>2
      <3> QED BY <1>2, <2>1, <2>2, <3>1
    <2>3. CASE ~flag[r]
      <3>1. signals[r] = 0
        BY <1>0, <1>2, <2>3 DEF SignalInv
      <3> QED BY <1>1, <1>3, <2>3, <3>1
    <2> QED BY <2>2, <2>3
  <1>5. CallerStep(c)
    BY <1>0, <1>1, OwnEntries
  <1>6. pc'[c] = "return" /\ answer'[c] # "Duplicate"
    BY <1>0, <1>1 DEF FacadeTypes
  <1>7. Reports(c)
    BY <1>1, <1>4, <1>5, <1>6 DEF Reports, Cancels
  <1>8. SignalInv'
    <2>1. ASSUME NEW i \in RequestIds PROVE signals'[i] <= 1 /\ (~flag'[i] => signals'[i] = 0)
      <3>1. signals \in [RequestIds -> Nat] /\ signals[i] <= 1 /\ (~flag[i] => signals[i] = 0)
        BY <1>0, <2>1 DEF FacadeTypes, SignalInv
      <3>2. CASE i = r
        <4>1. flag'[i]
          BY <1>7, <3>2, ReportsKeep
        <4>2. signals'[i] = signals[i] \/ signals'[i] = 1
          BY <1>4, <3>1, <3>2
        <4> QED BY <1>3, <3>1, <4>1, <4>2
      <3>3. CASE i # r
        <4>1. flag'[i] = flag[i] /\ signals'[i] = signals[i]
          BY <1>7, <3>3, ReportsKeep
        <4> QED BY <3>1, <4>1
      <3> QED BY <3>2, <3>3
    <2>2. ASSUME NEW d \in Callers, Signals(d)'
          PROVE  Signals(d) /\ req'[d] = req[d] /\ flag'[req'[d]] /\ signals'[req'[d]] = 0
      <3>0. Signals(d) /\ req'[d] = req[d]
        BY <1>1, <1>5, <1>6, <2>2 DEF Signals, CallerStep
      <3>1. Signals(d) /\ req'[d] = req[d] /\ req[d] \in RequestIds
        BY <1>0, <3>0, SignalsRequest
      <3>2. flag[req[d]] /\ signals[req[d]] = 0
        BY <1>0, <3>1 DEF SignalInv
      <3>3. CASE req[d] = r
        BY <1>1, <1>4, <1>7, <3>1, <3>2, <3>3, ReportsKeep
      <3>4. CASE req[d] # r
        BY <1>7, <3>1, <3>2, <3>4, ReportsKeep
      <3> QED BY <3>1, <3>3, <3>4
    <2>3. \A d, e \in Callers : Signals(d)' /\ Signals(e)' /\ req'[d] = req'[e] => d = e
      BY <1>0, <2>2 DEF SignalInv
    <2> QED BY <2>1, <2>2, <2>3 DEF SignalInv
  <1> QED BY <1>7, <1>8, ReportsKeep DEF FacadeInv

\* ... or through the handle, which looks at the phase before it reports.
LEMMA SwapFlagInv ==
  ASSUME FacadeInv, NEW c \in Callers, SwapFlag(c)
  PROVE  FacadeInv'
  <1> DEFINE r == req[c]
  <1>0. FacadeTypes /\ IssueInv /\ RunInv /\ SignalInv
    BY DEF FacadeInv
  <1>1. /\ pc[c] = "swap" /\ pc' = [pc EXCEPT ![c] = "completed?"] /\ req' = req
        /\ flag' = [flag EXCEPT ![r] = TRUE]
        /\ swapped' = [swapped EXCEPT ![c] = ~flag[r]]
        /\ UNCHANGED <<highWater, table, held, phase, response, registry, limits, answer, signals>>
        /\ UNCHANGED <<lifecycle, shuttingDown, external>>
    BY DEF SwapFlag, Signal, On, Goto, EngineUnchanged, CancelUnchanged
  <1>2. r \in RequestIds
    <2>1. pc[c] \in Cancels
      BY <1>1 DEF Cancels
    <2> QED BY <1>0, <2>1, CancelsRequest
  <1>3. CallerStep(c)
    <2>1. (~flag[r]) \in BOOLEAN
      BY <1>0, <1>2 DEF FacadeTypes
    <2> QED BY <1>0, <1>1, <2>1, OwnEntries
  <1>4. pc'[c] = "completed?" /\ swapped'[c] = ~flag[r] /\ answer'[c] = None
    BY <1>0, <1>1 DEF FacadeTypes, RunInv
  <1>5. Reports(c)
    BY <1>1, <1>3, <1>4, NoneIsOutside DEF Reports, Cancels
  <1>6. SignalInv'
    <2>1. ASSUME NEW i \in RequestIds PROVE signals'[i] <= 1 /\ (~flag'[i] => signals'[i] = 0)
      BY <1>0, <1>1, <1>5, ReportsKeep DEF SignalInv
    <2>2. ASSUME NEW d \in Callers, d # c, Signals(d)'
          PROVE  Signals(d) /\ req[d] \in RequestIds /\ flag[req[d]] /\ signals[req[d]] = 0
      <3>0. Signals(d)
        BY <1>3, <2>2 DEF Signals, CallerStep
      <3>1. Signals(d) /\ req[d] \in RequestIds
        BY <1>0, <3>0, SignalsRequest
      <3> QED BY <1>0, <3>1 DEF SignalInv
    <2>3. Signals(c)' => ~flag[r] /\ signals[r] = 0
      BY <1>0, <1>2, <1>4 DEF Signals, SignalInv
    <2>4. ASSUME NEW d \in Callers, Signals(d)' PROVE flag'[req'[d]] /\ signals'[req'[d]] = 0
      <3>1. CASE d = c
        BY <1>1, <1>5, <2>3, <2>4, <3>1, ReportsKeep
      <3>2. CASE d # c
        <4>1. flag'[req[d]]
          BY <1>5, <2>2, <2>4, <3>2, ReportsKeep
        <4> QED BY <1>1, <2>2, <2>4, <3>2, <4>1
      <3> QED BY <3>1, <3>2
    <2>5. ASSUME NEW d \in Callers, NEW e \in Callers, Signals(d)', Signals(e)', req'[d] = req'[e]
          PROVE  d = e
      <3>1. CASE d # c /\ e # c
        BY <1>0, <1>1, <2>2, <2>5, <3>1 DEF SignalInv
      <3>2. CASE d = c /\ e # c
        BY <1>1, <2>2, <2>3, <2>5, <3>2
      <3>3. CASE d # c /\ e = c
        BY <1>1, <2>2, <2>3, <2>5, <3>3
      <3> QED BY <3>1, <3>2, <3>3
    <2> QED BY <2>1, <2>4, <2>5 DEF SignalInv
  <1> QED BY <1>5, <1>6, ReportsKeep DEF FacadeInv

\* The report of the one that set the flag.
LEMMA CancelOutcomeInv ==
  ASSUME FacadeInv, NEW c \in Callers, CancelOutcome(c), phase[req[c]] # "COMPLETE"
  PROVE  FacadeInv'
  <1> DEFINE r == req[c]
  <1>0. FacadeTypes /\ IssueInv /\ RunInv /\ SignalInv
    BY DEF FacadeInv
  <1>1. /\ pc[c] = "completed?" /\ pc' = [pc EXCEPT ![c] = "return"]
        /\ \E y \in {"Signalled", "AlreadySignalled"} : answer' = [answer EXCEPT ![c] = y]
        /\ signals' = [signals EXCEPT ![r] = IF swapped[c] /\ signals[r] < 2 THEN signals[r] + 1 ELSE signals[r]]
        /\ UNCHANGED <<highWater, table, held, phase, flag, response, registry, limits, req, swapped>>
        /\ UNCHANGED <<lifecycle, shuttingDown, external>>
    BY <1>0 DEF CancelOutcome, Told, Finish, Reply, Goto, EngineUnchanged, CancelUnchanged, FacadeTypes
  <1>2. r \in RequestIds
    <2>1. pc[c] \in Cancels
      BY <1>1 DEF Cancels
    <2> QED BY <1>0, <2>1, CancelsRequest
  <1>3. 0 < 2 /\ 0 + 1 = 1 /\ 1 <= 1
    BY SMTT(60)
  <1>4. CallerStep(c) /\ pc'[c] = "return" /\ answer'[c] # "Duplicate"
    <2>1. CallerStep(c)
      BY <1>0, <1>1, OwnEntries
    <2> QED BY <1>0, <1>1, <2>1 DEF FacadeTypes
  <1>5. CASE ~swapped[c]
    <2>1. signals' = signals
      BY <1>0, <1>1, <1>2, <1>5 DEF FacadeTypes
    <2>2. FlagsRise /\ FacadeTypes'
      BY <1>0, <1>1, <1>4, <2>1 DEF FlagsRise, FacadeTypes, CallerStep
    <2>3. Quiet(c)
      <3>1. pc[c] \notin Registered /\ ~Owns(c)' /\ pc'[c] \notin Cancels \cup {"claim"}
        BY <1>1, <1>4 DEF Registered, Owns, Executing, Cancels
      <3>2. req'[c] # None => phase[req'[c]] # "none"
        BY <1>0, <1>1 DEF IssueInv
      <3> QED BY <1>0, <1>1, <1>4, <2>1, <2>2, <3>1, <3>2 DEF Quiet, FacadeTypes, Cancels
    <2>4. CloseInv'
      BY <1>1, <1>4, CloseKept DEF ClosingPlaces
    <2> QED BY <2>3, <2>4, QuietInv DEF FacadeInv
  <1>6. CASE swapped[c]
    <2>1. Signals(c) /\ flag[r] /\ signals[r] = 0
      BY <1>0, <1>1, <1>6 DEF SignalInv, Signals
    <2>2. signals' = [signals EXCEPT ![r] = 1]
      BY <1>1, <1>3, <1>6, <2>1
    <2>4. Reports(c)
      BY <1>1, <1>4, <2>1, <2>2 DEF Reports, Cancels
    <2>5. SignalInv'
      <3>1. ASSUME NEW i \in RequestIds PROVE signals'[i] <= 1 /\ (~flag'[i] => signals'[i] = 0)
        <4>1. signals \in [RequestIds -> Nat] /\ signals[i] <= 1 /\ (~flag[i] => signals[i] = 0)
          BY <1>0, <3>1 DEF FacadeTypes, SignalInv
        <4>2. CASE i = r
          BY <1>2, <1>3, <2>2, <2>4, <4>1, <4>2, ReportsKeep
        <4>3. CASE i # r
          BY <2>4, <4>1, <4>3, ReportsKeep
        <4> QED BY <4>2, <4>3
      <3>2. ASSUME NEW d \in Callers, Signals(d)'
            PROVE  Signals(d) /\ req[d] \in RequestIds /\ req[d] # r /\ flag[req[d]] /\ signals[req[d]] = 0
        <4>0. d # c
          BY <1>4, <3>2 DEF Signals
        <4>1. Signals(d) /\ req[d] \in RequestIds
          <5>1. Signals(d)
            BY <1>4, <3>2, <4>0 DEF Signals, CallerStep
          <5> QED BY <1>0, <5>1, SignalsRequest
        <4> QED BY <1>0, <2>1, <4>0, <4>1 DEF SignalInv
      <3>3. \A d \in Callers : Signals(d)' => flag'[req'[d]] /\ signals'[req'[d]] = 0
        <4>1. \A i \in RequestIds : i # r => flag'[i] = flag[i] /\ signals'[i] = signals[i]
          BY <2>4, ReportsKeep
        <4>2. req' = req
          BY <1>1
        <4> QED BY <3>2, <4>1, <4>2
      <3>4. \A d, e \in Callers : Signals(d)' /\ Signals(e)' /\ req'[d] = req'[e] => d = e
        BY <1>0, <1>1, <3>2 DEF SignalInv
      <3> QED BY <3>1, <3>3, <3>4 DEF SignalInv
    <2> QED BY <2>4, <2>5, ReportsKeep DEF FacadeInv
  <1> QED BY <1>5, <1>6

-----------------------------------------------------------------------------
(* Allocation.                                                              *)

\* An id that an allocation assigns was never assigned, and is above every one
\* that was.
LEMMA NextIdIsFresh ==
  ASSUME FacadeInv, NEW supplied \in RequestIds \cup {None}, NEW v \in NextId(supplied)
  PROVE  /\ v \in RequestIds /\ v <= v /\ phase[v] = "none"
         /\ \A i \in RequestIds : phase[i] # "none" => i <= v
  <1>1. FacadeTypes /\ IssueInv
    BY DEF FacadeInv
  <1>2. /\ v \in RequestIds /\ RequestIds \subseteq Nat
        /\ highWater # None => highWater \in Nat /\ highWater < v
    BY <1>1, FacadeAssumption, SMTT(60) DEF NextId, RequestIds, FacadeTypes
  <1>3. v <= v /\ \A i, h \in Nat : i <= h /\ h < v => i <= v /\ i # v
    BY <1>2, SMTT(60)
  <1>4. \A i \in RequestIds : phase[i] # "none" => i \in Nat /\ highWater \in Nat /\ i <= highWater /\ highWater < v
    BY <1>1, <1>2 DEF IssueInv
  <1> QED BY <1>2, <1>3, <1>4

\* A step that only forgets entries or handles keeps it.
LEMMA ForgettingInv ==
  ASSUME FacadeInv, table' \subseteq table, held' \subseteq held,
         UNCHANGED <<lifecycle, pc, answer, signals, registry, shuttingDown, external, req, swapped, limits>>,
         UNCHANGED <<highWater, phase, flag, response>>
  PROVE  FacadeInv'
  <1>2. FacadeTypes /\ IssueInv /\ SignalInv /\ RunInv /\ CloseInv
    BY DEF FacadeInv
  <1>3. FacadeTypes'
    BY <1>2 DEF FacadeTypes
  <1>4. IssueInv'
    BY <1>2 DEF IssueInv, Owns
  <1>5. SignalInv'
    BY <1>2 DEF SignalInv, Signals
  <1>6. RunInv'
    BY <1>2 DEF RunInv, Owns
  <1>7. CloseInv'
    BY <1>2 DEF CloseInv
  <1> QED BY <1>3, <1>4, <1>5, <1>6, <1>7 DEF FacadeInv

\* A refused allocation only forgets dead entries.
LEMMA RefusedInv ==
  ASSUME FacadeInv, NEW supplied, RequestHandle(supplied), NextId(supplied) = {}
  PROVE  FacadeInv'
  <1>1. /\ UNCHANGED <<lifecycle, pc, answer, signals, registry, shuttingDown, external, req, swapped, limits>>
        /\ UNCHANGED <<highWater, phase, flag, response>>
        /\ table' \subseteq table /\ held' \subseteq held
    BY DEF RequestHandle, hydrationVars
  <1> QED BY <1>1, ForgettingInv

\* An allocation finds no trace of its id, and its reset of the flag takes
\* back no signal.
LEMMA RequestHandleInv ==
  ASSUME FacadeInv, NEW supplied \in RequestIds \cup {None}, RequestHandle(supplied),
         NextId(supplied) # {}
  PROVE  FacadeInv'
  <1>0. FacadeTypes /\ IssueInv /\ SignalInv /\ RunInv /\ CloseInv
    BY DEF FacadeInv
  <1>1. PICK v \in NextId(supplied) :
           /\ highWater' = v
           /\ table' = {i \in table : Live(i)} \cup {v}
           /\ held' = held \cup {v}
           /\ phase' = [phase EXCEPT ![v] = "CREATED"]
           /\ flag' = [flag EXCEPT ![v] = FALSE]
           /\ response' = [response EXCEPT ![v] = None]
    BY DEF RequestHandle
  <1>2. UNCHANGED <<lifecycle, pc, answer, signals, registry, shuttingDown, external, req, swapped, limits>>
    BY DEF RequestHandle, hydrationVars
  <1>3. /\ v \in RequestIds /\ v <= v /\ phase[v] = "none"
        /\ \A i \in RequestIds : phase[i] # "none" => i <= v
    BY NextIdIsFresh
  <1>4. /\ phase'[v] = "CREATED" /\ ~flag'[v] /\ response'[v] = None
        /\ \A i \in RequestIds : i # v =>
             phase'[i] = phase[i] /\ flag'[i] = flag[i] /\ response'[i] = response[i]
    BY <1>0, <1>1, <1>3 DEF FacadeTypes
  <1>5. \A c \in Callers : req[c] # None => req[c] \in RequestIds /\ req[c] # v
    BY <1>0, <1>3 DEF FacadeTypes, IssueInv
  <1>6. FacadeTypes'
    <2>1. phase' \in [RequestIds -> Phases]
      BY <1>0, <1>1, <1>3 DEF FacadeTypes, Phases
    <2>2. flag' \in [RequestIds -> BOOLEAN]
      BY <1>0, <1>1, <1>3 DEF FacadeTypes
    <2>3. DOMAIN response' = RequestIds
      BY <1>0, <1>1, <1>3 DEF FacadeTypes
    <2>4. table' \subseteq RequestIds /\ held' \subseteq RequestIds
      BY <1>0, <1>1, <1>3 DEF FacadeTypes
    <2> QED BY <1>0, <1>1, <1>2, <1>3, <2>1, <2>2, <2>3, <2>4 DEF FacadeTypes
  <1>7. IssueInv'
    <2>1. ASSUME NEW i \in RequestIds
          PROVE  /\ phase'[i] = "none" => i \notin held' /\ ~flag'[i] /\ signals'[i] = 0
                 /\ phase'[i] # "none" => highWater' # None /\ i <= highWater'
                 /\ phase'[i] # "COMPLETE" => response'[i] = None
      <3>1. v # None
        BY <1>3, NoneIsOutside
      <3>2. CASE i = v
        BY <1>1, <1>3, <1>4, <3>1, <3>2
      <3>3. CASE i # v
        BY <1>0, <1>1, <1>2, <1>3, <1>4, <3>1, <3>3 DEF IssueInv
      <3> QED BY <3>2, <3>3
    <2>2. ASSUME NEW c \in Callers
          PROVE  /\ req'[c] # None => phase'[req'[c]] # "none"
                 /\ pc'[c] \in Cancels \cup {"claim"} \/ Owns(c)' => req'[c] # None
      BY <1>0, <1>2, <1>4, <1>5 DEF IssueInv, Owns
    <2> QED BY <2>1, <2>2 DEF IssueInv
  <1>8. SignalInv'
    <2>1. ASSUME NEW i \in RequestIds PROVE signals'[i] <= 1 /\ (~flag'[i] => signals'[i] = 0)
      BY <1>0, <1>2, <1>3, <1>4 DEF SignalInv, IssueInv
    <2>2. ASSUME NEW c \in Callers, Signals(c)'
          PROVE  Signals(c) /\ req'[c] = req[c] /\ flag'[req'[c]] /\ signals'[req'[c]] = 0
      <3>1. Signals(c) /\ req[c] # None
        BY <1>0, <1>2, <2>2 DEF Signals, IssueInv, Cancels
      <3>2. flag[req[c]] /\ signals[req[c]] = 0
        BY <1>0, <3>1 DEF SignalInv
      <3>3. flag'[req[c]] = flag[req[c]]
        BY <1>4, <1>5, <3>1
      <3> QED BY <1>2, <3>1, <3>2, <3>3
    <2>3. \A c, d \in Callers : Signals(c)' /\ Signals(d)' /\ req'[c] = req'[d] => c = d
      BY <1>0, <2>2 DEF SignalInv
    <2> QED BY <2>1, <2>2, <2>3 DEF SignalInv
  <1>9. RunInv'
    <2>1. ASSUME NEW c \in Callers
          PROVE  /\ pc'[c] \in Executing => phase'[req'[c]] = "EXECUTING"
                 /\ pc'[c] = "store" => phase'[req'[c]] = "COMPLETE" /\ response'[req'[c]] = None
      <3>1. Owns(c) => req[c] # None
        BY <1>0 DEF IssueInv
      <3>2. Owns(c) => phase'[req[c]] = phase[req[c]] /\ response'[req[c]] = response[req[c]]
        BY <1>4, <1>5, <3>1
      <3> QED BY <1>0, <1>2, <3>2 DEF RunInv, Owns
    <2> QED BY <1>0, <1>2, <2>1 DEF RunInv, Owns
  <1>10. CloseInv'
    BY <1>0, <1>2 DEF CloseInv
  <1> QED BY <1>6, <1>7, <1>8, <1>9, <1>10 DEF FacadeInv

\* Dropping a handle and editing the subgraph touch nothing of it.
LEMMA ApplicationInv ==
  ASSUME FacadeInv, EditSubgraph \/ \E i \in held : DropHandle(i)
  PROVE  FacadeInv'
  <1>1. /\ UNCHANGED <<lifecycle, pc, answer, signals, registry, shuttingDown, external, req, swapped, limits>>
        /\ UNCHANGED <<highWater, phase, flag, response>>
        /\ table' \subseteq table /\ held' \subseteq held
    BY DEF EditSubgraph, DropHandle, FacadeUnchanged, hydrationVars, requestVars
  <1> QED BY <1>1, ForgettingInv

-----------------------------------------------------------------------------
(* The route of a request.                                                  *)

\* A step of the call that claims or executes a request: the phase goes on by
\* one, a response is stored once, and the registration is the call's own.
RouteMove(c) ==
    /\ CallerStep(c)
    /\ UNCHANGED <<highWater, table, held, flag, signals, limits, req>>
    /\ UNCHANGED <<lifecycle, shuttingDown, external>>
    /\ Owns(c) \/ (pc[c] = "claim" /\ phase[req[c]] = "CREATED")
    /\ pc'[c] \in Executing \cup {"store", "return"}
    /\ \/ phase' = phase
       \/ phase[req[c]] = "CREATED" /\ phase' = [phase EXCEPT ![req[c]] = "EXECUTING"]
       \/ phase[req[c]] = "EXECUTING" /\ phase' = [phase EXCEPT ![req[c]] = "COMPLETE"]
    /\ \/ response' = response
       \/ /\ response[req[c]] = None /\ phase'[req[c]] = "COMPLETE"
          /\ \E x : response' = [response EXCEPT ![req[c]] = x]
    /\ pc'[c] \in Executing => phase'[req[c]] = "EXECUTING"
    /\ pc'[c] = "store" => phase'[req[c]] = "COMPLETE" /\ response'[req[c]] = None
    /\ answer'[c] # "Duplicate"
    /\ answer'[c] # None => pc'[c] \in {"leave", "complete", "store", "unwind", "return"}
    /\ registry' \subseteq registry \cup {req[c]}
    /\ req[c] \in registry' =>
         pc'[c] \in Registered \/ (pc[c] \notin Registered /\ registry' = registry)

\* A call that works on a request works on an allocated one.
LEMMA RouteRequest ==
  ASSUME FacadeInv, NEW c \in Callers, Owns(c) \/ pc[c] = "claim"
  PROVE  req[c] \in RequestIds /\ req[c] # None /\ phase[req[c]] # "none"
  BY DEF FacadeInv, FacadeTypes, IssueInv

\* What a step of a route leaves of the other requests.
LEMMA RouteMoveOwn ==
  ASSUME FacadeInv, NEW c \in Callers, RouteMove(c)
  PROVE  /\ \A i \in RequestIds : i # req[c] => phase'[i] = phase[i] /\ response'[i] = response[i]
         /\ phase' \in [RequestIds -> Phases] /\ DOMAIN response' = RequestIds
         /\ phase'[req[c]] # "none"
         /\ phase'[req[c]] # "COMPLETE" => response'[req[c]] = None
  <1>1. FacadeTypes /\ IssueInv
    BY DEF FacadeInv
  <1>2. req[c] \in RequestIds /\ phase[req[c]] # "none"
    BY RouteRequest DEF RouteMove
  <1>3. /\ \A i \in RequestIds : i # req[c] => phase'[i] = phase[i]
        /\ phase' \in [RequestIds -> Phases] /\ phase'[req[c]] # "none"
        /\ phase[req[c]] = "COMPLETE" => phase'[req[c]] = "COMPLETE"
    <2>1. phase \in [RequestIds -> Phases]
      BY <1>1 DEF FacadeTypes
    <2>2. CASE phase' = phase
      BY <1>2, <2>1, <2>2
    <2>3. CASE phase[req[c]] = "CREATED" /\ phase' = [phase EXCEPT ![req[c]] = "EXECUTING"]
      BY <1>2, <2>1, <2>3 DEF Phases
    <2>4. CASE phase[req[c]] = "EXECUTING" /\ phase' = [phase EXCEPT ![req[c]] = "COMPLETE"]
      BY <1>2, <2>1, <2>4 DEF Phases
    <2> QED BY <2>2, <2>3, <2>4 DEF RouteMove
  <1>4. /\ \A i \in RequestIds : i # req[c] => response'[i] = response[i]
        /\ DOMAIN response' = RequestIds
    BY <1>1, <1>2 DEF RouteMove, FacadeTypes
  <1>5. phase'[req[c]] # "COMPLETE" => response'[req[c]] = None
    BY <1>1, <1>2, <1>3 DEF RouteMove, IssueInv
  <1> QED BY <1>3, <1>4, <1>5

\* A step of a route keeps the invariant: it is the only call of its request,
\* since others were refused when the phase was no longer CREATED.
LEMMA RouteMoveInv ==
  ASSUME FacadeInv, NEW c \in Callers, RouteMove(c)
  PROVE  FacadeInv'
  <1> DEFINE r == req[c]
  <1>0. FacadeTypes /\ IssueInv /\ SignalInv /\ RunInv /\ CloseInv
    BY DEF FacadeInv
  <1>1. r \in RequestIds /\ r # None /\ phase[r] # "none"
    BY RouteRequest DEF RouteMove
  <1>2. CallerStep(c) /\ req' = req
    BY DEF RouteMove
  <1>3. FacadeTypes'
    BY <1>0, RouteMoveOwn DEF FacadeTypes, RouteMove, CallerStep
  <1>4. IssueInv'
    <2>1. \A i \in RequestIds : phase'[i] = "none" <=> phase[i] = "none"
      BY <1>1, RouteMoveOwn
    <2>2. \A i \in RequestIds : phase'[i] # "COMPLETE" => response'[i] = None
      BY <1>0, <1>1, RouteMoveOwn DEF IssueInv
    <2>3. /\ highWater' = highWater /\ held' \subseteq held
          /\ \A i \in RequestIds : (flag'[i] => flag[i]) /\ signals'[i] = signals[i]
      BY DEF RouteMove
    <2> QED BY <1>1, <1>2, <2>1, <2>2, <2>3, IssueKept
  <1>5. SignalInv'
    <2>1. pc'[c] # "completed?"
      BY DEF RouteMove, Executing
    <2> QED BY <1>2, <2>1, SignalKept DEF RouteMove
  <1>6. CloseInv'
    <2>1. pc'[c] \notin ClosingPlaces
      BY DEF RouteMove, Executing, ClosingPlaces
    <2> QED BY <1>2, <2>1, CloseKept DEF RouteMove
  <1>7. RunInv'
    <2>1. ASSUME NEW d \in Callers, d # c, Owns(d)
          PROVE  /\ req[d] # r /\ phase'[req[d]] = phase[req[d]] /\ response'[req[d]] = response[req[d]]
      <3>1. req[d] # r
        <4>1. CASE Owns(c)
          BY <1>0, <2>1, <4>1 DEF RunInv
        <4>2. CASE phase[r] = "CREATED"
          <5>1. phase[req[d]] \in {"EXECUTING", "COMPLETE"}
            BY <1>0, <2>1 DEF RunInv, Owns
          <5> QED BY <4>2, <5>1
        <4> QED BY <4>1, <4>2 DEF RouteMove
      <3>2. req[d] \in RequestIds
        BY <2>1, RouteRequest
      <3> QED BY <3>1, <3>2, RouteMoveOwn
    <2>2. ASSUME NEW d \in Callers
          PROVE  /\ pc'[d] \in Executing => phase'[req'[d]] = "EXECUTING"
                 /\ pc'[d] = "store" => phase'[req'[d]] = "COMPLETE" /\ response'[req'[d]] = None
      <3>1. CASE d = c
        BY <1>2, <3>1 DEF RouteMove
      <3>2. CASE d # c
        <4>1. pc'[d] = pc[d] /\ req'[d] = req[d]
          BY <1>2, <3>2 DEF CallerStep
        <4> QED BY <1>0, <2>1, <3>2, <4>1 DEF RunInv, Owns
      <3> QED BY <3>1, <3>2
    <2>3. ASSUME NEW d \in Callers
          PROVE  /\ answer'[d] # "Duplicate"
                 /\ answer'[d] # None => pc'[d] \in {"leave", "complete", "store", "unwind", "return"}
      <3>1. CASE d = c
        BY <3>1 DEF RouteMove
      <3>2. CASE d # c
        <4>1. pc'[d] = pc[d] /\ answer'[d] = answer[d]
          BY <1>2, <3>2 DEF CallerStep
        <4> QED BY <1>0, <4>1 DEF RunInv
      <3> QED BY <3>1, <3>2
    <2>4. ASSUME NEW d \in Callers, NEW e \in Callers, Owns(d)', Owns(e)', req'[d] = req'[e]
          PROVE  d = e
      <3>1. ASSUME NEW x \in Callers, x # c, Owns(x)' PROVE Owns(x) /\ req[x] # r
        <4>1. pc'[x] = pc[x]
          BY <1>2, <3>1 DEF CallerStep
        <4>2. Owns(x)
          BY <3>1, <4>1 DEF Owns
        <4> QED BY <2>1, <3>1, <4>2
      <3>2. req[d] = req[e]
        BY <1>2, <2>4
      <3>3. CASE d # c /\ e # c
        BY <1>0, <2>4, <3>1, <3>2, <3>3 DEF RunInv
      <3>4. CASE d = c \/ e = c
        BY <2>4, <3>1, <3>2, <3>4
      <3> QED BY <3>3, <3>4
    <2>5. ASSUME NEW i \in registry'
          PROVE  \E d \in Callers : pc'[d] \in Registered /\ req'[d] = i
      <3>1. CASE i # r
        <4>1. PICK d \in Callers : pc[d] \in Registered /\ req[d] = i
          BY <1>0, <2>5, <3>1 DEF RunInv, RouteMove
        <4>2. d # c
          BY <3>1, <4>1
        <4> QED BY <1>2, <4>1, <4>2 DEF CallerStep
      <3>2. CASE i = r /\ pc'[c] \in Registered
        BY <1>2, <3>2
      <3>3. CASE i = r /\ pc[c] \notin Registered /\ registry' = registry
        <4>1. PICK d \in Callers : pc[d] \in Registered /\ req[d] = r
          BY <1>0, <2>5, <3>3 DEF RunInv
        <4>2. d # c /\ Owns(d)
          BY <3>3, <4>1 DEF Registered, Owns, Executing
        <4> QED BY <2>1, <4>1, <4>2
      <3> QED BY <2>5, <3>1, <3>2, <3>3 DEF RouteMove
    <2> QED BY <2>2, <2>3, <2>4, <2>5 DEF RunInv
  <1> QED BY <1>3, <1>4, <1>5, <1>6, <1>7 DEF FacadeInv

\* Each step after the claim is such a step; in particular the engine never finds
\* the id registered already.
LEMMA RouteStepMoves ==
  ASSUME FacadeInv, NEW c \in Callers, RouteStep(c), pc[c] = "claim" => phase[req[c]] = "CREATED"
  PROVE  RouteMove(c)
  <1> DEFINE r == req[c]
             Kept == /\ UNCHANGED <<highWater, table, held, flag, signals, limits, req, swapped>>
                     /\ UNCHANGED <<lifecycle, shuttingDown, external>>
             Goes(x) == pc' = [pc EXCEPT ![c] = x]
             Says(y) == answer' = [answer EXCEPT ![c] = y]
  <1> USE DEF EngineUnchanged, RouteUnchanged, Goto, On, Finish, Reply, Executing, Owns, Registered
  <1>0. FacadeTypes /\ IssueInv /\ RunInv
    BY DEF FacadeInv
  <1>1. Kept /\ (Owns(c) \/ pc[c] = "claim")
    BY DEF RouteStep, ClaimRequest, CheckRoute, UnwindRoute, EnterEngine, RegisterFlag,
           LeaseImage, Search, LeaveEngine, CompleteRoute, StoreResponse
  <1>2. r \in RequestIds
    BY <1>1, RouteRequest
  <1>3. ASSUME NEW x, Goes(x) PROVE pc'[c] = x
    BY <1>0, <1>3 DEF FacadeTypes
  <1>4. ASSUME NEW y, Says(y) PROVE answer'[c] = y
    BY <1>0, <1>4 DEF FacadeTypes
  <1>5. ASSUME NEW x, phase' = [phase EXCEPT ![r] = x] PROVE phase'[r] = x
    BY <1>0, <1>2, <1>5 DEF FacadeTypes
  <1>6. ASSUME NEW x, Goes(x), answer' = answer \/ \E y : Says(y) PROVE CallerStep(c)
    BY <1>0, <1>1, <1>6, OwnEntries
  <1>7. pc[c] \notin {"leave", "complete", "store", "unwind"} => answer[c] = None
    BY <1>0, <1>1 DEF RunInv
  <1>8. CASE ClaimRequest(c)
    <2>1. /\ pc[c] = "claim" /\ phase[r] = "CREATED" /\ Goes("checks") /\ answer' = answer
          /\ phase' = [phase EXCEPT ![r] = "EXECUTING"] /\ UNCHANGED <<response, registry>>
      BY <1>8 DEF ClaimRequest
    <2>2. pc'[c] = "checks" /\ phase'[r] = "EXECUTING" /\ CallerStep(c)
      BY <1>3, <1>5, <1>6, <2>1
    <2> QED BY <1>1, <1>7, <2>1, <2>2, NoneIsOutside DEF RouteMove
  <1>9. CASE CheckRoute(c) \/ EnterEngine(c)
    <2>1. /\ pc[c] \in {"checks", "enter"} /\ answer' = answer
          /\ \E x \in {"enter", "register", "unwind"} : Goes(x)
          /\ UNCHANGED <<phase, response, registry>>
      BY <1>9 DEF CheckRoute, EnterEngine
    <2>2. pc'[c] \in {"enter", "register", "unwind"} /\ CallerStep(c) /\ phase'[r] = "EXECUTING"
      BY <1>0, <1>3, <1>6, <2>1 DEF RunInv
    <2> QED BY <1>1, <1>7, <2>1, <2>2, NoneIsOutside DEF RouteMove
  <1>10. CASE UnwindRoute(c) \/ CompleteRoute(c)
    <2>1. /\ \/ pc[c] = "unwind" /\ Goes("return") /\ Says("Failed")
             \/ pc[c] = "complete" /\ Goes("store") /\ answer' = answer
          /\ phase' = [phase EXCEPT ![r] = "COMPLETE"]
          /\ UNCHANGED <<response, registry>>
      BY <1>10 DEF UnwindRoute, CompleteRoute
    <2>2. /\ pc'[c] \in {"return", "store"} /\ CallerStep(c) /\ phase'[r] = "COMPLETE"
          /\ phase[r] = "EXECUTING"
      <3>1. pc'[c] \in {"return", "store"} /\ CallerStep(c)
        BY <1>3, <1>6, <2>1
      <3>2. phase'[r] = "COMPLETE"
        BY <1>5, <2>1
      <3>3. phase[r] = "EXECUTING"
        BY <1>0, <2>1 DEF RunInv
      <3> QED BY <3>1, <3>2, <3>3
    <2>3. response'[r] = None
      BY <1>0, <1>2, <2>1, <2>2 DEF IssueInv
    <2>4. answer'[c] # "Duplicate"
      BY <1>0, <1>4, <2>1 DEF RunInv
    <2> QED BY <1>1, <2>1, <2>2, <2>3, <2>4 DEF RouteMove
  <1>11. CASE RegisterFlag(c)
    <2>1. pc[c] = "register" /\ UNCHANGED <<phase, response>>
      BY <1>11 DEF RegisterFlag
    <2>2. r \notin registry
      <3>1. SUFFICES ASSUME r \in registry PROVE FALSE
        OBVIOUS
      <3>2. PICK d \in Callers : pc[d] \in Registered /\ req[d] = r
        BY <1>0, <3>1 DEF RunInv
      <3>3. Owns(d) /\ Owns(c)
        BY <2>1, <3>2
      <3> HIDE DEF Owns
      <3>4. d = c
        BY <1>0, <3>2, <3>3 DEF RunInv
      <3> QED BY <2>1, <3>2, <3>4
    <2>3. Goes("lease") /\ answer' = answer /\ registry' = registry \cup {r}
      BY <1>11, <2>2 DEF RegisterFlag
    <2>4. pc'[c] = "lease" /\ CallerStep(c) /\ phase'[r] = "EXECUTING"
      BY <1>0, <1>3, <1>6, <2>1, <2>3 DEF RunInv
    <2> QED BY <1>1, <1>7, <2>1, <2>3, <2>4, NoneIsOutside DEF RouteMove
  <1>12. CASE LeaseImage(c) \/ Search(c)
    <2>1. /\ pc[c] \in {"lease", "search"} /\ UNCHANGED <<phase, response, registry>>
          /\ \/ Goes("search") /\ answer' = answer
             \/ Goes("leave") /\ \E y \in {"Failed", "Cancelled", "Path", "NoPath"} : Says(y)
      <3>1. CASE LeaseImage(c)
        BY <3>1 DEF LeaseImage
      <3>2. CASE Search(c)
        BY <3>2 DEF Search
      <3> QED BY <1>12, <3>1, <3>2
    <2>2. pc'[c] \in {"search", "leave"} /\ CallerStep(c) /\ phase'[r] = "EXECUTING"
      <3>1. pc'[c] \in {"search", "leave"} /\ CallerStep(c)
        BY <1>3, <1>6, <2>1
      <3>2. phase'[r] = "EXECUTING"
        BY <1>0, <2>1 DEF RunInv
      <3> QED BY <3>1, <3>2
    <2>3. answer'[c] # "Duplicate" /\ (answer'[c] # None => pc'[c] = "leave")
      BY <1>3, <1>4, <1>7, <2>1, NoneIsOutside
    <2> QED BY <1>1, <2>1, <2>2, <2>3 DEF RouteMove
  <1>13. CASE LeaveEngine(c)
    <2>1. pc[c] = "leave" /\ UNCHANGED <<phase, response, answer>>
      BY <1>13 DEF LeaveEngine
    <2>2. answer[c] # "Duplicate"
      BY <1>0 DEF RunInv
    <2>3. registry' = registry \ {r} /\ \E x \in {"unwind", "complete"} : Goes(x)
      BY <1>13, <2>2 DEF LeaveEngine
    <2>4. pc'[c] \in {"unwind", "complete"} /\ CallerStep(c) /\ phase'[r] = "EXECUTING"
      BY <1>0, <1>3, <1>6, <2>1, <2>3 DEF RunInv
    <2> QED BY <1>1, <2>1, <2>2, <2>3, <2>4 DEF RouteMove
  <1>14. CASE StoreResponse(c)
    <2>1. /\ pc[c] = "store" /\ Goes("return") /\ UNCHANGED <<phase, registry>>
          /\ answer' = answer \/ Says("PathStepLimit")
          /\ response' = response \/ \E x : response' = [response EXCEPT ![r] = x]
      <3>1. CASE answer[c] = "Path" /\ Len(job[c].steps) > MaxPathSteps
        BY <1>14, <3>1 DEF StoreResponse
      <3>2. CASE ~(answer[c] = "Path" /\ Len(job[c].steps) > MaxPathSteps)
        BY <1>14, <3>2 DEF StoreResponse
      <3> QED BY <3>1, <3>2
    <2>2. /\ pc'[c] = "return" /\ CallerStep(c) /\ phase'[r] = "COMPLETE" /\ response[r] = None
      <3>1. pc'[c] = "return" /\ CallerStep(c)
        BY <1>3, <1>6, <2>1
      <3>2. phase'[r] = "COMPLETE" /\ response[r] = None
        BY <1>0, <2>1 DEF RunInv
      <3> QED BY <3>1, <3>2
    <2>3. answer'[c] # "Duplicate"
      <3>1. CASE answer' = answer
        BY <1>0, <3>1 DEF RunInv
      <3>2. CASE Says("PathStepLimit")
        BY <1>4, <3>2
      <3> QED BY <2>1, <3>1, <3>2
    <2> QED BY <1>1, <2>1, <2>2, <2>3 DEF RouteMove
  <1> QED BY <1>8, <1>9, <1>10, <1>11, <1>12, <1>13, <1>14 DEF RouteStep

\* A second route of a request is refused.
LEMMA RefusedClaimQuiet ==
  ASSUME FacadeInv, NEW c \in Callers, RouteStep(c), pc[c] = "claim", phase[req[c]] # "CREATED"
  PROVE  Quiet(c) /\ UNCHANGED <<lifecycle, shuttingDown, external>> /\ pc'[c] = "return"
  <1>0. FacadeTypes /\ IssueInv
    BY DEF FacadeInv
  <1>1. ClaimRequest(c)
    BY DEF RouteStep, CheckRoute, UnwindRoute, EnterEngine, RegisterFlag,
           LeaseImage, Search, LeaveEngine, CompleteRoute, StoreResponse
  <1>2. /\ UNCHANGED <<highWater, table, held, phase, flag, response, signals, registry, limits>>
        /\ UNCHANGED <<req, swapped, lifecycle, shuttingDown, external>>
        /\ pc' = [pc EXCEPT ![c] = "return"] /\ answer' = [answer EXCEPT ![c] = "AlreadyExecuted"]
    BY <1>1 DEF ClaimRequest, EngineUnchanged, RouteUnchanged, Goto, Finish, Reply
  <1>3. Moves(c) /\ ~Owns(c)
    BY <1>2 DEF Moves, QuietPlaces, Owns, Executing
  <1>4. pc'[c] = "return" /\ pc'[c] \notin Cancels \cup {"claim"}
    BY <1>0, <1>2 DEF FacadeTypes, Cancels
  <1>5. FlagsRise /\ table' \subseteq RequestIds
    BY <1>0, <1>2 DEF FlagsRise, FacadeTypes
  <1>6. req'[c] # None => phase[req'[c]] # "none"
    BY <1>0, <1>2 DEF IssueInv
  <1> QED BY <1>2, <1>3, <1>4, <1>5, <1>6, MovesQuietly

-----------------------------------------------------------------------------
(* The invariant and what follows from it.                                  *)

\* Who may call what: the situations of Limits only name callers and ids.
LEMMA SituationCallers ==
  ASSUME FacadeInv
  PROVE  /\ Situation(limits)
         /\ limits.supplied \subseteq RequestIds \cup {None}
         /\ \A c : c \in limits.cancellers \/ c \in limits.routers \/ c \in limits.hydrators
                     \/ c \in limits.writers \/ c \in limits.externals \/ c \in limits.closers
                   => c \in Callers
  <1>1. Situation(limits)
    BY FacadeAssumption DEF FacadeInv, FacadeTypes
  <1> QED BY <1>1 DEF Situation

\* The steps of a caller, sorted by what they are to a request.
Kind(c) ==
    \/ Calm(c)
    \/ ExternalAction(c) /\ Quiet(c)
    \/ CancelInEngine(c) /\ req[c] \in registry
    \/ SwapFlag(c)
    \/ CancelOutcome(c) /\ phase[req[c]] # "COMPLETE"
    \/ RouteStep(c) /\ RouteMove(c)

\* The begin of a call.
LEMMA StartKind ==
  ASSUME FacadeInv, StartCall
  PROVE  \/ \E supplied \in RequestIds \cup {None} : RequestHandle(supplied)
         \/ \E i \in held : DropHandle(i)
         \/ \E c \in Callers : Kind(c)
  <1>1. ASSUME NEW c \in Callers,
               \/ \E i \in held : CancelByHandle(c, i) \/ StartRoute(c, i) \/ HydratePath(c, i)
               \/ \E i : CancelById(c, i)
               \/ \E request : Hydrate(c, request)
               \/ \E profile : HydrateSubgraph(c, profile)
               \/ \E change : BeginMutation(c, change) /\ FacadeUnchanged /\ UNCHANGED <<req, sub>>
        PROVE  Kind(c)
    <2>1. /\ Quiet(c) /\ UNCHANGED <<lifecycle, shuttingDown, external>>
          /\ pc'[c] \in Cancels \cup {"claim", "return", "unknown", "lock", "nested", "image"}
      BY <1>1, StartQuiet
    <2>2. pc'[c] \notin ClosingPlaces
      BY <2>1 DEF Cancels, ClosingPlaces
    <2> QED BY <2>1, <2>2 DEF Kind, Calm
  <1>2. ASSUME NEW c \in Callers, LockExternal(c) \/ BeginShutdown(c)
        PROVE  Kind(c)
    <2>1. ExternalAction(c)
      BY <1>2 DEF ExternalAction
    <2> QED BY <2>1, ExternalQuiet DEF Kind
  <1>3. CASE \E supplied \in limits.supplied : RequestHandle(supplied)
    BY <1>3, SituationCallers
  <1>4. CASE \E i \in held : DropHandle(i)
    BY <1>4
  <1>5. CASE \E c \in limits.cancellers :
                \/ \E i \in held : CancelByHandle(c, i)
                \/ \E i \in limits.ids : CancelById(c, i)
    BY <1>1, <1>5, SituationCallers
  <1>6. CASE \E c \in limits.routers, i \in held : StartRoute(c, i)
    BY <1>1, <1>6, SituationCallers
  <1>7. CASE \E c \in limits.hydrators :
                \/ \E request \in limits.requests : Hydrate(c, request)
                \/ \E i \in held : HydratePath(c, i)
                \/ \E profile \in limits.profiles : HydrateSubgraph(c, profile)
    BY <1>1, <1>7, SituationCallers
  <1>8. CASE \E c \in limits.writers, change \in limits.changes :
                BeginMutation(c, change) /\ FacadeUnchanged /\ UNCHANGED <<req, sub>>
    BY <1>1, <1>8, SituationCallers
  <1>9. CASE (\E c \in limits.externals : LockExternal(c)) \/ (\E c \in limits.closers : BeginShutdown(c))
    BY <1>2, <1>9, SituationCallers
  <1> QED BY <1>3, <1>4, <1>5, <1>6, <1>7, <1>8, <1>9 DEF StartCall

\* The further steps of a call.
LEMMA CallerKind ==
  ASSUME FacadeInv, NEW c \in Callers,
         CancelStep(c) \/ RouteStep(c) \/ ExternalStep(c) \/ EngineStep(c)
  PROVE  Kind(c)
  <1>1. CASE /\ CancelStep(c) /\ ~SwapFlag(c) /\ ~(CancelInEngine(c) /\ req[c] \in registry)
             /\ ~(CancelOutcome(c) /\ phase[req[c]] # "COMPLETE")
    <2>1. \/ CancelUnknown(c) \/ CancelLoads(c)
          \/ CancelInEngine(c) /\ req[c] \notin registry
          \/ CancelOutcome(c) /\ phase[req[c]] = "COMPLETE"
      BY <1>1 DEF CancelStep
    <2>2. /\ Quiet(c) /\ UNCHANGED <<lifecycle, shuttingDown, external>>
          /\ pc'[c] \in Cancels \cup {"return"}
      BY <2>1, CancelQuiet
    <2>3. pc'[c] \notin ClosingPlaces
      BY <2>2 DEF Cancels, ClosingPlaces
    <2> QED BY <2>2, <2>3 DEF Kind, Calm
  <1>2. CASE /\ CancelStep(c)
             /\ \/ SwapFlag(c)
                \/ CancelInEngine(c) /\ req[c] \in registry
                \/ CancelOutcome(c) /\ phase[req[c]] # "COMPLETE"
    BY <1>2 DEF Kind
  <1>3. CASE RouteStep(c) /\ (pc[c] = "claim" => phase[req[c]] = "CREATED")
    BY <1>3, RouteStepMoves DEF Kind
  <1>4. CASE RouteStep(c) /\ pc[c] = "claim" /\ phase[req[c]] # "CREATED"
    <2>1. Quiet(c) /\ UNCHANGED <<lifecycle, shuttingDown, external>> /\ pc'[c] = "return"
      BY <1>4, RefusedClaimQuiet
    <2> QED BY <2>1 DEF Kind, Calm, ClosingPlaces
  <1>5. CASE ExternalStep(c)
    <2>1. ExternalAction(c)
      BY <1>5 DEF ExternalStep, ExternalAction
    <2> QED BY <2>1, ExternalQuiet DEF Kind
  <1>6. CASE EngineStep(c)
    BY <1>6, EngineStepQuiet DEF Kind
  <1> QED BY <1>1, <1>2, <1>3, <1>4, <1>5, <1>6

\* Each kind keeps the invariant.
LEMMA KindInv ==
  ASSUME FacadeInv, NEW c \in Callers, Kind(c)
  PROVE  FacadeInv'
  <1>1. CASE Calm(c)
    <2>1. FacadeTypes' /\ IssueInv' /\ SignalInv' /\ RunInv'
      BY <1>1, QuietInv DEF Calm
    <2>2. CloseInv'
      BY <1>1, CloseKept DEF Calm, Quiet
    <2> QED BY <2>1, <2>2 DEF FacadeInv
  <1>2. CASE ExternalAction(c) /\ Quiet(c)
    BY <1>2, QuietInv, ExternalClose DEF FacadeInv
  <1>3. CASE CancelInEngine(c) /\ req[c] \in registry
    BY <1>3, CancelInEngineInv
  <1>4. CASE SwapFlag(c)
    BY <1>4, SwapFlagInv
  <1>5. CASE CancelOutcome(c) /\ phase[req[c]] # "COMPLETE"
    BY <1>5, CancelOutcomeInv
  <1>6. CASE RouteStep(c) /\ RouteMove(c)
    BY <1>6, RouteMoveInv
  <1> QED BY <1>1, <1>2, <1>3, <1>4, <1>5, <1>6 DEF Kind

\* A step of the facade is one of the application's own or has a kind.
LEMMA StepKind ==
  ASSUME FacadeInv, Next
  PROVE  \/ \E supplied \in RequestIds \cup {None} : RequestHandle(supplied)
         \/ EditSubgraph
         \/ \E i \in held : DropHandle(i)
         \/ \E c \in Callers : Kind(c)
  <1>1. CASE StartCall
    BY <1>1, StartKind
  <1>2. CASE EditSubgraph
    BY <1>2
  <1>3. CASE \E c \in Callers : CancelStep(c) \/ RouteStep(c) \/ ExternalStep(c) \/ EngineStep(c)
    BY <1>3, CallerKind
  <1> QED BY <1>1, <1>2, <1>3 DEF Next
\* A step keeps the invariant.
LEMMA StepFacade ==
  ASSUME FacadeInv, [Next]_vars
  PROVE  FacadeInv'
  <1>1. CASE Next
    <2>1. CASE \E supplied \in RequestIds \cup {None} : RequestHandle(supplied)
      BY <2>1, RequestHandleInv, RefusedInv
    <2>2. CASE EditSubgraph \/ \E i \in held : DropHandle(i)
      BY <2>2, ApplicationInv
    <2>3. CASE \E c \in Callers : Kind(c)
      BY <2>3, KindInv
    <2> QED BY <1>1, <2>1, <2>2, <2>3, StepKind
  <1>2. CASE UNCHANGED vars
    <2>1. /\ UNCHANGED <<lifecycle, pc, answer, signals, registry, shuttingDown, external, req, swapped, limits>>
          /\ UNCHANGED <<highWater, table, held, phase, flag, response>>
      BY <1>2 DEF vars, hydrationVars, requestVars
    <2>2. FacadeTypes' /\ IssueInv'
      BY <2>1 DEF FacadeInv, FacadeTypes, IssueInv, Owns
    <2>3. SignalInv'
      BY <2>1 DEF FacadeInv, SignalInv, Signals
    <2>4. RunInv'
      BY <2>1 DEF FacadeInv, RunInv, Owns
    <2>5. CloseInv'
      BY <2>1 DEF FacadeInv, CloseInv
    <2> QED BY <2>2, <2>3, <2>4, <2>5 DEF FacadeInv
  <1> QED BY <1>1, <1>2

\* The facade before any request.
LEMMA InitFacade ==
  ASSUME Init
  PROVE  FacadeInv
  <1>1. \A c \in Callers : /\ pc[c] = "idle" /\ answer[c] = None
                           /\ req[c] = None /\ ~swapped[c]
    BY DEF Init, HydrationInit
  <1>2. \A i \in RequestIds : /\ phase[i] = "none" /\ ~flag[i]
                              /\ signals[i] = 0 /\ response[i] = None
    BY DEF Init
  <1>3. FacadeTypes
    <2>1. 0 \in Nat
      BY SMTT(60)
    <2>2. /\ limits \in Limits /\ highWater \in RequestIds \cup {None}
          /\ table \subseteq RequestIds /\ held \subseteq RequestIds
          /\ phase \in [RequestIds -> Phases] /\ flag \in [RequestIds -> BOOLEAN]
          /\ DOMAIN response = RequestIds
      BY DEF Init, Phases
    <2>3. signals \in [RequestIds -> Nat]
      BY <2>1 DEF Init
    <2>4. /\ req \in [Callers -> RequestIds \cup {None}]
          /\ swapped \in [Callers -> BOOLEAN]
          /\ DOMAIN pc = Callers /\ DOMAIN answer = Callers
      BY DEF Init, HydrationInit
    <2> QED BY <2>2, <2>3, <2>4 DEF FacadeTypes
  <1>4. \A c \in Callers : ~Owns(c) /\ ~Signals(c)
    BY <1>1 DEF Owns, Executing, Signals
  <1>5. IssueInv
    <2>1. held = {}
      BY DEF Init
    <2> QED BY <1>1, <1>2, <1>4, <2>1 DEF IssueInv, Cancels
  <1>6. SignalInv
    <2>1. 0 <= 1
      BY SMTT(60)
    <2> QED BY <1>2, <1>4, <2>1 DEF SignalInv
  <1>7. RunInv
    <2>1. registry = {}
      BY DEF Init
    <2> QED BY <1>1, <1>4, <2>1, NoneIsOutside DEF RunInv, Executing
  <1>8. CloseInv
    <2>1. lifecycle = "Running"
      BY DEF Init, HydrationInit
    <2> QED BY <1>1, <2>1 DEF CloseInv
  <1> QED BY <1>3, <1>5, <1>6, <1>7, <1>8 DEF FacadeInv

\* The inductive invariant of the facade.
THEOREM FacadeInvariant == Spec => []FacadeInv
  BY InitFacade, StepFacade, PTL DEF Spec

\* However a request is cancelled, through the registry, by handle or by id,
\* at most one cancellation reports that it signalled it.
THEOREM SignalledOnce == Spec => []OneSignalPerRequest
  <1>1. FacadeInv => OneSignalPerRequest
    BY DEF FacadeInv, SignalInv, OneSignalPerRequest
  <1> QED BY <1>1, FacadeInvariant, PTL

\* Shutdown waits for checkpoint work outside the engine, and none starts
\* behind it.
THEOREM ExternalWorkFirst == Spec => []ExternalWorkPrecedesClose
  <1>1. FacadeInv => ExternalWorkPrecedesClose
    BY DEF FacadeInv, CloseInv, ExternalWorkPrecedesClose
  <1> QED BY <1>1, FacadeInvariant, PTL

-----------------------------------------------------------------------------
(* What a step may never do to a request.                                   *)

\* No request goes back and no stored response changes.
Advances ==
    \A i \in RequestIds : /\ Rank[phase[i]] <= Rank[phase'[i]]
                          /\ response[i] # None => response'[i] = response[i]

\* The order of the phases.
LEMMA RankOrder ==
  /\ Rank["none"] <= Rank["CREATED"]
  /\ Rank["CREATED"] <= Rank["EXECUTING"]
  /\ Rank["EXECUTING"] <= Rank["COMPLETE"]
  /\ \A p \in Phases : Rank[p] <= Rank[p]
  BY SMTT(60) DEF Rank, Phases

\* Steps that leave the requests alone.
LEMMA KeptAdvances ==
  ASSUME FacadeInv, UNCHANGED <<phase, response>>
  PROVE  Advances
  <1>1. \A i \in RequestIds : phase[i] \in Phases
    BY DEF FacadeInv, FacadeTypes
  <1> QED BY <1>1, RankOrder DEF Advances

\* An allocation takes an id that had no request.
LEMMA HandleAdvances ==
  ASSUME FacadeInv, NEW supplied \in RequestIds \cup {None}, RequestHandle(supplied)
  PROVE  Advances
  <1>1. FacadeTypes /\ IssueInv
    BY DEF FacadeInv
  <1>0. CASE NextId(supplied) = {}
    <2>1. UNCHANGED <<phase, response>>
      BY <1>0 DEF RequestHandle
    <2> QED BY <2>1, KeptAdvances
  <1> SUFFICES ASSUME NextId(supplied) # {} PROVE Advances
    BY <1>0
  <1>2. PICK v \in NextId(supplied) : /\ phase' = [phase EXCEPT ![v] = "CREATED"]
                                      /\ response' = [response EXCEPT ![v] = None]
    BY DEF RequestHandle
  <1>3. v \in RequestIds /\ phase[v] = "none"
    BY <1>2, NextIdIsFresh
  <1>4. response[v] = None
    BY <1>1, <1>3 DEF IssueInv
  <1>5. phase'[v] = "CREATED"
    BY <1>1, <1>2, <1>3 DEF FacadeTypes
  <1>6. \A i \in RequestIds : i # v => phase'[i] = phase[i] /\ response'[i] = response[i]
    BY <1>1, <1>2 DEF FacadeTypes
  <1>7. \A i \in RequestIds : phase[i] \in Phases
    BY <1>1 DEF FacadeTypes
  <1>8. ASSUME NEW i \in RequestIds
        PROVE  Rank[phase[i]] <= Rank[phase'[i]] /\ (response[i] # None => response'[i] = response[i])
    <2>1. CASE i = v
      BY <1>3, <1>4, <1>5, <2>1, RankOrder
    <2>2. CASE i # v
      BY <1>6, <1>7, <2>2, RankOrder
    <2> QED BY <2>1, <2>2
  <1> QED BY <1>8 DEF Advances

\* A route moves its request on by one phase and stores a response once.
LEMMA RouteAdvances ==
  ASSUME FacadeInv, NEW c \in Callers, RouteMove(c)
  PROVE  Advances
  <1> DEFINE r == req[c]
  <1>1. FacadeTypes
    BY DEF FacadeInv
  <1>2. r \in RequestIds
    BY RouteRequest DEF RouteMove
  <1>3. \A i \in RequestIds : phase[i] \in Phases
    BY <1>1 DEF FacadeTypes
  <1>4. Rank[phase[r]] <= Rank[phase'[r]]
    <2>1. CASE phase' = phase
      BY <1>2, <1>3, <2>1, RankOrder
    <2>2. CASE phase[r] = "CREATED" /\ phase' = [phase EXCEPT ![r] = "EXECUTING"]
      <3>1. phase'[r] = "EXECUTING"
        BY <1>1, <1>2, <2>2 DEF FacadeTypes
      <3> QED BY <2>2, <3>1, RankOrder
    <2>3. CASE phase[r] = "EXECUTING" /\ phase' = [phase EXCEPT ![r] = "COMPLETE"]
      <3>1. phase'[r] = "COMPLETE"
        BY <1>1, <1>2, <2>3 DEF FacadeTypes
      <3> QED BY <2>3, <3>1, RankOrder
    <2> QED BY <2>1, <2>2, <2>3 DEF RouteMove
  <1>5. response[r] # None => response'[r] = response[r]
    BY DEF RouteMove
  <1>6. ASSUME NEW i \in RequestIds
        PROVE  Rank[phase[i]] <= Rank[phase'[i]] /\ (response[i] # None => response'[i] = response[i])
    <2>1. CASE i = r
      BY <1>4, <1>5, <2>1
    <2>2. CASE i # r
      <3>1. phase'[i] = phase[i] /\ response'[i] = response[i]
        BY <2>2, RouteMoveOwn
      <3> QED BY <1>3, <3>1, RankOrder
    <2> QED BY <2>1, <2>2
  <1> QED BY <1>6 DEF Advances

\* Every step.
LEMMA StepAdvances ==
  ASSUME FacadeInv, [Next]_vars
  PROVE  Advances
  <1>1. CASE \E supplied \in RequestIds \cup {None} : RequestHandle(supplied)
    BY <1>1, HandleAdvances
  <1>2. CASE EditSubgraph \/ (\E i \in held : DropHandle(i)) \/ UNCHANGED vars
    <2>1. UNCHANGED <<phase, response>>
      BY <1>2 DEF EditSubgraph, DropHandle, FacadeUnchanged, vars, requestVars
    <2> QED BY <2>1, KeptAdvances
  <1>3. ASSUME NEW c \in Callers, Kind(c) PROVE Advances
    <2>1. CASE RouteMove(c)
      BY <2>1, RouteAdvances
    <2>2. CASE Quiet(c)
      BY <2>2, KeptAdvances DEF Quiet
    <2>3. CASE CancelInEngine(c) \/ SwapFlag(c) \/ CancelOutcome(c)
      BY <2>3, KeptAdvances DEF CancelInEngine, SwapFlag, CancelOutcome, CancelUnchanged
    <2> QED BY <1>3, <2>1, <2>2, <2>3 DEF Kind, Calm
  <1> QED BY <1>1, <1>2, <1>3, StepKind

\* The engine never meets an active request's id again.
LEMMA NoDuplicate ==
  ASSUME FacadeInv
  PROVE  \A c \in Callers : answer[c] # "Duplicate"
  BY DEF FacadeInv, RunInv

\* A request id is given out once, its route executes once and its response is
\* final.
THEOREM RequestsRunOnce == Spec => RequestRunsOnce
  <1>1. FacadeInv /\ [Next]_vars => Advances /\ \A c \in Callers : answer'[c] # "Duplicate"
    <2> SUFFICES ASSUME FacadeInv, [Next]_vars
                 PROVE  Advances /\ \A c \in Callers : answer'[c] # "Duplicate"
      OBVIOUS
    <2>1. FacadeInv'
      BY StepFacade
    <2> QED BY <2>1, StepAdvances, NoDuplicate DEF FacadeInv, RunInv
  <1>2. FacadeInv /\ [Next]_vars
          => [/\ \A i \in RequestIds :
                   /\ Rank[phase[i]] <= Rank[phase'[i]]
                   /\ response[i] # None => response'[i] = response[i]
              /\ \A c \in Callers : answer'[c] # "Duplicate"]_vars
    BY <1>1 DEF Advances
  <1> QED BY <1>2, FacadeInvariant, PTL DEF Spec, RequestRunsOnce

\* The search of a request that was signalled does not return a path.
LEMMA SearchHeeds ==
  ASSUME FacadeInv, [Next]_vars, NEW c \in Callers, pc[c] = "search", answer'[c] = "Path"
  PROVE  signals[req[c]] = 0
  <1>1. FacadeTypes /\ IssueInv /\ SignalInv /\ RunInv
    BY DEF FacadeInv
  <1>2. answer[c] = None /\ answer'[c] # answer[c]
    BY <1>1, NoneIsOutside DEF RunInv
  <1>3. ~(EditSubgraph \/ (\E i \in held : DropHandle(i)) \/ UNCHANGED vars)
    BY <1>2 DEF EditSubgraph, DropHandle, vars, hydrationVars
  <1>4. \A supplied : ~RequestHandle(supplied)
    BY <1>2 DEF RequestHandle, hydrationVars
  <1>5. PICK d \in Callers : Kind(d)
    BY <1>3, <1>4, StepKind
  <1>6. CASE RouteStep(d) /\ RouteMove(d)
    <2>1. d = c
      BY <1>2, <1>6 DEF RouteMove, CallerStep
    <2>2. Search(c)
      BY <1>6, <2>1 DEF RouteStep, ClaimRequest, CheckRoute, UnwindRoute, EnterEngine, RegisterFlag,
                        LeaseImage, LeaveEngine, CompleteRoute, StoreResponse
    <2>3. ~flag[req[c]]
      BY <1>1, <2>2 DEF Search, Reply, FacadeTypes
    <2>4. req[c] \in RequestIds
      BY RouteRequest DEF Owns, Executing
    <2> QED BY <1>1, <2>3, <2>4 DEF SignalInv
  <1>7. CASE Quiet(d)
    <2>1. d = c
      BY <1>2, <1>7 DEF Quiet, CallerStep
    <2> QED BY <1>7, <2>1 DEF Quiet, Registered
  <1>8. CASE CancelInEngine(d) \/ SwapFlag(d) \/ CancelOutcome(d)
    <2>1. pc[d] # "search"
      BY <1>8 DEF CancelInEngine, SwapFlag, CancelOutcome
    <2>2. d # c
      BY <2>1
    <2>3. answer' = answer \/ \E y : answer' = [answer EXCEPT ![d] = y]
      BY <1>8 DEF CancelInEngine, SwapFlag, CancelOutcome, On, Told, Finish, Reply
    <2> QED BY <1>1, <1>2, <2>2, <2>3 DEF FacadeTypes
  <1> QED BY <1>5, <1>6, <1>7, <1>8 DEF Kind, Calm

\* A cancellation that answered Signalled before the search looks at its flag
\* is never lost.
THEOREM SignalsReachTheSearch == Spec => SignalStopsTheSearch
  <1>1. FacadeInv /\ [Next]_vars
          => [\A c \in Callers : pc[c] = "search" /\ answer'[c] = "Path" => signals[req[c]] = 0]_vars
    BY SearchHeeds
  <1> QED BY <1>1, FacadeInvariant, PTL DEF Spec, SignalStopsTheSearch
=============================================================================
