-------------------------- MODULE CheckpointProofs --------------------------
(***************************************************************************)
(* The inductive invariant of checkpoints and restores, that every step    *)
(* keeps it, and with it the proofs that checkpoints and restores are what *)
(* they are reported to be, for any number of operators, directories,      *)
(* files and commits, and with power losses at every step.                 *)
(***************************************************************************)
EXTENDS Checkpoint, TLAPS

CheckpointNames == {p \in Destinations : Below(p, CheckpointRoot)}
RestoreNames == {p \in Destinations : Below(p, RestoreRoot)}

Cleared == {"check", "engine", "smoke", "restored"}
Complete == {"clear"} \cup Cleared
Restoring == {"open", "copy"} \cup Complete
Created == {"fingerprint", "reported"}
Verified == {"create"} \cup Created
Synced == {"verify"} \cup Verified
Guarded == {"sync"} \cup Synced

\* The variables are of their types, and the log is never empty.
TypeInv ==
    /\ log \in Seq(States)
    /\ durable \in 1..Len(log)
    /\ dirs \in [Destinations -> Directories \cup {None}]
    /\ DOMAIN pc = Operators
    /\ DOMAIN job = Operators
    /\ DOMAIN report = Operators

\* A checkpoint is one synchronised state, in all of its files.
DirectoryInv ==
    \A p \in CheckpointNames :
        dirs[p] # None =>
            \E k \in 1..durable : HoldsOnly(dirs[p], log[k])

\* A checkpoint under way holds the guard from the sync to the report, so
\* that the state it has verified stays the current and synchronised one.
CreateInv(o) ==
    /\ pc[o] = "paths" => job[o] \in [destination : Destinations]
    /\ pc[o] \in {"guard"} \cup Guarded => job[o] \in [destination : CheckpointNames]
    /\ pc[o] \in Guarded => guard = o
    /\ pc[o] \in Synced => durable = Len(log)
    /\ pc[o] \in Verified => report[o] = Current
    /\ pc[o] \in Created =>
          /\ dirs[job[o].destination] # None
          /\ HoldsOnly(dirs[job[o].destination], report[o])

\* The requests of a restore, as they come and once they are admitted.
RestoreRequests == [source : Destinations, destination : Destinations, left : {{}}]
RestoreJobs == [source : CheckpointNames, destination : RestoreNames, left : SUBSET Files]

\* The files of source that are not left to copy are in restored.
CopiedBut(left, source, restored) ==
    \A f \in NamesIn(source) \ left : restored.files[f] = source.files[f]

\* A restore has copied what is not left, and everything before it clears
\* the pointer that came with the files.
CopyInv(where, request, source, restored) ==
    /\ where = "admit" => request \in RestoreRequests
    /\ where \in Restoring =>
          request \in RestoreJobs /\ source # None /\ CurrentFile \in NamesIn(source)
    /\ where \in {"copy"} \cup Complete => restored # None
    /\ where = "copy" => CopiedBut(request.left, source, restored)
    /\ where \in Complete => CopiedBut({}, source, restored)
    /\ where \in Cleared => restored.pointer # "copied"

CheckpointInv ==
    /\ TypeInv
    /\ DirectoryInv
    /\ \A o \in Operators : CreateInv(o) /\ CopyInv(pc[o], job[o], Source(o), Restored(o))

-----------------------------------------------------------------------------

\* A step is proved by Zenon unless it names SMT, for arithmetic and for
\* functions and sequences as wholes.
USE ZenonT(60)

\* Where no restore is.
Elsewhere == {"idle", "paths", "guard", "compact"} \cup Guarded

\* The invariant says nothing of the copies of a checkpoint.
LEMMA NoCopy ==
  \A where \in Elsewhere : \A request, source, restored : CopyInv(where, request, source, restored)
  <1>1. \A where \in Elsewhere : where \notin Restoring /\ where # "admit"
    BY DEF Elsewhere, Restoring, Complete, Cleared, Guarded, Synced, Verified, Created
  <1> QED BY <1>1 DEF CopyInv, Restoring, Complete

\* What an admitted restore knows of its request.
LEMMA Admitted ==
  ASSUME NEW where \in Restoring, NEW request, NEW source, NEW restored,
         CopyInv(where, request, source, restored)
  PROVE  /\ request \in RestoreJobs /\ source # None /\ CurrentFile \in NamesIn(source)
         /\ request.source \in CheckpointNames /\ request.destination \in RestoreNames
  BY DEF CopyInv, RestoreJobs

\* Before that the directories do not matter.
LEMMA NotRestoring ==
  ASSUME NEW where, where \notin Restoring, NEW request,
         NEW source1, NEW restored1, CopyInv(where, request, source1, restored1),
         NEW source2, NEW restored2
  PROVE  CopyInv(where, request, source2, restored2)
  <1>1. where \notin {"copy"} \cup Complete /\ where \notin Cleared
    BY DEF Restoring, Complete
  <1> QED BY <1>1 DEF CopyInv

\* The first state has one synchronised commit and no directory.
LEMMA InitInv == Init => CheckpointInv
  <1> SUFFICES ASSUME Init PROVE CheckpointInv
    OBVIOUS
  <1>1. TypeInv
    <2>1. [graph |-> 0, pointer |-> TRUE] \in States
      BY DEF States
    <2>2. log \in Seq(States) /\ durable \in 1..Len(log)
      BY <2>1, SMTT(60) DEF Init
    <2>3. dirs \in [Destinations -> Directories \cup {None}]
      BY DEF Init
    <2>4. DOMAIN pc = Operators
      BY DEF Init
    <2>5. DOMAIN job = Operators /\ DOMAIN report = Operators
      BY DEF Init
    <2> QED BY <2>2, <2>3, <2>4, <2>5 DEF TypeInv
  <1>2. DirectoryInv
    BY DEF Init, DirectoryInv, CheckpointNames
  <1>3. ASSUME NEW o \in Operators
        PROVE  CreateInv(o) /\ CopyInv(pc[o], job[o], Source(o), Restored(o))
    <2>1. pc[o] = "idle"
      BY DEF Init
    <2>2. CreateInv(o)
      BY <2>1 DEF CreateInv, Created, Verified, Synced, Guarded
    <2> QED BY <2>1, <2>2, NoCopy DEF Elsewhere
  <1> QED BY <1>1, <1>2, <1>3 DEF CheckpointInv

\* A commit finds no checkpoint between its sync and its report.
LEMMA CommitInv == CheckpointInv /\ Commit => CheckpointInv'
  <1> SUFFICES ASSUME CheckpointInv, Commit PROVE CheckpointInv'
    OBVIOUS
  <1> USE CheckpointAssumption DEF CheckpointInv
  <1>1. \A o \in Operators : pc[o] \notin Guarded
    BY DEF CreateInv, Commit
  <1>2. PICK state : state \in States /\ log' = Append(log, state)
    <2>1. Current \in States
      BY SMTT(60) DEF Current, TypeInv
    <2>2. [graph |-> Current.graph + 1, pointer |-> FALSE] \in States
      BY <2>1, SMTT(60) DEF States
    <2>3. [Current EXCEPT !.pointer = TRUE] \in States
      BY <2>1 DEF States
    <2> QED BY <2>2, <2>3 DEF Commit
  <1>3. /\ log' \in Seq(States)
        /\ Len(log') = Len(log) + 1
        /\ \A k \in 1..Len(log) : log'[k] = log[k]
    BY <1>2, SMTT(60) DEF TypeInv
  <1>4. TypeInv'
    BY <1>3, SMTT(60) DEF TypeInv, Commit
  <1>5. \A o \in Operators : CreateInv(o)'
    BY <1>1 DEF CreateInv, Commit, Created, Verified, Synced, Guarded
  <1>6. DirectoryInv'
    BY <1>3, SMTT(60) DEF DirectoryInv, TypeInv, Commit
  <1>7. \A o \in Operators : CopyInv(pc[o], job[o], Source(o), Restored(o))'
    BY DEF Commit, Source, Restored
  <1> QED BY <1>4, <1>5, <1>6, <1>7

\* A power loss keeps the synchronised prefix, and with it every checkpoint.
LEMMA PowerLossInv == CheckpointInv /\ PowerLoss => CheckpointInv'
  <1> SUFFICES ASSUME CheckpointInv, PowerLoss PROVE CheckpointInv'
    OBVIOUS
  <1> USE CheckpointAssumption DEF CheckpointInv
  <1>1. PICK n \in durable..Len(log) : log' = SubSeq(log, 1, n) /\ durable' = n
    BY DEF PowerLoss
  <1>2. /\ log' \in Seq(States)
        /\ Len(log') = n
        /\ \A k \in 1..durable : log'[k] = log[k]
    BY <1>1, SMTT(60) DEF TypeInv
  <1>3. TypeInv'
    <2>1. DOMAIN pc' = Operators
      BY DEF PowerLoss
    <2>2. DOMAIN job' = Operators /\ DOMAIN report' = Operators /\ dirs' = dirs
      BY DEF PowerLoss
    <2>3. durable' \in 1..Len(log')
      BY <1>1, <1>2, SMTT(60) DEF TypeInv
    <2> QED BY <1>2, <2>1, <2>2, <2>3 DEF TypeInv
  <1>4. ASSUME NEW o \in Operators
        PROVE  CreateInv(o)' /\ CopyInv(pc[o], job[o], Source(o), Restored(o))'
    <2>1. pc'[o] = "idle"
      BY DEF PowerLoss
    <2>2. CreateInv(o)'
      BY <2>1 DEF CreateInv, Created, Verified, Synced, Guarded
    <2> QED BY <2>1, <2>2, NoCopy DEF Elsewhere
  <1>5. DirectoryInv'
    <2>1. 1..durable \subseteq 1..durable' /\ dirs' = dirs
      BY <1>1, SMTT(60) DEF TypeInv, PowerLoss
    <2> QED BY <1>2, <2>1, SMTT(60) DEF DirectoryInv
  <1> QED BY <1>3, <1>4, <1>5

-----------------------------------------------------------------------------

\* A step of o leaves the records of the other operators alone.
OwnRecords(o) ==
    /\ DOMAIN pc' = Operators /\ DOMAIN job' = Operators /\ DOMAIN report' = Operators
    /\ \A q \in Operators \ {o} :
          pc'[q] = pc[q] /\ job'[q] = job[q] /\ report'[q] = report[q]

\* What the invariant says of one operator.
LEMMA OperatorInv ==
  ASSUME CheckpointInv, NEW q \in Operators
  PROVE  /\ CreateInv(q)
         /\ CopyInv(pc[q], job[q], dirs[job[q].source], dirs[job[q].destination])
  BY DEF CheckpointInv, Source, Restored

\* Its part of a checkpoint depends on its own records, on the log and on the
\* directory that it makes.
LEMMA CreateKept ==
  ASSUME CheckpointInv, NEW q \in Operators,
         pc'[q] = pc[q], job'[q] = job[q], report'[q] = report[q],
         UNCHANGED <<log, durable, guard>>,
         \A p \in CheckpointNames : dirs'[p] = dirs[p]
  PROVE  CreateInv(q)'
  <1>1. CreateInv(q) /\ UNCHANGED Current
    BY OperatorInv DEF Current
  <1>2. pc[q] \in Created => dirs'[job[q].destination] = dirs[job[q].destination]
    BY <1>1 DEF CreateInv, Guarded, Synced, Verified
  <1> QED BY <1>1, <1>2 DEF CreateInv

\* A step that changes no directory and does not take another's guard keeps
\* the invariant when it keeps its own part.
LEMMA LocalStep ==
  ASSUME CheckpointInv, NEW o \in Operators, OwnRecords(o),
         UNCHANGED <<log, dirs>>, durable' \in {durable, Len(log)},
         \A q \in Operators \ {o} : guard = q => guard' = q,
         CreateInv(o)', CopyInv(pc[o], job[o], Source(o), Restored(o))'
  PROVE  CheckpointInv'
  <1> TypeInv /\ DirectoryInv
    BY DEF CheckpointInv
  <1>1. TypeInv'
    <2>1. DOMAIN pc' = Operators /\ DOMAIN job' = Operators /\ DOMAIN report' = Operators
      BY DEF TypeInv, OwnRecords
    <2>2. durable' \in 1..Len(log')
      BY SMTT(60) DEF TypeInv
    <2> QED BY <2>1, <2>2 DEF TypeInv
  <1>2. DirectoryInv'
    BY SMTT(60) DEF DirectoryInv, TypeInv
  <1>3. ASSUME NEW q \in Operators, q # o
        PROVE  CreateInv(q)' /\ CopyInv(pc[q], job[q], Source(q), Restored(q))'
    <2>1. pc'[q] = pc[q] /\ job'[q] = job[q] /\ report'[q] = report[q]
      BY <1>3 DEF OwnRecords, TypeInv
    <2>2. CreateInv(q)'
      <3>1. CreateInv(q) /\ UNCHANGED Current
        BY OperatorInv DEF Current
      <3>2. guard = q => guard' = q
        BY <1>3
      <3>3. durable = Len(log) => durable' = Len(log')
        OBVIOUS
      <3> QED BY <2>1, <3>1, <3>2, <3>3 DEF CreateInv, Synced, Guarded, Verified, Created
    <2>3. CopyInv(pc[q], job[q], Source(q), Restored(q))'
      BY <2>1, OperatorInv DEF Source, Restored
    <2> QED BY <2>2, <2>3
  <1> QED BY <1>1, <1>2, <1>3 DEF CheckpointInv

\* What a restore does to a directory: it adds the files that are not there,
\* and it brings a copied pointer only into one without a CURRENT.
Adds(old, new) ==
    old # None =>
        /\ \A f \in Files : old.files[f] # None => new.files[f] = old.files[f]
        /\ new.pointer = "copied" =>
              old.pointer = "copied" \/ old.files[CurrentFile] = None

\* Another restore into the same directory loses nothing by it.
LEMMA CopyKept ==
  ASSUME NEW where, NEW request, NEW source, NEW old, NEW new,
         CopyInv(where, request, source, old), Adds(old, new), new # None
  PROVE  CopyInv(where, request, source, new)
  <1>0. ASSUME NEW left, CopiedBut(left, source, old), old # None
        PROVE  CopiedBut(left, source, new)
    <2> SUFFICES ASSUME NEW f \in NamesIn(source) \ left
                 PROVE  new.files[f] = source.files[f]
      BY DEF CopiedBut
    <2>1. f \in Files /\ source.files[f] # None
      BY DEF NamesIn
    <2>2. old.files[f] = source.files[f]
      BY <1>0 DEF CopiedBut
    <2> QED BY <1>0, <2>1, <2>2 DEF Adds
  <1>1. CASE where = "copy"
    <2>1. old # None /\ CopiedBut(request.left, source, old)
      BY <1>1 DEF CopyInv
    <2>2. CopiedBut(request.left, source, new)
      BY <1>0, <2>1
    <2>4. where \notin Complete /\ where \notin Cleared
      BY <1>1 DEF Complete, Cleared
    <2> QED BY <1>1, <2>2, <2>4 DEF CopyInv
  <1>2. CASE where \in Complete
    <2>1. where \in Restoring /\ where \notin {"admit", "copy"}
      BY <1>2 DEF Restoring, Complete, Cleared
    <2>2. old # None /\ CopiedBut({}, source, old) /\ CurrentFile \in NamesIn(source)
      BY <1>2, <2>1 DEF CopyInv
    <2>3. CopiedBut({}, source, new)
      BY <1>0, <2>2
    <2>4. old.files[CurrentFile] # None
      BY <2>2 DEF CopiedBut, NamesIn
    <2>5. where \in Cleared => new.pointer # "copied"
      BY <2>2, <2>4 DEF Adds, CopyInv
    <2> QED BY <2>1, <2>3, <2>5 DEF CopyInv
  <1>3. CASE where \notin {"copy"} \cup Complete
    BY <1>3 DEF CopyInv, Complete
  <1> QED BY <1>1, <1>2, <1>3

\* A restore adds to a directory what is not there yet, and checkpoints are
\* elsewhere.
LEMMA RestoreWrite ==
  ASSUME CheckpointInv, NEW o \in Operators, OwnRecords(o),
         UNCHANGED <<log, durable, guard>>,
         NEW d \in RestoreNames, NEW directory \in Directories,
         dirs' = [dirs EXCEPT ![d] = directory], Adds(dirs[d], directory),
         CreateInv(o)', CopyInv(pc[o], job[o], Source(o), Restored(o))'
  PROVE  CheckpointInv'
  <1> TypeInv /\ DirectoryInv
    BY DEF CheckpointInv
  <1>0. directory # None /\ \A p \in CheckpointNames : p # d
    BY CheckpointAssumption, RootsAssumption DEF RestoreNames, CheckpointNames
  <1>1. TypeInv'
    BY DEF TypeInv, OwnRecords, RestoreNames
  <1>2. UNCHANGED Current /\ \A p \in CheckpointNames : dirs'[p] = dirs[p]
    BY <1>0 DEF Current, TypeInv, CheckpointNames
  <1>3. DirectoryInv'
    BY <1>2, SMTT(60) DEF DirectoryInv, CheckpointNames
  <1>4. ASSUME NEW q \in Operators, q # o
        PROVE  CreateInv(q)' /\ CopyInv(pc[q], job[q], Source(q), Restored(q))'
    <2>1. pc'[q] = pc[q] /\ job'[q] = job[q] /\ report'[q] = report[q]
      BY <1>4 DEF OwnRecords, TypeInv
    <2>2. CreateInv(q)'
      BY <1>2, <2>1, CreateKept
    <2>3. SUFFICES CopyInv(pc[q], job[q], dirs'[job[q].source], dirs'[job[q].destination])
      BY <2>1, <2>2 DEF Source, Restored
    <2>4. CopyInv(pc[q], job[q], dirs[job[q].source], dirs[job[q].destination])
      BY OperatorInv
    <2>5. CASE pc[q] \notin Restoring
      BY <2>4, <2>5, NotRestoring
    <2>6. CASE pc[q] \in Restoring
      <3> DEFINE s == job[q].source
      <3> DEFINE e == job[q].destination
      <3>1. s \in CheckpointNames /\ e \in RestoreNames /\ dirs[s] # None
        BY <2>4, <2>6, Admitted
      <3>2. dirs'[s] = dirs[s]
        BY <3>1, <1>2
      <3>4. CASE e # d
        <4>1. dirs'[e] = dirs[e]
          BY <3>1, <3>4 DEF TypeInv, RestoreNames
        <4> QED BY <4>1, <3>2, <2>4
      <3>5. CASE e = d
        <4>1. dirs'[e] = directory
          BY <3>1, <3>5 DEF TypeInv, RestoreNames
        <4>2. CopyInv(pc[q], job[q], dirs[s], directory)
          BY <3>5, <2>4, <1>0, CopyKept
        <4> QED BY <4>1, <4>2, <3>2
      <3> QED BY <3>4, <3>5
    <2> QED BY <2>5, <2>6
  <1> QED BY <1>1, <1>3, <1>4 DEF CheckpointInv

\* LocalStep, for the steps that are not of a restore.
LEMMA CheckpointLocalStep ==
  ASSUME CheckpointInv, NEW o \in Operators, OwnRecords(o),
         UNCHANGED <<log, dirs>>, durable' \in {durable, Len(log)},
         \A q \in Operators \ {o} : guard = q => guard' = q,
         CreateInv(o)', pc'[o] \in Elsewhere
  PROVE  CheckpointInv'
  <1>1. CopyInv(pc[o], job[o], Source(o), Restored(o))'
    BY NoCopy
  <1> QED BY <1>1, LocalStep

\* An operation that ends, well or not, has nothing left to keep.
LEMMA EndStep ==
  ASSUME CheckpointInv, NEW o \in Operators, End(o),
         UNCHANGED <<log, dirs>>, durable' \in {durable, Len(log)},
         \A q \in Operators \ {o} : guard = q => guard' = q
  PROVE  CheckpointInv'
  <1>1. OwnRecords(o) /\ pc'[o] = "idle"
    BY DEF CheckpointInv, TypeInv, OwnRecords, End, Goto
  <1>2. CreateInv(o)'
    BY <1>1 DEF CreateInv, Created, Verified, Synced, Guarded
  <1> QED BY <1>1, <1>2, CheckpointLocalStep DEF Elsewhere

-----------------------------------------------------------------------------
(* Checkpoints, flushes and compactions.                                    *)

\* A checkpoint that ends drops its guard.
LEMMA LeaveStep ==
  ASSUME CheckpointInv, NEW o \in Operators, LeaveCheckpoint(o),
         UNCHANGED <<log, dirs>>, durable' \in {durable, Len(log)}
  PROVE  CheckpointInv'
  BY EndStep DEF LeaveCheckpoint, Unguard

\* The permit is taken and the request recorded.
LEMMA StartCheckpointInv ==
  ASSUME CheckpointInv, NEW o \in Operators, NEW p \in Destinations,
         StartCheckpoint(o, [destination |-> p])
  PROVE  CheckpointInv'
  <1> TypeInv /\ CreateInv(o)
    BY DEF CheckpointInv
  <1>1. /\ OwnRecords(o) /\ pc'[o] = "paths"
        /\ job'[o] \in [destination : Destinations]
    BY DEF StartCheckpoint, Begin, Goto, OwnRecords, TypeInv
  <1>2. CreateInv(o)'
    BY <1>1 DEF CreateInv, Created, Verified, Synced, Guarded
  <1> QED BY <1>1, <1>2, CheckpointLocalStep DEF StartCheckpoint, Elsewhere

\* Only a destination below the checkpoint root is let through.
LEMMA CheckCheckpointPathsInv ==
  ASSUME CheckpointInv, NEW o \in Operators, CheckCheckpointPaths(o)
  PROVE  CheckpointInv'
  <1> TypeInv /\ CreateInv(o)
    BY DEF CheckpointInv
  <1>1. CASE LeaveCheckpoint(o)
    BY <1>1, LeaveStep DEF CheckCheckpointPaths
  <1>2. CASE ~LeaveCheckpoint(o)
    <2>1. /\ ValidateOperationalPaths(CheckpointTargets(job[o]))
          /\ Goto(o, "guard")
          /\ UNCHANGED <<guard, active, job, report>>
      BY <1>2 DEF CheckCheckpointPaths
    <2>2. job[o] \in [destination : Destinations]
      BY DEF CheckCheckpointPaths, CreateInv
    <2>3. Below(job[o].destination, CheckpointRoot)
      BY <2>1, SMTT(60) DEF ValidateOperationalPaths, CheckpointTargets, ResolveTarget, Target
    <2>4. job[o] \in [destination : CheckpointNames]
      BY <2>2, <2>3 DEF CheckpointNames
    <2>5. OwnRecords(o) /\ pc'[o] = "guard" /\ job'[o] = job[o]
      BY <2>1 DEF Goto, OwnRecords, TypeInv
    <2>6. CreateInv(o)'
      BY <2>4, <2>5 DEF CreateInv, Created, Verified, Synced, Guarded
    <2> QED BY <2>1, <2>5, <2>6, CheckpointLocalStep DEF CheckCheckpointPaths, Elsewhere
  <1> QED BY <1>1, <1>2

\* The write guard is taken when nobody holds it.
LEMMA TakeGuardInv ==
  ASSUME CheckpointInv, NEW o \in Operators, TakeGuard(o)
  PROVE  CheckpointInv'
  <1> TypeInv /\ CreateInv(o)
    BY DEF CheckpointInv
  <1>1. CASE LeaveCheckpoint(o)
    BY <1>1, LeaveStep DEF TakeGuard
  <1>2. CASE ~LeaveCheckpoint(o)
    <2>1. /\ OwnRecords(o) /\ pc'[o] = "sync" /\ job'[o] = job[o]
          /\ guard = None /\ guard' = o
          /\ UNCHANGED <<log, dirs, durable>>
      BY <1>2 DEF TakeGuard, Goto, OwnRecords, TypeInv
    <2>2. job[o] \in [destination : CheckpointNames]
      BY DEF TakeGuard, CreateInv
    <2>3. CreateInv(o)'
      BY <2>1, <2>2 DEF CreateInv, Created, Verified, Synced, Guarded
    <2> QED BY <2>1, <2>3, CheckpointLocalStep, CheckpointAssumption
         DEF Elsewhere, Guarded, Synced, Verified, Created
  <1> QED BY <1>1, <1>2

\* The sync makes every commit durable while the guard keeps others out.
LEMMA SyncStoreInv ==
  ASSUME CheckpointInv, NEW o \in Operators, SyncStore(o)
  PROVE  CheckpointInv'
  <1> TypeInv /\ CreateInv(o)
    BY DEF CheckpointInv
  <1>1. CASE LeaveCheckpoint(o)
    BY <1>1, LeaveStep DEF SyncStore
  <1>2. CASE ~LeaveCheckpoint(o)
    <2>1. /\ OwnRecords(o) /\ pc'[o] = "verify" /\ job'[o] = job[o]
          /\ durable' = Len(log)
          /\ UNCHANGED <<log, dirs, guard>>
      BY <1>2 DEF SyncStore, Goto, OwnRecords, TypeInv
    <2>2. job[o] \in [destination : CheckpointNames] /\ guard = o
      BY DEF SyncStore, CreateInv, Guarded
    <2>3. CreateInv(o)'
      BY <2>1, <2>2 DEF CreateInv, Created, Verified, Synced, Guarded
    <2> QED BY <2>1, <2>3, CheckpointLocalStep
         DEF Elsewhere, Guarded, Synced, Verified, Created
  <1> QED BY <1>1, <1>2

\* The report is the current state, which stays the current one.
LEMMA VerifyStoreInv ==
  ASSUME CheckpointInv, NEW o \in Operators, VerifyStore(o)
  PROVE  CheckpointInv'
  <1> TypeInv /\ CreateInv(o)
    BY DEF CheckpointInv
  <1>1. CASE LeaveCheckpoint(o)
    BY <1>1, LeaveStep DEF VerifyStore
  <1>2. CASE ~LeaveCheckpoint(o)
    <2>1. /\ OwnRecords(o) /\ pc'[o] = "create" /\ job'[o] = job[o]
          /\ report'[o] = Current
          /\ UNCHANGED <<log, dirs, durable, guard>>
      BY <1>2 DEF VerifyStore, Goto, OwnRecords, TypeInv
    <2>2. /\ job[o] \in [destination : CheckpointNames]
          /\ guard = o
          /\ durable = Len(log)
      BY DEF VerifyStore, CreateInv, Guarded, Synced
    <2>3. CreateInv(o)'
      BY <2>1, <2>2 DEF CreateInv, Created, Verified, Synced, Guarded, Current
    <2> QED BY <2>1, <2>3, CheckpointLocalStep
         DEF Elsewhere, Guarded, Synced, Verified, Created
  <1> QED BY <1>1, <1>2

\* The new checkpoint is the verified state in all of its files.
LEMMA CreateDirectoryInv ==
  ASSUME CheckpointInv, NEW o \in Operators, CreateDirectory(o)
  PROVE  CheckpointInv'
  <1> TypeInv /\ CreateInv(o)
    BY DEF CheckpointInv
  <1>1. CASE LeaveCheckpoint(o)
    <2>1. UNCHANGED <<log, dirs, durable>>
      BY <1>1 DEF CreateDirectory, LeaveCheckpoint, End, Goto, TypeInv
    <2> QED BY <2>1, <1>1, LeaveStep
  <1>2. CASE ~LeaveCheckpoint(o)
    <2>1. /\ job[o] \in [destination : CheckpointNames]
          /\ guard = o
          /\ durable = Len(log)
          /\ report[o] = Current
      BY DEF CreateDirectory, CreateInv, Guarded, Synced, Verified
    <2> DEFINE d == job[o].destination
    <2>0. PICK names \in SUBSET Files :
             CurrentFile \in names /\ dirs' = [dirs EXCEPT ![d] = Snapshot(names)]
      BY <1>2 DEF CreateDirectory
    <2> DEFINE made == Snapshot(names)
    <2>2. /\ OwnRecords(o) /\ pc'[o] = "fingerprint" /\ job'[o] = job[o]
          /\ report'[o] = report[o]
          /\ UNCHANGED <<log, durable, guard>>
          /\ dirs[d] = None
          /\ dirs' = [dirs EXCEPT ![d] = made]
      BY <1>2, <2>0 DEF CreateDirectory, Absent, Goto, OwnRecords, TypeInv
    <2>3. Current \in States /\ Current = log[durable] /\ UNCHANGED Current
      BY <2>1, <2>2, SMTT(60) DEF TypeInv, Current
    <2>4. made \in Directories /\ made # None /\ HoldsOnly(made, Current)
      <3>1. made \in Directories
        BY <2>3 DEF Directories, Snapshot
      <3>2. made # None /\ Current # None
        BY <3>1, <2>3, CheckpointAssumption
      <3>3. \A f \in Files : made.files[f] = IF f \in names THEN Current ELSE None
        BY DEF Snapshot
      <3>4. HoldsOnly(made, Current)
        BY <2>0, <3>2, <3>3 DEF HoldsOnly, NamesIn
      <3> QED BY <3>1, <3>2, <3>4
    <2> HIDE DEF made
    <2>5. d \in CheckpointNames /\ d \in Destinations /\ d \notin RestoreNames
      BY <2>1, RootsAssumption DEF CheckpointNames, RestoreNames
    <2>6. dirs'[d] = made /\ \A p \in Destinations \ {d} : dirs'[p] = dirs[p]
      BY <2>2, <2>5 DEF TypeInv
    <2>7. TypeInv'
      BY <2>2, <2>4, <2>5 DEF TypeInv, OwnRecords
    <2>8. DirectoryInv'
      <3> SUFFICES ASSUME NEW p \in CheckpointNames, dirs'[p] # None
                   PROVE  \E k \in 1..durable : HoldsOnly(dirs'[p], log[k])
        BY <2>2, SMTT(60) DEF DirectoryInv, CheckpointNames
      <3>1. CASE p = d
        <4>1. durable \in 1..durable
          BY SMTT(60) DEF TypeInv
        <4> QED BY <3>1, <4>1, <2>3, <2>4, <2>6
      <3>2. CASE p # d
        BY <3>2, <2>6, SMTT(60) DEF CheckpointInv, DirectoryInv, CheckpointNames
      <3> QED BY <3>1, <3>2
    <2>9. ASSUME NEW q \in Operators, q # o
          PROVE  CreateInv(q)' /\ CopyInv(pc[q], job[q], Source(q), Restored(q))'
      <3>1. pc'[q] = pc[q] /\ job'[q] = job[q] /\ report'[q] = report[q]
        BY <2>2, <2>9 DEF OwnRecords
      <3>2. CreateInv(q)'
        <4>2. CreateInv(q)
          BY OperatorInv
        <4>1. pc[q] \notin Guarded
          BY <2>1, <2>9, <4>2 DEF CreateInv
        <4> QED BY <4>1, <4>2, <3>1 DEF CreateInv, Created, Verified, Synced, Guarded
      <3>3. CopyInv(pc[q], job[q], dirs[job[q].source], dirs[job[q].destination])
        BY OperatorInv
      <3>4. CASE pc[q] \in Restoring
        <4>1. /\ job[q].source \in Destinations /\ job[q].source # d
              /\ job[q].destination \in Destinations /\ job[q].destination # d
          BY <3>3, <3>4, <2>2, <2>5, Admitted DEF CheckpointNames, RestoreNames
        <4> QED BY <4>1, <3>1, <3>2, <3>3, <2>6 DEF Source, Restored
      <3>5. CASE pc[q] \notin Restoring
        BY <3>1, <3>2, <3>3, <3>5, NotRestoring DEF Source, Restored
      <3> QED BY <3>4, <3>5
    <2>10. CreateInv(o)'
      BY <2>1, <2>2, <2>3, <2>4, <2>6
      DEF CreateInv, Created, Verified, Synced, Guarded
    <2>11. CopyInv(pc[o], job[o], Source(o), Restored(o))'
      BY <2>2, NoCopy DEF Elsewhere, Guarded, Synced, Verified, Created
    <2> QED BY <2>7, <2>8, <2>9, <2>10, <2>11 DEF CheckpointInv
  <1> QED BY <1>1, <1>2

\* The fingerprint changes nothing.
LEMMA FingerprintCheckpointInv ==
  ASSUME CheckpointInv, NEW o \in Operators, FingerprintCheckpoint(o)
  PROVE  CheckpointInv'
  <1> TypeInv /\ CreateInv(o)
    BY DEF CheckpointInv
  <1>1. CASE LeaveCheckpoint(o)
    BY <1>1, LeaveStep DEF FingerprintCheckpoint
  <1>2. CASE ~LeaveCheckpoint(o)
    <2>1. /\ OwnRecords(o) /\ pc[o] = "fingerprint" /\ pc'[o] = "reported"
          /\ UNCHANGED <<log, dirs, durable, guard, job, report>>
      BY <1>2 DEF FingerprintCheckpoint, Goto, OwnRecords, TypeInv
    <2>2. CreateInv(o)'
      BY <2>1 DEF CreateInv, Created, Verified, Synced, Guarded, Current
    <2> QED BY <2>1, <2>2, CheckpointLocalStep
         DEF Elsewhere, Guarded, Synced, Verified, Created
  <1> QED BY <1>1, <1>2

\* A reported checkpoint has nothing left to keep.
LEMMA ReturnCheckpointInv ==
  ASSUME CheckpointInv, NEW o \in Operators, ReturnCheckpoint(o)
  PROVE  CheckpointInv'
  BY LeaveStep DEF ReturnCheckpoint

\* A flush only makes more of the log durable.
LEMMA FlushStoreInv ==
  ASSUME CheckpointInv, NEW o \in Operators, FlushStore(o)
  PROVE  CheckpointInv'
  <1> TypeInv /\ CreateInv(o)
    BY DEF CheckpointInv
  <1>1. pc[o] = "idle" /\ OwnRecords(o) /\ UNCHANGED <<log, dirs, guard, pc, job, report>>
    BY DEF FlushStore, OwnRecords, TypeInv
  <1>2. CreateInv(o)'
    BY <1>1 DEF CreateInv, Created, Verified, Synced, Guarded
  <1> QED BY <1>1, <1>2, CheckpointLocalStep DEF FlushStore, Elsewhere

\* A compaction takes the guard when nobody holds it.
LEMMA StartCompactionInv ==
  ASSUME CheckpointInv, NEW o \in Operators, StartCompaction(o)
  PROVE  CheckpointInv'
  <1> TypeInv /\ CreateInv(o)
    BY DEF CheckpointInv
  <1>1. /\ OwnRecords(o) /\ pc'[o] = "compact"
        /\ UNCHANGED <<log, dirs>> /\ guard = None /\ durable' = Len(log)
    BY DEF StartCompaction, Goto, OwnRecords, TypeInv
  <1>2. CreateInv(o)'
    BY <1>1 DEF CreateInv, Created, Verified, Synced, Guarded
  <1> QED BY <1>1, <1>2, CheckpointLocalStep, CheckpointAssumption
         DEF Elsewhere, Guarded, Synced, Verified, Created

\* A compaction that ends drops its guard.
LEMMA FinishCompactionInv ==
  ASSUME CheckpointInv, NEW o \in Operators, FinishCompaction(o)
  PROVE  CheckpointInv'
  BY EndStep DEF FinishCompaction, Unguard

\* Every step of a checkpoint, a flush and a compaction keeps the invariant.
LEMMA CheckpointStepInv ==
  ASSUME CheckpointInv, NEW o \in Operators,
         \/ CheckpointStep(o)
         \/ FlushStore(o) \/ StartCompaction(o) \/ FinishCompaction(o)
  PROVE  CheckpointInv'
  <1>1. CASE \E p \in Destinations : StartCheckpoint(o, [destination |-> p])
    BY <1>1, StartCheckpointInv
  <1>2. CASE CheckCheckpointPaths(o)
    BY <1>2, CheckCheckpointPathsInv
  <1>3. CASE TakeGuard(o)
    BY <1>3, TakeGuardInv
  <1>4. CASE SyncStore(o)
    BY <1>4, SyncStoreInv
  <1>5. CASE VerifyStore(o)
    BY <1>5, VerifyStoreInv
  <1>6. CASE CreateDirectory(o)
    BY <1>6, CreateDirectoryInv
  <1>7. CASE FingerprintCheckpoint(o)
    BY <1>7, FingerprintCheckpointInv
  <1>8. CASE ReturnCheckpoint(o)
    BY <1>8, ReturnCheckpointInv
  <1>9. CASE FlushStore(o)
    BY <1>9, FlushStoreInv
  <1>10. CASE StartCompaction(o)
    BY <1>10, StartCompactionInv
  <1>11. CASE FinishCompaction(o)
    BY <1>11, FinishCompactionInv
  <1> QED
    BY <1>1, <1>2, <1>3, <1>4, <1>5, <1>6, <1>7, <1>8, <1>9, <1>10, <1>11
    DEF CheckpointStep

-----------------------------------------------------------------------------
(* Restores, and the theorems.                                              *)

\* A restore whose files are all there is complete for every later place.
LEMMA CopyCompleted ==
  ASSUME NEW where \in Complete, NEW request \in RestoreJobs,
         NEW source, source # None, CurrentFile \in NamesIn(source),
         NEW restored, restored # None, CopiedBut({}, source, restored),
         where \in Cleared => restored.pointer # "copied"
  PROVE  CopyInv(where, request, source, restored)
  <1>1. where \notin {"admit", "open", "copy"}
    BY DEF Complete, Cleared
  <1> QED BY <1>1 DEF CopyInv

\* What a restore knows once its files are there.
LEMMA Copied ==
  ASSUME NEW where \in Complete, NEW request, NEW source, NEW restored,
         CopyInv(where, request, source, restored)
  PROVE  /\ where \in Restoring /\ restored # None
         /\ CopiedBut({}, source, restored)
         /\ where \in Cleared => restored.pointer # "copied"
  BY DEF CopyInv, Restoring

\* What makes a restore between two files.
LEMMA CopyContinues ==
  ASSUME NEW request \in RestoreJobs, NEW source, source # None,
         CurrentFile \in NamesIn(source),
         NEW restored, restored # None, CopiedBut(request.left, source, restored)
  PROVE  CopyInv("copy", request, source, restored)
  <1>1. "copy" \notin Complete /\ "copy" \notin Cleared
    BY DEF Complete, Cleared
  <1> QED BY <1>1 DEF CopyInv

\* What one more file makes of the directory.
FileAdded(old, source, f) ==
    [files |-> [old.files EXCEPT ![f] = source.files[f]],
     pointer |-> IF f = CurrentFile THEN source.pointer ELSE old.pointer]

\* Copying file n over none keeps the others, and leaves one less to copy.
LEMMA FileCopied ==
  ASSUME NEW old \in Directories, NEW source \in Directories, NEW n \in Files,
         old.files[n] = None, NEW left, CopiedBut(left, source, old),
         NEW new, new = FileAdded(old, source, n)
  PROVE  /\ new \in Directories
         /\ CopiedBut(left \ {n}, source, new)
         /\ Adds(old, new)
  <1>1. /\ old.files \in [Files -> States \cup {None}]
        /\ source.files[n] \in States \cup {None}
        /\ source.pointer \in {"none", "copied", "own"}
        /\ old.pointer \in {"none", "copied", "own"}
    BY DEF Directories
  <1>2. /\ new.files \in [Files -> States \cup {None}]
        /\ new.pointer \in {"none", "copied", "own"}
    BY <1>1 DEF FileAdded
  <1>3. new \in Directories
    BY <1>2 DEF Directories, FileAdded
  <1>4. \A f \in Files : new.files[f] = IF f = n THEN source.files[n] ELSE old.files[f]
    BY <1>1 DEF FileAdded
  <1>5. CopiedBut(left \ {n}, source, new)
    BY <1>4 DEF CopiedBut, NamesIn
  <1>6. new.pointer = "copied" => old.pointer = "copied" \/ n = CurrentFile
    BY DEF FileAdded
  <1>7. Adds(old, new)
    BY <1>4, <1>6 DEF Adds
  <1> QED BY <1>3, <1>5, <1>7

\* The request of a restore with other files left.
LEMMA NextRequest ==
  ASSUME NEW request \in RestoreJobs, NEW left \in SUBSET Files,
         NEW new, new = [request EXCEPT !.left = left]
  PROVE  /\ new \in RestoreJobs /\ new.left = left
         /\ new.source = request.source /\ new.destination = request.destination
  BY DEF RestoreJobs

\* The request of an admitted restore names a checkpoint that is there, and a
\* directory elsewhere.
LEMMA RestoreRequest ==
  ASSUME CheckpointInv, NEW o \in Operators, pc[o] \in Restoring,
         NEW s, NEW d, s = job[o].source, d = job[o].destination
  PROVE  /\ CopyInv(pc[o], job[o], dirs[s], dirs[d])
         /\ job[o] \in RestoreJobs
         /\ s \in Destinations /\ d \in RestoreNames /\ d \in Destinations /\ s # d
         /\ dirs[s] # None /\ dirs[s] \in Directories /\ CurrentFile \in NamesIn(dirs[s])
  <1>1. CopyInv(pc[o], job[o], dirs[s], dirs[d])
    BY DEF CheckpointInv, Source, Restored
  <1>2. /\ job[o] \in RestoreJobs /\ dirs[s] # None /\ CurrentFile \in NamesIn(dirs[s])
        /\ s \in CheckpointNames /\ d \in RestoreNames
    BY <1>1, Admitted
  <1>3. s \in Destinations /\ d \in Destinations /\ s # d
    BY <1>2, RootsAssumption DEF CheckpointNames, RestoreNames
  <1>4. dirs[s] \in Directories
    BY <1>2, <1>3 DEF CheckpointInv, TypeInv
  <1> QED BY <1>1, <1>2, <1>3, <1>4

\* A place of a restore is none of a checkpoint.
LEMMA NoCheckpoint ==
  ASSUME NEW o \in Operators, pc'[o] \in {"admit"} \cup Restoring
  PROVE  CreateInv(o)'
  <1>1. pc'[o] \notin {"paths", "guard"} \cup Guarded
    BY DEF Restoring, Complete, Cleared, Guarded, Synced, Verified, Created
  <1> QED BY <1>1 DEF CreateInv, Guarded, Synced, Verified

\* A step of a restore that goes to another place, or to its next file, and
\* writes directory.
LEMMA RestoreMove ==
  ASSUME CheckpointInv, NEW o \in Operators, OwnRecords(o),
         UNCHANGED <<log, durable, guard>>, pc[o] \in Restoring, pc'[o] \in Restoring,
         NEW s, NEW d, s = job[o].source, d = job[o].destination,
         job'[o].source = s, job'[o].destination = d,
         NEW directory \in Directories, Adds(dirs[d], directory),
         WriteRestored(o, directory),
         CopyInv(pc'[o], job'[o], dirs[s], directory)
  PROVE  CheckpointInv'
  <1>1. s \in Destinations /\ d \in RestoreNames /\ d \in Destinations /\ s # d
    BY RestoreRequest
  <1>2. dirs'[d] = directory /\ dirs'[s] = dirs[s]
    BY <1>1 DEF CheckpointInv, TypeInv, WriteRestored
  <1>3. CopyInv(pc[o], job[o], Source(o), Restored(o))'
    BY <1>2 DEF Source, Restored
  <1>4. CreateInv(o)'
    BY NoCheckpoint
  <1> QED BY <1>1, <1>3, <1>4, RestoreWrite DEF WriteRestored

\* A write to the pointer of a complete directory.
LEMMA PointerMove ==
  ASSUME CheckpointInv, NEW o \in Operators, OwnRecords(o),
         UNCHANGED <<log, durable, guard, job>>, pc[o] \in Complete, pc'[o] \in Cleared,
         NEW pointer \in {"none", "own"},
         WriteRestored(o, [Restored(o) EXCEPT !.pointer = pointer])
  PROVE  CheckpointInv'
  <1>1. PICK s, d : s = job[o].source /\ d = job[o].destination
    OBVIOUS
  <1>2. pc[o] \in Restoring /\ pc'[o] \in Restoring /\ pc'[o] \in Complete
    BY DEF Restoring, Complete
  <1>3. /\ CopyInv(pc[o], job[o], dirs[s], dirs[d])
        /\ job[o] \in RestoreJobs /\ d \in Destinations /\ dirs[s] # None
        /\ CurrentFile \in NamesIn(dirs[s])
    BY <1>1, <1>2, RestoreRequest
  <1>4. dirs[d] # None /\ CopiedBut({}, dirs[s], dirs[d])
    BY <1>3, Copied
  <1> DEFINE directory == [dirs[d] EXCEPT !.pointer = pointer]
  <1>6. /\ directory \in Directories
        /\ directory.files = dirs[d].files /\ directory.pointer = pointer
    <2>1. dirs[d] \in Directories
      BY <1>3, <1>4 DEF CheckpointInv, TypeInv
    <2> QED BY <2>1 DEF Directories
  <1>9. WriteRestored(o, directory)
    BY <1>1 DEF Restored
  <1> HIDE DEF directory
  <1>7. Adds(dirs[d], directory)
    BY <1>6 DEF Adds
  <1>8. CopyInv(pc'[o], job[o], dirs[s], directory)
    <2>1. directory # None
      BY <1>6, CheckpointAssumption
    <2>2. CopiedBut({}, dirs[s], directory)
      BY <1>4, <1>6 DEF CopiedBut
    <2> QED BY <2>1, <2>2, <1>2, <1>3, <1>6, CopyCompleted
  <1> QED BY <1>1, <1>2, <1>6, <1>7, <1>8, <1>9, RestoreMove

\* A step from one place to the next in a directory that is ready.
LEMMA ClearedMove ==
  ASSUME CheckpointInv, NEW o \in Operators, OwnRecords(o),
         UNCHANGED <<dirs, log, durable, guard, job>>,
         pc[o] \in Cleared, pc'[o] \in Cleared
  PROVE  CheckpointInv'
  <1>1. PICK s, d : s = job[o].source /\ d = job[o].destination
    OBVIOUS
  <1>2. pc[o] \in Restoring /\ pc'[o] \in Restoring /\ pc[o] \in Complete /\ pc'[o] \in Complete
    BY DEF Restoring, Complete
  <1>3. /\ CopyInv(pc[o], job[o], dirs[s], dirs[d])
        /\ job[o] \in RestoreJobs /\ dirs[s] # None /\ CurrentFile \in NamesIn(dirs[s])
    BY <1>1, <1>2, RestoreRequest
  <1>4. CopyInv(pc'[o], job[o], dirs[s], dirs[d])
    <2>1. /\ dirs[d] # None /\ dirs[d].pointer # "copied"
          /\ CopiedBut({}, dirs[s], dirs[d])
      BY <1>2, <1>3, Copied
    <2> QED BY <2>1, <1>2, <1>3, CopyCompleted
  <1>5. CopyInv(pc[o], job[o], Source(o), Restored(o))'
    BY <1>1, <1>4 DEF Source, Restored
  <1>6. CreateInv(o)'
    BY <1>2, NoCheckpoint
  <1> QED BY <1>5, <1>6, LocalStep

\* A restore starts with a request that nothing is known of.
LEMMA StartRestoreInv ==
  ASSUME CheckpointInv, NEW o \in Operators, NEW source \in Destinations,
         NEW destination \in Destinations, StartRestore(o, source, destination)
  PROVE  CheckpointInv'
  <1>1. OwnRecords(o) /\ pc'[o] = "admit" /\ UNCHANGED <<dirs, log, durable, guard>>
    BY DEF StartRestore, Begin, Goto, OwnRecords, CheckpointInv, TypeInv, CatalogUntouched
  <1>2. job'[o] \in RestoreRequests
    BY DEF StartRestore, Begin, CheckpointInv, TypeInv, RestoreRequests
  <1>3. CopyInv(pc[o], job[o], Source(o), Restored(o))'
    <2>1. "admit" \notin Restoring /\ "admit" \notin Complete /\ "admit" \notin Cleared
      BY DEF Cleared, Complete, Restoring
    <2> QED BY <1>1, <1>2, <2>1 DEF CopyInv
  <1>4. CreateInv(o)'
    BY <1>1, NoCheckpoint
  <1> QED BY <1>1, <1>3, <1>4, LocalStep

\* Only a checkpoint that is there, and a destination elsewhere, are let through.
LEMMA AdmitRestoreInv ==
  ASSUME CheckpointInv, NEW o \in Operators, AdmitRestore(o), ~End(o)
  PROVE  CheckpointInv'
  <1>1. /\ OwnRecords(o) /\ pc[o] = "admit" /\ pc'[o] = "open"
        /\ UNCHANGED <<dirs, log, durable, guard, job>>
    BY DEF AdmitRestore, Goto, OwnRecords, CheckpointInv, TypeInv, CatalogUntouched
  <1>2. PICK s, d : s = job[o].source /\ d = job[o].destination
    OBVIOUS
  <1>3. Below(s, CheckpointRoot) /\ IsDir(s) /\ Below(d, RestoreRoot)
    <2>1. ValidateOperationalPaths(RestoreTargets(job[o]))
      BY DEF AdmitRestore
    <2> QED BY <1>2, <2>1, SMTT(60) DEF ValidateOperationalPaths, RestoreTargets, ResolveTarget, Target
  <1>4. job[o] \in RestoreRequests
    BY <1>1 DEF CheckpointInv, CopyInv
  <1>5. dirs[s] # None
    BY <1>2, <1>3, <1>4, CheckpointAssumption DEF IsDir, Absent, RestoreRequests
  <1>6. job[o] \in RestoreJobs /\ CurrentFile \in NamesIn(dirs[s])
    <2>1. job[o] \in RestoreJobs
      BY <1>2, <1>3, <1>4 DEF RestoreRequests, RestoreJobs, CheckpointNames, RestoreNames
    <2>2. s \in CheckpointNames
      BY <2>1, <1>2 DEF RestoreJobs
    <2> QED BY <2>1, <2>2, <1>5 DEF CheckpointInv, DirectoryInv, HoldsOnly
  <1>7. CopyInv("open", job[o], dirs[s], dirs[d])
    <2>1. "open" \notin Complete /\ "open" \notin Cleared
      BY DEF Cleared, Complete
    <2> QED BY <1>5, <1>6, <2>1 DEF CopyInv
  <1>8. CopyInv(pc[o], job[o], Source(o), Restored(o))'
    BY <1>1, <1>2, <1>7 DEF Source, Restored
  <1>9. CreateInv(o)'
    BY <1>1, NoCheckpoint DEF Restoring
  <1> QED BY <1>1, <1>8, <1>9, LocalStep

\* A restore starts in a directory without files.
LEMMA OpenDestinationInv ==
  ASSUME CheckpointInv, NEW o \in Operators, OpenDestination(o), ~End(o)
  PROVE  CheckpointInv'
  <1>1. PICK s, d : s = job[o].source /\ d = job[o].destination
    OBVIOUS
  <1> DEFINE empty == [files |-> NoFiles, pointer |-> "none"]
  <1>3. /\ OwnRecords(o) /\ pc[o] = "open" /\ pc'[o] = "copy"
        /\ job'[o] = [job[o] EXCEPT !.left = NamesIn(dirs[s])]
        /\ UNCHANGED <<log, durable, guard>>
    BY <1>1 DEF OpenDestination, Source, Goto, OwnRecords, CheckpointInv, TypeInv, CatalogUntouched
  <1>4. /\ dirs[d] = None \/ dirs[d].files = NoFiles
        /\ WriteRestored(o, empty)
    BY <1>1 DEF OpenDestination, Absent, IsEmptyDir
  <1>5. pc[o] \in Restoring /\ pc'[o] \in Restoring
    BY <1>3 DEF Restoring
  <1>6. /\ CopyInv(pc[o], job[o], dirs[s], dirs[d])
        /\ job[o] \in RestoreJobs /\ dirs[s] # None /\ CurrentFile \in NamesIn(dirs[s])
    BY <1>1, <1>5, RestoreRequest
  <1>7. empty \in Directories /\ Adds(dirs[d], empty)
    <2>1. empty \in Directories
      BY DEF Directories, NoFiles
    <2> QED BY <2>1, <1>4 DEF NoFiles, Adds
  <1> HIDE DEF empty
  <1>8. /\ job'[o] \in RestoreJobs /\ job'[o].left = NamesIn(dirs[s])
        /\ job'[o].source = s /\ job'[o].destination = d
    <2>1. PICK left \in SUBSET Files : left = NamesIn(dirs[s])
      BY DEF NamesIn
    <2>2. PICK new : new = job'[o]
      OBVIOUS
    <2>3. new = [job[o] EXCEPT !.left = left]
      BY <2>2, <2>1, <1>3
    <2>4. /\ new \in RestoreJobs /\ new.left = left
          /\ new.source = job[o].source /\ new.destination = job[o].destination
      BY <2>3, <1>6, NextRequest
    <2> QED BY <2>1, <2>2, <2>4, <1>1
  <1>9. CopyInv(pc'[o], job'[o], dirs[s], empty)
    <2>1. empty # None /\ CopiedBut(job'[o].left, dirs[s], empty)
      BY <1>7, <1>8, CheckpointAssumption DEF CopiedBut
    <2>2. CopyInv("copy", job'[o], dirs[s], empty)
      BY <2>1, <1>6, <1>8, CopyContinues
    <2> QED BY <2>2, <1>3
  <1> QED BY <1>1, <1>3, <1>4, <1>5, <1>7, <1>8, <1>9, RestoreMove

\* The next file is copied only where none is.
LEMMA CopyChildrenInv ==
  ASSUME CheckpointInv, NEW o \in Operators, CopyChildren(o), ~End(o)
  PROVE  CheckpointInv'
  <1>1. PICK s, d : s = job[o].source /\ d = job[o].destination
    OBVIOUS
  <1>2. PICK n \in job[o].left :
          /\ CopyFile(o, n)
          /\ job' = [job EXCEPT ![o].left = @ \ {n}]
          /\ Goto(o, IF job[o].left = {n} THEN "clear" ELSE "copy")
    BY DEF CopyChildren
  <1> DEFINE new == WithFile(o, n)
  <1>3. new = FileAdded(dirs[d], dirs[s], n)
    BY <1>1 DEF WithFile, FileAdded, Restored, Source
  <1>5. dirs[d].files[n] = None /\ WriteRestored(o, new)
    BY <1>1, <1>2 DEF CopyFile, Restored
  <1> HIDE DEF new
  <1>0. OwnRecords(o) /\ UNCHANGED <<log, durable, guard>>
    BY <1>2 DEF CopyChildren, Goto, OwnRecords, CheckpointInv, TypeInv, CatalogUntouched
  <1>4. pc[o] = "copy" /\ pc'[o] = IF job[o].left = {n} THEN "clear" ELSE "copy"
    BY <1>2 DEF CopyChildren, Goto, CheckpointInv, TypeInv
  <1>6. pc[o] \in Restoring /\ pc'[o] \in Restoring
    BY <1>4 DEF Restoring, Complete
  <1>7. /\ CopyInv("copy", job[o], dirs[s], dirs[d])
        /\ job[o] \in RestoreJobs /\ dirs[s] # None /\ CurrentFile \in NamesIn(dirs[s])
        /\ dirs[s] \in Directories /\ d \in Destinations
    BY <1>1, <1>4, <1>6, RestoreRequest
  <1>8. /\ n \in Files /\ dirs[d] \in Directories
        /\ CopiedBut(job[o].left, dirs[s], dirs[d])
    <2>1. dirs[d] # None /\ CopiedBut(job[o].left, dirs[s], dirs[d])
      BY <1>7 DEF CopyInv
    <2>2. dirs[d] \in Directories
      BY <2>1, <1>7 DEF CheckpointInv, TypeInv
    <2>3. n \in Files
      BY <1>2, <1>7 DEF RestoreJobs
    <2> QED BY <2>1, <2>2, <2>3
  <1>9. /\ new \in Directories /\ Adds(dirs[d], new)
        /\ CopiedBut(job[o].left \ {n}, dirs[s], new)
    BY <1>3, <1>5, <1>7, <1>8, FileCopied
  <1>10. /\ job'[o] \in RestoreJobs
         /\ job'[o].source = s /\ job'[o].destination = d
         /\ job'[o].left = job[o].left \ {n}
    <2>1. PICK left \in SUBSET Files : left = job[o].left \ {n}
      BY <1>7 DEF RestoreJobs
    <2>2. PICK request : request = job'[o]
      OBVIOUS
    <2>3. request = [job[o] EXCEPT !.left = left]
      BY <2>2, <1>2, <2>1 DEF CheckpointInv, TypeInv
    <2>4. /\ request \in RestoreJobs /\ request.left = left
          /\ request.source = job[o].source /\ request.destination = job[o].destination
      BY <2>3, <1>7, NextRequest
    <2> QED BY <2>1, <2>2, <2>4, <1>1
  <1>11. CopyInv(pc'[o], job'[o], dirs[s], new)
    <2>1. new # None
      BY <1>9, CheckpointAssumption
    <2>2. CASE job[o].left = {n}
      <3>1. CopiedBut({}, dirs[s], new)
        BY <2>2, <1>9 DEF CopiedBut
      <3>2. pc'[o] \in Complete /\ pc'[o] \notin Cleared
        BY <2>2, <1>4 DEF Complete, Cleared
      <3> QED BY <2>1, <3>1, <3>2, <1>7, <1>10, CopyCompleted
    <2>3. CASE job[o].left # {n}
      <3>1. pc'[o] = "copy"
        BY <2>3, <1>4
      <3>2. CopiedBut(job'[o].left, dirs[s], new)
        BY <1>9, <1>10
      <3>3. CopyInv("copy", job'[o], dirs[s], new)
        BY <2>1, <3>2, <1>7, <1>10, CopyContinues
      <3> QED BY <3>1, <3>3
    <2> QED BY <2>2, <2>3
  <1> QED BY <1>0, <1>1, <1>5, <1>6, <1>9, <1>10, <1>11, RestoreMove

\* Every step of a restore keeps the invariant: it writes only where nothing
\* is, so that it never changes a file that another has copied.
LEMMA RestoreStepInv ==
  ASSUME CheckpointInv, NEW o \in Operators, RestoreStep(o)
  PROVE  CheckpointInv'
  <1> USE DEF CatalogUntouched
  <1>0. ASSUME End(o), dirs' = dirs, CatalogUntouched PROVE CheckpointInv'
    BY <1>0, EndStep
  <1>1. CASE \E source, destination \in Destinations : StartRestore(o, source, destination)
    BY <1>1, StartRestoreInv
  <1>2. CASE AdmitRestore(o)
    BY <1>2, <1>0, AdmitRestoreInv DEF AdmitRestore
  <1>3. CASE OpenDestination(o)
    <2>1. End(o) => dirs' = dirs /\ CatalogUntouched
      BY <1>3 DEF OpenDestination, End, Goto, CheckpointInv, TypeInv
    <2> QED BY <2>1, <1>3, <1>0, OpenDestinationInv
  <1>4. CASE CopyChildren(o)
    <2>1. End(o) => dirs' = dirs /\ CatalogUntouched
      BY <1>4 DEF CopyChildren, End, Goto, CheckpointInv, TypeInv
    <2> QED BY <2>1, <1>4, <1>0, CopyChildrenInv
  <1>5. CASE ClearRoutingPointer(o)
    <2>1. CASE End(o)
      <3>1. dirs' = dirs /\ CatalogUntouched
        BY <1>5, <2>1 DEF ClearRoutingPointer, End, Goto, CheckpointInv, TypeInv
      <3> QED BY <3>1, <2>1, <1>0
    <2>2. CASE ~End(o)
      <3>1. /\ OwnRecords(o) /\ pc[o] = "clear" /\ pc'[o] = "check"
            /\ UNCHANGED <<log, durable, guard, job>>
        <4>1. pc[o] = "clear" /\ Goto(o, "check") /\ UNCHANGED <<log, durable, guard, job, report>>
          BY <1>5, <2>2 DEF ClearRoutingPointer
        <4> QED BY <4>1 DEF Goto, OwnRecords, CheckpointInv, TypeInv
      <3>2. WriteRestored(o, [Restored(o) EXCEPT !.pointer = "none"])
        BY <1>5, <2>2 DEF ClearRoutingPointer, ClearedPointer
      <3>3. pc[o] \in Complete /\ pc'[o] \in Cleared
        BY <3>1 DEF Complete, Cleared
      <3> QED BY <3>1, <3>2, <3>3, PointerMove
    <2> QED BY <2>1, <2>2
  <1>6. CASE VerifyRestored(o)
    <2>1. CASE End(o)
      BY <1>6, <2>1, <1>0 DEF VerifyRestored
    <2>2. CASE ~End(o)
      <3>1. /\ OwnRecords(o) /\ pc[o] = "check" /\ pc'[o] = "engine"
            /\ UNCHANGED <<dirs, log, durable, guard, job>>
        BY <1>6, <2>2 DEF VerifyRestored, Goto, OwnRecords, CheckpointInv, TypeInv
      <3> QED BY <3>1, ClearedMove DEF Cleared
    <2> QED BY <2>1, <2>2
  <1>7. CASE OpenTemporaryEngine(o)
    <2>1. CASE End(o)
      <3>1. dirs' = dirs /\ CatalogUntouched
        BY <1>7, <2>1 DEF OpenTemporaryEngine, End, Goto, CheckpointInv, TypeInv
      <3> QED BY <3>1, <2>1, <1>0
    <2>2. CASE ~End(o)
      <3>1. /\ OwnRecords(o) /\ pc[o] = "engine" /\ pc'[o] = "smoke"
            /\ UNCHANGED <<log, durable, guard, job>>
        BY <1>7, <2>2 DEF OpenTemporaryEngine, Goto, OwnRecords, CheckpointInv, TypeInv
      <3>2. WriteRestored(o, [Restored(o) EXCEPT !.pointer = "own"])
        BY <1>7, <2>2 DEF OpenTemporaryEngine
      <3>3. pc[o] \in Complete /\ pc'[o] \in Cleared
        BY <3>1 DEF Complete, Cleared
      <3> QED BY <3>1, <3>2, <3>3, PointerMove
    <2> QED BY <2>1, <2>2
  <1>8. CASE SmokeCheck(o)
    <2>1. CASE End(o)
      BY <1>8, <2>1, <1>0 DEF SmokeCheck
    <2>2. CASE ~End(o)
      <3>1. /\ OwnRecords(o) /\ pc[o] = "smoke" /\ pc'[o] = "restored"
            /\ UNCHANGED <<dirs, log, durable, guard, job>>
        BY <1>8, <2>2 DEF SmokeCheck, Goto, OwnRecords, CheckpointInv, TypeInv
      <3> QED BY <3>1, ClearedMove DEF Cleared
    <2> QED BY <2>1, <2>2
  <1>9. CASE ReturnRestore(o)
    BY <1>9, <1>0 DEF ReturnRestore
  <1> QED
    BY <1>1, <1>2, <1>3, <1>4, <1>5, <1>6, <1>7, <1>8, <1>9 DEF RestoreStep

-----------------------------------------------------------------------------

\* A stuttering step keeps the invariant.
LEMMA Stutter == CheckpointInv /\ UNCHANGED vars => CheckpointInv'
  <1> SUFFICES ASSUME CheckpointInv, UNCHANGED vars PROVE CheckpointInv'
    OBVIOUS
  <1>1. /\ UNCHANGED <<log, durable, guard, dirs>>
        /\ UNCHANGED <<pc, job, report>>
    BY DEF vars
  <1>2. TypeInv' /\ DirectoryInv'
    BY <1>1, SMTT(60) DEF CheckpointInv, TypeInv, DirectoryInv
  <1>3. ASSUME NEW o \in Operators
        PROVE  CreateInv(o)' /\ CopyInv(pc[o], job[o], Source(o), Restored(o))'
    BY <1>1, OperatorInv, CreateKept DEF Source, Restored
  <1> QED BY <1>2, <1>3 DEF CheckpointInv

\* The inductive invariant holds in every state of every behaviour.
THEOREM CheckpointInvariance == Spec => []CheckpointInv
  <1>1. CheckpointInv /\ [Next]_vars => CheckpointInv'
    <2> SUFFICES ASSUME CheckpointInv, [Next]_vars PROVE CheckpointInv'
      OBVIOUS
    <2>1. CASE UNCHANGED vars
      BY <2>1, Stutter
    <2>2. CASE Next
      <3>1. ASSUME NEW o \in Operators, CheckpointStep(o) \/ RestoreStep(o)
                    \/ FlushStore(o) \/ StartCompaction(o) \/ FinishCompaction(o)
            PROVE  CheckpointInv'
        BY <3>1, CheckpointStepInv, RestoreStepInv
      <3> QED BY <2>2, <3>1, CommitInv, PowerLossInv DEF Next
    <2> QED BY <2>1, <2>2
  <1> QED BY InitInv, <1>1, PTL DEF Spec

\* For any number of operators and files, what create_checkpoint reports as
\* verified is what each file of the checkpoint holds.
THEOREM CheckpointAsReported == Spec => []CheckpointIsAsReported
  <1>1. CheckpointInv => CheckpointIsAsReported
    BY DEF CheckpointInv, CreateInv, Created, CheckpointIsAsReported
  <1> QED BY <1>1, CheckpointInvariance, PTL

\* No sequence of commits and power losses takes the live catalog back
\* behind one of its checkpoints.
THEOREM CheckpointDurability == Spec => []CheckpointIsDurable
  <1>1. CheckpointInv => CheckpointIsDurable
    BY DEF CheckpointInv, DirectoryInv, CheckpointNames, CheckpointIsDurable, Absent
  <1> QED BY <1>1, CheckpointInvariance, PTL

-----------------------------------------------------------------------------
(* Only one restore gets to open a directory.                               *)

\* A restore that has copied the CURRENT of its checkpoint.
HasCurrent(o) ==
    pc[o] \in Complete \/ (pc[o] = "copy" /\ CurrentFile \notin job[o].left)

ExclusiveInv ==
    \A o, q \in Operators :
        HasCurrent(o) /\ HasCurrent(q) /\ job[o].destination = job[q].destination => o = q

\* Its CURRENT is there.
LEMMA CurrentIsThere ==
  ASSUME CheckpointInv, NEW o \in Operators, HasCurrent(o),
         NEW d, d = job[o].destination
  PROVE  dirs[d].files[CurrentFile] # None
  <1>1. PICK s : s = job[o].source
    OBVIOUS
  <1>2. pc[o] \in Restoring
    BY DEF HasCurrent, Restoring
  <1>3. CopyInv(pc[o], job[o], dirs[s], dirs[d]) /\ CurrentFile \in NamesIn(dirs[s])
    BY <1>1, <1>2, RestoreRequest
  <1>4. dirs[d].files[CurrentFile] = dirs[s].files[CurrentFile]
    BY <1>3 DEF HasCurrent, CopyInv, CopiedBut
  <1> QED BY <1>3, <1>4 DEF NamesIn

\* A step of o is exclusive when o has its CURRENT before, for the same
\* directory, or finds none there.
LEMMA ExclusiveStep ==
  ASSUME CheckpointInv, ExclusiveInv, NEW o \in Operators, OwnRecords(o),
         NEW d, d = job'[o].destination,
         HasCurrent(o)' => \/ HasCurrent(o) /\ job[o].destination = d
                           \/ dirs[d].files[CurrentFile] = None
  PROVE  ExclusiveInv'
  <1>1. ASSUME NEW q \in Operators \ {o}
        PROVE  /\ HasCurrent(q)' <=> HasCurrent(q)
               /\ job'[q].destination = job[q].destination
    BY DEF OwnRecords, HasCurrent
  <1>2. ASSUME NEW q \in Operators \ {o}, HasCurrent(q)', HasCurrent(o)',
               job'[q].destination = d
        PROVE  FALSE
    <2>1. HasCurrent(q) /\ job[q].destination = d
      BY <1>1, <1>2
    <2>2. dirs[d].files[CurrentFile] # None
      BY <2>1, CurrentIsThere
    <2>3. HasCurrent(o) /\ job[o].destination = d
      BY <2>2, <1>2
    <2> QED BY <2>1, <2>3 DEF ExclusiveInv
  <1> SUFFICES ASSUME NEW p \in Operators, NEW q \in Operators,
                      HasCurrent(p)', HasCurrent(q)',
                      job'[p].destination = job'[q].destination
               PROVE  p = q
    BY DEF ExclusiveInv
  <1>3. CASE p = o \/ q = o
    BY <1>2, <1>3
  <1>4. CASE p # o /\ q # o
    <2>1. HasCurrent(p) /\ job'[p].destination = job[p].destination
      BY <1>1, <1>4
    <2>2. HasCurrent(q) /\ job'[q].destination = job[q].destination
      BY <1>1, <1>4
    <2> QED BY <2>1, <2>2 DEF ExclusiveInv
  <1> QED BY <1>3, <1>4

\* Nothing happens to a restore that goes on elsewhere, or with all of its
\* files left.
LEMMA NoCurrent ==
  ASSUME CheckpointInv, ExclusiveInv, NEW o \in Operators, OwnRecords(o),
         pc'[o] \in Elsewhere \cup {"admit", "open"}
  PROVE  ExclusiveInv'
  <1>1. PICK d : d = job'[o].destination
    OBVIOUS
  <1>2. ~HasCurrent(o)'
    BY DEF HasCurrent, Elsewhere, Complete, Cleared, Guarded, Synced, Verified, Created
  <1> QED BY <1>1, <1>2, ExclusiveStep

\* An operation that ends has no CURRENT.
LEMMA EndPlace ==
  ASSUME CheckpointInv, NEW o \in Operators, End(o)
  PROVE  OwnRecords(o) /\ pc'[o] \in Elsewhere
  BY DEF CheckpointInv, TypeInv, OwnRecords, End, Goto, Elsewhere

\* A checkpoint, a flush and a compaction never have one.
LEMMA CheckpointPlaces ==
  ASSUME CheckpointInv, NEW o \in Operators,
         \/ CheckpointStep(o)
         \/ FlushStore(o) \/ StartCompaction(o) \/ FinishCompaction(o)
  PROVE  OwnRecords(o) /\ pc'[o] \in Elsewhere
  <1>0. ASSUME NEW where \in Elsewhere, Goto(o, where), UNCHANGED report,
               UNCHANGED job \/ \E request : job' = [job EXCEPT ![o] = request]
        PROVE  OwnRecords(o) /\ pc'[o] \in Elsewhere
    BY <1>0 DEF CheckpointInv, TypeInv, OwnRecords, Goto
  <1>1. {"idle", "paths", "guard", "compact", "sync", "verify", "create", "fingerprint",
         "reported"} \subseteq Elsewhere
    BY DEF Elsewhere, Guarded, Synced, Verified, Created
  <1>2. ASSUME LeaveCheckpoint(o) PROVE OwnRecords(o) /\ pc'[o] \in Elsewhere
    BY <1>2, EndPlace DEF LeaveCheckpoint
  <1>3. CASE \E p \in Destinations : StartCheckpoint(o, [destination |-> p])
    BY <1>0, <1>1, <1>3 DEF StartCheckpoint, Begin
  <1>4. CASE CheckCheckpointPaths(o)
    BY <1>0, <1>1, <1>2, <1>4 DEF CheckCheckpointPaths
  <1>5. CASE TakeGuard(o)
    BY <1>0, <1>1, <1>2, <1>5 DEF TakeGuard
  <1>6. CASE SyncStore(o)
    BY <1>0, <1>1, <1>2, <1>6 DEF SyncStore
  <1>7. CASE VerifyStore(o)
    <2>1. CASE LeaveCheckpoint(o)
      BY <1>2, <2>1
    <2>2. CASE ~LeaveCheckpoint(o)
      BY <1>1, <1>7, <2>2 DEF VerifyStore, CheckpointInv, TypeInv, OwnRecords, Goto
    <2> QED BY <2>1, <2>2
  <1>8. CASE CreateDirectory(o)
    BY <1>0, <1>1, <1>2, <1>8 DEF CreateDirectory
  <1>9. CASE FingerprintCheckpoint(o)
    BY <1>0, <1>1, <1>2, <1>9 DEF FingerprintCheckpoint
  <1>10. CASE ReturnCheckpoint(o)
    BY <1>2, <1>10 DEF ReturnCheckpoint
  <1>11. CASE FlushStore(o)
    BY <1>1, <1>11 DEF FlushStore, CheckpointInv, TypeInv, OwnRecords
  <1>12. CASE StartCompaction(o)
    BY <1>0, <1>1, <1>12 DEF StartCompaction
  <1>13. CASE FinishCompaction(o)
    BY <1>13, EndPlace DEF FinishCompaction
  <1> QED
    BY <1>3, <1>4, <1>5, <1>6, <1>7, <1>8, <1>9, <1>10, <1>11, <1>12, <1>13
    DEF CheckpointStep

\* A restore copies the CURRENT of its checkpoint only where none is, and
\* keeps its directory from then on.
LEMMA RestoreExclusive ==
  ASSUME CheckpointInv, ExclusiveInv, NEW o \in Operators, RestoreStep(o)
  PROVE  ExclusiveInv'
  <1>0. PICK d : d = job'[o].destination
    OBVIOUS
  <1>1. ASSUME End(o) PROVE ExclusiveInv'
    BY <1>1, EndPlace, NoCurrent
  <1>2. ASSUME NEW where, Goto(o, where), UNCHANGED job, OwnRecords(o),
               pc[o] \in Complete
        PROVE  ExclusiveInv'
    BY <1>0, <1>2, ExclusiveStep DEF HasCurrent
  <1>3. CASE \E source, destination \in Destinations : StartRestore(o, source, destination)
    <2>1. OwnRecords(o) /\ pc'[o] = "admit"
      BY <1>3 DEF StartRestore, Begin, Goto, OwnRecords, CheckpointInv, TypeInv
    <2> QED BY <2>1, NoCurrent
  <1>4. CASE AdmitRestore(o) /\ ~End(o)
    <2>1. OwnRecords(o) /\ pc'[o] = "open"
      BY <1>4 DEF AdmitRestore, Goto, OwnRecords, CheckpointInv, TypeInv
    <2> QED BY <2>1, NoCurrent
  <1>5. CASE OpenDestination(o) /\ ~End(o)
    <2>1. OwnRecords(o) /\ pc[o] = "open" /\ pc'[o] = "copy"
      BY <1>5 DEF OpenDestination, Goto, OwnRecords, CheckpointInv, TypeInv
    <2>2. PICK s : s = job[o].source
      OBVIOUS
    <2>3. CurrentFile \in NamesIn(dirs[s]) /\ job[o] \in RestoreJobs
      BY <2>1, <2>2, RestoreRequest DEF Restoring
    <2>4. job'[o] = [job[o] EXCEPT !.left = NamesIn(dirs[s])]
      BY <1>5, <2>2 DEF OpenDestination, Source, CheckpointInv, TypeInv
    <2>5. job'[o].left = NamesIn(dirs[s])
      BY <2>3, <2>4 DEF RestoreJobs
    <2>6. ~HasCurrent(o)'
      BY <2>1, <2>3, <2>5 DEF HasCurrent, Complete, Cleared
    <2> QED BY <1>0, <2>1, <2>6, ExclusiveStep
  <1>6. CASE CopyChildren(o) /\ ~End(o)
    <2>1. PICK n \in job[o].left :
            /\ CopyFile(o, n)
            /\ job' = [job EXCEPT ![o].left = @ \ {n}]
            /\ Goto(o, IF job[o].left = {n} THEN "clear" ELSE "copy")
      BY <1>6 DEF CopyChildren
    <2>2. OwnRecords(o) /\ pc[o] = "copy"
      BY <1>6, <2>1 DEF CopyChildren, Goto, OwnRecords, CheckpointInv, TypeInv
    <2>3. job[o] \in RestoreJobs
      BY <2>2, RestoreRequest DEF Restoring
    <2>4. job'[o] = [job[o] EXCEPT !.left = job[o].left \ {n}]
      BY <2>1 DEF CheckpointInv, TypeInv
    <2>5. d = job[o].destination /\ job'[o].left = job[o].left \ {n}
      BY <1>0, <2>3, <2>4 DEF RestoreJobs
    <2>6. CASE CurrentFile = n
      BY <1>0, <2>1, <2>2, <2>5, <2>6, ExclusiveStep DEF CopyFile, Restored
    <2>7. CASE CurrentFile # n /\ CurrentFile \in job[o].left
      <3>1. pc'[o] = "copy"
        BY <2>1, <2>7 DEF Goto, CheckpointInv, TypeInv
      <3>2. ~HasCurrent(o)'
        BY <2>5, <2>7, <3>1 DEF HasCurrent, Complete, Cleared
      <3> QED BY <1>0, <2>2, <3>2, ExclusiveStep
    <2>8. CASE CurrentFile \notin job[o].left
      <3>1. HasCurrent(o)
        BY <2>2, <2>8 DEF HasCurrent
      <3> QED BY <1>0, <2>2, <2>5, <3>1, ExclusiveStep
    <2> QED BY <2>6, <2>7, <2>8
  <1>7. CASE ClearRoutingPointer(o) /\ ~End(o)
    <2>1. pc[o] = "clear" /\ Goto(o, "check") /\ UNCHANGED <<job, report>>
      BY <1>7 DEF ClearRoutingPointer
    <2>2. OwnRecords(o)
      BY <2>1 DEF Goto, OwnRecords, CheckpointInv, TypeInv
    <2> QED BY <1>2, <2>1, <2>2 DEF Complete
  <1>8. CASE VerifyRestored(o) /\ ~End(o)
    <2>1. pc[o] = "check" /\ Goto(o, "engine") /\ job' = job
      BY <1>8 DEF VerifyRestored
    <2>2. OwnRecords(o)
      BY <1>8 DEF VerifyRestored, Goto, OwnRecords, CheckpointInv, TypeInv
    <2> QED BY <1>2, <2>1, <2>2 DEF Complete, Cleared
  <1>9. CASE OpenTemporaryEngine(o) /\ ~End(o)
    <2>1. pc[o] = "engine" /\ Goto(o, "smoke") /\ UNCHANGED <<job, report>>
      BY <1>9 DEF OpenTemporaryEngine
    <2>2. OwnRecords(o)
      BY <2>1 DEF Goto, OwnRecords, CheckpointInv, TypeInv
    <2> QED BY <1>2, <2>1, <2>2 DEF Complete, Cleared
  <1>10. CASE SmokeCheck(o) /\ ~End(o)
    <2>1. pc[o] = "smoke" /\ Goto(o, "restored") /\ UNCHANGED <<job, report>>
      BY <1>10 DEF SmokeCheck
    <2>2. OwnRecords(o)
      BY <2>1 DEF Goto, OwnRecords, CheckpointInv, TypeInv
    <2> QED BY <1>2, <2>1, <2>2 DEF Complete, Cleared
  <1>11. CASE ReturnRestore(o)
    BY <1>1, <1>11 DEF ReturnRestore
  <1> QED
    BY <1>1, <1>3, <1>4, <1>5, <1>6, <1>7, <1>8, <1>9, <1>10, <1>11 DEF RestoreStep

\* Of the restores that race for one directory, at most one copies its CURRENT
\* into it and goes on to open the database there.
THEOREM RestoreExclusion == Spec => []ExclusiveInv
  <1>1. Init => ExclusiveInv
    <2> SUFFICES ASSUME Init, NEW o \in Operators PROVE ~HasCurrent(o)
      BY DEF ExclusiveInv
    <2> QED BY DEF Init, HasCurrent, Complete, Cleared
  <1>2. CheckpointInv /\ ExclusiveInv /\ [Next]_vars => ExclusiveInv'
    <2> SUFFICES ASSUME CheckpointInv, ExclusiveInv, [Next]_vars PROVE ExclusiveInv'
      OBVIOUS
    <2>1. ASSUME UNCHANGED <<pc, job>> PROVE ExclusiveInv'
      BY <2>1 DEF ExclusiveInv, HasCurrent
    <2>2. CASE UNCHANGED vars
      BY <2>1, <2>2 DEF vars
    <2>3. CASE Commit
      BY <2>1, <2>3 DEF Commit
    <2>4. CASE PowerLoss
      <3>1. \A o \in Operators : ~HasCurrent(o)'
        BY <2>4 DEF PowerLoss, HasCurrent, Complete, Cleared
      <3> QED BY <3>1 DEF ExclusiveInv
    <2>5. ASSUME NEW o \in Operators, RestoreStep(o) PROVE ExclusiveInv'
      BY <2>5, RestoreExclusive
    <2>6. ASSUME NEW o \in Operators,
                 \/ CheckpointStep(o)
                 \/ FlushStore(o) \/ StartCompaction(o) \/ FinishCompaction(o)
          PROVE  ExclusiveInv'
      BY <2>6, CheckpointPlaces, NoCurrent
    <2> QED BY <2>2, <2>3, <2>4, <2>5, <2>6 DEF Next
  <1> QED BY <1>1, <1>2, CheckpointInvariance, PTL DEF Spec

\* Whatever other restores write or left in its directory, and whatever their
\* files are called, a restore opens every file of its own checkpoint
\* unchanged, alone, and on no pointer that came with the files.
THEOREM RestoreFidelity == Spec => []RestoreIsTheCheckpoint
  <1>1. CheckpointInv /\ ExclusiveInv => RestoreIsTheCheckpoint
    <2> SUFFICES ASSUME CheckpointInv, ExclusiveInv, NEW o \in Operators
                 PROVE  /\ pc[o] \in Opening =>
                              /\ \A f \in NamesIn(Source(o)) :
                                    Restored(o).files[f] = Source(o).files[f]
                              /\ \A q \in Operators \ {o} :
                                    pc[q] \in Opening => job[q].destination # job[o].destination
                        /\ pc[o] \in {"check", "engine"} => Restored(o).pointer # "copied"
      BY DEF RestoreIsTheCheckpoint
    <2>1. Opening = Complete
      BY DEF Opening, Complete, Cleared
    <2>2. pc[o] \in Opening => \A f \in NamesIn(Source(o)) :
                                  Restored(o).files[f] = Source(o).files[f]
      BY <2>1 DEF CheckpointInv, CopyInv, CopiedBut
    <2>3. pc[o] \in Opening => \A q \in Operators \ {o} :
                                  pc[q] \in Opening => job[q].destination # job[o].destination
      BY <2>1 DEF ExclusiveInv, HasCurrent
    <2>4. pc[o] \in {"check", "engine"} => Restored(o).pointer # "copied"
      BY DEF CheckpointInv, CopyInv, Cleared
    <2> QED BY <2>2, <2>3, <2>4
  <1> QED BY <1>1, CheckpointInvariance, RestoreExclusion, PTL
=============================================================================
