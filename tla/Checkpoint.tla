----------------------------- MODULE Checkpoint -----------------------------
(***************************************************************************)
(* Backup and restore of the catalog: create_checkpoint under the write    *)
(* guard of a live catalog, restore_checkpoint file by file into a fresh   *)
(* directory, the temporary engine that a restore opens on it, and flushes *)
(* and compactions, while mutations go on and the machine may lose power   *)
(* at every step. The live catalog is the log of the states its commits    *)
(* made, of which a power loss keeps at least the synchronised prefix;     *)
(* Catalog models what the states contain.                                 *)
(***************************************************************************)
EXTENDS Naturals, Sequences

CONSTANTS
    Operators,        \* threads or processes that run operations
    Database,         \* path of the live catalog
    CheckpointRoot,   \* root that checkpoints must lie below
    RestoreRoot,      \* root that restores must lie below
    Destinations,     \* paths that a request may name
    FileCount,        \* file names of the checkpoints, in the order of copying
    CurrentFile,      \* CURRENT, the one name that every checkpoint has
    MaxCheckpoints,   \* maximum_concurrent_checkpoints
    MaxCommits,       \* bound on the commits of the live catalog
    None

Files == 1..FileCount

\* A catalog state is what a reader can tell apart: the number of graph
\* changes, and whether a routing pointer is recorded. A directory is the
\* state that each file in it is of, and the pointer of the database that its
\* CURRENT names.
States == [graph : Nat, pointer : BOOLEAN]
Directories ==
    [files : [Files -> States \cup {None}], pointer : {"none", "copied", "own"}]

NamesIn(directory) == {f \in Files : directory.files[f] # None}

\* All of a directory's files are of one state, and they make up a database.
HoldsOnly(directory, state) ==
    /\ CurrentFile \in NamesIn(directory)
    /\ \A f \in NamesIn(directory) : directory.files[f] = state

ASSUME CheckpointAssumption ==
    /\ MaxCheckpoints \in Nat
    /\ FileCount \in Nat
    /\ CurrentFile \in Files
    /\ Database \notin Destinations
    /\ None \notin Operators \cup States
    /\ None \notin Directories

\* Path::starts_with, of canonical paths as sequences of names.
StartsWith(path, root) ==
    Len(root) <= Len(path) /\ SubSeq(path, 1, Len(root)) = root

Below(path, root) == path # root /\ StartsWith(path, root)

\* The caller keeps checkpoints and restores below different roots.
ASSUME RootsAssumption ==
    \A p \in Destinations :
        ~(Below(p, CheckpointRoot) /\ Below(p, RestoreRoot))

VARIABLES
    log,       \* states after each commit of the live catalog, oldest first
    durable,   \* length of the prefix of log that a power loss keeps
    guard,     \* who holds the catalog's write guard
    active,    \* Catalog.active_checkpoints
    dirs,      \* directory at each path, or None
    pc,        \* where each operation is
    job,       \* its request
    report     \* the catalog state that it reports

vars == <<log, durable, guard, active, dirs, pc, job, report>>

Current == log[Len(log)]
NoFiles == [f \in Files |-> None]
Absent(p) == dirs[p] = None
IsEmptyDir(p) == dirs[p] # None /\ dirs[p].files = NoFiles

Init ==
    /\ log = <<[graph |-> 0, pointer |-> TRUE]>>
    /\ durable = 1
    /\ guard = None
    /\ active = 0
    /\ dirs = [p \in Destinations |-> None]
    /\ pc = [o \in Operators |-> "idle"]
    /\ job = [o \in Operators |-> None]
    /\ report = [o \in Operators |-> None]

-----------------------------------------------------------------------------
(* The live catalog, and the machine.                                       *)

\* A graph mutation clears the pointer in its batch; a publication sets it.
Commit ==
    /\ guard = None
    /\ Len(log) < MaxCommits
    /\ \E state \in {[graph |-> Current.graph + 1, pointer |-> FALSE],
                      [Current EXCEPT !.pointer = TRUE]} :
          /\ state # Current
          /\ log' = Append(log, state)
    /\ UNCHANGED <<durable, guard, active, dirs, pc, job, report>>

\* Every process ends where it is; unsynchronised commits may be lost.
PowerLoss ==
    /\ \E n \in durable..Len(log) : log' = SubSeq(log, 1, n) /\ durable' = n
    /\ guard' = None
    /\ active' = 0
    /\ pc' = [o \in Operators |-> "idle"]
    /\ job' = [o \in Operators |-> None]
    /\ report' = [o \in Operators |-> None]
    /\ dirs' = dirs

-----------------------------------------------------------------------------
(* validate_operational_paths: every target strictly below its root, the    *)
(* required ones present, the fresh ones absent or empty, none inside       *)
(* another.                                                                 *)

Target(root, path, exists, fresh) ==
    [root |-> root, path |-> path, exists |-> exists, fresh |-> fresh]

IsDir(p) == p = Database \/ (p \in Destinations /\ ~Absent(p))

ResolveTarget(t) ==
    /\ Below(t.path, t.root)
    /\ t.exists => IsDir(t.path)
    /\ t.fresh => ~IsDir(t.path) \/ IsEmptyDir(t.path)

ValidateOperationalPaths(targets) ==
    /\ \A k \in 1..Len(targets) : ResolveTarget(targets[k])
    /\ \A j, k \in 1..Len(targets) :
          j < k => /\ ~StartsWith(targets[k].path, targets[j].path)
                   /\ ~StartsWith(targets[j].path, targets[k].path)

LiveTarget ==
    Target(SubSeq(Database, 1, Len(Database) - 1), Database, TRUE, FALSE)

CheckpointTargets(request) ==
    <<LiveTarget, Target(CheckpointRoot, request.destination, FALSE, TRUE)>>

\* Offline restores do not know the live database.
RestoreTargets(request) ==
    <<Target(CheckpointRoot, request.source, TRUE, FALSE),
      Target(RestoreRoot, request.destination, FALSE, TRUE)>>

-----------------------------------------------------------------------------
(* Catalog::create_checkpoint.                                              *)

Goto(o, where) == pc' = [pc EXCEPT ![o] = where]
Begin(o, request, where) == job' = [job EXCEPT ![o] = request] /\ Goto(o, where)

End(o) ==
    /\ Goto(o, "idle")
    /\ job' = [job EXCEPT ![o] = None]
    /\ report' = [report EXCEPT ![o] = None]

Unguard(o) == guard' = IF guard = o THEN None ELSE guard

\* Every way out drops the guard and then the CheckpointPermit.
LeaveCheckpoint(o) ==
    /\ Unguard(o)
    /\ active' = active - 1
    /\ End(o)

StartCheckpoint(o, request) ==
    /\ pc[o] = "idle"
    /\ active < MaxCheckpoints
    /\ active' = active + 1
    /\ Begin(o, request, "paths")
    /\ UNCHANGED <<log, durable, guard, dirs, report>>

CheckCheckpointPaths(o) ==
    /\ pc[o] = "paths"
    /\ IF ValidateOperationalPaths(CheckpointTargets(job[o])) /\ Absent(job[o].destination)
       THEN Goto(o, "guard") /\ UNCHANGED <<guard, active, job, report>>
       ELSE LeaveCheckpoint(o)
    /\ UNCHANGED <<log, durable, dirs>>

\* The guard, then the size of the database against the caller's free bytes.
TakeGuard(o) ==
    /\ pc[o] = "guard"
    /\ guard = None
    /\ \/ guard' = o /\ Goto(o, "sync") /\ UNCHANGED <<active, job, report>>
       \/ LeaveCheckpoint(o)
    /\ UNCHANGED <<log, durable, dirs>>

\* Mutant: neither the WAL nor the memtables are written out.
SyncStoreNot(o) ==
    /\ pc[o] = "sync"
    /\ Goto(o, "verify")
    /\ UNCHANGED <<log, durable, guard, active, dirs, job, report>>

\* A failure is of the WAL, or of a memtable once the WAL is synchronised.
SyncStore(o) ==
    /\ pc[o] = "sync"
    /\ \/ durable' = Len(log) /\ Goto(o, "verify") /\ UNCHANGED <<guard, active, job, report>>
       \/ durable' \in {durable, Len(log)} /\ LeaveCheckpoint(o)
    /\ UNCHANGED <<log, dirs>>

\* Mutant: the catalog is verified before the guard is taken.
VerifyStoreEarly(o) ==
    /\ \/ /\ pc[o] = "guard"
          /\ report' = [report EXCEPT ![o] = Current]
          /\ UNCHANGED <<guard, active, job, pc>>
       \/ /\ pc[o] = "verify"
          /\ report[o] # None
          /\ Goto(o, "create")
          /\ UNCHANGED <<guard, active, job, report>>
       \/ pc[o] = "verify" /\ LeaveCheckpoint(o)
    /\ UNCHANGED <<log, durable, dirs>>

VerifyStore(o) ==
    /\ pc[o] = "verify"
    /\ \/ /\ report' = [report EXCEPT ![o] = Current]
          /\ Goto(o, "create")
          /\ UNCHANGED <<guard, active, job>>
       \/ LeaveCheckpoint(o)
    /\ UNCHANGED <<log, durable, dirs>>

\* RocksDB builds the checkpoint beside the destination and renames it, and
\* refuses a destination that exists by now. The names of its table, manifest
\* and options files are RocksDB's, from checkpoint to checkpoint others.
Snapshot(names) ==
    [files |-> [f \in Files |-> IF f \in names THEN Current ELSE None],
     pointer |-> IF Current.pointer THEN "copied" ELSE "none"]

CreateDirectory(o) ==
    /\ pc[o] = "create"
    /\ \/ /\ Absent(job[o].destination)
          /\ \E names \in SUBSET Files :
                /\ CurrentFile \in names
                /\ dirs' = [dirs EXCEPT ![job[o].destination] = Snapshot(names)]
          /\ Goto(o, "fingerprint")
          /\ UNCHANGED <<guard, active, job, report>>
       \/ dirs' = dirs /\ LeaveCheckpoint(o)
    /\ UNCHANGED <<log, durable>>

\* A checkpoint that cannot be read back is an error, but it stays.
FingerprintCheckpoint(o) ==
    /\ pc[o] = "fingerprint"
    /\ \/ Goto(o, "reported") /\ UNCHANGED <<guard, active, job, report>>
       \/ LeaveCheckpoint(o)
    /\ UNCHANGED <<log, durable, dirs>>

ReturnCheckpoint(o) ==
    /\ pc[o] = "reported"
    /\ LeaveCheckpoint(o)
    /\ UNCHANGED <<log, durable, dirs>>

-----------------------------------------------------------------------------
(* Catalog::flush, prepare_for_close and compact_all.                       *)

\* Under the guard: sync the WAL and write the memtables out, or fail.
FlushStore(o) ==
    /\ pc[o] = "idle"
    /\ guard = None
    /\ durable' \in {durable, Len(log)}
    /\ UNCHANGED <<log, guard, active, dirs, pc, job, report>>

\* compact_all also writes everything out first, and once more as the probe
\* that tells a full disk from a failed compaction.
StartCompaction(o) ==
    /\ pc[o] = "idle"
    /\ guard = None
    /\ durable' = Len(log)
    /\ guard' = o
    /\ Goto(o, "compact")
    /\ UNCHANGED <<log, active, dirs, job, report>>

FinishCompaction(o) ==
    /\ pc[o] = "compact"
    /\ Unguard(o)
    /\ End(o)
    /\ UNCHANGED <<log, durable, active, dirs>>

-----------------------------------------------------------------------------
(* restore_checkpoint, and GraphEngine::restore_checkpoint around it. What  *)
(* a failed restore has written stays where it is.                          *)

Source(o) == dirs[job[o].source]
Restored(o) == dirs[job[o].destination]
WriteRestored(o, directory) == dirs' = [dirs EXCEPT ![job[o].destination] = directory]
CatalogUntouched == UNCHANGED <<log, durable, guard, active>>

StartRestore(o, source, destination) ==
    /\ pc[o] = "idle"
    /\ Begin(o, [source |-> source, destination |-> destination, left |-> {}], "admit")
    /\ UNCHANGED <<dirs, report>>
    /\ CatalogUntouched

\* The paths, the fingerprint of the source, and the caller's free bytes.
AdmitRestore(o) ==
    /\ pc[o] = "admit"
    /\ \/ /\ ValidateOperationalPaths(RestoreTargets(job[o]))
          /\ Goto(o, "open")
          /\ UNCHANGED <<job, report>>
       \/ End(o)
    /\ dirs' = dirs
    /\ CatalogUntouched

\* copy_directory looks at the destination once more, or creates it, and then
\* lists the source.
OpenDestination(o) ==
    /\ pc[o] = "open"
    /\ \/ /\ Absent(job[o].destination) \/ IsEmptyDir(job[o].destination)
          /\ WriteRestored(o, [files |-> NoFiles, pointer |-> "none"])
          /\ job' = [job EXCEPT ![o].left = NamesIn(Source(o))]
          /\ Goto(o, "copy")
          /\ report' = report
       \/ dirs' = dirs /\ End(o)
    /\ CatalogUntouched

WithFile(o, f) ==
    [files |-> [Restored(o).files EXCEPT ![f] = Source(o).files[f]],
     pointer |-> IF f = CurrentFile THEN Source(o).pointer ELSE Restored(o).pointer]

\* Mutant: a file that is already there is taken for copied.
CopyFileOrKeep(o, f) ==
    \/ Restored(o).files[f] = None /\ WriteRestored(o, WithFile(o, f))
    \/ Restored(o).files[f] # None /\ dirs' = dirs

\* create_new refuses a file that is there.
CopyFile(o, f) == Restored(o).files[f] = None /\ WriteRestored(o, WithFile(o, f))

CopyChildren(o) ==
    /\ pc[o] = "copy"
    /\ \/ /\ \E f \in job[o].left :
                /\ \A g \in job[o].left : f <= g
                /\ CopyFile(o, f)
                /\ job' = [job EXCEPT ![o].left = @ \ {f}]
                /\ Goto(o, IF job[o].left = {f} THEN "clear" ELSE "copy")
          /\ report' = report
       \/ dirs' = dirs /\ End(o)
    /\ CatalogUntouched

\* clear_verified_routing_pointer, when the restored catalog has a pointer.
ClearedPointer(directory) == [directory EXCEPT !.pointer = "none"]

ClearRoutingPointer(o) ==
    /\ pc[o] = "clear"
    /\ \/ WriteRestored(o, ClearedPointer(Restored(o))) /\ Goto(o, "check") /\ UNCHANGED <<job, report>>
       \/ dirs' = dirs /\ End(o)
    /\ CatalogUntouched

\* ReadOnlyCatalog::open and verify: the database that CURRENT names becomes
\* the report.
VerifyRestored(o) ==
    /\ pc[o] = "check"
    /\ \/ /\ report' = [report EXCEPT ![o] = Restored(o).files[CurrentFile]]
          /\ Goto(o, "engine")
          /\ job' = job
       \/ End(o)
    /\ dirs' = dirs
    /\ CatalogUntouched

\* The temporary engine builds and publishes an image of its own below the
\* caller's private root, or cannot open.
OpenTemporaryEngine(o) ==
    /\ pc[o] = "engine"
    /\ \/ WriteRestored(o, [Restored(o) EXCEPT !.pointer = "own"]) /\ Goto(o, "smoke") /\ UNCHANGED <<job, report>>
       \/ dirs' = dirs /\ End(o)
    /\ CatalogUntouched

\* The smoke checks and the shutdown, and the restore is reported.
SmokeCheck(o) ==
    /\ pc[o] = "smoke"
    /\ \/ Goto(o, "restored") /\ UNCHANGED <<job, report>>
       \/ End(o)
    /\ dirs' = dirs
    /\ CatalogUntouched

ReturnRestore(o) ==
    /\ pc[o] = "restored"
    /\ End(o)
    /\ dirs' = dirs
    /\ CatalogUntouched

-----------------------------------------------------------------------------

CheckpointStep(o) ==
    \/ \E p \in Destinations : StartCheckpoint(o, [destination |-> p])
    \/ CheckCheckpointPaths(o) \/ TakeGuard(o) \/ SyncStore(o) \/ VerifyStore(o)
    \/ CreateDirectory(o) \/ FingerprintCheckpoint(o) \/ ReturnCheckpoint(o)

RestoreStep(o) ==
    \/ \E s, d \in Destinations : StartRestore(o, s, d)
    \/ AdmitRestore(o) \/ OpenDestination(o) \/ CopyChildren(o) \/ ClearRoutingPointer(o)
    \/ VerifyRestored(o) \/ OpenTemporaryEngine(o) \/ SmokeCheck(o) \/ ReturnRestore(o)

Next ==
    \/ Commit
    \/ PowerLoss
    \/ \E o \in Operators :
          CheckpointStep(o) \/ RestoreStep(o)
          \/ FlushStore(o) \/ StartCompaction(o) \/ FinishCompaction(o)

Spec == Init /\ [][Next]_vars

-----------------------------------------------------------------------------
(* Properties.                                                              *)

(* What create_checkpoint reports as verified is what the checkpoint holds, *)
(* in every file: no mutation lands between verify_db and the copy.         *)
CheckpointIsAsReported ==
    \A o \in Operators :
        pc[o] \in {"fingerprint", "reported"} => HoldsOnly(dirs[job[o].destination], report[o])

(* No power loss takes the live catalog back behind a checkpoint that was   *)
(* made of it: the state of every checkpoint is in the synchronised prefix. *)
(* Otherwise the live catalog would hand out again the ids that a restore   *)
(* of that checkpoint already has.                                          *)
CheckpointIsDurable ==
    \A p \in Destinations :
        Below(p, CheckpointRoot) /\ ~Absent(p) =>
            \E k \in 1..durable : HoldsOnly(dirs[p], log[k])

\* Where a restore opens the database in its destination.
Opening == {"clear", "check", "engine", "smoke", "restored"}

(* What crashed and concurrent restores leave or write in its destination   *)
(* never gets into the database that a restore opens: every file of its     *)
(* checkpoint is there and is the checkpoint's, no other restore opens the  *)
(* same directory, and verification and the temporary engine find no        *)
(* routing pointer of the machine that the files were copied from. Files of *)
(* another checkpoint may lie beside them, under names of their own.        *)
RestoreIsTheCheckpoint ==
    \A o \in Operators :
        /\ pc[o] \in Opening =>
              /\ \A f \in NamesIn(Source(o)) : Restored(o).files[f] = Source(o).files[f]
              /\ \A q \in Operators \ {o} :
                    pc[q] \in Opening => job[q].destination # job[o].destination
        /\ pc[o] \in {"check", "engine"} => Restored(o).pointer # "copied"

(* Not so: that a restore is reported with the files of its checkpoint and  *)
(* no others. copy_directory looks for an empty destination before it       *)
(* copies, and two restores that both found it empty collide only at the    *)
(* first name that both checkpoints have.                                   *)
RestoreHasNoOtherFiles ==
    \A o \in Operators :
        pc[o] = "restored" => NamesIn(Restored(o)) = NamesIn(Source(o))
=============================================================================
