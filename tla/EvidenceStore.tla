--------------------------- MODULE EvidenceStore ---------------------------
(***************************************************************************)
(* templates/project/android_tools_evidence.py: the local records of       *)
(* Android tool runs.  A tool reserves capacity before the provider is     *)
(* dispatched, works in its run directory, finishes and releases it; an    *)
(* exporter copies a finished run into project memory.  Both first make    *)
(* room by removing old runs.  Four kinds of lock keep them apart: the     *)
(* store's .retention.lock, and each run's .active.lock, .record.lock and  *)
(* .export.lock; all die with their process.                               *)
(*                                                                         *)
(* Bytes are counted in units: DataBytes is what a run may write besides   *)
(* its export log, LogBytes is MAX_EXPORT_LOG_BYTES.                       *)
(***************************************************************************)
EXTENDS Integers, Sequences, FiniteSets, Functions

CONSTANTS
    Runs,       \* invocation ids; each is begun at most once, by its tool
    Exporters,  \* processes that export a run, one each
    Wants,      \* Wants[p]: the objects p exports (with or without artifacts)
    DataBytes,
    LogBytes,
    MaxBytes,   \* the configured retention capacity
    Nobody      \* no process, no run

Procs    == Runs \cup Exporters
Objects  == {"envelope", "artifact"}
Tasks    == {"bound", "other"}
Statuses == {"none", "pending", "exported", "unknown", "blocked"}

ASSUME StoreAssumption ==
    /\ Nobody \notin Procs
    /\ Runs \cap Exporters = {}
    /\ Wants \in [Procs -> SUBSET Objects]
    /\ DataBytes \in Nat /\ LogBytes \in Nat /\ MaxBytes \in Nat
    /\ IsFiniteSet(Runs)

VARIABLES
    retention,  \* holder of runs/.retention.lock
    active,     \* holder of each run's .active.lock
    recording,  \* holder of its .record.lock
    exporting,  \* holder of its .export.lock
    dirs,       \* each run directory
    births,     \* the runs so far, oldest first (started_ns)
    latest,     \* latest[r][o]: last entry of export.jsonl for the objects o
    memory,     \* what project memory holds: run, object and Task
    task,       \* the Task that the workspace is bound to
    where,      \* where each process is
    target,     \* the run each process works on
    todo,       \* the objects an exporter has still to write
    sweep       \* what the holder of the retention lock found in the store

locks == <<retention, active, recording, exporting>>
outer == <<latest, memory, task>>
storeVars  == <<locks, dirs, births, outer, where, target, todo, sweep>>

-----------------------------------------------------------------------------
\* A directory holds its start record, reservation, manifest and data.
Absent == [there |-> FALSE, started |-> FALSE, reserved |-> 0, finished |-> FALSE,
           used |-> 0]

\* reservation_for_operation: what the provider may stage, and the log.
Reservation == DataBytes + LogBytes

\* _run_info: a finished run is charged the whole of its export log.
Contribution(r) == dirs[r].used + IF dirs[r].finished THEN LogBytes ELSE 0

\* Mutant: an active run counts what it holds so far.
ChargeHeld(r) == Contribution(r)

\* What a run counts in _store_inventory.
Charge(r) == IF active[r] # Nobody THEN dirs[r].reserved ELSE Contribution(r)

Present == {r \in Runs : dirs[r].there}

\* The bytes of some runs, each counted as sizes says.
Bytes(sizes, rs) == SumFunctionOnSet(sizes, rs)
Charges       == [r \in Runs |-> Charge(r)]
Contributions == [r \in Runs |-> Contribution(r)]

\* _store_inventory raises on a directory without a start record and on an
\* active run without a reservation.
InventoryFails ==
    \E r \in Present : ~dirs[r].started \/ (active[r] # Nobody /\ dirs[r].reserved = 0)

Older(r, s) == \E i, j \in DOMAIN births : i < j /\ births[i] = r /\ births[j] = s

\* The first that a sorted scan of these runs meets.
Oldest(rs) == {r \in rs : \A s \in rs \ {r} : Older(r, s)}

NoSweep == [idle |-> {}, total |-> 0, extra |-> 0, victim |-> Nobody, next |-> "done"]

StoreInit ==
    /\ retention = Nobody
    /\ active    = [r \in Runs |-> Nobody]
    /\ recording = [r \in Runs |-> Nobody]
    /\ exporting = [r \in Runs |-> Nobody]
    /\ dirs      = [r \in Runs |-> Absent]
    /\ births    = <<>>
    /\ latest    = [r \in Runs |-> [o \in SUBSET Objects |-> "none"]]
    /\ memory    = {}
    /\ task      = "bound"
    /\ where        = [p \in Procs |-> "idle"]
    /\ target    = [p \in Procs |-> IF p \in Runs THEN p ELSE Nobody]
    /\ todo      = [p \in Procs |-> {}]
    /\ sweep     = NoSweep

Advance(p, from, to) == where[p] = from /\ where' = [where EXCEPT ![p] = to]

\* _lock(runs, ".retention.lock"): wait until the holder is gone.
TakeRetention(p) == retention = Nobody /\ retention' = p

FreeRetention == retention' = Nobody /\ sweep' = NoSweep

-----------------------------------------------------------------------------
(* _cleanup_locked, for whoever holds the retention lock.                   *)

\* Where an error inside the lock leads: the handler of the caller.
Handler(p) == CASE sweep.next = "mkdir"  -> "unlock_begin"
                [] sweep.next = "pinned" -> "unpin"
                [] OTHER                 -> "unlock_record"

\* Inventory: what each run counts, and which are idle.
Survey(idle) == [sweep EXCEPT !.idle = idle, !.total = Bytes(Charges, Present)]

Idle == {r \in Present : active[r] = Nobody}

TooMuch == sweep.total + sweep.extra > MaxBytes

\* First inventory; any idle run may be beyond max_age_seconds by now.
Expire(p) ==
    /\ where[p] = "expire"
    /\ IF InventoryFails
       THEN where' = [where EXCEPT ![p] = Handler(p)] /\ UNCHANGED sweep
       ELSE /\ \E old \in SUBSET Idle : sweep' = Survey(old)
            /\ where' = [where EXCEPT ![p] = "expiring"]
    /\ UNCHANGED <<locks, dirs, births, outer, target, todo>>

\* Second inventory, for byte pressure.
Weigh(p) ==
    /\ where[p] = "expiring" /\ sweep.idle = {} /\ sweep.victim = Nobody
    /\ IF InventoryFails
       THEN where' = [where EXCEPT ![p] = Handler(p)] /\ UNCHANGED sweep
       ELSE sweep' = Survey(Idle) /\ where' = [where EXCEPT ![p] = "evicting"]
    /\ UNCHANGED <<locks, dirs, births, outer, target, todo>>

\* _remove_candidate tries the run's locks again and starts to remove it; a
\* run that somebody holds by now is passed over.
Evict(p) ==
    /\ where[p] \in {"expiring", "evicting"} /\ sweep.victim = Nobody /\ sweep.idle # {}
    /\ where[p] = "evicting" => TooMuch
    /\ \E r \in Oldest(sweep.idle) :
       IF active[r] = Nobody /\ recording[r] = Nobody /\ exporting[r] = Nobody
       THEN /\ active' = [active EXCEPT ![r] = p]
            /\ \E left \in BOOLEAN : dirs' = [dirs EXCEPT ![r].started = left]
            /\ sweep' = [sweep EXCEPT !.victim = r, !.total = @ - Contribution(r),
                                      !.idle = @ \ {r}]
       ELSE sweep' = [sweep EXCEPT !.idle = @ \ {r}] /\ UNCHANGED <<active, dirs>>
    /\ UNCHANGED <<retention, recording, exporting, births, outer, where, target, todo>>

\* rmtree is through, or it could not remove everything.
Evicted(p) ==
    /\ where[p] \in {"expiring", "evicting"} /\ sweep.victim # Nobody
    /\ active' = [active EXCEPT ![sweep.victim] = Nobody]
    /\ sweep' = [sweep EXCEPT !.victim = Nobody]
    /\ \/ dirs' = [dirs EXCEPT ![sweep.victim] = Absent] /\ UNCHANGED where
       \/ where' = [where EXCEPT ![p] = Handler(p)] /\ UNCHANGED dirs
    /\ UNCHANGED <<retention, recording, exporting, births, outer, target, todo>>

\* The store is small enough now, or RetentionLimitError.
Admit(p) ==
    /\ where[p] = "evicting" /\ sweep.victim = Nobody
    /\ TooMuch => sweep.idle = {}
    /\ where' = [where EXCEPT ![p] = IF TooMuch THEN Handler(p) ELSE sweep.next]
    /\ UNCHANGED <<locks, dirs, births, outer, target, todo, sweep>>

Cleanup(p) == retention = p /\ (Expire(p) \/ Weigh(p) \/ Evict(p) \/ Evicted(p) \/ Admit(p))

StartSweep(extra, next) == sweep' = [NoSweep EXCEPT !.extra = extra, !.next = next]

-----------------------------------------------------------------------------
(* A tool: begin_run, the provider at work, finish_run, release_run.        *)

Begin(r) ==
    /\ Advance(r, "idle", "expire")
    /\ TakeRetention(r)
    /\ StartSweep(Reservation, "mkdir")
    /\ UNCHANGED <<active, recording, exporting, dirs, births, outer, target, todo>>

\* The directory, then its activity lock.
MakeRun(r) ==
    /\ Advance(r, "mkdir", "starting")
    /\ dirs' = [dirs EXCEPT ![r] = [Absent EXCEPT !.there = TRUE]]
    /\ active' = [active EXCEPT ![r] = r]
    /\ UNCHANGED <<retention, recording, exporting, births, outer, target, todo, sweep>>

\* started.json; a failed write removes the run again.
WriteStarted(r) ==
    /\ \/ Advance(r, "starting", "reserving") /\ dirs' = [dirs EXCEPT ![r].started = TRUE]
          /\ births' = Append(births, r)
       \/ Advance(r, "starting", "unlock_begin") /\ dirs' = [dirs EXCEPT ![r] = Absent]
          /\ UNCHANGED births
    /\ UNCHANGED <<locks, outer, target, todo, sweep>>

\* reservation.json, and the lock is given back with the handle.
WriteReservation(r) ==
    /\ \/ /\ Advance(r, "reserving", "running")
          /\ dirs' = [dirs EXCEPT ![r].reserved = Reservation]
          /\ FreeRetention
       \/ /\ Advance(r, "reserving", "unlock_begin")
          /\ dirs' = [dirs EXCEPT ![r] = Absent]
          /\ UNCHANGED <<retention, sweep>>
    /\ UNCHANGED <<active, recording, exporting, births, outer, target, todo>>

BeginFails(r) ==
    /\ Advance(r, "unlock_begin", "done")
    /\ FreeRetention
    /\ active' = [active EXCEPT ![r] = Nobody]
    /\ UNCHANGED <<recording, exporting, dirs, births, outer, target, todo>>

\* The provider stages its output, within what was reserved.
Stage(r) ==
    /\ where[r] = "running"
    /\ dirs[r].used < DataBytes
    /\ dirs' = [dirs EXCEPT ![r].used = @ + 1]
    /\ UNCHANGED <<locks, births, outer, where, target, todo, sweep>>

\* finish_run takes the record lock ...
Finish(r) ==
    /\ Advance(r, "running", "finishing")
    /\ recording[r] = Nobody
    /\ recording' = [recording EXCEPT ![r] = r]
    /\ UNCHANGED <<retention, active, exporting, dirs, births, outer, target, todo, sweep>>

\* ... and publishes the manifest, unless the outcome or an artifact is refused.
\* The holder of a finished run may export it before the release.
WriteManifest(r) ==
    /\ \/ Advance(r, "finishing", "release") /\ UNCHANGED dirs
       \/ /\ \/ Advance(r, "finishing", "release") \/ Advance(r, "finishing", "lock_record")
          /\ dirs' = [dirs EXCEPT ![r].finished = TRUE]
    /\ recording' = [recording EXCEPT ![r] = Nobody]
    /\ UNCHANGED <<retention, active, exporting, births, outer, target, todo, sweep>>

\* release_run and the end of an export: the retention lock, ...
LockRelease(p) ==
    /\ Advance(p, "release", "unreserve")
    /\ TakeRetention(p)
    /\ UNCHANGED <<active, recording, exporting, dirs, births, outer, target, todo,
                   sweep>>

\* ... the reservation, which may fail to go, and both locks.
ReleaseRun(p) ==
    /\ Advance(p, "unreserve", "done")
    /\ dirs' \in {dirs, [dirs EXCEPT ![target[p]].reserved = 0]}
    /\ active' = [active EXCEPT ![target[p]] = Nobody]
    /\ FreeRetention
    /\ UNCHANGED <<recording, exporting, births, outer, target, todo>>

ToolSteps(r) == \/ Begin(r) \/ MakeRun(r) \/ WriteStarted(r) \/ WriteReservation(r)
                \/ BeginFails(r) \/ Stage(r) \/ Finish(r) \/ WriteManifest(r)

-----------------------------------------------------------------------------
(* export_run through open_run.                                             *)

\* A run id, whatever has become of it.
Open(x) ==
    /\ Advance(x, "idle", "pin")
    /\ \E r \in Runs : target' = [target EXCEPT ![x] = r]
    /\ UNCHANGED <<locks, dirs, births, outer, todo, sweep>>

\* _write_export_reservation_locked.  The slack it adds for what it writes itself and the
\* floor under every reservation are left out: a pin asks for less than the code does.
Raised(r) == IF dirs[r].reserved > Contribution(r) THEN dirs[r].reserved ELSE Contribution(r)

\* Mutant: waits for the run with the retention lock in hand.
PinWaits(x) ==
    LET r == target[x] IN
    /\ where[x] = "pin"
    /\ retention \in {Nobody, x}
    /\ retention' = x
    /\ \/ retention = Nobody /\ UNCHANGED <<active, dirs, sweep, where>>
       \/ /\ retention = x /\ dirs[r].there /\ dirs[r].started /\ active[r] = Nobody
          /\ active' = [active EXCEPT ![r] = x]
          /\ dirs' = [dirs EXCEPT ![r].reserved = Raised(r)]
          /\ StartSweep(0, "pinned")
          /\ where' = [where EXCEPT ![x] = "expire"]
    /\ UNCHANGED <<recording, exporting, births, outer, target, todo>>

\* _prepare_export_pin.  The lock is tried and given back until nobody holds
\* the run.
Pin(x) ==
    LET r == target[x] IN
    /\ where[x] = "pin"
    /\ retention = Nobody
    /\ \/ /\ ~dirs[r].there \/ (active[r] = Nobody /\ ~dirs[r].started)
          /\ where' = [where EXCEPT ![x] = "done"]
          /\ UNCHANGED <<retention, active, dirs, sweep>>
       \/ /\ dirs[r].there /\ dirs[r].started /\ active[r] = Nobody
          /\ active' = [active EXCEPT ![r] = x]
          /\ retention' = x
          /\ dirs' = [dirs EXCEPT ![r].reserved = Raised(r)]
          /\ StartSweep(0, "pinned")
          /\ where' = [where EXCEPT ![x] = "expire"]
    /\ UNCHANGED <<recording, exporting, births, outer, target, todo>>

Pinned(x) ==
    /\ Advance(x, "pinned", "lock_record")
    /\ FreeRetention
    /\ UNCHANGED <<active, recording, exporting, dirs, births, outer, target, todo>>

\* The cleanup failed: the reservation goes, then the pin.
Unpin(x) ==
    /\ Advance(x, "unpin", "done")
    /\ dirs' = [dirs EXCEPT ![target[x]].reserved = 0]
    /\ active' = [active EXCEPT ![target[x]] = Nobody]
    /\ FreeRetention
    /\ UNCHANGED <<recording, exporting, births, outer, target, todo>>

\* _export_pinned: the record lock and the export lock.
LockRecord(p) ==
    /\ Advance(p, "lock_record", "lock_export")
    /\ recording[target[p]] = Nobody
    /\ recording' = [recording EXCEPT ![target[p]] = p]
    /\ UNCHANGED <<retention, active, exporting, dirs, births, outer, target, todo,
                   sweep>>

LockExport(p) ==
    /\ Advance(p, "lock_export", "charge")
    /\ exporting[target[p]] = Nobody
    /\ exporting' = [exporting EXCEPT ![target[p]] = p]
    /\ UNCHANGED <<retention, active, recording, dirs, births, outer, target, todo,
                   sweep>>

\* The reservation once more, and room for it.
Recharge(p) ==
    /\ Advance(p, "charge", "expire")
    /\ TakeRetention(p)
    /\ dirs' = [dirs EXCEPT ![target[p]].reserved = Raised(target[p])]
    /\ StartSweep(0, "read")
    /\ UNCHANGED <<active, recording, exporting, births, outer, target, todo>>

\* Only a finished run is exported.
ReadManifest(p) ==
    /\ where[p] = "read"
    /\ FreeRetention
    /\ where' = [where EXCEPT ![p] = IF dirs[target[p]].finished THEN "confirm" ELSE "unlock"]
    /\ UNCHANGED <<active, recording, exporting, dirs, births, outer, target, todo>>

Log(p, status) == latest' = [latest EXCEPT ![target[p]][Wants[p]] = status]

\* _confirm_workflow: the workspace is still bound to the Task, if that can be
\* found out.
ConfirmWorkflow(p) ==
    /\ where[p] = "confirm"
    /\ \/ /\ task = "bound"
          /\ where' = [where EXCEPT ![p] = "history"]
          /\ UNCHANGED latest
       \/ Log(p, "blocked") /\ where' = [where EXCEPT ![p] = "unlock"]
    /\ UNCHANGED <<locks, dirs, births, memory, task, target, todo, sweep>>

\* _export_record_matches: the last attempt for the same objects, and complete.
DoneBefore(p) == latest[target[p]][Wants[p]] = "exported"

\* An export that is done already, or the intent of a new attempt.
Intend(p) ==
    /\ where[p] = "history"
    /\ IF DoneBefore(p)
       THEN where' = [where EXCEPT ![p] = "unlock"] /\ UNCHANGED <<latest, todo>>
       ELSE /\ Log(p, "pending")
            /\ todo' = [todo EXCEPT ![p] = Wants[p]]
            /\ where' = [where EXCEPT ![p] = "write"]
    /\ UNCHANGED <<locks, dirs, births, memory, task, target, sweep>>

\* Mutant: any answer of the helper counts.
AcceptsAnything(written) == TRUE

\* The helper's receipt must name the object under the Task that was confirmed.
Receipt(written) == task = "bound" /\ written

\* _write_attachment: the helper stores the object under the Task bound now; its
\* answer may be lost.
WriteObject(p) ==
    /\ where[p] = "write" /\ todo[p] # {}
    /\ \E o \in todo[p], written \in BOOLEAN :
          /\ o = "envelope" \/ "envelope" \notin todo[p]
          /\ memory' = IF written
                       THEN memory \cup {[run |-> target[p], object |-> o, at |-> task]}
                       ELSE memory
          /\ \/ Receipt(written) /\ todo' = [todo EXCEPT ![p] = @ \ {o}] /\ UNCHANGED where
             \/ where' = [where EXCEPT ![p] = "settle"] /\ UNCHANGED todo
    /\ UNCHANGED <<locks, dirs, births, latest, task, target, sweep>>

\* The last record of the attempt.
Settle(p) ==
    /\ \/ where[p] = "settle"
       \/ where[p] = "write" /\ todo[p] = {}
    /\ Log(p, IF todo[p] = {} THEN "exported" ELSE "unknown")
    /\ todo' = [todo EXCEPT ![p] = {}]
    /\ where' = [where EXCEPT ![p] = "unlock"]
    /\ UNCHANGED <<locks, dirs, births, memory, task, target, sweep>>

\* The second cleanup failed: the retention lock goes first.
UnlockFailed(p) ==
    /\ Advance(p, "unlock_record", "unlock")
    /\ FreeRetention
    /\ UNCHANGED <<active, recording, exporting, dirs, births, outer, target, todo>>

UnlockRun(p) ==
    /\ Advance(p, "unlock", "release")
    /\ recording' = [recording EXCEPT ![target[p]] = Nobody]
    /\ exporting' = [exporting EXCEPT ![target[p]] = Nobody]
    /\ UNCHANGED <<retention, active, dirs, births, outer, target, todo, sweep>>

Exporting(p) == \/ LockRecord(p) \/ LockExport(p) \/ Recharge(p) \/ ReadManifest(p)
                \/ ConfirmWorkflow(p) \/ Intend(p) \/ WriteObject(p) \/ Settle(p)
                \/ UnlockFailed(p) \/ UnlockRun(p)

Exporter(x) == Open(x) \/ Pin(x) \/ Pinned(x) \/ Unpin(x)

-----------------------------------------------------------------------------
(* The environment.                                                         *)

Dropped(lock, p) == [r \in Runs |-> IF lock[r] = p THEN Nobody ELSE lock[r]]

\* A process is killed: its locks are free, what it wrote stays.
Killed(p) ==
    /\ where[p] \notin {"idle", "done"}
    /\ where' = [where EXCEPT ![p] = "done"]
    /\ IF retention = p THEN FreeRetention ELSE UNCHANGED <<retention, sweep>>
    /\ active'    = Dropped(active, p)
    /\ recording' = Dropped(recording, p)
    /\ exporting' = Dropped(exporting, p)
    /\ todo'      = [todo EXCEPT ![p] = {}]
    /\ UNCHANGED <<dirs, births, outer, target>>

\* The workspace is bound to another Task.
Rebind ==
    /\ task = "bound"
    /\ task' = "other"
    /\ UNCHANGED <<locks, dirs, births, latest, memory, where, target, todo, sweep>>

Works(p) == \/ p \in Runs /\ ToolSteps(p)
            \/ p \in Exporters /\ Exporter(p)
            \/ Cleanup(p) \/ Exporting(p) \/ LockRelease(p) \/ ReleaseRun(p)

StoreNext == \/ \E p \in Procs : Works(p) \/ Killed(p)
             \/ Rebind

StoreSpec == StoreInit /\ [][StoreNext]_storeVars

-----------------------------------------------------------------------------
(* Properties.                                                              *)

\* The store never outgrows its capacity, whatever the runs still write: what
\* they hold fits, and between two holders of the retention lock so does what
\* they may yet hold (begin_run's reservation "before provider dispatch").
CapacityKept ==
    /\ Bytes(Contributions, Present) <= MaxBytes
    /\ retention = Nobody => Bytes(Charges, Present) <= MaxBytes

\* A run on which a tool or an exporter is at work is not removed under it
\* (_remove_candidate, _prepare_export_pin).
PinnedKept ==
    \A p \in Procs :
       where[p] \in {"running", "finishing", "lock_record", "lock_export", "charge", "read",
                  "confirm", "history", "write", "settle", "unlock"}
          => dirs[target[p]].there /\ dirs[target[p]].started

\* Both together: sweeps make room enough, and only where nobody works.
RetentionKept == CapacityKept /\ PinnedKept

\* An export that is recorded as done has put every object under the Task that
\* was asked for, although the workspace may be bound to another Task between
\* the confirmation and the writes (_write_attachment).
ExportHonest ==
    \A r \in Runs, os \in SUBSET Objects :
       latest[r][os] = "exported" =>
          \A o \in os : [run |-> r, object |-> o, at |-> "bound"] \in memory

\* p cannot go on before q gives a lock back.
WaitsFor(p, q) ==
    LET r == target[p] IN
    \/ where[p] \in {"pin", "charge", "release"} /\ retention = q
    \/ where[p] = "pin"         /\ active[r] = q
    \/ where[p] = "lock_record" /\ recording[r] = q
    \/ where[p] = "lock_export" /\ exporting[r] = q

\* No order of the four locks makes tools, exporters and cleanups wait for each
\* other ("Never wait for an activity lock while holding the retention lock").
NoWaitCycle ==
    \A ps \in (SUBSET Procs) \ {{}} : \E p \in ps : \A q \in ps \ {p} : ~WaitsFor(p, q)

-----------------------------------------------------------------------------
(* What these properties need to be inductive.                              *)

Sweeps == {"expire", "expiring", "evicting"}

\* Where a process is on its way: a cleanup is part of what it is done for.
Course(p) == IF where[p] \in Sweeps THEN sweep.next ELSE where[p]

\* Where a process holds the export lock, the record lock and the activity lock of
\* its run, and the retention lock.
Copiers == {"charge", "read", "confirm", "history", "write", "settle", "unlock",
            "unlock_record"}
Recorders == Copiers \cup {"finishing", "lock_export"}
Pinners == Recorders \cup {"starting", "reserving", "running", "pinned", "unpin",
                           "lock_record", "release", "unreserve"}
Retainers == Sweeps \cup {"mkdir", "starting", "reserving", "unlock_begin", "pinned",
                          "unpin", "read", "unlock_record", "unreserve"}

Stations == Pinners \cup Retainers \cup {"idle", "pin", "done"}

RunRecords ==
    [there : BOOLEAN, started : BOOLEAN, reserved : Nat, finished : BOOLEAN, used : Nat]

Histories == [SUBSET Objects -> Statuses]

StoreTypeOK ==
    /\ retention \in Procs \cup {Nobody}
    /\ active    \in [Runs -> Procs \cup {Nobody}]
    /\ recording \in [Runs -> Procs \cup {Nobody}]
    /\ exporting \in [Runs -> Procs \cup {Nobody}]
    /\ dirs \in [Runs -> RunRecords]
    /\ latest \in [Runs -> Histories]
    /\ where \in [Procs -> Stations]
    /\ target \in [Procs -> Runs \cup {Nobody}]
    /\ todo \in [Procs -> SUBSET Objects]
    /\ DOMAIN sweep = {"idle", "total", "extra", "victim", "next"}
    /\ sweep.idle \subseteq Runs
    /\ sweep.victim \in Runs \cup {Nobody}

\* A tool works on its own run, an exporter on the one that it opened; a cleanup
\* leads back to whoever started it.
TargetsKnown ==
    \A p \in Procs :
       /\ p \in Runs => target[p] = p
       /\ where[p] # "idle" => target[p] \in Runs
       /\ where[p] \in Sweeps => sweep.next \in {"mkdir", "pinned", "read"}
       /\ Course(p) \in {"mkdir", "starting", "reserving", "running", "finishing",
                         "unlock_begin"} => p \in Runs

\* Where a process is says which locks it holds, ...
LocksHeld ==
    \A p \in Procs :
       /\ where[p] \in Retainers <=> retention = p
       /\ Course(p) \in Pinners   => active[target[p]] = p
       /\ Course(p) \in Recorders => recording[target[p]] = p
       /\ Course(p) \in Copiers   => exporting[target[p]] = p

\* ... and whoever holds a lock is there.
LocksOwned ==
    \A r \in Runs, p \in Procs :
       /\ active[r] = p =>
             \/ target[p] = r /\ Course(p) \in Pinners \cup {"unlock_begin"}
             \/ retention = p /\ sweep.victim = r
       /\ recording[r] = p => target[p] = r /\ Course(p) \in Recorders
       /\ exporting[r] = p => target[p] = r /\ Course(p) \in Copiers

\* A run that is being removed is held by the sweep, and not for anything else.
VictimHeld ==
    sweep.victim # Nobody =>
       /\ retention # Nobody
       /\ where[retention] \in {"expiring", "evicting"}
       /\ active[sweep.victim] = retention
       /\ sweep.next # "mkdir" => target[retention] # sweep.victim

\* The directory of a run that is held is there, and a new run has none.
RunsThere ==
    /\ \A p \in Procs : Course(p) \in Pinners =>
          /\ dirs[target[p]].there
          /\ Course(p) # "starting" => dirs[target[p]].started
    /\ \A r \in Runs : Course(r) \in {"idle", "mkdir", "unlock_begin"} => ~dirs[r].there

\* What an exporter need not write any more is in project memory.
WrittenSoFar ==
    \A p \in Procs : where[p] \in {"write", "settle"} =>
       \A o \in Wants[p] \ todo[p] :
          [run |-> target[p], object |-> o, at |-> "bound"] \in memory

StoreInv ==
    /\ StoreTypeOK /\ TargetsKnown /\ LocksHeld /\ LocksOwned /\ VictimHeld /\ RunsThere
    /\ WrittenSoFar /\ ExportHonest

\* A run stays within what is reserved for it: a new one has nothing yet, and one
\* at work may still write the rest of its reservation.
Sized(p) ==
    /\ Course(p) \in {"starting", "reserving"} =>
          /\ dirs[target[p]].used = 0
          /\ ~dirs[target[p]].finished
          /\ dirs[target[p]].reserved = 0
    /\ Course(p) \in Pinners \ {"starting", "reserving"} =>
          /\ Contribution(target[p]) <= dirs[target[p]].reserved
          /\ p \in Runs => Reservation <= dirs[target[p]].reserved

SizesKept ==
    /\ \A r \in Runs : dirs[r].used <= DataBytes
    /\ \A p \in Procs : Sized(p)

\* What the sweep is for that a process makes room with, and what it has still to
\* look at.
Sweeping(p) ==
    /\ where[p] \in Sweeps => sweep.extra = IF sweep.next = "mkdir" THEN Reservation ELSE 0
    /\ where[p] \in Retainers \ Sweeps =>
          (sweep.next = "pinned" <=> where[p] \in {"pinned", "unpin"})
    /\ where[p] \in {"expiring", "evicting"} => sweep.idle \subseteq Present

SweepKnown ==
    /\ retention = Nobody => sweep = NoSweep
    /\ sweep.total \in Int
    /\ sweep.victim \notin sweep.idle
    /\ \A p \in Procs : Sweeping(p)

\* The reservation of a run that is held stands, unless the sweep may take it back:
\* from the run that it removes, or the one that is pinned once there is room.
Booked(r) ==
    /\ active[r] # Nobody
    /\ r # sweep.victim
    /\ sweep.next = "pinned" => r # target[retention]

Weights == [r \in Runs |-> IF Booked(r) THEN dirs[r].reserved ELSE Contribution(r)]

\* The runs that a sweep has looked at count no more than it knows, and there is
\* room enough when it is through.
Roomy(p) ==
    /\ where[p] \in {"expiring", "evicting"} =>
          Bytes(Charges, Present \ {sweep.victim}) <= sweep.total
    /\ where[p] \in {"mkdir", "starting", "reserving"} =>
          Bytes(Charges, Present) + Reservation <= MaxBytes
    /\ where[p] = "pinned" => Bytes(Charges, Present) <= MaxBytes

\* The runs and the reservations that stand fit.
RoomKept ==
    /\ Bytes(Weights, Present) <= MaxBytes
    /\ \A p \in Procs : Roomy(p)

RoomInv == SizesKept /\ SweepKnown /\ RoomKept
=============================================================================
