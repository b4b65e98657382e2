--------------------------- MODULE EffectJournal ---------------------------
(***************************************************************************)
(* The recoverable effect of workflowkit/operations.py: one journaled      *)
(* effect (a git merge, a `kent workflow` command) that several            *)
(* invocations of one operation try to apply.                              *)
(*                                                                         *)
(* Per invocation there is a driver (run_effect / recover_effect under     *)
(* `with OperationJournal`), a guardian process that it spawns, and the    *)
(* child that the guardian holds behind a gate until the driver has made   *)
(* its identity durable.  Driver, guardian and child share the open file   *)
(* description of .operations.lock.                                        *)
(***************************************************************************)
EXTENDS Naturals, FiniteSets

CONSTANTS
    Invocation,     \* the processes that may enter the operation
    NoInvocation,   \* "no process" in a journal entry
    Faults          \* the environment faults this instance admits

\* "crash": SIGKILL of the driver.       "io": persist or readback raises.
\* "drift": another actor moves the target.  "interrupt": KeyboardInterrupt.
\* "stubborn": the child ignores SIGTERM.    "guardian_kill": guardian dies.
FaultKinds ==
    {"crash", "io", "drift", "interrupt", "stubborn", "guardian_kill"}

\* The faults that let a child outlive the driver's hold on its lock.
Escapes == {"interrupt", "stubborn", "guardian_kill"}

ASSUME InvocationAssumption ==
    /\ NoInvocation \notin Invocation
    /\ Faults \subseteq FaultKinds

VARIABLES
    pc,        \* pc[i]: where driver i is
    flocked,   \* flocked[i]: the description opened by i carries the flock
    view,      \* view[i]: journal.state as driver i holds it in memory
    seen,      \* seen[i]: the last current_sha256() readback of i
    journal,   \* the durable journal entry of the effect
    temp,      \* the deterministic temporary file of the journal
    guardian,  \* guardian[i]: the guardian process of i
    released,  \* released[i]: the byte "1" was written to the control pipe
    child,     \* child[i]: the effect process behind guardian i
    launched,  \* launched[i]: how often a child of i passed its gate
    world      \* the target of the effect

vars == <<pc, flocked, view, seen, journal, temp, guardian, released, child,
          launched, world>>

-----------------------------------------------------------------------------
\* Types

Persisting == {"attempting", "owning", "recording", "settling", "repairing"}
Setup      == {"spawn", "transfer", "owned"}
Waiting    == {"waiting", "terminating"}
ActivePc   == {"ready", "reading"} \cup Persisting \cup Setup \cup Waiting

Worlds   == {"pre", "mid", "post", "other"}
Open     == {"attempted", "unresolved", "ambiguous"}
Settled  == {"verified", "settled_preimage"}
Statuses == {"absent"} \cup Open \cup Settled

Entry == [status : Statuses, attempt : Nat,
          child : Invocation \cup {NoInvocation},
          settledBy : Invocation \cup {NoInvocation}]

NoEntry == [status |-> "absent", attempt |-> 0,
            child |-> NoInvocation, settledBy |-> NoInvocation]

TypeOK ==
    /\ pc \in [Invocation -> ActivePc \cup {"out", "done", "crashed"}]
    /\ flocked \in [Invocation -> BOOLEAN]
    /\ view \in [Invocation -> Entry]
    /\ seen \in [Invocation -> Worlds]
    /\ journal \in Entry
    /\ temp \in {"absent", "fresh", "stale"}
    /\ guardian \in [Invocation -> {"none", "spawned", "reported", "armed", "gone"}]
    /\ released \in [Invocation -> BOOLEAN]
    /\ child \in [Invocation -> {"none", "gated", "running", "writing", "exited"}]
    /\ launched \in [Invocation -> Nat]
    /\ world \in Worlds

-----------------------------------------------------------------------------
\* The lock: a flock on an open file description that three processes share

Active(i)        == pc[i] \in ActivePc
GuardianAlive(i) == guardian[i] \in {"spawned", "reported", "armed"}
ChildAlive(i)    == child[i] \in {"gated", "running", "writing"}
Live(i)          == child[i] \in {"running", "writing"}

\* Mutant: guardian and child are spawned without the lock descriptor.
HasDescriptorNotInherited(i) == Active(i)

HasDescriptor(i) == Active(i) \/ GuardianAlive(i) \/ ChildAlive(i)
Holds(i)         == flocked[i] /\ HasDescriptor(i)

Init ==
    /\ pc = [i \in Invocation |-> "out"]
    /\ flocked = [i \in Invocation |-> FALSE]
    /\ view = [i \in Invocation |-> NoEntry]
    /\ seen = [i \in Invocation |-> "pre"]
    /\ journal = NoEntry
    /\ temp = "absent"
    /\ guardian = [i \in Invocation |-> "none"]
    /\ released = [i \in Invocation |-> FALSE]
    /\ child = [i \in Invocation |-> "none"]
    /\ launched = [i \in Invocation |-> 0]
    /\ world = "pre"

processes == <<guardian, released, child, launched>>

Goto(i, p) == pc' = [pc EXCEPT ![i] = p]

\* OperationJournal.__enter__: a non-blocking exclusive flock, then _read.
Enter(i) ==
    /\ pc[i] = "out"
    /\ \A j \in Invocation : ~Holds(j)
    /\ flocked' = [flocked EXCEPT ![i] = TRUE]
    /\ view' = [view EXCEPT ![i] = journal]
    /\ Goto(i, "ready")
    /\ UNCHANGED <<seen, journal, temp, processes, world>>

\* OperationJournal.__exit__: LOCK_UN drops the flock of the description
\* for every process that inherited it.
Leave(i) ==
    /\ flocked' = [flocked EXCEPT ![i] = FALSE]
    /\ Goto(i, "done")

\* The caller leaves the `with` block between two effect calls.
Exit(i) ==
    /\ pc[i] = "ready"
    /\ Leave(i)
    /\ UNCHANGED <<view, seen, journal, temp, processes, world>>

-----------------------------------------------------------------------------
\* OperationJournal.persist: exclusive creation of the one temporary name,
\* then os.replace, then a readback into journal.state

\* The entry that the persist at pc[i] writes.
Classify(w) ==
    CASE w = "post" -> "verified"
      [] w = "pre"  -> "settled_preimage"
      [] OTHER      -> "ambiguous"

Image(i) ==
    CASE pc[i] = "attempting" ->
           [status |-> "attempted", attempt |-> view[i].attempt + 1,
            child |-> NoInvocation, settledBy |-> NoInvocation]
      [] pc[i] = "owning"     -> [view[i] EXCEPT !.child = i]
      [] pc[i] = "recording"  -> [view[i] EXCEPT !.status = "unresolved"]
      [] pc[i] = "repairing"  ->
           [status |-> "unresolved", attempt |-> view[i].attempt,
            child |-> NoInvocation, settledBy |-> NoInvocation]
      [] pc[i] = "settling"   ->
           [view[i] EXCEPT !.status = Classify(seen[i]),
                           !.settledBy = IF seen[i] = "pre" THEN i ELSE @]
      [] OTHER -> view[i]

OpenTemp(i) ==
    /\ pc[i] \in Persisting
    /\ temp = "absent"
    /\ temp' = "fresh"
    /\ UNCHANGED <<pc, flocked, view, seen, journal, processes, world>>

\* Where a completed persist continues.  _settle_effect raises EffectBlocked
\* once "ambiguous" is durable; the setup failure is raised after its repair.
AfterPersist(i) ==
    \/ pc[i] = "attempting" /\ Goto(i, "spawn") /\ UNCHANGED flocked
    \/ pc[i] = "owning"     /\ Goto(i, "owned") /\ UNCHANGED flocked
    \/ pc[i] = "recording"  /\ Goto(i, "reading") /\ UNCHANGED flocked
    \/ /\ pc[i] = "settling" /\ seen[i] \in {"pre", "post"}
       /\ Goto(i, "ready") /\ UNCHANGED flocked
    \/ /\ pc[i] = "settling" /\ seen[i] \notin {"pre", "post"}
       /\ Leave(i)
    \/ pc[i] = "repairing" /\ Leave(i)

Replace(i) ==
    /\ pc[i] \in Persisting
    /\ temp = "fresh"
    /\ temp' = "absent"
    /\ journal' = Image(i)
    /\ view' = [view EXCEPT ![i] = Image(i)]
    /\ AfterPersist(i)
    /\ UNCHANGED <<seen, processes, world>>

\* What an exception from persist does.  Before the release it is a setup
\* failure: run_effect stops the guardian and tries one repair persist.
\* Anywhere else it leaves the `with` block.
Unwind(i) ==
    /\ IF pc[i] = "owning"
       THEN /\ Goto(i, "repairing")
            /\ guardian' = [guardian EXCEPT ![i] = "gone"]
            /\ UNCHANGED flocked
       ELSE /\ Leave(i)
            /\ UNCHANGED guardian
    /\ UNCHANGED <<view, seen, released, child, launched, world>>

\* The temporary name is taken, or writing it failed and left it behind.
PersistRaises(i) ==
    /\ pc[i] \in Persisting
    /\ temp = "stale" \/ (temp = "fresh" /\ "io" \in Faults)
    /\ temp' = "stale"
    /\ Unwind(i)
    /\ UNCHANGED journal

\* The directory fsync or the readback fails after os.replace took effect:
\* the new entry is durable, journal.state still is the old one.
ReplaceRaises(i) ==
    /\ "io" \in Faults
    /\ pc[i] \in Persisting
    /\ temp = "fresh"
    /\ temp' = "absent"
    /\ journal' = Image(i)
    /\ Unwind(i)

-----------------------------------------------------------------------------
\* _settle_or_run: which way a call on the effect goes

\* No attempt yet, or the last one settled at the preimage for another
\* invocation.  run_effect persists the attempt before it allocates anything.
StartAttempt(i) ==
    /\ pc[i] = "ready"
    /\ view[i].status \in {"absent", "settled_preimage"}
    /\ view[i].settledBy # i
    /\ Goto(i, "attempting")
    /\ UNCHANGED <<flocked, view, seen, journal, temp, processes, world>>

\* 'same-cycle effect replay is forbidden'
RefuseReplay(i) ==
    /\ pc[i] = "ready"
    /\ view[i].status = "settled_preimage"
    /\ view[i].settledBy = i
    /\ Leave(i)
    /\ UNCHANGED <<view, seen, journal, temp, processes, world>>

\* recover_effect: an entry that was never settled is read back, not replayed.
Recover(i) ==
    /\ pc[i] = "ready"
    /\ view[i].status \in Open
    /\ Goto(i, "reading")
    /\ UNCHANGED <<flocked, view, seen, journal, temp, processes, world>>

\* A verified effect is only compared with the target; drift is refused.
VerifiedDrift(i) ==
    /\ pc[i] = "ready"
    /\ view[i].status = "verified"
    /\ world # "post"
    /\ Leave(i)
    /\ UNCHANGED <<view, seen, journal, temp, processes, world>>

\* The exact readback that a settlement classifies.
Readback(i) ==
    /\ pc[i] = "reading"
    /\ seen' = [seen EXCEPT ![i] = world]
    /\ Goto(i, "settling")
    /\ UNCHANGED <<flocked, view, journal, temp, processes, world>>

ReadbackRaises(i) ==
    /\ "io" \in Faults
    /\ pc[i] = "reading"
    /\ Leave(i)
    /\ UNCHANGED <<view, seen, journal, temp, processes, world>>

-----------------------------------------------------------------------------
\* run_effect: setup, release, and the bounded wait

\* Popen of the guardian with the lock descriptor among its pass_fds.
SpawnGuardian(i) ==
    /\ pc[i] = "spawn"
    /\ guardian' = [guardian EXCEPT ![i] = "spawned"]
    /\ released' = [released EXCEPT ![i] = FALSE]
    /\ child' = [child EXCEPT ![i] = "none"]
    /\ Goto(i, "transfer")
    /\ UNCHANGED <<flocked, view, seen, journal, temp, launched, world>>

\* _read_guardian_ack: the child exists, so its identity is persisted next.
ReadAck(i) ==
    /\ pc[i] = "transfer"
    /\ guardian[i] = "reported"
    /\ Goto(i, "owning")
    /\ UNCHANGED <<flocked, view, seen, journal, temp, processes, world>>

\* Any exception before the release: a failed pipe or Popen, a stalled
\* transfer, a lost acknowledgement, a refusing pre_release_check.
SetupFails(i) ==
    /\ pc[i] \in Setup
    /\ guardian' = [guardian EXCEPT ![i] = "gone"]
    /\ Goto(i, "repairing")
    /\ UNCHANGED <<flocked, view, seen, journal, temp, released, child,
                   launched, world>>

\* The single byte on the control pipe; a dead reader makes it a setup
\* failure (EPIPE) instead.
Release(i) ==
    /\ pc[i] = "owned"
    /\ guardian[i] = "reported"
    /\ released' = [released EXCEPT ![i] = TRUE]
    /\ Goto(i, "waiting")
    /\ UNCHANGED <<flocked, view, seen, journal, temp, guardian, child,
                   launched, world>>

\* _bounded_communicate returns once the guardian has exited.
Collect(i) ==
    /\ pc[i] = "waiting"
    /\ guardian[i] = "gone"
    /\ Goto(i, "recording")
    /\ UNCHANGED <<flocked, view, seen, journal, temp, processes, world>>

\* TimeoutExpired: the guardian has not exited in time.
Timeout(i) ==
    /\ pc[i] = "waiting"
    /\ GuardianAlive(i)
    /\ Goto(i, "terminating")
    /\ UNCHANGED <<flocked, view, seen, journal, temp, processes, world>>

\* Mutant: only the guardian is killed.
TerminateGuardianOnly(i) ==
    /\ pc[i] = "terminating"
    /\ guardian' = [guardian EXCEPT ![i] = "gone"]
    /\ Goto(i, "recording")
    /\ UNCHANGED <<flocked, view, seen, journal, temp, released, child, launched, world>>

\* _terminate_owned: SIGTERM, five seconds, SIGKILL.  The guardian forwards
\* the SIGTERM and waits five seconds of its own before it kills the child,
\* so a child that ignores SIGTERM may see its guardian killed first.
TerminateOwned(i) ==
    /\ pc[i] = "terminating"
    /\ guardian' = [guardian EXCEPT ![i] = "gone"]
    /\ \/ child' = [child EXCEPT ![i] = IF @ = "none" THEN @ ELSE "exited"]
       \/ /\ "stubborn" \in Faults
          /\ Live(i)
          /\ UNCHANGED child
    /\ Goto(i, "recording")
    /\ UNCHANGED <<flocked, view, seen, journal, temp, released, launched, world>>

-----------------------------------------------------------------------------
\* The guardian script and the child gate

\* The payload arrived whole: start the child behind its gate, report its pid.
GuardianReports(i) ==
    /\ guardian[i] = "spawned"
    /\ guardian' = [guardian EXCEPT ![i] = "reported"]
    /\ child' = [child EXCEPT ![i] = "gated"]
    /\ UNCHANGED <<pc, flocked, view, seen, journal, temp, released, launched, world>>

\* Without a driver the report pipe breaks and the control pipe is at EOF:
\* the guardian stops the child that it has not released.
GuardianStops(i) ==
    /\ guardian[i] \in {"spawned", "reported"}
    /\ ~Active(i)
    /\ ~released[i]
    /\ guardian' = [guardian EXCEPT ![i] = "gone"]
    /\ child' = [child EXCEPT ![i] = IF @ = "none" THEN @ ELSE "exited"]
    /\ UNCHANGED <<pc, flocked, view, seen, journal, temp, released, launched, world>>

\* The guardian reads "1" and opens the gate; the child execs the command.
GuardianReleases(i) ==
    /\ guardian[i] = "reported"
    /\ released[i]
    /\ guardian' = [guardian EXCEPT ![i] = "armed"]
    /\ child' = [child EXCEPT ![i] = "running"]
    /\ launched' = [launched EXCEPT ![i] = @ + 1]
    /\ UNCHANGED <<pc, flocked, view, seen, journal, temp, released, world>>

\* child.wait() has returned: the guardian copies the output and exits.
GuardianExits(i) ==
    /\ guardian[i] = "armed"
    /\ child[i] = "exited"
    /\ guardian' = [guardian EXCEPT ![i] = "gone"]
    /\ UNCHANGED <<pc, flocked, view, seen, journal, temp, released, child,
                   launched, world>>

\* The gate of a child whose guardian is gone reads EOF: exit 125, no exec.
GateEof(i) ==
    /\ child[i] = "gated"
    /\ guardian[i] = "gone"
    /\ child' = [child EXCEPT ![i] = "exited"]
    /\ UNCHANGED <<pc, flocked, view, seen, journal, temp, guardian, released,
                   launched, world>>

\* The command itself.  Both callers use compare-and-set commands
\* (`merge --ff-only`, `expected_version`): it moves the target only from the
\* preimage, through a window in which neither image is there.
ChildBegins(i) ==
    /\ child[i] = "running"
    /\ world = "pre"
    /\ world' = "mid"
    /\ child' = [child EXCEPT ![i] = "writing"]
    /\ UNCHANGED <<pc, flocked, view, seen, journal, temp, guardian, released, launched>>

ChildCompletes(i) ==
    /\ child[i] = "writing"
    /\ world' = IF world = "mid" THEN "post" ELSE world
    /\ child' = [child EXCEPT ![i] = "exited"]
    /\ UNCHANGED <<pc, flocked, view, seen, journal, temp, guardian, released, launched>>

\* The command fails where it stands.
ChildFails(i) ==
    /\ Live(i)
    /\ child' = [child EXCEPT ![i] = "exited"]
    /\ UNCHANGED <<pc, flocked, view, seen, journal, temp, guardian, released,
                   launched, world>>

-----------------------------------------------------------------------------
\* The environment

\* SIGKILL of the driver: its descriptors close, nothing is unlocked.
Crash(i) ==
    /\ "crash" \in Faults
    /\ Active(i)
    /\ Goto(i, "crashed")
    /\ temp' = IF pc[i] \in Persisting /\ temp = "fresh" THEN "stale" ELSE temp
    /\ UNCHANGED <<flocked, view, seen, journal, processes, world>>

\* KeyboardInterrupt is no Exception: run_effect does not stop the guardian,
\* but __exit__ still runs.
Interrupt(i) ==
    /\ "interrupt" \in Faults
    /\ Active(i)
    /\ Leave(i)
    /\ temp' = IF pc[i] \in Persisting /\ temp = "fresh" THEN "stale" ELSE temp
    /\ UNCHANGED <<view, seen, journal, processes, world>>

\* The guardian dies on its own (OOM, an operator's kill).
GuardianKilled(i) ==
    /\ "guardian_kill" \in Faults
    /\ GuardianAlive(i)
    /\ guardian' = [guardian EXCEPT ![i] = "gone"]
    /\ UNCHANGED <<pc, flocked, view, seen, journal, temp, released, child,
                   launched, world>>

\* Another actor rewrites the target of the effect.
Drift ==
    /\ "drift" \in Faults
    /\ world' \in Worlds \ {world, "mid"}
    /\ UNCHANGED <<pc, flocked, view, seen, journal, temp, processes>>

-----------------------------------------------------------------------------

\* What the driver does without a fault of its own.
Driver(i) ==
    \/ Exit(i) \/ StartAttempt(i) \/ RefuseReplay(i) \/ Recover(i)
    \/ VerifiedDrift(i) \/ Readback(i)
    \/ OpenTemp(i) \/ Replace(i)
    \/ SpawnGuardian(i) \/ ReadAck(i) \/ SetupFails(i) \/ Release(i)
    \/ Collect(i) \/ Timeout(i) \/ TerminateOwned(i)

Raises(i) == PersistRaises(i) \/ ReplaceRaises(i) \/ ReadbackRaises(i)

Guardian(i) ==
    GuardianReports(i) \/ GuardianStops(i) \/ GuardianReleases(i) \/ GuardianExits(i)

Child(i) == GateEof(i) \/ ChildBegins(i) \/ ChildCompletes(i) \/ ChildFails(i)

Environment(i) == Crash(i) \/ Interrupt(i) \/ GuardianKilled(i)

Next ==
    \/ \E i \in Invocation :
          Enter(i) \/ Driver(i) \/ Raises(i) \/ Guardian(i) \/ Child(i) \/ Environment(i)
    \/ Drift

Spec == Init /\ [][Next]_vars

\* Every wait of the driver has a deadline (_transfer_guardian_stdin,
\* _read_guardian_ack, _bounded_communicate), so the driver keeps moving.
\* Nothing bounds the child or forces a guardian to be scheduled.
FairSpec ==
    /\ Spec
    /\ \A i \in Invocation : WF_vars(Driver(i) \/ Raises(i))

-----------------------------------------------------------------------------
\* Correctness

\* The effect has one executor: two released children never run together,
\* whatever drivers crash in between.  This is why guardian and child inherit
\* the lock descriptor.
EffectExclusive ==
    \A i, j \in Invocation : Live(i) /\ Live(j) => i = j

\* A child that passed its gate is the one that the durable journal names,
\* and no driver has settled its attempt behind its back.
OwnershipDurable ==
    \A i \in Invocation :
        Live(i) => journal.status = "attempted" /\ journal.child = i

\* A driver that stopped waiting left no child of its own running
\* (test_timeout_terminates_and_reaps_owned_process).
EffectReaped ==
    \A i \in Invocation : pc[i] \in {"recording", "reading", "settling", "ready"} => ~Live(i)

\* The holder of the lock works on the durable entry: journal.state is never
\* stale when the next persist derives its bytes from it.
ViewCurrent(i) == Active(i) /\ pc[i] # "repairing" => view[i] = journal

HolderViewCurrent == \A i \in Invocation : ViewCurrent(i)

\* Without an outside actor a settlement stays true: nothing moves the target
\* away from the image that the journal has settled on.
SettlementStable ==
    "drift" \notin Faults =>
        /\ journal.status = "verified" => world = "post"
        /\ journal.status = "settled_preimage" => world = "pre"

\* A verified effect is never attempted again.
VerifiedIsFinal ==
    [][journal.status = "verified" => journal' = journal]_journal

-----------------------------------------------------------------------------
\* The journaled effect implements its contract

LedgerOf(status) ==
    CASE status = "absent"            -> "none"
      [] status = "verified"          -> "postimage"
      [] status = "settled_preimage"  -> "preimage"
      [] status = "ambiguous"         -> "ambiguous"
      [] OTHER                        -> "open"

Contract == INSTANCE EffectContract WITH
    ledger <- LedgerOf(journal.status),
    live   <- \E i \in Invocation : Live(i),
    target <- world

\* Guardians, gates, torn persists and recoveries are steps of the contract
\* or invisible to it.
ImplementsContract == Contract!ContractSpec

-----------------------------------------------------------------------------
\* The strengthening that makes the safety properties inductive

\* Every running driver carries the flock of its own description, and one
\* description at most is both flocked and open somewhere.
LockInv ==
    /\ \A i \in Invocation : Active(i) => flocked[i]
    /\ \A i, j \in Invocation : Holds(i) /\ Holds(j) => i = j

\* What the durable entry says while a driver stands at a given point.
Phase(i) ==
    /\ pc[i] = "attempting" => journal.status \in {"absent", "settled_preimage"}
    /\ pc[i] \in Setup \cup Waiting \cup {"owning", "recording", "repairing"} =>
           journal.status = "attempted"
    /\ pc[i] \in {"owned", "recording"} \cup Waiting => journal.child = i
    /\ pc[i] \in {"reading", "settling"} => journal.status \in Open

PhaseInv == \A i \in Invocation : Phase(i)

\* Custody: only an armed guardian has a running child, and from the release
\* until the guardian is gone the lock and the journal stay with its driver.
Custody(i) ==
    /\ Live(i) => guardian[i] = "armed"
    /\ guardian[i] = "armed" => released[i]
    /\ released[i] /\ GuardianAlive(i) =>
           /\ pc[i] \in Waiting \cup {"crashed"}
           /\ flocked[i]
           /\ journal.status = "attempted"
           /\ journal.child = i

CustodyInv == \A i \in Invocation : Custody(i)

\* A settlement in progress classifies the target as it still is.
ReadbackInv == \A i \in Invocation : pc[i] = "settling" => seen[i] = world

Strengthening == LockInv /\ PhaseInv /\ CustodyInv /\ ReadbackInv
=============================================================================
