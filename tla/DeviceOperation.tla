-------------------------- MODULE DeviceOperation --------------------------
(***************************************************************************)
(* One leased command that drives a device through the android-tools       *)
(* facade.  resource-lease-client owns the lease: it acquires it, runs the *)
(* command, renews, stops the command and gives the lease back; a later    *)
(* `finish`, and the pruning of old runs by another client, read the run   *)
(* directory it leaves.  The facade (android-tools) borrows the lease      *)
(* (android_tools_custody.py), runs a provider in a session of its own     *)
(* (android_tools_native.py) and answers what became of the operation; a   *)
(* provider that could not be drained is left in the run directory as an   *)
(* uncertainty marker.                                                     *)
(***************************************************************************)
EXTENDS Naturals

CONSTANTS Kinds  \* kinds of operation: "observe", "act", "tap" (by selector)

Holders == {"client", "finisher"}  \* whoever may give the lease back

VARIABLES
    lease,     \* the service's view: "none", "active", "lost", "over"
    dir,       \* the run directory is there
    status,    \* status.json: phase and command_stop
    marker,    \* command-stop-uncertain.json is there
    stopping,  \* finish.json or stop-renewal.json is there
    helper,    \* holder of helper.lock
    leader,    \* the command: "none", "alive", "termed", "gone"
    provider,  \* the provider's process group: "none", "running", "gone"
    acted,     \* the provider has touched the device,
    foreign,   \* and once did so without the lease
    at,        \* the owners, the facade ("tool") and a pruning client ("pruner")
    composed,  \* the status each owner is about to write last
    kind,      \* the facade's operation
    out,       \* its answer: error and effect
    told       \* what it says of the uncertainty marker

world == <<lease, provider, acted, foreign>>
run   == <<dir, status, marker, stopping>>
facade == <<kind, out, told>>
deviceVars == <<world, run, helper, leader, at, composed, facade>>

NoStatus == [phase |-> "none", stop |-> "none"]
NoAnswer == [error |-> "pending", effect |-> "pending"]

DeviceInit ==
    /\ lease = "none" /\ provider = "none" /\ acted = FALSE /\ foreign = FALSE
    /\ dir = FALSE /\ status = NoStatus /\ marker = FALSE /\ stopping = FALSE
    /\ helper = "none" /\ leader = "none"
    /\ at = [client |-> "idle", finisher |-> "idle", tool |-> "idle", pruner |-> "idle"]
    /\ composed = [o \in Holders |-> NoStatus]
    /\ kind \in Kinds /\ out = NoAnswer /\ told = "nothing"

Go(p, from, to) == at[p] = from /\ at' = [at EXCEPT ![p] = to]

-----------------------------------------------------------------------------
(* The lease client.                                                        *)

\* Lease.record: command_stop is carried over, a marker makes it unconfirmed,
\* and an unconfirmed run cannot be finished.
Record(phase, stop) ==
    LET known == IF marker THEN "unconfirmed" ELSE IF stop = "keep" THEN status.stop ELSE stop
    IN  [stop  |-> known,
         phase |-> IF phase = "finished" /\ known = "unconfirmed" THEN "failed" ELSE phase]

\* The record is written, or its persistence fails.
Writes(phase, stop) == status' = Record(phase, stop) \/ UNCHANGED status

\* prepare, the helper lock and the request for a lease.
AcquireLease ==
    /\ at["client"] = "idle"
    /\ dir' = TRUE
    /\ helper' = "client"
    /\ \/ /\ lease' = "active" /\ status' = [phase |-> "active", stop |-> "none"]
          /\ at' = [at EXCEPT !["client"] = "launch"]
       \/ /\ lease' = "none" /\ status' = [phase |-> "acquiring", stop |-> "none"]
          /\ at' = [at EXCEPT !["client"] = "not_started"]
    /\ UNCHANGED <<provider, acted, foreign, marker, stopping, leader, composed, facade>>

\* Mutant: the command is started first.
LaunchUnrecorded ==
    /\ Go("client", "launch", "launched")
    /\ UNCHANGED <<world, run, helper, leader, composed, facade>>

\* The write ahead of the launch.
Launch ==
    /\ \/ /\ Go("client", "launch", "launched")
          /\ status' = Record("active", "unconfirmed")
       \/ Go("client", "launch", "not_started") /\ UNCHANGED status
    /\ UNCHANGED <<world, dir, marker, stopping, helper, leader, composed, facade>>

Popen ==
    /\ \/ Go("client", "launched", "watch") /\ leader' = "alive"
       \/ Go("client", "launched", "not_started") /\ UNCHANGED leader
    /\ UNCHANGED <<world, run, helper, composed, facade>>

\* The loop ends: the command is over, or a tick failed.
Watch ==
    /\ Go("client", "watch", "stop")
    /\ \/ leader = "gone"
       \/ stopping \/ lease # "active"
       \/ leader = "alive"  \* an interrupt, or a renewal or a write that failed
    /\ UNCHANGED <<world, run, helper, leader, composed, facade>>

\* No command was started.
NotStarted ==
    /\ Go("client", "not_started", "release")
    /\ Writes("active", "not_started")
    /\ UNCHANGED <<world, dir, marker, stopping, helper, leader, composed, facade>>

\* stop_child: nothing for a command that is gone, else SIGTERM to its group, ...
Term ==
    /\ \/ leader = "gone"  /\ Go("client", "stop", "stopped") /\ UNCHANGED leader
       \/ leader = "alive" /\ Go("client", "stop", "terming") /\ leader' = "termed"
    /\ UNCHANGED <<world, run, helper, composed, facade>>

\* ... a wait, SIGKILL and another wait, which may run out.
Kill ==
    /\ \/ leader = "gone" /\ Go("client", "terming", "stopped") /\ UNCHANGED leader
       \/ leader = "termed" /\ Go("client", "terming", "stopped") /\ leader' = "gone"
       \/ leader = "termed" /\ Go("client", "terming", "uncertain") /\ UNCHANGED leader
    /\ UNCHANGED <<world, run, helper, composed, facade>>

Stopped ==
    /\ Go("client", "stopped", "release")
    /\ Writes("active", "confirmed")
    /\ UNCHANGED <<world, dir, marker, stopping, helper, leader, composed, facade>>

\* The marker, or the barrier that stands for it, or neither.
Uncertain ==
    /\ Go("client", "uncertain", "failing")
    /\ \/ marker' = TRUE /\ UNCHANGED stopping
       \/ stopping' = TRUE /\ UNCHANGED marker
       \/ UNCHANGED <<marker, stopping>>
    /\ UNCHANGED <<world, dir, status, helper, leader, composed, facade>>

Failing ==
    /\ Go("client", "failing", "release")
    /\ Writes("failed", "keep")
    /\ UNCHANGED <<world, dir, marker, stopping, helper, leader, composed, facade>>

\* Lease.finish: the lease is given back, and that is confirmed, ...
GiveBack(o) ==
    /\ at[o] = "release"
    /\ lease' = IF lease = "none" THEN "none" ELSE "over"
    /\ \/ /\ composed' = [composed EXCEPT ![o] = Record("finished", "keep")]
          /\ at' = [at EXCEPT ![o] = "write"]
          /\ UNCHANGED helper
       \/ /\ lease # "none" /\ o = "client"
          /\ composed' = [composed EXCEPT ![o] = Record("failed", "keep")]
          /\ at' = [at EXCEPT ![o] = "write"]
          /\ UNCHANGED helper
       \/ /\ lease # "none" /\ o = "finisher"
          /\ at' = [at EXCEPT ![o] = "done"]
          /\ helper' = "none"
          /\ UNCHANGED composed
    /\ UNCHANGED <<provider, acted, foreign, run, leader, facade>>

\* ... and the record that was composed is written.
WriteLast(o) ==
    /\ Go(o, "write", "done")
    /\ \/ status' = composed[o] \/ UNCHANGED status
       \/ o = "client" /\ status' = Record("failed", "keep")
    /\ helper' = "none"
    /\ UNCHANGED <<world, dir, marker, stopping, leader, composed, facade>>

\* kill -9; the command goes on.
CrashOwner(o) ==
    /\ at[o] \notin {"idle", "done"}
    /\ at' = [at EXCEPT ![o] = "done"]
    /\ helper' = IF helper = o THEN "none" ELSE helper
    /\ UNCHANGED <<world, run, leader, composed, facade>>

Client == AcquireLease \/ Launch \/ Popen \/ Watch \/ NotStarted \/ Term \/ Kill \/ Stopped
          \/ Uncertain \/ Failing \/ GiveBack("client") \/ WriteLast("client")

\* `finish`: finish.json, then the helper's lock once its holder is gone.
RequestFinish ==
    /\ dir
    /\ Go("finisher", "idle", "wait")
    /\ stopping' = TRUE
    /\ UNCHANGED <<world, dir, status, marker, helper, leader, composed, facade>>

TakeOver ==
    /\ dir
    /\ \/ /\ helper = "none"
          /\ Go("finisher", "wait", "release")
          /\ helper' = "finisher"
       \/ /\ helper # "none"
          /\ status.phase \in {"finished", "failed"}
          /\ Go("finisher", "wait", "done")
          /\ UNCHANGED helper
    /\ UNCHANGED <<world, run, leader, composed, facade>>

Finisher == RequestFinish \/ TakeOver \/ GiveBack("finisher") \/ WriteLast("finisher")

\* prune, for one old run: proven finished, looked at again under its lock, ...
Proven == status.phase = "finished" /\ status.stop # "unconfirmed" /\ ~marker

Prune ==
    /\ at["pruner"] = "idle" /\ dir /\ helper = "none" /\ Proven
    /\ helper' = "pruner"
    /\ at' = [at EXCEPT !["pruner"] = "unlink"]
    /\ UNCHANGED <<world, run, leader, composed, facade>>

\* ... its known files unlinked, and the directory removed if it is empty then.
RemoveRun ==
    /\ Go("pruner", "unlink", "done")
    /\ status' = NoStatus /\ stopping' = FALSE /\ helper' = "none"
    /\ dir' = marker
    /\ UNCHANGED <<world, marker, leader, composed, facade>>

-----------------------------------------------------------------------------
(* Custody, as the facade borrows it.                                       *)

\* DeviceCustody._check with no marker of its own.
InCustody == /\ dir /\ status.phase = "active" /\ ~marker /\ ~stopping
             /\ helper # "none" /\ lease = "active"

\* A check may also fail to reach the service.
Check(ok, refused) == IF InCustody THEN ok \/ refused ELSE refused

-----------------------------------------------------------------------------
(* execute_android_native.                                                  *)

Effectful == kind \in {"act", "tap"}

\* The effect an operation answers once its provider was started.
Effect == IF Effectful THEN "unknown" ELSE "not_applicable"

\* Mutant: a query that timed out counts as not dispatched.
FailureHopeful(error) ==
    [error |-> error,
     effect |-> IF error = "drain_unknown" THEN "unknown" ELSE "not_dispatched"]

\* _process_failure, after the effectful call.
Failure(error) ==
    [error |-> error,
     effect |-> IF error = "provider_unavailable" THEN "not_dispatched"
                ELSE IF error = "drain_unknown" THEN "unknown" ELSE Effect]

Conclude(error, effect) == out' = [error |-> error, effect |-> effect]

Unspent == <<world, run, helper, leader, composed, kind, told>>

\* The facade starts within the command, borrows the lease and reserves room for
\* its record (EvidenceStore), or is refused either.
Borrow ==
    /\ at["tool"] = "idle" /\ leader = "alive"
    /\ Check(/\ at' = [at EXCEPT !["tool"] = "probe"] /\ UNCHANGED out,
             /\ at' = [at EXCEPT !["tool"] = "done"]
             /\ \E effect \in {"not_dispatched", "unknown"} : Conclude("rejected", effect))
    /\ UNCHANGED Unspent

\* Arguments, then the provider's version in a process of its own.
Probe ==
    /\ \/ /\ Go("tool", "probe", IF kind = "tap" THEN "look" ELSE "spawn")
          /\ UNCHANGED out
       \/ /\ Go("tool", "probe", "recheck")
          /\ \/ Conclude("provider_version_mismatch", "not_dispatched")
             \/ Conclude("query_timeout",
                       IF kind = "tap" THEN "not_dispatched" ELSE "not_applicable")
       \/ /\ Go("tool", "probe", "handoff")
          /\ Conclude("drain_unknown", IF kind = "tap" THEN "not_dispatched" ELSE "unknown")
    /\ UNCHANGED Unspent

\* _selector_tap_coordinates: what the tree may say instead of coordinates.
Misses == {"invalid_provider_output", "missing_output", "assertion_failed"}

\* A tap by selector finds its coordinates first ...
Look ==
    /\ \/ Go("tool", "look", "confirm") /\ UNCHANGED out
       \/ /\ Go("tool", "look", "recheck")
          /\ \E error \in Misses : Conclude(error, "not_dispatched")
       \/ /\ Go("tool", "look", "handoff")
          /\ Conclude("drain_unknown", "not_dispatched")
    /\ UNCHANGED Unspent

\* ... and asks before_effect whether the lease is still the same.
ConfirmLease ==
    /\ at["tool"] = "confirm"
    /\ Check(/\ at' = [at EXCEPT !["tool"] = "spawn"] /\ UNCHANGED out,
             /\ at' = [at EXCEPT !["tool"] = "recheck"]
             /\ \E error \in {"lease_lost", "query_timeout"} :
                   Conclude(error, "not_dispatched"))
    /\ UNCHANGED Unspent

\* _run_process: Popen, or there is no such provider.
Spawn ==
    /\ \/ Go("tool", "spawn", "run") /\ provider' = "running" /\ UNCHANGED out
       \/ /\ Go("tool", "spawn", "recheck")
          /\ out' = Failure("provider_unavailable")
          /\ UNCHANGED provider
    /\ UNCHANGED <<lease, acted, foreign, run, helper, leader, composed, kind, told>>

\* _interpret_output, for an exit that is zero or not.
Interpretations == {"none", "assertion_failed", "invalid_provider_output", "provider_failed"}

\* The provider is over and its group is gone.
Completed ==
    /\ Go("tool", "run", "recheck")
    /\ provider' = "gone"
    /\ \E error \in Interpretations : Conclude(error, Effect)
    /\ UNCHANGED <<lease, acted, foreign, run, helper, leader, composed, kind, told>>

\* Deadline, output limit or SIGTERM: the group is signalled and settles ...
Settled ==
    /\ Go("tool", "run", "recheck")
    /\ provider' = "gone"
    /\ \E error \in {"query_timeout", "observation_limit", "interrupted"} :
          out' = Failure(error)
    /\ UNCHANGED <<lease, acted, foreign, run, helper, leader, composed, kind, told>>

\* ... or cannot be seen to settle.
Undrained ==
    /\ Go("tool", "run", "handoff")
    /\ out' = Failure("drain_unknown")
    /\ UNCHANGED Unspent

\* android_tools_custody.handoff_uncertain: an earlier marker is kept.
Handoff ==
    /\ Go("tool", "handoff", "recheck")
    /\ \/ dir /\ marker' = TRUE /\ told' = "recorded"
       \/ told' = "unknown" /\ UNCHANGED marker
    /\ UNCHANGED <<world, dir, status, stopping, helper, leader, composed, kind, out>>

\* The facade borrows once more before it answers; the record may fail, too.
BorrowAgain ==
    /\ Go("tool", "recheck", "done")
    /\ \/ Conclude("android_tools_rejected", "unknown")
       \/ Check(UNCHANGED out,
                out' = IF out.error = "drain_unknown" THEN out
                       ELSE [error  |-> "lease_lost",
                             effect |-> IF out.effect = "not_dispatched" THEN out.effect
                                        ELSE "unknown"])
    /\ UNCHANGED Unspent

\* The facade is killed, or terminated outside a provider's run: no answer.
CrashTool ==
    /\ at["tool"] \notin {"idle", "done"}
    /\ at' = [at EXCEPT !["tool"] = "done"]
    /\ out' = NoAnswer
    /\ UNCHANGED Unspent

Borrower == Borrow \/ Probe \/ Look \/ ConfirmLease \/ Spawn \/ Completed \/ Settled
            \/ Undrained \/ Handoff \/ BorrowAgain

-----------------------------------------------------------------------------
(* The world.                                                               *)

Act ==
    /\ provider = "running" /\ Effectful
    /\ acted' = TRUE
    /\ foreign' = (foreign \/ lease # "active")
    /\ UNCHANGED <<lease, provider, run, helper, leader, at, composed, facade>>

ProviderExits ==
    /\ provider = "running" /\ at["tool"] # "run"
    /\ provider' = "gone"
    /\ UNCHANGED <<lease, acted, foreign, run, helper, leader, at, composed, facade>>

\* The command ends; its descendants may go on for a while.
CommandExits ==
    /\ leader \in {"alive", "termed"}
    /\ leader' = "gone"
    /\ UNCHANGED <<world, run, helper, at, composed, facade>>

\* The lease expires or is quarantined.
LeaseLost ==
    /\ lease = "active"
    /\ lease' = "lost"
    /\ UNCHANGED <<provider, acted, foreign, run, helper, leader, at, composed, facade>>

DeviceNext == Client \/ (\E o \in Holders : CrashOwner(o)) \/ Finisher \/ Prune \/ RemoveRun
              \/ Borrower \/ CrashTool
              \/ Act \/ ProviderExits \/ CommandExits \/ LeaseLost

DeviceSpec == DeviceInit /\ [][DeviceNext]_deviceVars

-----------------------------------------------------------------------------
(* Properties.                                                              *)

\* "not_dispatched" is never said of an operation that touched the device, or
\* that still may (execute_android_native, and the facade's second check).
EffectHonest ==
    out.effect = "not_dispatched" => ~acted /\ (provider = "running" => ~Effectful)

\* An operation succeeds only if the device was this run's from first to last,
\* and nothing of it is left to touch the device later.
SuccessOwned ==
    at["tool"] = "done" /\ out.error = "none" => ~foreign /\ provider = "gone"

\* Both together: what the facade answers is what happened on the device.
AnswerHonest == EffectHonest /\ SuccessOwned

\* A run is recorded as finished only when its command is known to be gone,
\* whoever gives the lease back after which crash (run_command: "even failed
\* uncertainty-marker/status writes must leave retry/pruning unable to claim a
\* confirmed stop").
FinishedStopped == status.phase = "finished" => leader \in {"none", "gone"}

\* An uncertainty that the facade reports as recorded is still there whoever
\* prunes the run meanwhile.
UncertaintyKept == told = "recorded" => dir /\ marker

\* Both together: a stop is claimed only when it is known.
StopHonest == FinishedStopped /\ UncertaintyKept

-----------------------------------------------------------------------------
(* What the two properties need to be inductive.                            *)

Places ==
    {"idle", "launch", "launched", "not_started", "watch", "stop", "terming", "stopped",
     "uncertain", "failing", "release", "write", "wait", "unlink", "probe", "look", "confirm",
     "spawn", "run", "handoff", "recheck", "done"}

Records ==
    [phase : {"none", "acquiring", "active", "finished", "failed"},
     stop  : {"none", "not_started", "unconfirmed", "confirmed"}]

Answers ==
    [error  : Misses \cup Interpretations
                 \cup {"pending", "rejected", "provider_version_mismatch", "query_timeout",
                       "drain_unknown", "lease_lost", "provider_unavailable",
                       "observation_limit", "interrupted", "android_tools_rejected"},
     effect : {"pending", "not_dispatched", "unknown", "not_applicable"}]

DeviceTypeOK ==
    /\ at \in [{"client", "finisher", "tool", "pruner"} -> Places]
    /\ composed \in [Holders -> Records]
    /\ status \in Records
    /\ out \in Answers
    /\ leader \in {"none", "alive", "termed", "gone"}

\* Whoever may change the run directory holds helper.lock, and before the client
\* there is nothing to hold.
HelpersHeld ==
    /\ at["client"] \notin {"idle", "done"} => helper = "client"
    /\ at["finisher"] \in {"release", "write"} => helper = "finisher"
    /\ at["pruner"] = "unlink" => helper = "pruner"
    /\ at["client"] = "idle" => helper = "none" /\ ~dir /\ lease = "none"

Alive == leader \in {"alive", "termed"}

\* The command was started once by the client, which goes on only when it knows.
CommandKnown ==
    /\ at["client"] \in {"idle", "launch", "launched", "not_started"} => leader = "none"
    /\ at["client"] = "stopped" => leader = "gone"
    /\ leader = "none" => at["tool"] = "idle"

\* From the write ahead of the launch on, as long as the command may be running,
\* the status and whatever is composed to replace it leave the stop unconfirmed.
StopOpen ==
    at["client"] = "launched" \/ Alive =>
       /\ at["pruner"] # "unlink"
       /\ status.stop = "unconfirmed" /\ status.phase # "finished"
       /\ \A o \in Holders : at[o] = "write" =>
             composed[o].stop = "unconfirmed" /\ composed[o].phase # "finished"

\* Until its provider runs the facade has no answer and nothing has been done to
\* the device; the lease is lost once for all; and an answer that claims that
\* nothing was dispatched, or success, is given when the provider never was
\* started, or is gone.
ProviderKnown ==
    /\ at["tool"] \in {"idle", "probe", "look", "confirm", "spawn"} =>
          out = NoAnswer /\ provider = "none" /\ ~acted /\ ~foreign
    /\ at["tool"] = "run" => out = NoAnswer
    /\ lease = "active" => ~foreign
    /\ out.effect = "not_dispatched" => provider = "none" /\ ~acted
    /\ out.error = "none" =>
          /\ provider = "gone"
          /\ at["tool"] \in {"recheck", "done"}
          /\ at["tool"] = "done" => ~foreign

DeviceInv ==
    /\ DeviceTypeOK /\ HelpersHeld /\ CommandKnown /\ StopOpen /\ ProviderKnown
    /\ UncertaintyKept
=============================================================================
