------------------------------ MODULE Janitor ------------------------------
(***************************************************************************)
(* templates/project/workflow-task-janitor on a managed worktree: after    *)
(* the Cleanup session has left, the Janitor has Kent delete the Task's    *)
(* worktree, then removes the local branch and, for a merged pull request, *)
(* the remote branch, with a readback before and after every step.  It     *)
(* holds no lock over any of this: people push, commit, merge, retarget    *)
(* and re-enter meanwhile, Kent may act late, and the Janitor itself may   *)
(* be killed and run again.                                                *)
(*                                                                         *)
(* Nobody can be excluded between the last witness and Kent's acceptance   *)
(* of the request: contracts/worktree-contract.md says so ("Owner          *)
(* acknowledgement is not an atomic reservation") and makes the quiet of   *)
(* that window the duty of whoever released the worktree.  Quiet and       *)
(* RuntimeQuiet below are that duty, and the only promise of the others.   *)
(***************************************************************************)
EXTENDS Naturals

CONSTANTS
    Commits,    \* commits that branches and the pull request may point at
    History,    \* History[c]: the commits reachable from c
    None,       \* no commit: the ref does not exist
    Tasks,      \* the inputs to consider
    MaxRuns,    \* bound: runs of the Janitor
    MaxMoves    \* bound: steps of other people

Inputs == [mode : {"merged", "published", "closed"}, declared : BOOLEAN,
           supported : BOOLEAN, retention : BOOLEAN]

ASSUME JanitorAssumption ==
    /\ History \in [Commits -> SUBSET Commits]
    /\ \A c \in Commits : c \in History[c]
    /\ None \notin Commits
    /\ Tasks \subseteq Inputs
    /\ MaxRuns \in Nat
    /\ MaxMoves \in Nat

VARIABLES
    path,       \* what is at the worktree's path: ours, gone, other
    registered, \* Git registers that path
    record,     \* Kent's record of it: registered, missing, absent, other
    attached,   \* its HEAD is the Task branch
    dirty,      \* it has tracked or untracked changes
    runtime,    \* what its .kent/runtime holds
    local,      \* the local Task branch
    elsewhere,  \* which another worktree has checked out
    remote,     \* the Task branch at origin
    pr,         \* the pull request: merged, base, head
    archive,    \* the retained evidence is there and intact
    inside,     \* the Cleanup session targets the worktree
    input,      \* the Script's input and the profile's evidence rules
    native,     \* what Kent was asked to remove and has not yet removed
    nativeOid,  \* the branch tip that request found
    pc,         \* where the Janitor is
    run,        \* its run
    head,       \* HEAD of the worktree as admitted
    prSeen,     \* the admitted witness of the pull request
    remoteOid,  \* the witness of the remote branch
    localOid,   \* the local branch as settle_local_branch read it
    closure,    \* retained_closure holds an archive
    effect,     \* _effect_status of the native deletion
    blocked,    \* local_blocker or remote_blocker is set
    taken,      \* what was destroyed on the Janitor's account (history)
    published,  \* the tips origin has had (history)
    moves       \* steps of other people so far

tree    == <<path, registered, record, attached, dirty, runtime>>
refs    == <<local, elsewhere, remote, pr>>
outside == <<archive, inside, input>>
kent    == <<native, nativeOid>>
seen    == <<head, prSeen, remoteOid, localOid, closure>>
outcome == <<effect, blocked>>
vars    == <<path, registered, record, attached, dirty, runtime, local, elsewhere,
             remote, pr, archive, inside, input, native, nativeOid, pc, run, head,
             prSeen, remoteOid, localOid, closure, effect, blocked, taken, published, moves>>

-----------------------------------------------------------------------------
Tips     == Commits \cup {None}
Runtimes == {"absent", "legacy", "sealed", "tombstone", "sentinel", "foreign"}
Requests == {"path", "registration", "record", "branch"}
Pulls    == [merged : BOOLEAN, base : {"target", "other"}, head : Commits]

\* "preserved", "removed": task_janitor_done.  "refused": blocked, no effect was
\* attempted.  "partial", "unknown": blocked, after an effect or on no claim.
Verdicts == {"preserved", "refused", "unknown", "partial", "removed"}

\* Between the admission of runtime material and the native request.
RuntimeQuiet == {"witness1", "prove1", "identity", "witness2", "prove2", "native"}

\* Between the last look at the local branch and the native request.
Quiet == {"prove2", "native"}

Before == {"admit", "clean", "recover", "branch", "runtime", "seal", "sentinel",
           "session", "tip", "record", "readmit"} \cup RuntimeQuiet

After == {"ack", "verify", "verify_record", "same", "settle", "unref", "unref_read",
          "remote_read", "remote_same", "push", "push_read",
          "post_path", "post_record", "post_local", "post_remote", "post_pr"}

\* What was destroyed: commits that a branch pointed at, and with the worktree
\* whatever its runtime directory held while the archive was kept or not.
TakenOK ==
    taken \subseteq [what : {"local", "remote"}, commit : Commits]
                       \cup [what : {"runtime"}, holds : Runtimes, kept : BOOLEAN]

Typed ==
    /\ path \in {"ours", "gone", "other"}
    /\ registered \in BOOLEAN
    /\ record \in {"registered", "missing", "absent", "other"}
    /\ attached \in BOOLEAN
    /\ dirty \in BOOLEAN
    /\ runtime \in Runtimes
    /\ local \in Tips
    /\ elsewhere \in BOOLEAN
    /\ remote \in Tips
    /\ pr \in Pulls
    /\ archive \in BOOLEAN
    /\ inside \in BOOLEAN
    /\ input \in Inputs
    /\ native \in SUBSET Requests
    /\ nativeOid \in Tips
    /\ pc \in Before \cup After \cup Verdicts
    /\ run \in Nat
    /\ head \in Tips
    /\ prSeen \in Pulls
    /\ remoteOid \in Tips
    /\ localOid \in Tips
    /\ closure \in BOOLEAN
    /\ effect \in {"none", "attempted", "uncertain", "completed"}
    /\ blocked \in {"no", "uncertain", "yes"}
    /\ published \subseteq Commits
    /\ moves \in Nat

\* Type correctness.
TypeOK == Typed /\ TakenOK

\* A Task that Cleanup hands over.  Its terminal evidence, when declared, was
\* sealed and, where the profile asks for retention, archived.
Init ==
    /\ path = "ours" /\ registered = TRUE /\ record = "registered"
    /\ attached = TRUE
    /\ dirty = FALSE
    /\ input \in Tasks
    /\ runtime \in IF input.declared THEN {"absent", "sealed"} ELSE {"absent", "legacy"}
    /\ local \in Commits
    /\ elsewhere = FALSE
    /\ remote \in Tips
    /\ pr \in Pulls
    /\ ~pr.merged => remote = pr.head
    /\ pr.base = "target"
    /\ archive = input.retention
    /\ inside = FALSE
    /\ native = {} /\ nativeOid = None
    /\ pc = "admit"
    /\ run = 1
    /\ head = None /\ prSeen = pr /\ remoteOid = None /\ localOid = None
    /\ closure = FALSE
    /\ effect = "none" /\ blocked = "no"
    /\ taken = {}
    /\ published = IF remote = None THEN {} ELSE {remote}
    /\ moves = 0

-----------------------------------------------------------------------------
(* What the Janitor's readbacks decide.                                     *)

Merged    == input.mode = "merged"
Published == input.mode = "published"

\* merged_pr_contains_head: equal, or an ancestor of what gets fetched.
ContainsHead(tip, commit) == commit \in History[tip]

\* read_merged_pr_witness: the pull request is merged and contains HEAD.
Recoverable(witness) == witness.merged /\ ContainsHead(witness.head, head)

\* require_same_merged_pr.  A base that is not the admitted one raises before.
SamePullRequest ==
    /\ pr.base = "target"
    /\ Recoverable(pr)
    /\ pr = prSeen

\* admit_local_branch_for_native_delete.
BranchAdmitted == path = "ours" /\ attached /\ local = head

\* _admit_restored_tracked_only: no runtime directory, so the archive answers.
RestoredRoot == archive /\ ~dirty /\ BranchAdmitted

\* _EvidenceAdmission as _validate_retained_tombstone asks for it: a sealed
\* ledger of this Task, and the same records in the archive if one is required.
EvidenceAdmitted ==
    /\ runtime \in {"sealed", "tombstone", "sentinel"}
    /\ input.retention => archive

\* _admit_managed_runtime_parent: nothing there but this Task's own.
RuntimeAdmitted ==
    IF input.declared
    THEN input.supported /\ IF runtime = "absent" THEN RestoredRoot ELSE EvidenceAdmitted
    ELSE runtime \in {"absent", "legacy"}

\* The archive that revalidate_retained_archive looks at, if there is one.
ArchiveHolds == closure => archive

\* verify_kent_worktree_postcondition accepts a retained or an absent record.
RecordSettled == record \in {"missing", "absent"}

-----------------------------------------------------------------------------
(* One run of the Janitor.  A readback that fails, raises or times out is   *)
(* treated like one that finds what it must not find.                       *)

Goto(from, to) == pc = from /\ pc' = to

World   == <<tree, refs, outside, kent, taken, published, moves, run>>
Looking == UNCHANGED World

\* A readback at one place: on to the next one, or an early return.
Check(from, good, next, otherwise) ==
    /\ pc = from
    /\ pc' \in IF good THEN {next, otherwise} ELSE {otherwise}
    /\ UNCHANGED <<seen, outcome>>
    /\ Looking

\* The workspace, the mode, the attached branch and its HEAD.
Admit ==
    /\ pc = "admit"
    /\ \/ path # "gone" /\ input.mode # "closed" /\ path = "ours" /\ attached
          /\ pc' = "clean"
          /\ head' = local
       \/ /\ pc' = IF path # "gone" /\ input.mode = "closed" THEN "preserved" ELSE "refused"
          /\ UNCHANGED head
       \/ pc' = "unknown" /\ UNCHANGED head
    /\ UNCHANGED <<prSeen, remoteOid, localOid, closure, outcome>>
    /\ Looking

\* git status: a dirty worktree is left alone.
Clean ==
    /\ pc = "clean"
    /\ pc' \in CASE path = "ours" /\ ~dirty -> {"recover", "unknown"}
                [] path = "ours" /\ dirty  -> {"preserved", "unknown"}
                [] OTHER -> {"recover", "preserved", "unknown"}
    /\ UNCHANGED <<seen, outcome>>
    /\ Looking

\* The witness that HEAD can be recovered: the pull request, or the remote tip.
Recover ==
    /\ pc = "recover"
    /\ \/ Goto("recover", "refused") /\ UNCHANGED prSeen
       \/ /\ Merged
          /\ pr.base = "target"
          /\ prSeen' = pr
          /\ pc' = IF Recoverable(pr) THEN "branch" ELSE "preserved"
       \/ /\ Published
          /\ pc' = IF remote = head THEN "branch" ELSE "preserved"
          /\ UNCHANGED prSeen
    /\ UNCHANGED <<head, remoteOid, localOid, closure, outcome>>
    /\ Looking

AdmitBranch  == Check("branch", BranchAdmitted, "runtime", "refused")
AdmitRuntime == Check("runtime", RuntimeAdmitted, "seal", "refused")

\* _prepare_v2_managed_runtime_state renames a sealed ledger to its tombstone ...
Seal ==
    /\ pc = "seal"
    /\ \/ /\ RuntimeAdmitted
          /\ ~input.supported \/ runtime \in {"absent", "sentinel"}
          /\ pc' = "session"
          /\ closure' = (input.declared /\ (input.retention \/ runtime = "absent"))
          /\ UNCHANGED runtime
       \/ /\ RuntimeAdmitted
          /\ input.supported /\ runtime \in {"sealed", "tombstone"}
          /\ runtime' = "tombstone"
          /\ pc' = "sentinel"
          /\ UNCHANGED closure
       \/ pc' = "refused" /\ UNCHANGED <<runtime, closure>>
    /\ UNCHANGED <<path, registered, record, attached, dirty, refs, outside, kent,
                   taken, published, moves, run, head, prSeen, remoteOid, localOid,
                   outcome>>

\* ... and then creates the sentinel, under the lock of the ledger.
Sentinel ==
    /\ pc = "sentinel"
    /\ \/ /\ runtime = "tombstone" /\ RuntimeAdmitted
          /\ runtime' = "sentinel"
          /\ pc' = "session"
          /\ closure' = input.retention
       \/ pc' = "refused" /\ UNCHANGED <<runtime, closure>>
    /\ UNCHANGED <<path, registered, record, attached, dirty, refs, outside, kent,
                   taken, published, moves, run, head, prSeen, remoteOid, localOid,
                   outcome>>

SessionAway == Check("session", ~inside, "tip", "refused")

\* The remote branch as it is before anything is removed.
WitnessTip ==
    /\ pc = "tip"
    /\ \/ pc' = "record" /\ remoteOid' = IF Merged THEN remote ELSE None
       \/ Merged /\ pc' = "refused" /\ UNCHANGED remoteOid
    /\ UNCHANGED <<head, prSeen, localOid, closure, outcome>>
    /\ Looking

CaptureRecord  == Check("record", record = "registered", "readmit", "refused")
ReadmitRuntime == Check("readmit", RuntimeAdmitted, "witness1", "refused")

\* validate_delete_witness, twice: the archive and the local branch, ...
Witness == ArchiveHolds /\ BranchAdmitted

\* ... then the pull request or the published tip.
Proof == IF Merged THEN SamePullRequest ELSE remote = head

Witness1 == Check("witness1", Witness, "prove1", "refused")
Prove1   == Check("prove1", Proof, "identity", "refused")

\* delete_managed_worktree reads the worktree's own branch once more; an error
\* here leaves main by its outermost handler.
Identity == Check("identity", path # "gone", "witness2", "unknown")

Witness2 == Check("witness2", Witness, "prove2", "refused")
Prove2   == Check("prove2", Proof, "native", "refused")

-----------------------------------------------------------------------------
(* The native deletion.                                                     *)

\* Kent accepts the request, unless it knows no such worktree.
Native ==
    /\ Goto("native", "ack")
    /\ effect' = "attempted"
    /\ \/ /\ path = "ours" /\ record = "registered"
          /\ native' = Requests
          /\ nativeOid' = local
          /\ taken' = taken \cup {[what |-> "runtime", holds |-> runtime, kept |-> archive]}
       \/ UNCHANGED <<kent, taken>>
    /\ UNCHANGED <<tree, refs, outside, published, moves, run, seen, blocked>>

\* deletion_result_kind, and the answers that one cannot trust.
Answers == {"completed", "scheduled", "uncertain"}

Ack ==
    /\ pc = "ack"
    /\ \E answer \in Answers :
          /\ pc' = CASE answer = "completed" -> "verify"
                     [] answer = "scheduled" -> "unknown"
                     [] answer = "uncertain" -> "post_path"
          /\ effect' = IF answer = "uncertain" THEN "uncertain" ELSE effect
    /\ UNCHANGED <<seen, blocked>>
    /\ Looking

Verify == Check("verify", path = "gone" /\ ~registered, "verify_record", "unknown")

VerifyRecord ==
    /\ pc = "verify_record"
    /\ \/ RecordSettled /\ pc' = "same" /\ effect' = "completed"
       \/ pc' = "unknown" /\ UNCHANGED effect
    /\ UNCHANGED <<seen, blocked>>
    /\ Looking

-----------------------------------------------------------------------------
(* The branches.                                                            *)

\* A blocker ends the settlement: nothing more is removed.
Block == pc' = "post_path" /\ blocked' = "yes"

Same ==
    /\ pc = "same"
    /\ \/ (Merged => SamePullRequest) /\ pc' = "settle" /\ UNCHANGED blocked
       \/ Block
    /\ UNCHANGED <<seen, effect>>
    /\ Looking

\* settle_local_branch up to its deletion.
Settle ==
    /\ pc = "settle"
    /\ \/ Block /\ UNCHANGED localOid
       \/ /\ Published => remote = head
          /\ localOid' = local
          /\ UNCHANGED blocked
          /\ \/ local = None /\ pc' = "remote_read"
             \/ local # None /\ ~elsewhere /\ local = head /\ pc' = "unref"
    /\ UNCHANGED <<head, prSeen, remoteOid, closure, effect>>
    /\ Looking

\* Mutant: update-ref without the OID that was read.
UnrefAnyTip == TRUE

\* git update-ref -d with the OID that was read.  Its answer may get lost, and
\* when the command times out the exception is a blocker.
UnrefDeletes == local = localOid

Unref ==
    /\ pc = "unref"
    /\ \/ /\ UnrefDeletes /\ local # None
          /\ local' = None
          /\ elsewhere' = FALSE
          /\ taken' = taken \cup {[what |-> "local", commit |-> local]}
       \/ UNCHANGED <<local, elsewhere, taken>>
    /\ blocked' \in IF local' = None THEN {"no", "uncertain", "yes"} ELSE {"uncertain", "yes"}
    /\ pc' = IF blocked' = "yes" THEN "post_path" ELSE "unref_read"
    /\ UNCHANGED <<tree, remote, pr, outside, kent, published, moves, run, seen, effect>>

UnrefRead ==
    /\ pc = "unref_read"
    /\ \/ local = None /\ pc' = "remote_read" /\ UNCHANGED blocked
       \/ Block
    /\ UNCHANGED <<seen, effect>>
    /\ Looking

\* Mutant: the tip is compared with the witness only.
TipAsWitnessed == remote # None /\ remote = remoteOid

\* The remote branch is as witnessed, and at the head of the pull request.
TipUnchanged == remote # None /\ remote = remoteOid /\ remote = prSeen.head

\* The remote branch is looked at in merged mode only, and not at all after an
\* uncertain local deletion.
RemoteRead ==
    /\ pc = "remote_read"
    /\ IF ~Merged \/ blocked = "uncertain"
       THEN pc' = "post_path" /\ UNCHANGED blocked
       ELSE \/ Block
            \/ remote = None /\ pc' = "post_path" /\ UNCHANGED blocked
            \/ /\ TipUnchanged
               /\ pc' = "remote_same"
               /\ UNCHANGED blocked
    /\ UNCHANGED <<seen, effect>>
    /\ Looking

RemoteSame ==
    /\ pc = "remote_same"
    /\ \/ SamePullRequest /\ pc' = "push" /\ UNCHANGED blocked
       \/ Block
    /\ UNCHANGED <<seen, effect>>
    /\ Looking

\* git push --force-with-lease with the witnessed OID.
LeaseHolds == remote = remoteOid

Push ==
    /\ Goto("push", "push_read")
    /\ \/ /\ LeaseHolds /\ remote # None
          /\ remote' = None
          /\ taken' = taken \cup {[what |-> "remote", commit |-> remote]}
       \/ UNCHANGED <<remote, taken>>
    /\ UNCHANGED <<tree, local, elsewhere, pr, outside, kent, published, moves, run,
                   seen, outcome>>

PushRead ==
    /\ pc = "push_read"
    /\ \/ remote = None /\ pc' = "post_path" /\ UNCHANGED blocked
       \/ Block
    /\ UNCHANGED <<seen, effect>>
    /\ Looking

-----------------------------------------------------------------------------
(* check_terminal_postconditions, whose answer overrides every blocker.     *)

\* The report of a failed check says "removed" only of an acknowledged deletion.
Failed == IF effect = "completed" THEN "partial" ELSE "unknown"

\* Mutant: a missing path is enough, whatever Git still registers.
PostPathOnly == Check("post_path", path = "gone", "post_record", Failed)

PostPath   == Check("post_path", path = "gone" /\ ~registered, "post_record", Failed)
PostRecord == Check("post_record", RecordSettled, "post_local", Failed)
PostLocal  == Check("post_local", local = None, "post_remote", Failed)
PostRemote == Check("post_remote", remote = IF Published THEN head ELSE None,
                    "post_pr", Failed)
PostPull   == Check("post_pr", (Merged => SamePullRequest) /\ ArchiveHolds,
                    "removed", Failed)

Finish == PostPath \/ PostRecord \/ PostLocal \/ PostRemote \/ PostPull

-----------------------------------------------------------------------------
(* The next run, after a verdict that sends the Task back to Cleanup or     *)
(* after the Script was killed.                                             *)

Rerun ==
    /\ run < MaxRuns
    /\ pc \notin {"preserved", "removed"}
    /\ run' = run + 1
    /\ pc' = "admit"
    /\ head' = None /\ prSeen' = pr /\ remoteOid' = None /\ localOid' = None
    /\ closure' = FALSE
    /\ effect' = "none" /\ blocked' = "no"
    /\ UNCHANGED <<tree, refs, outside, kent, taken, published, moves>>

-----------------------------------------------------------------------------
(* Kent at work, possibly long after the Janitor stopped waiting.           *)

Removing(x) ==
    /\ x \in native
    /\ native' = native \ {x}
    /\ UNCHANGED <<remote, pr, outside, nativeOid, pc, run, seen, outcome,
                   published, moves>>

KentRemovesPath ==
    /\ Removing("path")
    /\ path' = "gone"
    /\ attached' = FALSE /\ dirty' = FALSE
    /\ runtime' = "absent"
    /\ UNCHANGED <<registered, record, local, elsewhere, taken>>

KentRemovesRegistration ==
    /\ "path" \notin native
    /\ Removing("registration")
    /\ registered' = FALSE
    /\ UNCHANGED <<path, record, attached, dirty, runtime, local, elsewhere, taken>>

KentRemovesRecord ==
    /\ "path" \notin native
    /\ Removing("record")
    /\ record' \in {"missing", "absent"}
    /\ UNCHANGED <<path, registered, attached, dirty, runtime, local, elsewhere, taken>>

\* The branch goes only at the tip the request found and if Git lets it go.
KentRemovesBranch ==
    /\ "path" \notin native
    /\ Removing("branch")
    /\ \/ /\ local = nativeOid /\ local # None /\ ~elsewhere
          /\ local' = None
          /\ taken' = taken \cup {[what |-> "local", commit |-> local]}
       \/ UNCHANGED <<local, taken>>
    /\ UNCHANGED <<tree, elsewhere>>

Kent == KentRemovesPath \/ KentRemovesRegistration \/ KentRemovesRecord
            \/ KentRemovesBranch

-----------------------------------------------------------------------------
(* Other people.                                                            *)

Move ==
    /\ moves < MaxMoves
    /\ moves' = moves + 1
    /\ UNCHANGED <<input, kent, pc, run, seen, outcome, taken>>

WorkerCommits ==
    /\ Move
    /\ path = "ours" /\ attached /\ pc \notin Quiet
    /\ \E c \in Commits \ {local} :
          /\ local \in History[c]
          /\ local' = c
    /\ UNCHANGED <<tree, elsewhere, remote, pr, archive, inside, published>>

\* Detaching from the Task branch, or coming back to it.
WorkerSwitches ==
    /\ Move
    /\ path = "ours" /\ pc \notin Quiet
    /\ ~attached => local # None /\ ~elsewhere
    /\ attached' = ~attached
    /\ UNCHANGED <<path, registered, record, dirty, runtime, refs, archive, inside,
                   published>>

WorkerEdits ==
    /\ Move
    /\ path = "ours"
    /\ dirty' = ~dirty
    /\ UNCHANGED <<path, registered, record, attached, runtime, refs, archive, inside,
                   published>>

\* Another Session leaves its material in the worktree's runtime directory.
Reenters ==
    /\ Move
    /\ path = "ours" /\ pc \notin RuntimeQuiet
    /\ runtime' = "foreign"
    /\ UNCHANGED <<path, registered, record, attached, dirty, refs, archive, inside,
                   published>>

SessionMoves ==
    /\ Move
    /\ inside' = ~inside
    /\ UNCHANGED <<tree, refs, archive, published>>

\* A pull request that is not merged follows its branch.
Pushes ==
    /\ Move
    /\ \E tip \in Tips \ {remote} :
          /\ remote' = tip
          /\ pr' = IF pr.merged \/ tip = None THEN pr ELSE [pr EXCEPT !.head = tip]
          /\ published' = IF tip = None THEN published ELSE published \cup {tip}
    /\ UNCHANGED <<tree, local, elsewhere, archive, inside>>

PullRequestMoves ==
    /\ Move
    /\ \/ ~pr.merged /\ remote = pr.head /\ pr' = [pr EXCEPT !.merged = TRUE]
       \/ pr' = [pr EXCEPT !.base = CHOOSE b \in {"target", "other"} : b # pr.base]
    /\ UNCHANGED <<tree, local, elsewhere, remote, archive, inside, published>>

\* The Task branch is moved, created, deleted or checked out from elsewhere.
BranchMoves ==
    /\ Move
    /\ ~(path = "ours" /\ attached)
    /\ local' \in Tips
    /\ elsewhere' \in IF local' = None THEN {FALSE} ELSE BOOLEAN
    /\ UNCHANGED <<tree, remote, pr, archive, inside, published>>

\* Somebody creates another worktree at the same path.
PathReused ==
    /\ Move
    /\ path = "gone" /\ ~registered
    /\ path' = "other" /\ registered' = TRUE
    /\ record' \in IF record = "absent" THEN {"absent", "other"} ELSE {record}
    /\ UNCHANGED <<attached, dirty, runtime, refs, archive, inside, published>>

ArchiveDamaged ==
    /\ Move
    /\ pc \notin RuntimeQuiet
    /\ archive' = FALSE
    /\ UNCHANGED <<tree, refs, inside, published>>

Others == \/ WorkerCommits \/ WorkerSwitches \/ WorkerEdits \/ Reenters
          \/ SessionMoves \/ Pushes \/ PullRequestMoves \/ BranchMoves
          \/ PathReused \/ ArchiveDamaged

Admission == \/ Admit \/ Clean \/ Recover \/ AdmitBranch \/ AdmitRuntime \/ Seal
             \/ Sentinel \/ SessionAway \/ WitnessTip \/ CaptureRecord
             \/ ReadmitRuntime \/ Witness1 \/ Prove1 \/ Identity \/ Witness2 \/ Prove2

Deletion == \/ Native \/ Ack \/ Verify \/ VerifyRecord \/ Same \/ Settle \/ Unref
            \/ UnrefRead \/ RemoteRead \/ RemoteSame \/ Push \/ PushRead

Next == Admission \/ Deletion \/ Finish \/ Rerun \/ Kent \/ Others

Spec == Init /\ [][Next]_vars

-----------------------------------------------------------------------------
(* Properties.                                                              *)

\* Nothing is destroyed that cannot be got back.  Every commit that a removed
\* local or remote branch pointed at is in the merged pull request, or had been
\* published when the mode is not a merge (main 4183-4251, settle_local_branch);
\* and Kent is asked to remove a worktree only when its runtime directory holds
\* no foreign material and no evidence that should have been retained first
\* (_admit_managed_runtime_parent, _prepare_v2_managed_runtime_state).
NothingLost ==
    \A t \in taken :
       IF t.what = "runtime"
       THEN /\ t.holds \in {"absent", "legacy", "sentinel"}
            /\ input.declared /\ input.retention => t.kept
       ELSE IF Merged THEN pr.merged /\ t.commit \in History[pr.head]
            ELSE t.commit \in published

\* The remote branch goes last and only unchanged: worktree, Git registration
\* and Kent record are settled before it, it pointed at the head of the merged
\* pull request, and no mode but a merge touches it (main 4546-4784).
RemoteLast ==
    \A t \in taken :
       t.what = "remote" =>
          /\ Merged /\ pr.merged /\ t.commit = pr.head
          /\ path # "ours" /\ record # "registered"
          /\ native \subseteq {"branch"}

\* The verdict says what is so.  "preserved" and "refused" are given only when
\* nothing was requested in this run; a deletion is reported, even next to a
\* blocker, only when the worktree and its record are gone for good; and Done
\* after a deletion means that Git has let go of the worktree, that the work is
\* in the merged pull request or was published, and that Kent has nothing left
\* to do but, at most, a branch that is gone already (main 4469-4512, 4786-4819).
VerdictHonest ==
    /\ pc \in {"preserved", "refused"} => effect = "none"
    /\ pc \in {"partial", "removed"} =>
          path # "ours" /\ record # "registered" /\ native \subseteq {"branch"}
    /\ pc = "removed" =>
          /\ registered => path = "other"
          /\ Merged => pr.merged /\ head \in History[pr.head]
          /\ Published => head \in published
=============================================================================
