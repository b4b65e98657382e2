------------------------- MODULE WorkflowReconcile -------------------------
(***************************************************************************)
(* _reconcile_canonical_workflows_v2 of workflowkit/operations.py: a live   *)
(* Kent Workflow is moved to a reviewed target in stages (graph, then       *)
(* metadata), each one journaled effect, under a plan whose gates compare   *)
(* the live Workflow and its Task/Session inventory before every new        *)
(* effect.  Later invocations of the same plan settle and continue.         *)
(*                                                                          *)
(* One invocation at a time, none beside a running executor: that is what   *)
(* EffectJournal establishes.  A settlement is EffectContract's Settle.     *)
(***************************************************************************)
EXTENDS Naturals

CONSTANTS
    N,           \* the number of stages of the plan
    Disruptions  \* what this instance lets the environment do

\* "crash": the invocation stops anywhere.   "fail": a stage's command fails.
\* "progress": Tasks and Sessions move.      "stale": evidence files change.
\* "foreign": somebody else edits the Workflow.
ASSUME ReconcileAssumption ==
    /\ N \in Nat
    /\ Disruptions \subseteq {"crash", "fail", "progress", "stale", "foreign"}

Stage   == 1 .. N
Foreign == N + 1     \* an owned image that is none of the plan's

VARIABLES
    progress,   \* journal phase, "none" before the journal exists
    member,     \* member status: 0 prepared, k stage k verified, N + 1 verified
    effects,    \* effects[k]: the journaled effect of stage k
    executor,   \* the stage whose executor is running, 0 if none
    image,      \* the owned Workflow: how many stages it carries, or Foreign
    inventory,  \* the Task/Session/approval inventory is as planned
    fresh,      \* plan check and source admission would succeed
    at,         \* where the invocation is
    stage,      \* stage_index of its loop, from 1
    pending,    \* it took the pending_settlement branch
    report,     \* how the last invocation ended
    native      \* the plan carries native_evidence, fixed

journal == <<progress, member, effects>>
world   == <<image, inventory, fresh>>
local   == <<stage, pending, native>>
reconcileVars ==
    <<progress, member, effects, executor, image, inventory, fresh, at, stage,
      pending, report, native>>

-----------------------------------------------------------------------------
Pending == {"open", "ambiguous", "postimage"}
Reports == {"none", "prepared", "preimage", "postimage", "complete",
            "refused", "unknown_image", "blocked"}

\* Type correctness.
ReconcileTypeOK ==
    /\ progress \in {"none", "prepared", "in_progress", "complete"}
    /\ member \in 0 .. N + 1
    /\ effects \in [Stage -> {"none", "preimage"} \cup Pending]
    /\ executor \in 0 .. N
    /\ image \in 0 .. N + 1
    /\ inventory \in BOOLEAN
    /\ fresh \in BOOLEAN
    /\ at \in {"idle", "prepare", "loop", "settle", "dispatch", "setup",
               "waiting", "record"}
    /\ stage \in 1 .. N + 1
    /\ pending \in BOOLEAN
    /\ report \in Reports
    /\ native \in BOOLEAN

ReconcileInit ==
    /\ progress = "none" /\ member = 0 /\ effects = [k \in Stage |-> "none"]
    /\ executor = 0 /\ image = 0 /\ inventory = TRUE /\ fresh = TRUE
    /\ at = "idle" /\ stage = 1 /\ pending = FALSE /\ report = "none"
    /\ native \in BOOLEAN

Proceed(p) == at' = p

\* The `with` block ends, by a return or by an exception.
Return(r) == at' = "idle" /\ report' = r

\* _canonical_v2_gate with its inventory comparison, on an owned image.
Gate(k) == image = k /\ inventory

-----------------------------------------------------------------------------
\* mode 'prepare'

EnterPrepare ==
    /\ at = "idle"
    /\ executor = 0
    /\ \/ progress # "none" /\ Return("refused")
       \/ progress = "none" /\ ~(Gate(0) /\ fresh) /\ Return("blocked")
       \/ progress = "none" /\ Gate(0) /\ fresh /\ Proceed("prepare") /\ UNCHANGED report
    /\ UNCHANGED <<journal, executor, world, local>>

WritePrepared ==
    /\ at = "prepare"
    /\ progress' = "prepared"
    /\ Return("prepared")
    /\ UNCHANGED <<member, effects, executor, world, local>>

-----------------------------------------------------------------------------
\* mode 'apply'

\* A complete journal is only compared with the live Workflow; any other is
\* persisted as in_progress and its stages are gone through from the first.
EnterApply ==
    /\ at = "idle"
    /\ executor = 0
    /\ \/ /\ progress = "none"
          /\ Return("refused")
          /\ UNCHANGED <<progress, local>>
       \/ /\ progress = "complete"
          /\ Return(IF image = N THEN "complete" ELSE "blocked")
          /\ UNCHANGED <<progress, local>>
       \/ /\ progress \in {"prepared", "in_progress"}
          /\ progress' = "in_progress"
          /\ stage' = 1
          /\ pending' = FALSE
          /\ Proceed("loop")
          /\ UNCHANGED <<report, native>>
    /\ UNCHANGED <<member, effects, executor, world>>

\* Mutant: a stage that was attempted is taken for done.
DoneAttempted(k) == effects[k] # "none"

\* The member has this stage behind it.
Done(k) == member \in {k, N + 1}

SkipStage ==
    /\ at = "loop"
    /\ stage \in Stage
    /\ Done(stage)
    /\ stage' = stage + 1
    /\ UNCHANGED <<journal, executor, world, at, pending, report, native>>

\* Mutant: an attempted effect is expected to have taken place.
ImagesApplied(k) == {k}

\* The images an effect that was attempted may be found at.
Images(k) == IF effects[k] = "postimage" THEN {k} ELSE {k - 1, k}

\* pending_settlement: read back, without the inventory and without evidence.
PendingStage ==
    /\ at = "loop"
    /\ stage \in Stage
    /\ ~Done(stage)
    /\ effects[stage] \in Pending
    /\ IF image \in Images(stage)
       THEN Proceed("settle") /\ pending' = TRUE /\ UNCHANGED report
       ELSE Return("unknown_image") /\ UNCHANGED pending
    /\ UNCHANGED <<journal, executor, world, stage, native>>

\* A new effect needs the exact image before it, the planned inventory, fresh
\* evidence and an admitted source.
NewStage ==
    /\ at = "loop"
    /\ stage \in Stage
    /\ ~Done(stage)
    /\ effects[stage] \notin Pending
    /\ IF Gate(stage - 1) /\ fresh
       THEN Proceed("dispatch") /\ UNCHANGED report
       ELSE Return("blocked")
    /\ UNCHANGED <<journal, executor, world, local>>

\* native evidence is read again before the attempt is persisted.
DispatchStage ==
    /\ at = "dispatch"
    /\ IF native /\ ~(Gate(stage - 1) /\ fresh)
       THEN Return("blocked") /\ UNCHANGED effects
       ELSE /\ effects' = [effects EXCEPT ![stage] = "open"]
            /\ Proceed("setup")
            /\ UNCHANGED report
    /\ UNCHANGED <<progress, member, executor, world, local>>

\* process_pre_release: once more before the child is released.
ReleaseAllowed == native => Gate(stage - 1) /\ fresh

Launch ==
    /\ at = "setup"
    /\ ReleaseAllowed
    /\ executor' = stage
    /\ Proceed("waiting")
    /\ UNCHANGED <<journal, world, local, report>>

\* A refused release or a failed setup: the entry stays open.
SetupFails ==
    /\ at = "setup"
    /\ ~ReleaseAllowed \/ "fail" \in Disruptions
    /\ Return("blocked")
    /\ UNCHANGED <<journal, executor, world, local>>

\* `kent workflow graph apply` and `kent workflow update`: atomic, and from
\* any other image than the one before them they produce none of the plan's.
StageApplies ==
    /\ executor # 0
    /\ image' = IF image = executor - 1 THEN executor ELSE image
    /\ executor' = 0
    /\ UNCHANGED <<journal, inventory, fresh, at, local, report>>

StageFails ==
    /\ "fail" \in Disruptions
    /\ executor # 0
    /\ executor' = 0
    /\ UNCHANGED <<journal, world, at, local, report>>

Verdict(k) ==
    CASE image = k     -> "postimage"
      [] image = k - 1 -> "preimage"
      [] OTHER         -> "ambiguous"

\* _settle_effect, after the wait or as a recovery.
Settle ==
    /\ \/ at = "waiting" /\ executor = 0
       \/ at = "settle" /\ effects[stage] # "postimage"
    /\ effects' = [effects EXCEPT ![stage] = Verdict(stage)]
    /\ CASE image = stage     -> Proceed("record") /\ UNCHANGED report
         [] image = stage - 1 -> Return("preimage")
         [] OTHER             -> Return("blocked")
    /\ UNCHANGED <<progress, member, executor, world, local>>

\* A verified effect is only compared with the live Workflow.
SettleVerified ==
    /\ at = "settle"
    /\ effects[stage] = "postimage"
    /\ IF image = stage THEN Proceed("record") /\ UNCHANGED report
                        ELSE Return("blocked")
    /\ UNCHANGED <<journal, executor, world, local>>

\* Assert the stage's image, persist the member.  A settled native stage
\* ends the invocation, and so does an inventory that moved while another
\* stage is left; the pending branch then falls through to the comparison of
\* the now verified effect.
Record ==
    /\ at = "record"
    /\ IF image # stage
       THEN Return("blocked") /\ UNCHANGED <<member, local>>
       ELSE /\ member' = stage
            /\ CASE pending /\ native -> Return("postimage") /\ UNCHANGED local
                 [] ~native /\ ~inventory /\ stage < N ->
                       Return("postimage") /\ UNCHANGED local
                 [] OTHER ->
                       /\ IF pending THEN Proceed("settle") /\ UNCHANGED stage
                                     ELSE Proceed("loop") /\ stage' = stage + 1
                       /\ pending' = FALSE
                       /\ UNCHANGED <<report, native>>
    /\ UNCHANGED <<progress, effects, executor, world>>

\* Every stage is behind the member: one last full read.
Finish ==
    /\ at = "loop"
    /\ stage = N + 1
    /\ IF Gate(N)
       THEN progress' = "complete" /\ member' = N + 1 /\ Return("complete")
       ELSE Return("blocked") /\ UNCHANGED <<progress, member>>
    /\ UNCHANGED <<effects, executor, world, local>>

-----------------------------------------------------------------------------
\* The environment

Killed ==
    /\ "crash" \in Disruptions
    /\ at # "idle"
    /\ Return("none")
    /\ UNCHANGED <<journal, executor, world, local>>

Outside ==
    /\ \/ "progress" \in Disruptions /\ inventory' = ~inventory /\ UNCHANGED <<image, fresh>>
       \/ "stale" \in Disruptions /\ fresh' = ~fresh /\ UNCHANGED <<image, inventory>>
       \/ "foreign" \in Disruptions /\ image' = Foreign /\ UNCHANGED <<inventory, fresh>>
    /\ UNCHANGED <<journal, executor, at, local, report>>

-----------------------------------------------------------------------------
Apply ==
    \/ SkipStage \/ PendingStage \/ NewStage \/ DispatchStage \/ Launch
    \/ Settle \/ SettleVerified \/ Record \/ Finish

ReconcileNext ==
    \/ EnterPrepare \/ WritePrepared \/ EnterApply \/ Apply \/ SetupFails
    \/ StageApplies \/ StageFails \/ Killed \/ Outside

ReconcileSpec == ReconcileInit /\ [][ReconcileNext]_reconcileVars

-----------------------------------------------------------------------------
\* Correctness

\* Stages are strictly sequential: nothing of stage k is in the journal before
\* every earlier stage was read back at its image, whatever crashes, fails or
\* moves between them.
StagesInOrder ==
    \A k \in Stage : effects[k] # "none" => \A j \in Stage : j < k => effects[j] = "postimage"

\* The journal never claims more than the live Workflow carries, as long as
\* nobody else has edited that.
ClaimsCarried ==
    image # Foreign =>
        /\ \A k \in Stage : effects[k] = "postimage" => image >= k
        /\ member \in Stage => image >= member
        /\ progress = "complete" => image = N

\* Both together: what a resumed invocation reads in the journal is what an
\* earlier one that died has left behind.
JournalHonest == StagesInOrder /\ ClaimsCarried

\* Only a stage that the journal has opened moves the Workflow, and only by
\* one stage: a recovered or repeated apply never skips or redoes one.
OneStageAtATime ==
    [][image' # image => image' = Foreign \/ (image' = image + 1 /\ effects[image'] = "open")]_image

\* A refusal because of an 'unknown Workflow postimage' is given for an image
\* that none of the plan's settled stages explains.
RefusalJustified ==
    report = "unknown_image" =>
        ~(image \in Stage /\ \A k \in 1 .. image : effects[k] = "postimage")

\* From every crash window up to there, repeated applies bring every stage to
\* its image and record it, once Tasks and evidence have settled down.
StagesLand ==
    [](image # Foreign) /\ <>[](inventory /\ fresh) => <>(member >= N)

-----------------------------------------------------------------------------
\* The strengthening that makes the safety properties inductive

\* What the journal says around the stage an invocation is at.
Cursor ==
    /\ at \in {"loop", "settle", "dispatch", "setup", "waiting", "record"} =>
           \A j \in Stage : j < stage => effects[j] = "postimage"
    /\ at \in {"settle", "dispatch", "setup", "waiting", "record"} => stage \in Stage
    /\ at = "settle" => effects[stage] \in Pending
    /\ at = "dispatch" => effects[stage] \notin Pending
    /\ at \in {"setup", "waiting"} => effects[stage] = "open"
    /\ at = "record" => effects[stage] = "postimage"

\* A member status is earned by a settled effect.
Earned ==
    /\ member \in Stage => effects[member] = "postimage"
    /\ member = N + 1 => \A k \in Stage : effects[k] = "postimage"

\* A running executor is the one of an open entry, and nobody else works.
Running ==
    /\ at \notin {"idle", "waiting"} => executor = 0
    /\ at = "waiting" => executor \in {0, stage}
    /\ executor # 0 => effects[executor] = "open"

Strengthening == Cursor /\ Earned /\ Running
=============================================================================
