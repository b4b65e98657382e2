---------------------------- MODULE ReleaseProofs ----------------------------
(***************************************************************************)
(* Proofs about the two resumable release operations: PrimaryActivation,   *)
(* for every set of prompt prestates and every set of faults, and          *)
(* WorkflowReconcile, for every number of stages.                          *)
(***************************************************************************)
EXTENDS PrimaryActivation, WorkflowReconcile, TLAPS

USE ActivationAssumption, ReconcileAssumption

-----------------------------------------------------------------------------
(* Activation of the primary checkout.                                      *)

\* Every step keeps the types.
LEMMA TypeStep == TypeOK /\ [Next]_vars => TypeOK'
<1> SUFFICES ASSUME TypeOK, [Next]_vars PROVE TypeOK'
    OBVIOUS
<1> USE DEF TypeOK, Phases, Prompts, Checks, Writes, durable, files, fixed, Goto
<1>1. CASE Enter BY <1>1 DEF Enter
<1>2. CASE Refuse BY <1>2 DEF Refuse
<1>3. CASE Prepare BY <1>3 DEF Prepare
<1>4. CASE Dispatch BY <1>4 DEF Dispatch
<1>5. CASE Persist BY <1>5 DEF Persist, Write
<1>6. CASE MergeAttempt BY <1>6 DEF MergeAttempt, Effect!Attempt
<1>7. CASE MergeLaunch BY <1>7 DEF MergeLaunch, Effect!Launch
<1>8. CASE MergeRecover BY <1>8 DEF MergeRecover
<1>9. CASE MergeSettle BY <1>9 DEF MergeSettle, Effect!Settle, Effect!Verdict
<1>10. CASE MergeVerified BY <1>10 DEF MergeVerified
<1>11. CASE Promote BY <1>11 DEF Promote
<1>12. CASE Adopt BY <1>12 DEF Adopt
<1>13. CASE LinkBackup BY <1>13 DEF LinkBackup
<1>14. CASE UnlinkPrompt BY <1>14 DEF UnlinkPrompt
<1>15. CASE LinkPrompt BY <1>15 DEF LinkPrompt
<1>16. CASE Close BY <1>16 DEF Close
<1>17. CASE MergeRaises BY <1>17 DEF MergeRaises
<1>18. CASE MergeBegins BY <1>18 DEF MergeBegins, Effect!Begin
<1>19. CASE MergeEnds
    <2>1. UNCHANGED <<phase, bound, authority, files, pc, mode, fixed>>
        BY <1>19 DEF MergeEnds
    <2>2. ledger' = ledger /\ head' \in {head, "post"}
        BY <1>19 DEF MergeEnds, Effect!Finish, Effect!Abort
    <2>3. live' \in BOOLEAN
        BY <1>19, Zenon DEF MergeEnds, Effect!Finish, Effect!Abort
    <2> QED BY <2>1, <2>2, <2>3
<1>20. CASE Crash BY <1>20 DEF Crash
<1>21. CASE Drift BY <1>21 DEF Drift
<1>22. CASE UNCHANGED vars BY <1>22 DEF vars
<1> QED
    BY <1>1, <1>2, <1>3, <1>4, <1>5, <1>6, <1>7, <1>8, <1>9, <1>10, <1>11,
       <1>12, <1>13, <1>14, <1>15, <1>16, <1>17, <1>18, <1>19, <1>20, <1>21,
       <1>22 DEF Next, Driver

\* Type correctness, for every plan and every fault.
THEOREM TypeCorrect == Spec => []TypeOK
<1>1. ASSUME Init PROVE TypeOK
    <2>1. live \in BOOLEAN /\ drifted \in BOOLEAN BY <1>1, Zenon DEF Init
    <2>2. prestate \in {"absent", "file", "symlink"} /\ prompt \in Prompts
        BY <1>1, ActivationAssumption DEF Init, InitialPrompt, Prompts
    <2> QED BY <1>1, <2>1, <2>2 DEF Init, TypeOK, Phases, Prompts
<1> QED
    BY <1>1, TypeStep, PTL DEF Spec

-----------------------------------------------------------------------------

\* Every step keeps the invocation in step with the durable phase.
LEMMA CustodyStep == TypeOK /\ Custody /\ [Next]_vars => Custody'
<1> SUFFICES ASSUME TypeOK, Custody, [Next]_vars PROVE Custody'
    OBVIOUS
<1> USE DEF TypeOK, Custody, Checks, Writes, durable, files, fixed, Goto, FinalBackup
<1>1. CASE Enter BY <1>1 DEF Enter
<1>2. CASE Refuse BY <1>2 DEF Refuse
<1>3. CASE Prepare BY <1>3 DEF Prepare, At, Passes, Preflight
<1>4. CASE Dispatch BY <1>4 DEF Dispatch, At, Passes
<1>5. CASE Persist BY <1>5 DEF Persist, Write
<1>6. CASE MergeAttempt BY <1>6 DEF MergeAttempt, Effect!Attempt, At
<1>7. CASE MergeLaunch BY <1>7 DEF MergeLaunch, Effect!Launch
<1>8. CASE MergeRecover BY <1>8 DEF MergeRecover, At
<1>9. CASE MergeSettle BY <1>9 DEF MergeSettle, Effect!Settle, Effect!Verdict
<1>10. CASE MergeVerified BY <1>10 DEF MergeVerified, At
<1>11. CASE Promote BY <1>11 DEF Promote, At
<1>12. CASE Adopt BY <1>12 DEF Adopt, At, Passes
<1>13. CASE LinkBackup BY <1>13 DEF LinkBackup, At
<1>14. CASE UnlinkPrompt BY <1>14 DEF UnlinkPrompt, At
<1>15. CASE LinkPrompt BY <1>15 DEF LinkPrompt, At
<1>16. CASE Close BY <1>16 DEF Close, At, Passes, Prepared, Preflight, FilesIn, Pairs
<1>17. CASE MergeRaises BY <1>17 DEF MergeRaises
<1>18. CASE MergeBegins BY <1>18 DEF MergeBegins, Effect!Begin
<1>19. CASE MergeEnds BY <1>19 DEF MergeEnds, Effect!Finish, Effect!Abort
<1>20. CASE Crash BY <1>20 DEF Crash
<1>21. CASE Drift BY <1>21 DEF Drift
<1>22. CASE UNCHANGED vars BY <1>22 DEF vars
<1> QED
    BY <1>1, <1>2, <1>3, <1>4, <1>5, <1>6, <1>7, <1>8, <1>9, <1>10, <1>11, <1>12, <1>13,
      <1>14, <1>15, <1>16, <1>17, <1>18, <1>19, <1>20, <1>21, <1>22 DEF Next, Driver

\* No step touches the backup once the adoption is recorded.
LEMMA BackupStep ==
    TypeOK /\ Custody /\ AdoptedHasBackup /\ [Next]_vars => AdoptedHasBackup'
<1> SUFFICES ASSUME TypeOK, Custody, AdoptedHasBackup, [Next]_vars
             PROVE  AdoptedHasBackup'
    OBVIOUS
<1> USE DEF Custody, AdoptedHasBackup, durable, files, fixed, FinalBackup
<1>1. CASE Enter BY <1>1 DEF Enter
<1>2. CASE Refuse BY <1>2 DEF Refuse
<1>3. CASE Prepare BY <1>3 DEF Prepare, At, Passes, Preflight
<1>4. CASE Dispatch BY <1>4 DEF Dispatch, At, Passes
<1>5. CASE Persist BY <1>5 DEF Persist, Write
<1>6. CASE MergeAttempt BY <1>6 DEF MergeAttempt, Effect!Attempt, At
<1>7. CASE MergeLaunch BY <1>7 DEF MergeLaunch, Effect!Launch
<1>8. CASE MergeRecover BY <1>8 DEF MergeRecover, At
<1>9. CASE MergeSettle BY <1>9 DEF MergeSettle, Effect!Settle, Effect!Verdict
<1>10. CASE MergeVerified BY <1>10 DEF MergeVerified, At
<1>11. CASE Promote BY <1>11 DEF Promote, At
<1>12. CASE Adopt BY <1>12 DEF Adopt, At
<1>13. CASE LinkBackup BY <1>13 DEF LinkBackup, At
<1>14. CASE UnlinkPrompt BY <1>14 DEF UnlinkPrompt, At
<1>15. CASE LinkPrompt BY <1>15 DEF LinkPrompt, At
<1>16. CASE Close BY <1>16 DEF Close, At
<1>17. CASE MergeRaises BY <1>17 DEF MergeRaises
<1>18. CASE MergeBegins BY <1>18 DEF MergeBegins, Effect!Begin
<1>19. CASE MergeEnds BY <1>19 DEF MergeEnds, Effect!Finish, Effect!Abort
<1>20. CASE Crash BY <1>20 DEF Crash
<1>21. CASE Drift BY <1>21 DEF Drift
<1>22. CASE UNCHANGED vars BY <1>22 DEF vars
<1> QED
    BY <1>1, <1>2, <1>3, <1>4, <1>5, <1>6, <1>7, <1>8, <1>9, <1>10, <1>11,
       <1>12, <1>13, <1>14, <1>15, <1>16, <1>17, <1>18, <1>19, <1>20, <1>21, <1>22 DEF Next, Driver

\* The three invariants that hold whatever the environment does.
LEMMA GeneralCorrect == Spec => [](TypeOK /\ Custody /\ AdoptedHasBackup)
<1>1. Init => Custody /\ AdoptedHasBackup
    BY DEF Init, Custody, AdoptedHasBackup
<1> QED
    BY <1>1, TypeCorrect, CustodyStep, BackupStep, PTL DEF Spec

\* A rolled back activation attempted nothing and left no backup.
THEOREM RolledBackCorrect == Spec => []RolledBackUntouched
<1>1. TypeOK /\ Custody => RolledBackUntouched
    BY DEF TypeOK, Custody, RolledBackUntouched
<1> QED
    BY <1>1, GeneralCorrect, PTL

\* An adoption is recorded over an exact backup only, even under drift.
THEOREM BackupCorrect == Spec => []AdoptedHasBackup
BY GeneralCorrect, PTL

-----------------------------------------------------------------------------
\* As long as nobody interferes

\* Every step advances checkout and files in the order of the phases.
LEMMA ProgressStep ==
    ASSUME TypeOK, Custody, PhaseHonest, Progress, [Next]_vars
    PROVE  PhaseHonest' /\ Progress'
<1> USE DEF TypeOK, Custody, PhaseHonest, Progress, Checks, Writes,
            Phases, durable, files, fixed, Goto, FinalBackup, InitialPrompt, FilesIn, Pairs
<1>1. CASE Enter BY <1>1 DEF Enter
<1>2. CASE Refuse BY <1>2 DEF Refuse
<1>3. CASE Prepare BY <1>3 DEF Prepare
<1>4. CASE Dispatch BY <1>4 DEF Dispatch, At, Passes, Prepared, Preflight
<1>5. CASE Persist BY <1>5 DEF Persist, Write
<1>6. CASE MergeAttempt BY <1>6 DEF MergeAttempt, Effect!Attempt, At, Passes, Prepared,
     Preflight
<1>7. CASE MergeLaunch BY <1>7 DEF MergeLaunch, Effect!Launch
<1>8. CASE MergeRecover BY <1>8 DEF MergeRecover, At
<1>9. CASE MergeSettle BY <1>9 DEF MergeSettle, Effect!Settle, Effect!Verdict
<1>10. CASE MergeVerified BY <1>10 DEF MergeVerified, At, Passes
<1>11. CASE Promote BY <1>11 DEF Promote, At, Passes, Prepared, Preflight
<1>12. CASE Adopt
    <2>1. pc = "adopt" /\ phase = "primary_promoted" /\ UNCHANGED <<durable, head, files, fixed>>
        BY <1>12 DEF Adopt, At
    <2>2. CASE prestate = "file"
        <3>1. CASE prompt = "file" /\ backup = "absent" BY <1>12, <2>1, <2>2, <3>1 DEF Adopt
        <3>2. CASE prompt = "file" /\ backup = "file" BY <1>12, <2>1, <2>2, <3>2 DEF Adopt
        <3>3. CASE prompt = "absent" /\ backup = "file" BY <1>12, <2>1, <2>2, <3>3 DEF Adopt
        <3>4. CASE prompt = "link" /\ backup = "file" BY <1>12, <2>1, <2>2, <3>4 DEF Adopt
        <3>5. CASE drifted BY <2>1, <3>5
        <3> QED BY <2>1, <2>2, <3>1, <3>2, <3>3, <3>4, <3>5
    <2>3. CASE prestate # "file" BY <1>12, <2>1, <2>3 DEF Adopt
    <2> QED BY <2>2, <2>3
<1>13. CASE LinkBackup BY <1>13 DEF LinkBackup, At
<1>14. CASE UnlinkPrompt BY <1>14 DEF UnlinkPrompt, At
<1>15. CASE LinkPrompt BY <1>15 DEF LinkPrompt, At
<1>16. CASE Close BY <1>16 DEF Close, At, Passes, Prepared, Preflight
<1>17. CASE MergeRaises BY <1>17 DEF MergeRaises
<1>18. CASE MergeBegins BY <1>18 DEF MergeBegins, Effect!Begin
<1>19. CASE MergeEnds BY <1>19 DEF MergeEnds, Effect!Finish, Effect!Abort
<1>20. CASE Crash BY <1>20 DEF Crash
<1>21. CASE Drift BY <1>21 DEF Drift
<1>22. CASE UNCHANGED vars BY <1>22 DEF vars
<1> QED
    BY <1>1, <1>2, <1>3, <1>4, <1>5, <1>6, <1>7, <1>8, <1>9, <1>10, <1>11,
       <1>12, <1>13, <1>14, <1>15, <1>16, <1>17, <1>18, <1>19, <1>20, <1>21, <1>22 DEF Next, Driver

LEMMA HonestInv ==
    Spec => [](PhaseHonest /\ Progress)
<1>1. Init => PhaseHonest /\ Progress
    BY DEF Init, PhaseHonest, Progress, FilesIn, Pairs, InitialPrompt
<1>2. TypeOK /\ Custody /\ PhaseHonest /\ Progress /\ [Next]_vars => PhaseHonest' /\ Progress'
    BY ProgressStep
<1> QED
    BY <1>1, <1>2, GeneralCorrect, PTL DEF Spec

\* Crashes and torn merges never leave a phase that claims more than was done.
THEOREM HonestCorrect == Spec => []PhaseHonest
BY HonestInv, PTL

\* The reviewed prompt is at one of its two names at every instant.
THEOREM PreservedCorrect == Spec => []PromptPreserved
<1>1. ASSUME TypeOK, Custody, PhaseHonest, Progress PROVE PromptPreserved
    <2> SUFFICES ASSUME ~drifted, prestate = "file" PROVE "file" \in {prompt, backup}
        BY DEF PromptPreserved
    <2>1. FilesIn("baseline") \/ FilesIn("promoted") \/ FilesIn("final")
        BY <1>1 DEF PhaseHonest, TypeOK, Phases
    <2> QED
        BY <2>1 DEF FilesIn, Pairs, InitialPrompt, FinalBackup
<1> QED
    BY <1>1, GeneralCorrect, HonestInv, PTL

\* What a resumed invocation concludes from the phase and the files it finds is
\* true, whoever was killed or interfered before.
THEOREM RecordCorrect == Spec => []RecordHonest
<1>1. PhaseHonest /\ RolledBackUntouched /\ AdoptedHasBackup => RecordHonest
    BY DEF RecordHonest
<1> QED
    BY <1>1, HonestCorrect, RolledBackCorrect, BackupCorrect, PTL

-----------------------------------------------------------------------------
(* Reconciliation of a live Workflow.                                       *)

\* Every step keeps the types; the cursor keeps the stage within the plan.
LEMMA ReconcileTypeStep ==
    ReconcileTypeOK /\ Cursor /\ [ReconcileNext]_reconcileVars => ReconcileTypeOK'
<1> SUFFICES ASSUME ReconcileTypeOK, Cursor, [ReconcileNext]_reconcileVars
             PROVE  ReconcileTypeOK'
    OBVIOUS
<1> USE DEF ReconcileTypeOK, Stage, Foreign, Pending, Reports, journal, world, local, Proceed,
     Return
<1>1. CASE EnterPrepare BY <1>1 DEF EnterPrepare
<1>2. CASE WritePrepared BY <1>2 DEF WritePrepared
<1>3. CASE EnterApply
    <2>1. pending' \in BOOLEAN /\ native' \in BOOLEAN
        BY <1>3, Zenon DEF EnterApply, local, ReconcileTypeOK
    <2>2. stage' \in 1 .. N + 1 /\ progress' \in {progress, "in_progress"}
          /\ at' \in {"idle", "loop"} /\ report' \in Reports
        BY <1>3 DEF EnterApply
    <2> QED BY <1>3, <2>1, <2>2 DEF EnterApply
<1>4. CASE SkipStage BY <1>4 DEF SkipStage
<1>5. CASE PendingStage BY <1>5 DEF PendingStage
<1>6. CASE NewStage BY <1>6 DEF NewStage
<1>7. CASE DispatchStage BY <1>7 DEF DispatchStage
<1>8. CASE Launch BY <1>8 DEF Launch, Cursor
<1>9. CASE Settle BY <1>9 DEF Settle, Verdict
<1>10. CASE SettleVerified BY <1>10 DEF SettleVerified
<1>11. CASE Record
    <2>1. pending' \in BOOLEAN /\ native' \in BOOLEAN
        BY <1>11, Zenon DEF Record, local, ReconcileTypeOK
    <2>2. stage' \in 1 .. N + 1 /\ member' \in 0 .. N + 1 BY <1>11 DEF Record, Cursor
    <2>3. at' \in {"idle", "settle", "loop"} /\ report' \in Reports BY <1>11 DEF Record
    <2> QED BY <1>11, <2>1, <2>2, <2>3 DEF Record
<1>12. CASE Finish BY <1>12 DEF Finish
<1>13. CASE SetupFails BY <1>13 DEF SetupFails
<1>14. CASE StageApplies BY <1>14 DEF StageApplies
<1>15. CASE StageFails BY <1>15 DEF StageFails
<1>16. CASE Killed BY <1>16 DEF Killed
<1>17. CASE Outside
    <2>1. inventory' \in BOOLEAN /\ fresh' \in BOOLEAN BY <1>17, Zenon DEF Outside,
         ReconcileTypeOK
    <2>2. image' \in 0 .. N + 1 BY <1>17 DEF Outside
    <2> QED BY <1>17, <2>1, <2>2 DEF Outside
<1>18. CASE UNCHANGED reconcileVars BY <1>18 DEF reconcileVars
<1> QED
    BY <1>1, <1>2, <1>3, <1>4, <1>5, <1>6, <1>7, <1>8, <1>9, <1>10, <1>11,
       <1>12, <1>13, <1>14, <1>15, <1>16, <1>17, <1>18 DEF ReconcileNext, Apply

-----------------------------------------------------------------------------

\* The cursor of an invocation, the member status and the executor agree with
\* the journaled effects, and those are in order.
LEMMA OrderStep ==
    ReconcileTypeOK /\ StagesInOrder /\ Strengthening /\ [ReconcileNext]_reconcileVars
        => StagesInOrder' /\ Strengthening'
<1> SUFFICES ASSUME ReconcileTypeOK, StagesInOrder, Strengthening, [ReconcileNext]_reconcileVars
             PROVE  StagesInOrder' /\ Strengthening'
    OBVIOUS
<1> USE DEF ReconcileTypeOK, StagesInOrder, Strengthening, Cursor, Earned, Running, Stage,
            Foreign, Pending, journal, world, local, Proceed, Return
<1>1. CASE EnterPrepare BY <1>1 DEF EnterPrepare
<1>2. CASE WritePrepared BY <1>2 DEF WritePrepared
<1>3. CASE EnterApply BY <1>3 DEF EnterApply
<1>4. CASE SkipStage BY <1>4 DEF SkipStage, Done
<1>5. CASE PendingStage BY <1>5 DEF PendingStage
<1>6. CASE NewStage BY <1>6 DEF NewStage
<1>7. CASE DispatchStage BY <1>7 DEF DispatchStage
<1>8. CASE Launch BY <1>8 DEF Launch
<1>9. CASE Settle BY <1>9 DEF Settle, Verdict
<1>10. CASE SettleVerified BY <1>10 DEF SettleVerified
<1>11. CASE Record BY <1>11 DEF Record
<1>12. CASE Finish BY <1>12 DEF Finish
<1>13. CASE SetupFails BY <1>13 DEF SetupFails
<1>14. CASE StageApplies BY <1>14 DEF StageApplies
<1>15. CASE StageFails BY <1>15 DEF StageFails
<1>16. CASE Killed BY <1>16 DEF Killed
<1>17. CASE Outside BY <1>17 DEF Outside
<1>18. CASE UNCHANGED reconcileVars BY <1>18 DEF reconcileVars
<1> QED
    BY <1>1, <1>2, <1>3, <1>4, <1>5, <1>6, <1>7, <1>8, <1>9, <1>10, <1>11,
       <1>12, <1>13, <1>14, <1>15, <1>16, <1>17, <1>18 DEF ReconcileNext, Apply

\* The inductive invariant.
LEMMA ReconcileGeneralCorrect ==
    ReconcileSpec => [](ReconcileTypeOK /\ StagesInOrder /\ Strengthening)
<1>1. ReconcileInit => ReconcileTypeOK
    <2> SUFFICES ASSUME ReconcileInit PROVE ReconcileTypeOK
        OBVIOUS
    <2>1. inventory \in BOOLEAN /\ fresh \in BOOLEAN /\ pending \in BOOLEAN /\ native \in BOOLEAN
        BY Zenon DEF ReconcileInit
    <2> QED BY <2>1 DEF ReconcileInit, ReconcileTypeOK, Stage, Pending, Reports
<1>2. ReconcileInit => StagesInOrder /\ Strengthening
    BY DEF ReconcileInit, StagesInOrder, Strengthening, Cursor, Earned, Running, Stage
<1>3. ReconcileTypeOK /\ StagesInOrder /\ Strengthening /\ [ReconcileNext]_reconcileVars => ReconcileTypeOK'
    BY ReconcileTypeStep DEF Strengthening
<1> QED
    BY <1>1, <1>2, <1>3, OrderStep, PTL DEF ReconcileSpec

\* Type correctness, for every plan and every fault.
THEOREM ReconcileTypeCorrect == ReconcileSpec => []ReconcileTypeOK
BY ReconcileGeneralCorrect, PTL

\* No stage is attempted before the earlier ones were read back, whatever
\* crashes, fails or moves.
THEOREM OrderCorrect == ReconcileSpec => []StagesInOrder
BY ReconcileGeneralCorrect, PTL

\* Only an open stage moves the Workflow, and by one stage.
THEOREM OneStageCorrect == ReconcileSpec => OneStageAtATime
<1>1. ReconcileTypeOK /\ Strengthening /\ [ReconcileNext]_reconcileVars =>
          [image' # image => image' = Foreign \/ (image' = image + 1 /\ effects[image'] = "open")]_image
    <2> SUFFICES ASSUME ReconcileTypeOK, Strengthening, [ReconcileNext]_reconcileVars, image' # image
                 PROVE  image' = Foreign \/ (image' = image + 1 /\ effects[image'] = "open")
        OBVIOUS
    <2>1. StageApplies \/ Outside
        BY DEF ReconcileNext, Apply, reconcileVars, world, EnterPrepare, WritePrepared,
          EnterApply, SkipStage,
               PendingStage, NewStage, DispatchStage, Launch, Settle, SettleVerified, Record,
               Finish, SetupFails, StageFails, Killed
    <2>2. CASE StageApplies
        BY <2>2 DEF StageApplies, ReconcileTypeOK, Strengthening, Running
    <2>3. CASE Outside BY <2>3 DEF Outside
    <2> QED BY <2>1, <2>2, <2>3
<1> QED
    BY <1>1, ReconcileGeneralCorrect, PTL DEF ReconcileSpec, OneStageAtATime

-----------------------------------------------------------------------------
\* What the journal claims of the Workflow

\* What the journal claims, the Workflow carries; it only moves forward.
LEMMA CarriedStep ==
    ASSUME ReconcileTypeOK, Strengthening, ClaimsCarried, [ReconcileNext]_reconcileVars
    PROVE  ClaimsCarried'
<1> USE DEF ReconcileTypeOK, Strengthening, Cursor, Earned, Running, ClaimsCarried, Stage,
            Foreign, Pending, journal, world, local, Proceed, Return
<1>1. CASE EnterPrepare BY <1>1 DEF EnterPrepare
<1>2. CASE WritePrepared BY <1>2 DEF WritePrepared
<1>3. CASE EnterApply BY <1>3 DEF EnterApply
<1>4. CASE SkipStage BY <1>4 DEF SkipStage
<1>5. CASE PendingStage BY <1>5 DEF PendingStage
<1>6. CASE NewStage BY <1>6 DEF NewStage
<1>7. CASE DispatchStage BY <1>7 DEF DispatchStage
<1>8. CASE Launch BY <1>8 DEF Launch
<1>9. CASE Settle BY <1>9 DEF Settle, Verdict
<1>10. CASE SettleVerified BY <1>10 DEF SettleVerified
<1>11. CASE Record BY <1>11 DEF Record
<1>12. CASE Finish BY <1>12 DEF Finish, Gate
<1>13. CASE SetupFails BY <1>13 DEF SetupFails
<1>14. CASE StageApplies BY <1>14 DEF StageApplies
<1>15. CASE StageFails BY <1>15 DEF StageFails
<1>16. CASE Killed BY <1>16 DEF Killed
<1>17. CASE Outside BY <1>17 DEF Outside
<1>18. CASE UNCHANGED reconcileVars BY <1>18 DEF reconcileVars
<1> QED
    BY <1>1, <1>2, <1>3, <1>4, <1>5, <1>6, <1>7, <1>8, <1>9, <1>10, <1>11,
       <1>12, <1>13, <1>14, <1>15, <1>16, <1>17, <1>18 DEF ReconcileNext, Apply

\* The journal never runs ahead of the Workflow.
THEOREM CarriedCorrect == ReconcileSpec => []ClaimsCarried
<1>1. ReconcileInit => ClaimsCarried
    BY DEF ReconcileInit, ClaimsCarried, Stage
<1>2. ReconcileTypeOK /\ Strengthening /\ ClaimsCarried /\ [ReconcileNext]_reconcileVars => ClaimsCarried'
    BY CarriedStep
<1> QED
    BY <1>1, <1>2, ReconcileGeneralCorrect, PTL DEF ReconcileSpec

\* What a resumed invocation reads in the journal is what an earlier one left
\* behind, whatever crashes, fails or moves.
THEOREM JournalCorrect == ReconcileSpec => []JournalHonest
<1>1. StagesInOrder /\ ClaimsCarried => JournalHonest
    BY DEF JournalHonest
<1> QED
    BY <1>1, OrderCorrect, CarriedCorrect, PTL
=============================================================================
