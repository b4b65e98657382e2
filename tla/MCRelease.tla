----------------------------- MODULE MCRelease -----------------------------
(***************************************************************************)
(* Two release operations side by side: activation of the primary checkout *)
(* and reconciliation of a live Workflow.  They share no state, so each     *)
(* behaviour is about one of them.                                          *)
(***************************************************************************)
EXTENDS PrimaryActivation, WorkflowReconcile

VARIABLE operation  \* what this behaviour is about

\* Every plan the validator of activations admits.
AllPrestates == {"absent", "file", "symlink"}

\* Everything that can go wrong around an activation and a plan.
AllFaults == {"crash", "torn", "drift"}
AllDisruptions == {"crash", "fail", "progress", "stale", "foreign"}

-----------------------------------------------------------------------------
Either ==
    /\ operation \in {"activate", "reconcile"}
    /\ Init /\ (operation # "activate" => prestate = "absent")
    /\ ReconcileInit /\ (operation # "reconcile" => ~native)

all == <<operation, vars, reconcileVars>>

\* A step of the one operation, or of the other.
Of(A, R) == \/ operation = "activate" /\ A /\ UNCHANGED <<operation, reconcileVars>>
            \/ operation = "reconcile" /\ R /\ UNCHANGED <<operation, vars>>

Activates  == operation = "activate" /\ Next /\ UNCHANGED <<operation, reconcileVars>>
Reconciles == operation = "reconcile" /\ ReconcileNext /\ UNCHANGED <<operation, vars>>

Operations == Either /\ [][Activates \/ Reconciles]_all

\* The operator prepares and applies until it is done, and no crash, failing
\* command or failing merge cuts off the same step for ever.  Actions of
\* different phases, and those that happen once, share a formula: only
\* progress lets the one follow the other.
FairOperations ==
    /\ Operations
    /\ WF_all(Of(Driver, Apply \/ SetupFails))
    /\ WF_all(Of(MergeRaises, FALSE))
    /\ WF_all(Of(MergeEnds, StageApplies \/ StageFails))
    /\ SF_all(Of(Enter /\ mode' = "apply", EnterApply))
    /\ SF_all(Of(Dispatch /\ mode = "apply", DispatchStage))
    /\ SF_all(Of(Persist, WritePrepared \/ StageApplies \/ Record))
    /\ SF_all(Of(Prepare \/ MergeAttempt \/ Adopt, NewStage))
    /\ SF_all(Of(MergeLaunch \/ LinkBackup \/ UnlinkPrompt \/ LinkPrompt, PendingStage))
    /\ SF_all(Of(MergeBegins \/ Close, Launch))
    /\ SF_all(Of(MergeSettle, SkipStage))
    /\ SF_all(Of(MergeRecover \/ MergeVerified, EnterPrepare))
    /\ SF_all(Of(Promote, Settle \/ SettleVerified \/ Finish))

-----------------------------------------------------------------------------
\* Repeated applies of an activation finish it.
ActivationCompletes == operation = "activate" => Completes

\* Repeated applies of a reconciliation bring every stage to its image.
ReconciliationLands == operation = "reconcile" => StagesLand
=============================================================================
