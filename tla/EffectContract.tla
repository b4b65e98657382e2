--------------------------- MODULE EffectContract ---------------------------
(***************************************************************************)
(* What a journaled effect promises its callers: the ledger is opened      *)
(* before anything runs, at most one executor moves the target, and the    *)
(* ledger is closed only on a readback taken while nothing runs.           *)
(* EffectJournal implements it; PrimaryActivation and WorkflowReconcile    *)
(* are built on it.                                                        *)
(***************************************************************************)
VARIABLES
    ledger,   \* what the journal says of the effect
    live,     \* an executor is running
    target    \* the state that the effect moves

cvars == <<ledger, live, target>>

Targets == {"pre", "mid", "post", "other"}

ContractInit == ledger = "none" /\ live = FALSE /\ target = "pre"

\* A first attempt, or a retry of one that settled at the preimage.
Attempt ==
    /\ ledger \in {"none", "preimage"}
    /\ ledger' = "open"
    /\ UNCHANGED <<live, target>>

Launch ==
    /\ ledger = "open"
    /\ ~live
    /\ live' = TRUE
    /\ UNCHANGED <<ledger, target>>

Begin ==
    /\ live
    /\ target = "pre"
    /\ target' = "mid"
    /\ UNCHANGED <<ledger, live>>

Finish ==
    /\ live
    /\ target = "mid"
    /\ target' = "post"
    /\ live' = FALSE
    /\ UNCHANGED ledger

\* The executor ends without reaching the postimage.
Abort ==
    /\ live
    /\ live' = FALSE
    /\ UNCHANGED <<ledger, target>>

Verdict(t) ==
    CASE t = "pre" -> "preimage" [] t = "post" -> "postimage" [] OTHER -> "ambiguous"

Settle ==
    /\ ledger \in {"open", "ambiguous"}
    /\ ~live
    /\ ledger' = Verdict(target)
    /\ UNCHANGED <<live, target>>

ContractNext == Attempt \/ Launch \/ Begin \/ Finish \/ Abort \/ Settle

ContractSpec == ContractInit /\ [][ContractNext]_cvars
=============================================================================
