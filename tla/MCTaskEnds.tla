---------------------------- MODULE MCTaskEnds ----------------------------
(***************************************************************************)
(* The end of a Task, from two sides: the cleanup of its worktree, and the  *)
(* ledger of its evidence up to the bundle that outlives the worktree.      *)
(* They share no state here, so each behaviour is about one of them.        *)
(***************************************************************************)
EXTENDS Janitor, EvidenceLedger

VARIABLE part       \* what this behaviour is about

-----------------------------------------------------------------------------
(* Cleanup: two commits in a row; a pull request that was merged, a branch  *)
(* that was only published, and a pull request closed without merge.        *)

TwoCommits == {"base", "next"}

LinearHistory == [c \in TwoCommits |-> {"base", c}]

Task(mode, declared, supported, retention) ==
    [mode |-> mode, declared |-> declared, supported |-> supported,
     retention |-> retention]

SomeTasks == {Task("merged", TRUE, TRUE, TRUE), Task("published", TRUE, TRUE, FALSE),
              Task("closed", TRUE, FALSE, TRUE)}

-----------------------------------------------------------------------------
\* What a behaviour is not about keeps one initial value.
OneTask ==
    /\ input = Task("merged", TRUE, TRUE, TRUE) /\ runtime = "absent"
    /\ local = "base" /\ remote = "base"
    /\ pr = [merged |-> FALSE, base |-> "target", head |-> "base"]

Start ==
    /\ part \in {"cleanup", "evidence"}
    /\ Init /\ (part # "cleanup" => OneTask)
    /\ LedgerInit

Cleans  == part = "cleanup" /\ Next /\ UNCHANGED <<part, ledgerVars>>
Keeps   == part = "evidence" /\ LedgerNext /\ UNCHANGED <<part, vars>>

TaskEnds == Start /\ [][Cleans \/ Keeps]_<<part, vars, ledgerVars>>
=============================================================================
