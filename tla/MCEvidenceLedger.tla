-------------------------- MODULE MCEvidenceLedger --------------------------
(* The evidence ledger of a Task, for the run about a seal that was        *)
(* answered before it was durable.                                         *)
EXTENDS EvidenceLedger
=============================================================================
