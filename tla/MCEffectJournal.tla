-------------------------- MODULE MCEffectJournal --------------------------
(* The instance of EffectJournal that TLC examines by itself. *)
EXTENDS EffectJournal
=============================================================================
