---------------------------- MODULE MCOperations ----------------------------
(***************************************************************************)
(* Three places where processes race for what is on disk, side by side: a   *)
(* journaled effect, the publication and admission of source receipts, and  *)
(* the packets that delivery hands on.  They share no state, so each        *)
(* behaviour is about one of them.                                          *)
(***************************************************************************)
EXTENDS EffectJournal, SourceAdmission, DeliveryPackets, TLC

VARIABLE operation  \* what this behaviour is about

\* The faults that OperationsProofs is about, without another writer.
SafetyFaults == {"crash", "io"}

\* Every version publishes the same extra paths.
Published == [v \in 0 .. MaxVersion |-> Extras]

\* Nothing tells one candidate file from another.
Symmetry == Permutations(Paths)

\* The older receipt covers an extra that the newer one does not yet, or a runtime
\* receipt is installed; the other behaviours keep one of them.
Receipted ==
    LET first == receipts[First]
    IN  /\ first.schema = "source-v1" <=> first.extras # {}
        /\ operation # "sources" => first.schema = "source-v2"

-----------------------------------------------------------------------------
Start ==
    /\ operation \in {"effect", "sources", "delivery"}
    /\ Init
    /\ SourceInit /\ Receipted
    /\ PacketsInit

Effects == operation = "effect" /\ Next /\ UNCHANGED <<operation, sourceVars, packetVars>>
Admits  == operation = "sources" /\ SourceNext /\ UNCHANGED <<operation, vars, packetVars>>
HandsOn == operation = "delivery" /\ PacketsNext /\ UNCHANGED <<operation, vars, sourceVars>>

Operations ==
    Start /\ [][Effects \/ Admits \/ HandsOn]_<<operation, vars, sourceVars, packetVars>>
=============================================================================
