----------------------------- MODULE MCDevices -----------------------------
(***************************************************************************)
(* What Tasks share a device through, side by side: the device lock, the    *)
(* operation of a device under a lease, and the store of the evidence of    *)
(* its runs.  They share no state, so each behaviour is about one of them.  *)
(***************************************************************************)
EXTENDS ResourceLock, DeviceOperation, EvidenceStore, TLC

CONSTANTS s1, s2, s3, p1, a, b

VARIABLE part  \* what this behaviour is about

\* s1 and s2 are Sessions of one Task, s3 of another.
TaskOfTwo == (s1 :> a) @@ (s2 :> a) @@ (s3 :> b)

\* The run r1 exports nothing but its envelope.
WantsOfTwo == [p \in Runs \cup Exporters |->
                  IF p = "r1" THEN {"envelope"} ELSE {"envelope", "artifact"}]

-----------------------------------------------------------------------------
Start ==
    /\ part \in {"lock", "operation", "evidence"}
    /\ Init
    /\ DeviceInit /\ (part # "operation" => kind = "observe")
    /\ StoreInit

Locks    == part = "lock" /\ Next /\ UNCHANGED <<part, deviceVars, storeVars>>
Operates == part = "operation" /\ DeviceNext /\ UNCHANGED <<part, vars, storeVars>>
Retains  == part = "evidence" /\ StoreNext /\ UNCHANGED <<part, vars, deviceVars>>

Devices == Start /\ [][Locks \/ Operates \/ Retains]_<<part, vars, deviceVars, storeVars>>
=============================================================================
