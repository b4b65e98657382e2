------------------------ MODULE McpInvocationProofs ------------------------
(***************************************************************************)
(* Proofs about McpInvocation, for any number of client processes,          *)
(* invocation ids and contents.                                             *)
(***************************************************************************)
EXTENDS McpInvocation, TLAPS

USE InvocationAssumption DEF Starts, Outcomes, Kinds

\* Every step keeps the types; what is stored is a content.
LEMMA TypeStep ==
    InvocationTypeOK /\ Stored /\ [InvocationNext]_invocationVars => InvocationTypeOK'
<1> SUFFICES ASSUME InvocationTypeOK, Stored, [InvocationNext]_invocationVars
             PROVE  InvocationTypeOK'
    OBVIOUS
<1> USE DEF InvocationTypeOK, store, Goto, UnlockInvocation, Starts, Outcomes, Kinds,
     SchemaKinds
<1>1. ASSUME NEW c \in Client, Begin(c) PROVE InvocationTypeOK'
    <2>1. State(c) \in {"unknown", "finished", "conflict"}
        BY DEF State
    <2>2. /\ where' = [where EXCEPT ![c] = "starting"] \/ where' = [where EXCEPT ![c] = "done"]
          /\ lock' = [lock EXCEPT ![InvOf[c]] = c] \/ lock' = lock
          /\ told' = [told EXCEPT ![c] = State(c)] \/ told' = told
          /\ UNCHANGED <<kind, started, finished, objects, cache, called, result>>
        BY <1>1 DEF Begin
    <2>3. lock' \in [Invocation -> Client \cup {Nothing}]
        BY <2>2
    <2>4. told' \in [Client -> {"nothing", "unknown", "finished", "conflict", "output"}]
        BY <2>1, <2>2
    <2>5. where' \in [Client -> {"begin", "starting", "lookup", "call", "put",
                              "publish", "finish", "report", "done"}]
        BY <2>2
    <2> QED BY <2>2, <2>3, <2>4, <2>5
<1>2. ASSUME NEW c \in Client, WriteStarted(c) PROVE InvocationTypeOK'
    <2>1. [owner |-> c, request |-> kind[c]] \in Starts
        OBVIOUS
    <2> QED BY <1>2, <2>1 DEF WriteStarted
<1>3. ASSUME NEW c \in Client, Lookup(c) PROVE InvocationTypeOK'
    <2>1. CASE cache = Nothing BY <1>3, <2>1 DEF Lookup
    <2>2. CASE cache # Nothing
        <3>1. [ok |-> TRUE, object |-> cache] \in Outcomes
            BY <2>2
        <3>2. result' = [result EXCEPT ![c] = [ok |-> TRUE, object |-> cache]]
            BY <1>3, <2>2 DEF Lookup
        <3>3. result' \in [Client -> Outcomes]
            BY <3>1, <3>2, Zenon
        <3>4. where' = [where EXCEPT ![c] = "finish"] /\ UNCHANGED <<kind, store, called, told>>
            BY <1>3, <2>2 DEF Lookup
        <3> QED BY <3>3, <3>4
    <2> QED BY <2>1, <2>2
<1>4. ASSUME NEW c \in Client, Call(c) PROVE InvocationTypeOK'
    <2>1. called' \in [Client -> BOOLEAN]
        BY <1>4, Zenon DEF Call
    <2>2. PICK r \in Outcomes :
              /\ result' = [result EXCEPT ![c] = r]
              /\ where' = [where EXCEPT ![c] = IF r.object = Nothing THEN "finish" ELSE "put"]
        BY <1>4 DEF Call, AfterCall
    <2>3. UNCHANGED <<kind, store, told>>
        BY <1>4 DEF Call
    <2> QED BY <2>1, <2>2, <2>3
<1>5. ASSUME NEW c \in Client, PutObject(c) PROVE InvocationTypeOK'
    <2>1. result[c].object \in Content
        BY <1>5 DEF PutObject, Stored
    <2> QED BY <1>5, <2>1 DEF PutObject
<1>6. ASSUME NEW c \in Client, Publish(c) PROVE InvocationTypeOK'
    BY <1>6 DEF Publish
<1>7. ASSUME NEW c \in Client, Finish(c) PROVE InvocationTypeOK'
    BY <1>7 DEF Finish
<1>8. ASSUME NEW c \in Client, Report(c) PROVE InvocationTypeOK'
    BY <1>8 DEF Report
<1>9. ASSUME NEW c \in Client, Stop(c) PROVE InvocationTypeOK'
    BY <1>9 DEF Stop
<1>10. CASE UNCHANGED invocationVars BY <1>10 DEF invocationVars
<1> QED
    BY <1>1, <1>2, <1>3, <1>4, <1>5, <1>6, <1>7, <1>8, <1>9, <1>10 DEF InvocationNext, Request

\* A client past begin_invocation stays the one recorded owner.
LEMMA OwnershipStep ==
    InvocationTypeOK /\ Ownership /\ InvocationTypeOK' /\ [InvocationNext]_invocationVars
    => Ownership'
<1> SUFFICES ASSUME InvocationTypeOK, Ownership, InvocationTypeOK',
                    [InvocationNext]_invocationVars
             PROVE  Ownership'
    OBVIOUS
<1> USE DEF InvocationTypeOK, store, Goto, UnlockInvocation, Starts, Outcomes, Kinds,
     SchemaKinds, Free, ActiveOwner, Ownership, Working
<1>1. ASSUME NEW c \in Client, Begin(c) PROVE Ownership'
    BY <1>1 DEF Begin
<1>2. ASSUME NEW c \in Client, WriteStarted(c) PROVE Ownership'
    BY <1>2 DEF WriteStarted
<1>3. ASSUME NEW c \in Client, Lookup(c) PROVE Ownership'
    BY <1>3 DEF Lookup
<1>4. ASSUME NEW c \in Client, Call(c) PROVE Ownership'
    <2>1. PICK r \in Outcomes :
              /\ r.object = Nothing \/ r.object \in Content
              /\ result' = [result EXCEPT ![c] = r]
              /\ where' = [where EXCEPT ![c] = IF r.object = Nothing THEN "finish" ELSE "put"]
        BY <1>4 DEF Call, AfterCall
    <2>2. where[c] = "call" /\ UNCHANGED <<kind, store, told>> /\ called' = [called EXCEPT ![c] = TRUE]
        BY <1>4 DEF Call
    <2> QED BY <2>1, <2>2
<1>5. ASSUME NEW c \in Client, PutObject(c) PROVE Ownership'
    BY <1>5 DEF PutObject
<1>6. ASSUME NEW c \in Client, Publish(c) PROVE Ownership'
    BY <1>6 DEF Publish
<1>7. ASSUME NEW c \in Client, Finish(c) PROVE Ownership'
    BY <1>7 DEF Finish
<1>8. ASSUME NEW c \in Client, Report(c) PROVE Ownership'
    BY <1>8 DEF Report
<1>9. ASSUME NEW c \in Client, Stop(c) PROVE Ownership'
    BY <1>9 DEF Stop
<1>10. CASE UNCHANGED invocationVars BY <1>10 DEF invocationVars
<1> QED
    BY <1>1, <1>2, <1>3, <1>4, <1>5, <1>6, <1>7, <1>8, <1>9, <1>10 DEF InvocationNext, Request

\* What a client is about to record has been stored.
LEMMA StoredStep ==
    InvocationTypeOK /\ Ownership /\ Stored /\ Receipts /\ ReceiptBacked /\ InvocationTypeOK'
    /\ [InvocationNext]_invocationVars => Stored'
<1> SUFFICES ASSUME InvocationTypeOK, Ownership, Stored, Receipts, ReceiptBacked,
                    InvocationTypeOK', [InvocationNext]_invocationVars
             PROVE  Stored'
    OBVIOUS
<1> USE DEF InvocationTypeOK, store, Goto, UnlockInvocation, Starts, Outcomes, Kinds,
     SchemaKinds, Free, ActiveOwner, Ownership, Working, Stored, Receipts, ReceiptBacked
<1>1. ASSUME NEW c \in Client, Begin(c) PROVE Stored'
    BY <1>1 DEF Begin
<1>2. ASSUME NEW c \in Client, WriteStarted(c) PROVE Stored'
    BY <1>2 DEF WriteStarted
<1>3. ASSUME NEW c \in Client, Lookup(c) PROVE Stored'
    BY <1>3 DEF Lookup
<1>4. ASSUME NEW c \in Client, Call(c) PROVE Stored'
    <2>1. PICK r \in Outcomes :
              /\ r.object = Nothing \/ r.object \in Content
              /\ result' = [result EXCEPT ![c] = r]
              /\ where' = [where EXCEPT ![c] = IF r.object = Nothing THEN "finish" ELSE "put"]
        BY <1>4 DEF Call, AfterCall
    <2>2. where[c] = "call" /\ UNCHANGED <<kind, store, told>> /\ called' = [called EXCEPT ![c] = TRUE]
        BY <1>4 DEF Call
    <2> QED BY <2>1, <2>2
<1>5. ASSUME NEW c \in Client, PutObject(c) PROVE Stored'
    BY <1>5 DEF PutObject
<1>6. ASSUME NEW c \in Client, Publish(c) PROVE Stored'
    BY <1>6 DEF Publish
<1>7. ASSUME NEW c \in Client, Finish(c) PROVE Stored'
    BY <1>7 DEF Finish
<1>8. ASSUME NEW c \in Client, Report(c) PROVE Stored'
    BY <1>8 DEF Report
<1>9. ASSUME NEW c \in Client, Stop(c) PROVE Stored'
    BY <1>9 DEF Stop
<1>10. CASE UNCHANGED invocationVars BY <1>10 DEF invocationVars
<1> QED
    BY <1>1, <1>2, <1>3, <1>4, <1>5, <1>6, <1>7, <1>8, <1>9, <1>10 DEF InvocationNext, Request

\* A receipt is written over a start.
LEMMA ReceiptsStep ==
    InvocationTypeOK /\ Receipts /\ InvocationTypeOK' /\ [InvocationNext]_invocationVars
    => Receipts'
<1> SUFFICES ASSUME InvocationTypeOK, Receipts, InvocationTypeOK',
                    [InvocationNext]_invocationVars
             PROVE  Receipts'
    OBVIOUS
<1> USE DEF InvocationTypeOK, store, Goto, UnlockInvocation, Starts, Outcomes, Kinds,
     SchemaKinds, Free, ActiveOwner, Receipts
<1>1. ASSUME NEW c \in Client, Begin(c) PROVE Receipts'
    BY <1>1 DEF Begin
<1>2. ASSUME NEW c \in Client, WriteStarted(c) PROVE Receipts'
    BY <1>2 DEF WriteStarted
<1>3. ASSUME NEW c \in Client, Lookup(c) PROVE Receipts'
    BY <1>3 DEF Lookup
<1>4. ASSUME NEW c \in Client, Call(c) PROVE Receipts'
    <2>1. PICK r \in Outcomes :
              /\ r.object = Nothing \/ r.object \in Content
              /\ result' = [result EXCEPT ![c] = r]
              /\ where' = [where EXCEPT ![c] = IF r.object = Nothing THEN "finish" ELSE "put"]
        BY <1>4 DEF Call, AfterCall
    <2>2. where[c] = "call" /\ UNCHANGED <<kind, store, told>> /\ called' = [called EXCEPT ![c] = TRUE]
        BY <1>4 DEF Call
    <2> QED BY <2>1, <2>2
<1>5. ASSUME NEW c \in Client, PutObject(c) PROVE Receipts'
    BY <1>5 DEF PutObject
<1>6. ASSUME NEW c \in Client, Publish(c) PROVE Receipts'
    BY <1>6 DEF Publish
<1>7. ASSUME NEW c \in Client, Finish(c) PROVE Receipts'
    BY <1>7 DEF Finish
<1>8. ASSUME NEW c \in Client, Report(c) PROVE Receipts'
    BY <1>8 DEF Report
<1>9. ASSUME NEW c \in Client, Stop(c) PROVE Receipts'
    BY <1>9 DEF Stop
<1>10. CASE UNCHANGED invocationVars BY <1>10 DEF invocationVars
<1> QED
    BY <1>1, <1>2, <1>3, <1>4, <1>5, <1>6, <1>7, <1>8, <1>9, <1>10 DEF InvocationNext, Request

\* Only the owner shows an output.
LEMMA ShownStep ==
    InvocationTypeOK /\ Ownership /\ Shown /\ InvocationTypeOK'
    /\ [InvocationNext]_invocationVars => Shown'
<1> SUFFICES ASSUME InvocationTypeOK, Ownership, Shown, InvocationTypeOK',
                    [InvocationNext]_invocationVars
             PROVE  Shown'
    OBVIOUS
<1> USE DEF InvocationTypeOK, store, Goto, UnlockInvocation, Starts, Outcomes, Kinds,
     SchemaKinds, Free, ActiveOwner, Ownership, Working, Shown
<1>1. ASSUME NEW c \in Client, Begin(c) PROVE Shown'
    <2>1. State(c) # "output"
        BY DEF State
    <2> QED BY <1>1, <2>1 DEF Begin
<1>2. ASSUME NEW c \in Client, WriteStarted(c) PROVE Shown'
    BY <1>2 DEF WriteStarted
<1>3. ASSUME NEW c \in Client, Lookup(c) PROVE Shown'
    BY <1>3 DEF Lookup
<1>4. ASSUME NEW c \in Client, Call(c) PROVE Shown'
    <2>1. PICK r \in Outcomes :
              /\ r.object = Nothing \/ r.object \in Content
              /\ result' = [result EXCEPT ![c] = r]
              /\ where' = [where EXCEPT ![c] = IF r.object = Nothing THEN "finish" ELSE "put"]
        BY <1>4 DEF Call, AfterCall
    <2>2. where[c] = "call" /\ UNCHANGED <<kind, store, told>> /\ called' = [called EXCEPT ![c] = TRUE]
        BY <1>4 DEF Call
    <2> QED BY <2>1, <2>2
<1>5. ASSUME NEW c \in Client, PutObject(c) PROVE Shown'
    BY <1>5 DEF PutObject
<1>6. ASSUME NEW c \in Client, Publish(c) PROVE Shown'
    BY <1>6 DEF Publish
<1>7. ASSUME NEW c \in Client, Finish(c) PROVE Shown'
    BY <1>7 DEF Finish
<1>8. ASSUME NEW c \in Client, Report(c) PROVE Shown'
    BY <1>8 DEF Report
<1>9. ASSUME NEW c \in Client, Stop(c) PROVE Shown'
    BY <1>9 DEF Stop
<1>10. CASE UNCHANGED invocationVars BY <1>10 DEF invocationVars
<1> QED
    BY <1>1, <1>2, <1>3, <1>4, <1>5, <1>6, <1>7, <1>8, <1>9, <1>10 DEF InvocationNext, Request

\* Heads and receipts keep naming stored objects.
LEMMA BackedStep ==
    InvocationTypeOK /\ Ownership /\ Stored /\ Shown /\ ReceiptBacked /\ InvocationTypeOK'
    /\ [InvocationNext]_invocationVars => ReceiptBacked'
<1> SUFFICES ASSUME InvocationTypeOK, Ownership, Stored, Shown, ReceiptBacked,
                    InvocationTypeOK', [InvocationNext]_invocationVars
             PROVE  ReceiptBacked'
    OBVIOUS
<1> USE DEF InvocationTypeOK, store, Goto, UnlockInvocation, Starts, Outcomes, Kinds,
     SchemaKinds, Free, ActiveOwner, Ownership, Working, Stored, Shown, ReceiptBacked
<1>1. ASSUME NEW c \in Client, Begin(c) PROVE ReceiptBacked'
    <2>1. State(c) # "output"
        BY DEF State
    <2> QED BY <1>1, <2>1 DEF Begin
<1>2. ASSUME NEW c \in Client, WriteStarted(c) PROVE ReceiptBacked'
    BY <1>2 DEF WriteStarted
<1>3. ASSUME NEW c \in Client, Lookup(c) PROVE ReceiptBacked'
    BY <1>3 DEF Lookup
<1>4. ASSUME NEW c \in Client, Call(c) PROVE ReceiptBacked'
    <2>1. PICK r \in Outcomes :
              /\ r.object = Nothing \/ r.object \in Content
              /\ result' = [result EXCEPT ![c] = r]
              /\ where' = [where EXCEPT ![c] = IF r.object = Nothing THEN "finish" ELSE "put"]
        BY <1>4 DEF Call, AfterCall
    <2>2. where[c] = "call" /\ UNCHANGED <<kind, store, told>> /\ called' = [called EXCEPT ![c] = TRUE]
        BY <1>4 DEF Call
    <2> QED BY <2>1, <2>2
<1>5. ASSUME NEW c \in Client, PutObject(c) PROVE ReceiptBacked'
    BY <1>5 DEF PutObject
<1>6. ASSUME NEW c \in Client, Publish(c) PROVE ReceiptBacked'
    BY <1>6 DEF Publish
<1>7. ASSUME NEW c \in Client, Finish(c) PROVE ReceiptBacked'
    BY <1>7 DEF Finish
<1>8. ASSUME NEW c \in Client, Report(c) PROVE ReceiptBacked'
    BY <1>8 DEF Report
<1>9. ASSUME NEW c \in Client, Stop(c) PROVE ReceiptBacked'
    BY <1>9 DEF Stop
<1>10. CASE UNCHANGED invocationVars BY <1>10 DEF invocationVars
<1> QED
    BY <1>1, <1>2, <1>3, <1>4, <1>5, <1>6, <1>7, <1>8, <1>9, <1>10 DEF InvocationNext, Request

-----------------------------------------------------------------------------
Inv == InvocationTypeOK /\ ReceiptInv /\ ReceiptBacked

LEMMA Initial == InvocationInit => Inv
BY DEF InvocationInit, Inv, InvocationTypeOK, ReceiptInv, Ownership, Stored, Receipts, Shown,
  ReceiptBacked,
       Working, Outcomes, NoResult, Kinds

LEMMA Inductive == Inv /\ [InvocationNext]_invocationVars => Inv'
BY TypeStep, OwnershipStep, StoredStep, ReceiptsStep, ShownStep, BackedStep
   DEF Inv, ReceiptInv

LEMMA Invariance == InvocationSpec => []Inv
BY Initial, Inductive, PTL DEF InvocationSpec

\* Type correctness, whatever processes do and wherever they die.
THEOREM TypeCorrect == InvocationSpec => []InvocationTypeOK
<1>1. Inv => InvocationTypeOK
    BY DEF Inv
<1> QED BY <1>1, Invariance, PTL

\* Ownership, stored results, started receipts and shown outputs, for any
\* number of processes and ids.
THEOREM StrengtheningCorrect == InvocationSpec => []ReceiptInv
<1>1. Inv => ReceiptInv
    BY DEF Inv
<1> QED BY <1>1, Invariance, PTL

\* A retry never reaches the MCP server a second time: whoever called is the
\* owner of the start, and a start is written once.
THEOREM AtMostOnceCorrect == InvocationSpec => []AtMostOnce
<1>1. Inv => AtMostOnce
    BY DEF Inv, ReceiptInv, Ownership, AtMostOnce
<1> QED BY <1>1, Invariance, PTL

\* The cache head, the receipts and the shown outputs are backed by stored
\* objects and by receipts.
THEOREM BackedCorrect == InvocationSpec => []ReceiptBacked
<1>1. Inv => ReceiptBacked
    BY DEF Inv
<1> QED BY <1>1, Invariance, PTL

\* Nobody closes the receipt of an owner that is gone.
THEOREM UnknownCorrect == InvocationSpec => UnknownStays
<1> DEFINE Kept ==
        \A i \in Invocation :
            started[i] # Nothing /\ finished[i] = Nothing /\ where[started[i].owner] = "done" =>
                started'[i] = started[i] /\ finished'[i] = Nothing
<1>1. Inv /\ [InvocationNext]_invocationVars => [Kept]_invocationVars
    <2> SUFFICES ASSUME Inv, InvocationNext, NEW i \in Invocation,
                        started[i] # Nothing, finished[i] = Nothing, where[started[i].owner] = "done"
                 PROVE  started'[i] = started[i] /\ finished'[i] = Nothing
        BY DEF invocationVars
    <2> USE DEF Inv, InvocationTypeOK, ReceiptInv, Ownership, Starts, ActiveOwner, store
    <2>1. PICK c \in Client : Request(c) \/ Call(c) \/ Stop(c)
        BY DEF InvocationNext
    <2>2. CASE WriteStarted(c) BY <2>2 DEF WriteStarted
    <2>3. CASE Finish(c) BY <2>3 DEF Finish
    <2>4. CASE Begin(c) \/ Lookup(c) \/ PutObject(c) \/ Publish(c) \/ Report(c)
        BY <2>4 DEF Begin, Lookup, PutObject, Publish, Report
    <2>5. CASE Call(c) \/ Stop(c)
        BY <2>5 DEF Call, Stop
    <2> QED BY <2>1, <2>2, <2>3, <2>4, <2>5 DEF Request
<1> QED BY <1>1, Invariance, PTL DEF InvocationSpec, UnknownStays
=============================================================================
