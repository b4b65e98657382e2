--------------------------- MODULE DevicesProofs ---------------------------
(***************************************************************************)
(* Proofs about two of the three things that Tasks share a device through:  *)
(* the operation of a device under a lease (DeviceOperation), for any kinds  *)
(* of operation, and the store of the evidence it leaves (EvidenceStore),    *)
(* for any processes, runs and objects.  The device lock is                  *)
(* ResourceLockProofs'.                                                      *)
(***************************************************************************)
EXTENDS DeviceOperation, EvidenceStore, FiniteSetTheorems, TLAPS

-----------------------------------------------------------------------------
(* A device operation: what the actions of each process leave alone.        *)

OwnerSteps == Client \/ (\E o \in Holders : CrashOwner(o)) \/ Finisher \/ Prune \/ RemoveRun
FacadeSteps == Borrower \/ CrashTool
WorldSteps == Act \/ ProviderExits \/ CommandExits \/ LeaseLost

\* The facade moves nothing of the lease client's but the marker, and starts
\* within a command that runs.
LEMMA FacadeFrame ==
    ASSUME DeviceTypeOK, FacadeSteps
    PROVE  /\ UNCHANGED <<lease, dir, status, stopping, helper, leader, composed>>
           /\ at' \in [{"client", "finisher", "tool", "pruner"} -> Places]
           /\ \A p \in {"client", "finisher", "pruner"} : at'[p] = at[p]
           /\ at["tool"] = "idle" => leader = "alive"
           /\ out' \in Answers
<1> USE DEF DeviceTypeOK, Go, Unspent, world, run, Conclude, NoAnswer, Places, Answers,
           Misses, Interpretations
<1>1. CASE Borrow       BY <1>1 DEF Borrow, Check
<1>2. CASE Probe        BY <1>2 DEF Probe
<1>3. CASE Look         BY <1>3 DEF Look
<1>4. CASE ConfirmLease BY <1>4 DEF ConfirmLease, Check
<1>5. CASE Spawn        BY <1>5 DEF Spawn, Failure, Effect
<1>6. CASE Completed    BY <1>6 DEF Completed, Effect
<1>7. CASE Settled      BY <1>7 DEF Settled, Failure, Effect
<1>8. CASE Undrained    BY <1>8 DEF Undrained, Failure, Effect
<1>9. CASE Handoff      BY <1>9 DEF Handoff
<1>10. CASE BorrowAgain BY <1>10 DEF BorrowAgain, Check
<1>11. CASE CrashTool   BY <1>11 DEF CrashTool
<1>12. QED
  BY <1>1, <1>2, <1>3, <1>4, <1>5, <1>6, <1>7, <1>8, <1>9, <1>10, <1>11
  DEF FacadeSteps, Borrower

\* The lease client, a finisher and a pruning client never touch the device or
\* the facade, and a lease becomes active only when the client acquires it.
LEMMA OwnersFrame ==
    ASSUME DeviceTypeOK, OwnerSteps
    PROVE  /\ UNCHANGED <<provider, acted, foreign, facade>>
           /\ at' \in [{"client", "finisher", "tool", "pruner"} -> Places]
           /\ at'["tool"] = at["tool"]
           /\ lease' = "active" => lease = "active" \/ at["client"] = "idle"
           /\ at["client"] # "idle" => at'["client"] # "idle"
<1> USE DEF DeviceTypeOK, Go, world, run, facade, Holders, Places
<1>1. CASE AcquireLease BY <1>1 DEF AcquireLease
<1>2. CASE Launch       BY <1>2 DEF Launch
<1>3. CASE Popen        BY <1>3 DEF Popen
<1>4. CASE Watch        BY <1>4 DEF Watch
<1>5. CASE NotStarted   BY <1>5 DEF NotStarted
<1>6. CASE Term         BY <1>6 DEF Term
<1>7. CASE Kill         BY <1>7 DEF Kill
<1>8. CASE Stopped      BY <1>8 DEF Stopped
<1>9. CASE Uncertain    BY <1>9 DEF Uncertain
<1>10. CASE Failing     BY <1>10 DEF Failing
<1>11. CASE \E o \in Holders : GiveBack(o) BY <1>11 DEF GiveBack
<1>12. CASE \E o \in Holders : WriteLast(o) BY <1>12 DEF WriteLast
<1>13. CASE \E o \in Holders : CrashOwner(o) BY <1>13 DEF CrashOwner
<1>14. CASE RequestFinish BY <1>14 DEF RequestFinish
<1>15. CASE TakeOver      BY <1>15 DEF TakeOver
<1>16. CASE Prune         BY <1>16 DEF Prune
<1>17. CASE RemoveRun     BY <1>17 DEF RemoveRun
<1>18. QED
  BY <1>1, <1>2, <1>3, <1>4, <1>5, <1>6, <1>7, <1>8, <1>9, <1>10, <1>11, <1>12, <1>13,
     <1>14, <1>15, <1>16, <1>17
  DEF OwnerSteps, Client, Finisher

-----------------------------------------------------------------------------
(* A device operation: each part of the invariant is kept by every step.    *)

\* The steps of an operation, by the process that takes them.
LEMMA DeviceSteps ==
    DeviceNext <=> OwnerSteps \/ FacadeSteps \/ WorldSteps
  BY DEF DeviceNext, OwnerSteps, FacadeSteps, WorldSteps

\* Types are kept: what is written to status.json is a record.
LEMMA DeviceTypeKept ==
    ASSUME DeviceTypeOK, [DeviceNext]_deviceVars
    PROVE  DeviceTypeOK'
<1> USE DEF DeviceTypeOK, Places, Go, world, run, facade, Holders, Records
<1>1. CASE OwnerSteps
  <2>1. CASE AcquireLease
    BY <2>1 DEF AcquireLease
  <2>2. CASE Launch
    BY <2>2 DEF Launch, Record
  <2>3. CASE Popen
    BY <2>3 DEF Popen
  <2>4. CASE Watch
    BY <2>4 DEF Watch
  <2>5. CASE NotStarted
    BY <2>5 DEF NotStarted, Writes, Record
  <2>6. CASE Term
    BY <2>6 DEF Term
  <2>7. CASE Kill
    BY <2>7 DEF Kill
  <2>8. CASE Stopped
    BY <2>8 DEF Stopped, Writes, Record
  <2>9. CASE Uncertain
    BY <2>9 DEF Uncertain
  <2>10. CASE Failing
    BY <2>10 DEF Failing, Writes, Record
  <2>11. CASE \E o \in Holders : GiveBack(o)
    BY <2>11 DEF GiveBack, Record
  <2>12. CASE \E o \in Holders : WriteLast(o)
    BY <2>12 DEF WriteLast, Record
  <2>13. CASE \E o \in Holders : CrashOwner(o)
    BY <2>13 DEF CrashOwner
  <2>14. CASE RequestFinish
    BY <2>14 DEF RequestFinish
  <2>15. CASE TakeOver
    BY <2>15 DEF TakeOver
  <2>16. CASE Prune
    BY <2>16 DEF Prune, Proven
  <2>17. CASE RemoveRun
    BY <2>17 DEF RemoveRun, NoStatus
  <2>18. QED
    BY <1>1, <2>1, <2>2, <2>3, <2>4, <2>5, <2>6, <2>7, <2>8,
       <2>9, <2>10, <2>11, <2>12, <2>13, <2>14, <2>15, <2>16, <2>17
    DEF OwnerSteps, Client, Finisher
<1>2. CASE FacadeSteps
  BY <1>2, FacadeFrame
<1>3. CASE WorldSteps
  BY <1>3 DEF WorldSteps, Act, ProviderExits, CommandExits, LeaseLost, world, run, facade
<1>4. CASE UNCHANGED deviceVars
  BY <1>4 DEF deviceVars, world, run, facade
<1>5. QED
  BY <1>1, <1>2, <1>3, <1>4, DeviceSteps

\* helper.lock changes hands only when it is free.
LEMMA HelpersKept ==
    ASSUME DeviceTypeOK, HelpersHeld, [DeviceNext]_deviceVars
    PROVE  HelpersHeld'
<1> USE DEF DeviceTypeOK, Places, Go, world, run, facade, Holders, HelpersHeld
<1>1. CASE OwnerSteps
  <2>1. CASE AcquireLease
    BY <2>1 DEF AcquireLease
  <2>2. CASE Launch
    BY <2>2 DEF Launch, Record
  <2>3. CASE Popen
    BY <2>3 DEF Popen
  <2>4. CASE Watch
    BY <2>4 DEF Watch
  <2>5. CASE NotStarted
    BY <2>5 DEF NotStarted, Writes, Record
  <2>6. CASE Term
    BY <2>6 DEF Term
  <2>7. CASE Kill
    BY <2>7 DEF Kill
  <2>8. CASE Stopped
    BY <2>8 DEF Stopped, Writes, Record
  <2>9. CASE Uncertain
    BY <2>9 DEF Uncertain
  <2>10. CASE Failing
    BY <2>10 DEF Failing, Writes, Record
  <2>11. CASE \E o \in Holders : GiveBack(o)
    BY <2>11 DEF GiveBack, Record
  <2>12. CASE \E o \in Holders : WriteLast(o)
    BY <2>12 DEF WriteLast, Record
  <2>13. CASE \E o \in Holders : CrashOwner(o)
    BY <2>13 DEF CrashOwner
  <2>14. CASE RequestFinish
    BY <2>14 DEF RequestFinish
  <2>15. CASE TakeOver
    BY <2>15 DEF TakeOver
  <2>16. CASE Prune
    BY <2>16 DEF Prune, Proven
  <2>17. CASE RemoveRun
    BY <2>17 DEF RemoveRun, NoStatus
  <2>18. QED
    BY <1>1, <2>1, <2>2, <2>3, <2>4, <2>5, <2>6, <2>7, <2>8,
       <2>9, <2>10, <2>11, <2>12, <2>13, <2>14, <2>15, <2>16, <2>17
    DEF OwnerSteps, Client, Finisher
<1>2. CASE FacadeSteps
  BY <1>2, FacadeFrame
<1>3. CASE WorldSteps
  BY <1>3 DEF WorldSteps, Act, ProviderExits, CommandExits, LeaseLost, world, run, facade
<1>4. CASE UNCHANGED deviceVars
  BY <1>4 DEF deviceVars, world, run, facade
<1>5. QED
  BY <1>1, <1>2, <1>3, <1>4, DeviceSteps

\* The client starts the command once, and the facade starts within it.
LEMMA CommandKept ==
    ASSUME DeviceTypeOK, HelpersHeld, CommandKnown, [DeviceNext]_deviceVars
    PROVE  CommandKnown'
<1> USE DEF DeviceTypeOK, Places, Go, world, run, facade, Holders, HelpersHeld, CommandKnown
<1>1. CASE OwnerSteps
  <2>1. CASE AcquireLease
    BY <2>1 DEF AcquireLease
  <2>2. CASE Launch
    BY <2>2 DEF Launch, Record
  <2>3. CASE Popen
    BY <2>3 DEF Popen
  <2>4. CASE Watch
    BY <2>4 DEF Watch
  <2>5. CASE NotStarted
    BY <2>5 DEF NotStarted, Writes, Record
  <2>6. CASE Term
    BY <2>6 DEF Term
  <2>7. CASE Kill
    BY <2>7 DEF Kill
  <2>8. CASE Stopped
    BY <2>8 DEF Stopped, Writes, Record
  <2>9. CASE Uncertain
    BY <2>9 DEF Uncertain
  <2>10. CASE Failing
    BY <2>10 DEF Failing, Writes, Record
  <2>11. CASE \E o \in Holders : GiveBack(o)
    BY <2>11 DEF GiveBack, Record
  <2>12. CASE \E o \in Holders : WriteLast(o)
    BY <2>12 DEF WriteLast, Record
  <2>13. CASE \E o \in Holders : CrashOwner(o)
    BY <2>13 DEF CrashOwner
  <2>14. CASE RequestFinish
    BY <2>14 DEF RequestFinish
  <2>15. CASE TakeOver
    BY <2>15 DEF TakeOver
  <2>16. CASE Prune
    BY <2>16 DEF Prune, Proven
  <2>17. CASE RemoveRun
    BY <2>17 DEF RemoveRun, NoStatus
  <2>18. QED
    BY <1>1, <2>1, <2>2, <2>3, <2>4, <2>5, <2>6, <2>7, <2>8,
       <2>9, <2>10, <2>11, <2>12, <2>13, <2>14, <2>15, <2>16, <2>17
    DEF OwnerSteps, Client, Finisher
<1>2. CASE FacadeSteps
  BY <1>2, FacadeFrame
<1>3. CASE WorldSteps
  BY <1>3 DEF WorldSteps, Act, ProviderExits, CommandExits, LeaseLost, world, run, facade
<1>4. CASE UNCHANGED deviceVars
  BY <1>4 DEF deviceVars, world, run, facade
<1>5. QED
  BY <1>1, <1>2, <1>3, <1>4, DeviceSteps

\* Nobody claims a stop while the command may run: the client composes and writes what
\* status.json says, and a finisher or a pruner comes after it.
LEMMA StopKept ==
    ASSUME DeviceTypeOK, HelpersHeld, CommandKnown, StopOpen, [DeviceNext]_deviceVars
    PROVE  StopOpen'
<1> USE DEF DeviceTypeOK, Places, Go, world, run, facade, Holders, Records, HelpersHeld,
     CommandKnown, StopOpen, Alive
<1>1. CASE OwnerSteps
  <2>1. CASE AcquireLease
    BY <2>1 DEF AcquireLease
  <2>2. CASE Launch
    BY <2>2 DEF Launch, Record
  <2>3. CASE Popen
    BY <2>3 DEF Popen
  <2>4. CASE Watch
    BY <2>4 DEF Watch
  <2>5. CASE NotStarted
    BY <2>5 DEF NotStarted, Writes, Record
  <2>6. CASE Term
    BY <2>6 DEF Term
  <2>7. CASE Kill
    BY <2>7 DEF Kill
  <2>8. CASE Stopped
    BY <2>8 DEF Stopped, Writes, Record
  <2>9. CASE Uncertain
    BY <2>9 DEF Uncertain
  <2>10. CASE Failing
    BY <2>10 DEF Failing, Writes, Record
  <2>11. CASE \E o \in Holders : GiveBack(o)
    BY <2>11 DEF GiveBack, Record
  <2>12. CASE \E o \in Holders : WriteLast(o)
    BY <2>12 DEF WriteLast, Record
  <2>13. CASE \E o \in Holders : CrashOwner(o)
    BY <2>13 DEF CrashOwner
  <2>14. CASE RequestFinish
    BY <2>14 DEF RequestFinish
  <2>15. CASE TakeOver
    BY <2>15 DEF TakeOver
  <2>16. CASE Prune
    BY <2>16 DEF Prune, Proven
  <2>17. CASE RemoveRun
    BY <2>17 DEF RemoveRun, NoStatus
  <2>18. QED
    BY <1>1, <2>1, <2>2, <2>3, <2>4, <2>5, <2>6, <2>7, <2>8,
       <2>9, <2>10, <2>11, <2>12, <2>13, <2>14, <2>15, <2>16, <2>17
    DEF OwnerSteps, Client, Finisher
<1>2. CASE FacadeSteps
  BY <1>2, FacadeFrame
<1>3. CASE WorldSteps
  BY <1>3 DEF WorldSteps, Act, ProviderExits, CommandExits, LeaseLost, world, run, facade
<1>4. CASE UNCHANGED deviceVars
  BY <1>4 DEF deviceVars, world, run, facade
<1>5. QED
  BY <1>1, <1>2, <1>3, <1>4, DeviceSteps

\* The answer says what is known of the provider: it is given when the provider was
\* never started, or is gone, and a lease that is active now was never lost.
LEMMA ProviderKept ==
    ASSUME DeviceTypeOK, CommandKnown, ProviderKnown, [DeviceNext]_deviceVars
    PROVE  ProviderKnown'
<1> USE DEF DeviceTypeOK, Places, Go, world, run, facade, Holders, Answers, Misses,
           Interpretations, CommandKnown, ProviderKnown, NoAnswer, Conclude, Unspent, Effectful
<1>1. CASE OwnerSteps
  BY <1>1, OwnersFrame
<1>2. CASE FacadeSteps
  <2>1. CASE Borrow
    BY <2>1 DEF Borrow, Check, InCustody
  <2>2. CASE Probe
    BY <2>2 DEF Probe
  <2>3. CASE Look
    BY <2>3 DEF Look
  <2>4. CASE ConfirmLease
    BY <2>4 DEF ConfirmLease, Check, InCustody
  <2>5. CASE Spawn
    BY <2>5 DEF Spawn, Failure, Effect
  <2>6. CASE Completed
    BY <2>6 DEF Completed, Effect
  <2>7. CASE Settled
    BY <2>7 DEF Settled, Failure, Effect
  <2>8. CASE Undrained
    BY <2>8 DEF Undrained, Failure, Effect
  <2>9. CASE Handoff
    BY <2>9 DEF Handoff
  <2>10. CASE BorrowAgain
    BY <2>10 DEF BorrowAgain, Check, InCustody
  <2>11. CASE CrashTool
    BY <2>11 DEF CrashTool
  <2>12. QED
    BY <1>2, <2>1, <2>2, <2>3, <2>4, <2>5, <2>6,
       <2>7, <2>8, <2>9, <2>10, <2>11
    DEF FacadeSteps, Borrower
<1>3. CASE WorldSteps
  <2>1. CASE Act
    <3>1. provider = "running"
        /\ at["tool"] \notin {"idle", "probe", "look", "confirm", "spawn"}
      BY <2>1 DEF Act
    <3>2. lease = "active" => ~foreign'
      <4>1. lease = "active" => ~(foreign \/ lease # "active")
        OBVIOUS
      <4>2. foreign' = (foreign \/ lease # "active")
        BY <2>1 DEF Act
      <4>3. QED
        BY <4>1, <4>2, Zenon
    <3>3. UNCHANGED <<lease, provider, at, out>>
      BY <2>1 DEF Act
    <3>4. QED
      BY <3>1, <3>2, <3>3
  <2>2. CASE ProviderExits
    BY <2>2 DEF ProviderExits
  <2>3. CASE CommandExits
    BY <2>3 DEF CommandExits
  <2>4. CASE LeaseLost
    BY <2>4 DEF LeaseLost
  <2>5. QED
    BY <1>3, <2>1, <2>2, <2>3, <2>4 DEF WorldSteps
<1>4. CASE UNCHANGED deviceVars
  BY <1>4 DEF deviceVars, world, run, facade
<1>5. QED
  BY <1>1, <1>2, <1>3, <1>4, DeviceSteps

\* The marker is never removed, nor a run directory that holds it.
LEMMA MarkerKept ==
    ASSUME DeviceTypeOK, UncertaintyKept, [DeviceNext]_deviceVars
    PROVE  UncertaintyKept'
<1> USE DEF DeviceTypeOK, UncertaintyKept, Go, world, run, facade, Holders, Unspent
<1>1. CASE OwnerSteps
  <2>1. CASE AcquireLease
    BY <2>1 DEF AcquireLease
  <2>2. CASE Launch
    BY <2>2 DEF Launch, Record
  <2>3. CASE Popen
    BY <2>3 DEF Popen
  <2>4. CASE Watch
    BY <2>4 DEF Watch
  <2>5. CASE NotStarted
    BY <2>5 DEF NotStarted, Writes, Record
  <2>6. CASE Term
    BY <2>6 DEF Term
  <2>7. CASE Kill
    BY <2>7 DEF Kill
  <2>8. CASE Stopped
    BY <2>8 DEF Stopped, Writes, Record
  <2>9. CASE Uncertain
    BY <2>9 DEF Uncertain
  <2>10. CASE Failing
    BY <2>10 DEF Failing, Writes, Record
  <2>11. CASE \E o \in Holders : GiveBack(o)
    BY <2>11 DEF GiveBack, Record
  <2>12. CASE \E o \in Holders : WriteLast(o)
    BY <2>12 DEF WriteLast, Record
  <2>13. CASE \E o \in Holders : CrashOwner(o)
    BY <2>13 DEF CrashOwner
  <2>14. CASE RequestFinish
    BY <2>14 DEF RequestFinish
  <2>15. CASE TakeOver
    BY <2>15 DEF TakeOver
  <2>16. CASE Prune
    BY <2>16 DEF Prune, Proven
  <2>17. CASE RemoveRun
    BY <2>17 DEF RemoveRun, NoStatus
  <2>18. QED
    BY <1>1, <2>1, <2>2, <2>3, <2>4, <2>5, <2>6, <2>7, <2>8,
       <2>9, <2>10, <2>11, <2>12, <2>13, <2>14, <2>15, <2>16, <2>17
    DEF OwnerSteps, Client, Finisher
<1>2. CASE FacadeSteps
  <2>1. CASE Borrow
    BY <2>1 DEF Borrow
  <2>2. CASE Probe
    BY <2>2 DEF Probe
  <2>3. CASE Look
    BY <2>3 DEF Look
  <2>4. CASE ConfirmLease
    BY <2>4 DEF ConfirmLease
  <2>5. CASE Spawn
    BY <2>5 DEF Spawn
  <2>6. CASE Completed
    BY <2>6 DEF Completed
  <2>7. CASE Settled
    BY <2>7 DEF Settled
  <2>8. CASE Undrained
    BY <2>8 DEF Undrained
  <2>9. CASE Handoff
    BY <2>9 DEF Handoff
  <2>10. CASE BorrowAgain
    BY <2>10 DEF BorrowAgain
  <2>11. CASE CrashTool
    BY <2>11 DEF CrashTool
  <2>12. QED
    BY <1>2, <2>1, <2>2, <2>3, <2>4, <2>5, <2>6,
       <2>7, <2>8, <2>9, <2>10, <2>11
    DEF FacadeSteps, Borrower
<1>3. CASE WorldSteps
  BY <1>3 DEF WorldSteps, Act, ProviderExits, CommandExits, LeaseLost, world, run, facade
<1>4. CASE UNCHANGED deviceVars
  BY <1>4 DEF deviceVars, world, run, facade
<1>5. QED
  BY <1>1, <1>2, <1>3, <1>4, DeviceSteps

-----------------------------------------------------------------------------
(* A device operation: the theorems.                                        *)

\* The inductive invariant of an operation: whose helpers live, what command and
\* provider may still be at work, and what the marker records of them, whoever is
\* killed.
THEOREM DeviceInvCorrect == DeviceSpec => []DeviceInv
<1>1. DeviceInit => DeviceInv
  <2>1. ASSUME DeviceInit PROVE DeviceTypeOK
    BY <2>1 DEF DeviceInit, DeviceTypeOK, Places, Records, Answers, Holders, NoStatus, NoAnswer
  <2>2. ASSUME DeviceInit PROVE HelpersHeld /\ CommandKnown /\ StopOpen /\ UncertaintyKept
    BY <2>2 DEF DeviceInit, HelpersHeld, CommandKnown, StopOpen, Alive, UncertaintyKept
  <2>3. ASSUME DeviceInit PROVE ProviderKnown
    BY <2>3 DEF DeviceInit, ProviderKnown, NoAnswer
  <2>4. QED
    BY <2>1, <2>2, <2>3 DEF DeviceInv
<1>2. DeviceInv /\ [DeviceNext]_deviceVars => DeviceInv'
  BY DeviceTypeKept, HelpersKept, CommandKept, StopKept, ProviderKept, MarkerKept DEF DeviceInv
<1>3. QED
  BY <1>1, <1>2, PTL DEF DeviceSpec

\* A run is recorded as finished only when its command is known to be gone, and a
\* reported uncertainty outlives every prune (run_command, Lease.record, prune):
\* what is written or about to be written leaves the stop unconfirmed as long as
\* the command may be running (StopOpen), whoever crashes in between.
THEOREM StopHonestCorrect == DeviceSpec => []StopHonest
<1>1. DeviceInv => StopHonest
  BY DEF DeviceInv, DeviceTypeOK, StopOpen, Alive, UncertaintyKept, FinishedStopped, StopHonest
<1>2. QED
  BY <1>1, DeviceInvCorrect, PTL

\* What the facade answers is what happened on the device (execute_android_native
\* and its second check of the lease): the lease is lost once for all, so an answer
\* given while it is active covers everything the provider did.
THEOREM AnswerHonestCorrect == DeviceSpec => []AnswerHonest
<1>1. DeviceInv => AnswerHonest
  BY DEF DeviceInv, ProviderKnown, EffectHonest, SuccessOwned, AnswerHonest
<1>2. QED
  BY <1>1, DeviceInvCorrect, PTL

-----------------------------------------------------------------------------
(* The store of evidence: each part of the invariant is kept by every step. *)

\* A step of one process leaves the others where they are.
LEMMA OthersStay ==
    ASSUME StoreTypeOK, LocksHeld,
           NEW p \in Procs, Works(p) \/ Killed(p)
    PROVE  \A q \in Procs \ {p} :
              /\ where'[q] = where[q] /\ target'[q] = target[q] /\ todo'[q] = todo[q]
              /\ retention = q <=> retention' = q
              /\ retention = q => sweep' = sweep
<1> USE StoreAssumption DEF StoreTypeOK, LocksHeld, locks, outer, storeVars, Advance,
     Retainers, Sweeps
<1>1. CASE p \in Runs /\ Begin(p)
  BY <1>1 DEF Begin, TakeRetention, StartSweep
<1>2. CASE p \in Runs /\ MakeRun(p)
  BY <1>2 DEF MakeRun, Absent
<1>3. CASE p \in Runs /\ WriteStarted(p)
  BY <1>3 DEF WriteStarted, Absent
<1>4. CASE p \in Runs /\ WriteReservation(p)
  BY <1>4 DEF WriteReservation, Absent, FreeRetention, Reservation
<1>5. CASE p \in Runs /\ BeginFails(p)
  BY <1>5 DEF BeginFails, FreeRetention
<1>6. CASE p \in Runs /\ Stage(p)
  BY <1>6 DEF Stage
<1>7. CASE p \in Runs /\ Finish(p)
  BY <1>7 DEF Finish
<1>8. CASE p \in Runs /\ WriteManifest(p)
  BY <1>8 DEF WriteManifest
<1>9. CASE p \in Exporters /\ Open(p)
  BY <1>9 DEF Open
<1>10. CASE p \in Exporters /\ Pin(p)
  BY <1>10 DEF Pin, StartSweep
<1>11. CASE p \in Exporters /\ Pinned(p)
  BY <1>11 DEF Pinned, FreeRetention
<1>12. CASE p \in Exporters /\ Unpin(p)
  BY <1>12 DEF Unpin, FreeRetention
<1>13. CASE retention = p /\ Expire(p)
  BY <1>13 DEF Expire
<1>14. CASE retention = p /\ Weigh(p)
  BY <1>14 DEF Weigh
<1>15. CASE retention = p /\ Evict(p)
  BY <1>15 DEF Evict
<1>16. CASE retention = p /\ Evicted(p)
  BY <1>16 DEF Evicted, Absent
<1>17. CASE retention = p /\ Admit(p)
  BY <1>17 DEF Admit
<1>18. CASE LockRecord(p)
  BY <1>18 DEF LockRecord
<1>19. CASE LockExport(p)
  BY <1>19 DEF LockExport
<1>20. CASE Recharge(p)
  BY <1>20 DEF Recharge, TakeRetention, StartSweep
<1>21. CASE ReadManifest(p)
  BY <1>21 DEF ReadManifest, FreeRetention
<1>22. CASE ConfirmWorkflow(p)
  BY <1>22 DEF ConfirmWorkflow, Log
<1>23. CASE Intend(p)
  BY <1>23 DEF Intend, Log
<1>24. CASE WriteObject(p)
  BY <1>24 DEF WriteObject, Receipt
<1>25. CASE Settle(p)
  BY <1>25 DEF Settle, Log
<1>26. CASE UnlockFailed(p)
  BY <1>26 DEF UnlockFailed, FreeRetention
<1>27. CASE UnlockRun(p)
  BY <1>27 DEF UnlockRun
<1>28. CASE LockRelease(p)
  BY <1>28 DEF LockRelease, TakeRetention
<1>29. CASE ReleaseRun(p)
  BY <1>29 DEF ReleaseRun, FreeRetention
<1>30. CASE Killed(p)
  BY <1>30 DEF Killed, FreeRetention, Dropped
<1>31. QED
  BY <1>1, <1>2, <1>3, <1>4, <1>5, <1>6, <1>7, <1>8, <1>9, <1>10,
     <1>11, <1>12, <1>13, <1>14, <1>15, <1>16, <1>17, <1>18, <1>19, <1>20,
     <1>21, <1>22, <1>23, <1>24, <1>25, <1>26, <1>27, <1>28, <1>29, <1>30
  DEF Works, ToolSteps, Exporter, Exporting, Cleanup

\* What an action may make of the directory of a run.
Edited(r) ==
    \/ dirs' = dirs
    \/ \E b \in BOOLEAN : dirs' = [dirs EXCEPT ![r].started = b]
    \/ dirs' = [dirs EXCEPT ![r].finished = TRUE]
    \/ \E n \in Nat : dirs' = [dirs EXCEPT ![r].reserved = n]
    \/ dirs' = [dirs EXCEPT ![r].used = @ + 1]
    \/ dirs' = [dirs EXCEPT ![r] = Absent]
    \/ dirs' = [dirs EXCEPT ![r] = [Absent EXCEPT !.there = TRUE]]

\* An edit of a run's directory leaves records of runs.
LEMMA DirsEdited ==
    ASSUME StoreTypeOK, NEW r \in Runs, Edited(r)
    PROVE  dirs' \in [Runs -> RunRecords]
<1> USE DEF RunRecords
<1>1. dirs \in [Runs -> RunRecords]
  BY DEF StoreTypeOK
<1>2. CASE dirs' = dirs
  BY <1>1, <1>2
<1>3. CASE \E b \in BOOLEAN : dirs' = [dirs EXCEPT ![r].started = b]
  BY <1>1, <1>3
<1>4. CASE dirs' = [dirs EXCEPT ![r].finished = TRUE]
  BY <1>1, <1>4
<1>5. CASE \E n \in Nat : dirs' = [dirs EXCEPT ![r].reserved = n]
  BY <1>1, <1>5
<1>6. CASE dirs' = [dirs EXCEPT ![r].used = @ + 1]
  BY <1>1, <1>6
<1>7. CASE dirs' = [dirs EXCEPT ![r] = Absent]
  BY <1>1, <1>7 DEF Absent
<1>8. CASE dirs' = [dirs EXCEPT ![r] = [Absent EXCEPT !.there = TRUE]]
  BY <1>1, <1>8 DEF Absent
<1>9. QED
  BY <1>2, <1>3, <1>4, <1>5, <1>6, <1>7, <1>8 DEF Edited

\* What a run counts is a number.
LEMMA SizesKnown ==
    ASSUME StoreTypeOK, NEW r \in Runs
    PROVE  Reservation \in Nat /\ Raised(r) \in Nat
  BY StoreAssumption DEF StoreTypeOK, RunRecords, Reservation, Raised, Contribution

\* An export log is extended by a st of the objects that are asked for.
LEMMA Logged ==
    ASSUME StoreTypeOK, NEW p \in Procs, target[p] \in Runs, NEW st \in Statuses
    PROVE  [latest EXCEPT ![target[p]][Wants[p]] = st] \in [Runs -> Histories]
<1>1. Wants[p] \in SUBSET Objects
  BY StoreAssumption
<1>2. QED
  BY <1>1 DEF StoreTypeOK, Histories

\* Where an exporter goes on after an error.
LEMMA HandlerKnown ==
    \A p : Handler(p) \in {"unlock_begin", "unpin", "unlock_record"}
  BY DEF Handler

\* Types are kept.
LEMMA StoreTypeKept ==
    ASSUME StoreTypeOK, TargetsKnown,
           NEW p \in Procs, Works(p) \/ Killed(p)
    PROVE  StoreTypeOK'
<1> USE StoreAssumption DEF locks, outer, storeVars, Advance
<1>1. CASE p \in Runs /\ Begin(p)
  BY <1>1 DEF Begin, TakeRetention, StartSweep, NoSweep, StoreTypeOK, TargetsKnown, Procs,
    Objects, Statuses, Sweeps, Copiers, Recorders, Pinners, Retainers, Stations
<1>2. CASE p \in Runs /\ MakeRun(p)
  <2>a. dirs \in [Runs -> RunRecords]
    BY DEF StoreTypeOK
  <2>1. dirs' \in [Runs -> RunRecords]
    <3>1. p \in Runs
      BY <1>2 DEF MakeRun, StoreTypeOK, TargetsKnown, Advance
    <3>2. Edited(p)
      BY <1>2, <3>1, SizesKnown DEF MakeRun, Edited
    <3>3. QED
      BY <3>1, <3>2, DirsEdited
  <2>2. latest' \in [Runs -> Histories] /\ todo' \in [Procs -> SUBSET Objects]
    BY <1>2 DEF MakeRun, StoreTypeOK
  <2>3. /\ DOMAIN sweep' = {"idle", "total", "extra", "victim", "next"}
        /\ sweep'.idle \subseteq Runs /\ sweep'.victim \in Runs \cup {Nobody}
    BY <1>2 DEF MakeRun, StoreTypeOK
  <2>4. /\ retention' \in Procs \cup {Nobody} /\ active' \in [Runs -> Procs \cup {Nobody}]
        /\ recording' \in [Runs -> Procs \cup {Nobody}]
        /\ exporting' \in [Runs -> Procs \cup {Nobody}]
    BY <1>2 DEF MakeRun, StoreTypeOK, Procs
  <2>5. where' \in [Procs -> Stations] /\ target' \in [Procs -> Runs \cup {Nobody}]
    BY <1>2 DEF MakeRun, StoreTypeOK, Sweeps, Copiers, Recorders, Pinners, Retainers, Stations
  <2>6. QED
    BY <2>1, <2>2, <2>3, <2>4, <2>5 DEF StoreTypeOK
<1>3. CASE p \in Runs /\ WriteStarted(p)
  <2>a. dirs \in [Runs -> RunRecords]
    BY DEF StoreTypeOK
  <2>1. dirs' \in [Runs -> RunRecords]
    <3>1. p \in Runs
      BY <1>3 DEF WriteStarted, StoreTypeOK, TargetsKnown, Advance
    <3>2. Edited(p)
      BY <1>3, <3>1, SizesKnown DEF WriteStarted, Edited
    <3>3. QED
      BY <3>1, <3>2, DirsEdited
  <2>2. latest' \in [Runs -> Histories] /\ todo' \in [Procs -> SUBSET Objects]
    BY <1>3 DEF WriteStarted, StoreTypeOK
  <2>3. /\ DOMAIN sweep' = {"idle", "total", "extra", "victim", "next"}
        /\ sweep'.idle \subseteq Runs /\ sweep'.victim \in Runs \cup {Nobody}
    BY <1>3 DEF WriteStarted, StoreTypeOK
  <2>4. /\ retention' \in Procs \cup {Nobody} /\ active' \in [Runs -> Procs \cup {Nobody}]
        /\ recording' \in [Runs -> Procs \cup {Nobody}]
        /\ exporting' \in [Runs -> Procs \cup {Nobody}]
    BY <1>3 DEF WriteStarted, StoreTypeOK, Procs
  <2>5. where' \in [Procs -> Stations] /\ target' \in [Procs -> Runs \cup {Nobody}]
    BY <1>3 DEF WriteStarted, StoreTypeOK, Sweeps, Copiers, Recorders, Pinners, Retainers,
      Stations
  <2>6. QED
    BY <2>1, <2>2, <2>3, <2>4, <2>5 DEF StoreTypeOK
<1>4. CASE p \in Runs /\ WriteReservation(p)
  <2>a. dirs \in [Runs -> RunRecords]
    BY DEF StoreTypeOK
  <2>1. dirs' \in [Runs -> RunRecords]
    <3>1. p \in Runs
      BY <1>4 DEF WriteReservation, StoreTypeOK, TargetsKnown, Advance
    <3>2. Edited(p)
      BY <1>4, <3>1, SizesKnown DEF WriteReservation, Edited
    <3>3. QED
      BY <3>1, <3>2, DirsEdited
  <2>2. latest' \in [Runs -> Histories] /\ todo' \in [Procs -> SUBSET Objects]
    BY <1>4 DEF WriteReservation, StoreTypeOK
  <2>3. /\ DOMAIN sweep' = {"idle", "total", "extra", "victim", "next"}
        /\ sweep'.idle \subseteq Runs /\ sweep'.victim \in Runs \cup {Nobody}
    BY <1>4 DEF WriteReservation, FreeRetention, NoSweep, Reservation, StoreTypeOK
  <2>4. /\ retention' \in Procs \cup {Nobody} /\ active' \in [Runs -> Procs \cup {Nobody}]
        /\ recording' \in [Runs -> Procs \cup {Nobody}]
        /\ exporting' \in [Runs -> Procs \cup {Nobody}]
    BY <1>4 DEF WriteReservation, FreeRetention, NoSweep, StoreTypeOK, Procs
  <2>5. where' \in [Procs -> Stations] /\ target' \in [Procs -> Runs \cup {Nobody}]
    BY <1>4 DEF WriteReservation, FreeRetention, NoSweep, StoreTypeOK, Sweeps, Copiers,
      Recorders, Pinners, Retainers, Stations
  <2>6. QED
    BY <2>1, <2>2, <2>3, <2>4, <2>5 DEF StoreTypeOK
<1>5. CASE p \in Runs /\ BeginFails(p)
  BY <1>5 DEF BeginFails, FreeRetention, NoSweep, StoreTypeOK, TargetsKnown, Procs, Objects,
    Statuses, Sweeps, Copiers, Recorders, Pinners, Retainers, Stations
<1>6. CASE p \in Runs /\ Stage(p)
  <2>a. dirs \in [Runs -> RunRecords]
    BY DEF StoreTypeOK
  <2>1. dirs' \in [Runs -> RunRecords]
    <3>1. p \in Runs
      BY <1>6 DEF Stage, StoreTypeOK, TargetsKnown, Advance
    <3>2. Edited(p)
      BY <1>6, <3>1, SizesKnown DEF Stage, Edited
    <3>3. QED
      BY <3>1, <3>2, DirsEdited
  <2>2. latest' \in [Runs -> Histories] /\ todo' \in [Procs -> SUBSET Objects]
    BY <1>6 DEF Stage, StoreTypeOK
  <2>3. /\ DOMAIN sweep' = {"idle", "total", "extra", "victim", "next"}
        /\ sweep'.idle \subseteq Runs /\ sweep'.victim \in Runs \cup {Nobody}
    BY <1>6 DEF Stage, StoreTypeOK
  <2>4. /\ retention' \in Procs \cup {Nobody} /\ active' \in [Runs -> Procs \cup {Nobody}]
        /\ recording' \in [Runs -> Procs \cup {Nobody}]
        /\ exporting' \in [Runs -> Procs \cup {Nobody}]
    BY <1>6 DEF Stage, StoreTypeOK, Procs
  <2>5. where' \in [Procs -> Stations] /\ target' \in [Procs -> Runs \cup {Nobody}]
    BY <1>6 DEF Stage, StoreTypeOK, Sweeps, Copiers, Recorders, Pinners, Retainers, Stations
  <2>6. QED
    BY <2>1, <2>2, <2>3, <2>4, <2>5 DEF StoreTypeOK
<1>7. CASE p \in Runs /\ Finish(p)
  BY <1>7 DEF Finish, StoreTypeOK, TargetsKnown, Procs, Objects, Statuses, Sweeps, Copiers,
    Recorders, Pinners, Retainers, Stations
<1>8. CASE p \in Runs /\ WriteManifest(p)
  <2>a. dirs \in [Runs -> RunRecords]
    BY DEF StoreTypeOK
  <2>1. dirs' \in [Runs -> RunRecords]
    <3>1. p \in Runs
      BY <1>8 DEF WriteManifest, StoreTypeOK, TargetsKnown, Advance
    <3>2. Edited(p)
      BY <1>8, <3>1, SizesKnown DEF WriteManifest, Edited
    <3>3. QED
      BY <3>1, <3>2, DirsEdited
  <2>2. latest' \in [Runs -> Histories] /\ todo' \in [Procs -> SUBSET Objects]
    BY <1>8 DEF WriteManifest, StoreTypeOK
  <2>3. /\ DOMAIN sweep' = {"idle", "total", "extra", "victim", "next"}
        /\ sweep'.idle \subseteq Runs /\ sweep'.victim \in Runs \cup {Nobody}
    BY <1>8 DEF WriteManifest, StoreTypeOK
  <2>4. /\ retention' \in Procs \cup {Nobody} /\ active' \in [Runs -> Procs \cup {Nobody}]
        /\ recording' \in [Runs -> Procs \cup {Nobody}]
        /\ exporting' \in [Runs -> Procs \cup {Nobody}]
    BY <1>8 DEF WriteManifest, StoreTypeOK, Procs
  <2>5. where' \in [Procs -> Stations] /\ target' \in [Procs -> Runs \cup {Nobody}]
    BY <1>8 DEF WriteManifest, StoreTypeOK, Sweeps, Copiers, Recorders, Pinners, Retainers,
      Stations
  <2>6. QED
    BY <2>1, <2>2, <2>3, <2>4, <2>5 DEF StoreTypeOK
<1>9. CASE p \in Exporters /\ Open(p)
  BY <1>9 DEF Open, StoreTypeOK, TargetsKnown, Procs, Objects, Statuses, Sweeps, Copiers,
    Recorders, Pinners, Retainers, Stations
<1>10. CASE p \in Exporters /\ Pin(p)
  <2>a. dirs \in [Runs -> RunRecords]
    BY DEF StoreTypeOK
  <2>1. dirs' \in [Runs -> RunRecords]
    <3>1. target[p] \in Runs
      BY <1>10 DEF Pin, StoreTypeOK, TargetsKnown, Advance
    <3>2. Edited(target[p])
      BY <1>10, <3>1, SizesKnown DEF Pin, Edited
    <3>3. QED
      BY <3>1, <3>2, DirsEdited
  <2>2. latest' \in [Runs -> Histories] /\ todo' \in [Procs -> SUBSET Objects]
    BY <1>10 DEF Pin, StoreTypeOK
  <2>3. /\ DOMAIN sweep' = {"idle", "total", "extra", "victim", "next"}
        /\ sweep'.idle \subseteq Runs /\ sweep'.victim \in Runs \cup {Nobody}
    BY <1>10 DEF Pin, StartSweep, NoSweep, StoreTypeOK
  <2>4. /\ retention' \in Procs \cup {Nobody} /\ active' \in [Runs -> Procs \cup {Nobody}]
        /\ recording' \in [Runs -> Procs \cup {Nobody}]
        /\ exporting' \in [Runs -> Procs \cup {Nobody}]
    BY <1>10 DEF Pin, StartSweep, NoSweep, StoreTypeOK, Procs
  <2>5. where' \in [Procs -> Stations] /\ target' \in [Procs -> Runs \cup {Nobody}]
    BY <1>10 DEF Pin, StartSweep, NoSweep, StoreTypeOK, Sweeps, Copiers, Recorders, Pinners,
      Retainers, Stations
  <2>6. QED
    BY <2>1, <2>2, <2>3, <2>4, <2>5 DEF StoreTypeOK
<1>11. CASE p \in Exporters /\ Pinned(p)
  BY <1>11 DEF Pinned, FreeRetention, NoSweep, StoreTypeOK, TargetsKnown, Procs, Objects,
    Statuses, Sweeps, Copiers, Recorders, Pinners, Retainers, Stations
<1>12. CASE p \in Exporters /\ Unpin(p)
  <2>a. dirs \in [Runs -> RunRecords]
    BY DEF StoreTypeOK
  <2>1. dirs' \in [Runs -> RunRecords]
    <3>1. target[p] \in Runs
      BY <1>12 DEF Unpin, StoreTypeOK, TargetsKnown, Advance
    <3>2. Edited(target[p])
      BY <1>12, <3>1, SizesKnown DEF Unpin, Edited
    <3>3. QED
      BY <3>1, <3>2, DirsEdited
  <2>2. latest' \in [Runs -> Histories] /\ todo' \in [Procs -> SUBSET Objects]
    BY <1>12 DEF Unpin, StoreTypeOK
  <2>3. /\ DOMAIN sweep' = {"idle", "total", "extra", "victim", "next"}
        /\ sweep'.idle \subseteq Runs /\ sweep'.victim \in Runs \cup {Nobody}
    BY <1>12 DEF Unpin, FreeRetention, NoSweep, StoreTypeOK
  <2>4. /\ retention' \in Procs \cup {Nobody} /\ active' \in [Runs -> Procs \cup {Nobody}]
        /\ recording' \in [Runs -> Procs \cup {Nobody}]
        /\ exporting' \in [Runs -> Procs \cup {Nobody}]
    BY <1>12 DEF Unpin, FreeRetention, NoSweep, StoreTypeOK, Procs
  <2>5. where' \in [Procs -> Stations] /\ target' \in [Procs -> Runs \cup {Nobody}]
    BY <1>12 DEF Unpin, FreeRetention, NoSweep, StoreTypeOK, Sweeps, Copiers, Recorders,
      Pinners, Retainers, Stations
  <2>6. QED
    BY <2>1, <2>2, <2>3, <2>4, <2>5 DEF StoreTypeOK
<1>13. CASE retention = p /\ Expire(p)
  <2>1. dirs' \in [Runs -> RunRecords]
    BY <1>13 DEF Expire, StoreTypeOK
  <2>2. latest' \in [Runs -> Histories] /\ todo' \in [Procs -> SUBSET Objects]
    BY <1>13 DEF Expire, StoreTypeOK
  <2>3. /\ DOMAIN sweep' = {"idle", "total", "extra", "victim", "next"}
        /\ sweep'.idle \subseteq Runs /\ sweep'.victim \in Runs \cup {Nobody}
    <3>1. sweep' = sweep \/ \E idle \in SUBSET Runs : sweep' = Survey(idle)
      BY <1>13 DEF Expire, Idle, Present
    <3>2. QED
      BY <3>1 DEF Survey, StoreTypeOK
  <2>4. /\ retention' \in Procs \cup {Nobody} /\ active' \in [Runs -> Procs \cup {Nobody}]
        /\ recording' \in [Runs -> Procs \cup {Nobody}]
        /\ exporting' \in [Runs -> Procs \cup {Nobody}]
    BY <1>13 DEF Expire, StoreTypeOK, Procs
  <2>5. where' \in [Procs -> Stations] /\ target' \in [Procs -> Runs \cup {Nobody}]
    BY HandlerKnown, <1>13 DEF Expire, StoreTypeOK, Sweeps, Copiers, Recorders, Pinners,
      Retainers, Stations
  <2>6. QED
    BY <2>1, <2>2, <2>3, <2>4, <2>5 DEF StoreTypeOK
<1>14. CASE retention = p /\ Weigh(p)
  <2>1. dirs' \in [Runs -> RunRecords]
    BY <1>14 DEF Weigh, StoreTypeOK
  <2>2. latest' \in [Runs -> Histories] /\ todo' \in [Procs -> SUBSET Objects]
    BY <1>14 DEF Weigh, StoreTypeOK
  <2>3. /\ DOMAIN sweep' = {"idle", "total", "extra", "victim", "next"}
        /\ sweep'.idle \subseteq Runs /\ sweep'.victim \in Runs \cup {Nobody}
    <3>1. sweep' = sweep \/ \E idle \in SUBSET Runs : sweep' = Survey(idle)
      BY <1>14 DEF Weigh, Idle, Present
    <3>2. QED
      BY <3>1 DEF Survey, StoreTypeOK
  <2>4. /\ retention' \in Procs \cup {Nobody} /\ active' \in [Runs -> Procs \cup {Nobody}]
        /\ recording' \in [Runs -> Procs \cup {Nobody}]
        /\ exporting' \in [Runs -> Procs \cup {Nobody}]
    BY <1>14 DEF Weigh, StoreTypeOK, Procs
  <2>5. where' \in [Procs -> Stations] /\ target' \in [Procs -> Runs \cup {Nobody}]
    BY HandlerKnown, <1>14 DEF Weigh, StoreTypeOK, Sweeps, Copiers, Recorders, Pinners,
      Retainers, Stations
  <2>6. QED
    BY <2>1, <2>2, <2>3, <2>4, <2>5 DEF StoreTypeOK
<1>15. CASE retention = p /\ Evict(p)
  <2>a. dirs \in [Runs -> RunRecords]
    BY DEF StoreTypeOK
  <2>1. dirs' \in [Runs -> RunRecords]
    <3>1. PICK r \in Runs :
             dirs' = dirs \/ \E b \in BOOLEAN : dirs' = [dirs EXCEPT ![r].started = b]
      BY <1>15 DEF Evict, Oldest, StoreTypeOK
    <3>2. Edited(r)
      BY <3>1 DEF Edited
    <3>3. QED
      BY <3>2, DirsEdited
  <2>2. latest' \in [Runs -> Histories] /\ todo' \in [Procs -> SUBSET Objects]
    BY <1>15 DEF Evict, StoreTypeOK
  <2>3. /\ DOMAIN sweep' = {"idle", "total", "extra", "victim", "next"}
        /\ sweep'.idle \subseteq Runs /\ sweep'.victim \in Runs \cup {Nobody}
    <3>1. PICK r \in sweep.idle :
             \/ sweep' = [sweep EXCEPT !.victim = r, !.total = @ - Contribution(r),
                                       !.idle = @ \ {r}]
             \/ sweep' = [sweep EXCEPT !.idle = @ \ {r}]
      BY <1>15 DEF Evict, Oldest
    <3>2. QED
      BY <3>1 DEF StoreTypeOK
  <2>4. /\ retention' \in Procs \cup {Nobody} /\ active' \in [Runs -> Procs \cup {Nobody}]
        /\ recording' \in [Runs -> Procs \cup {Nobody}]
        /\ exporting' \in [Runs -> Procs \cup {Nobody}]
    BY <1>15 DEF Evict, Oldest, StoreTypeOK, Procs
  <2>5. where' \in [Procs -> Stations] /\ target' \in [Procs -> Runs \cup {Nobody}]
    BY <1>15 DEF Evict, Oldest, StoreTypeOK, Sweeps, Copiers, Recorders, Pinners, Retainers,
      Stations
  <2>6. QED
    BY <2>1, <2>2, <2>3, <2>4, <2>5 DEF StoreTypeOK
<1>16. CASE retention = p /\ Evicted(p)
  <2>a. dirs \in [Runs -> RunRecords]
    BY DEF StoreTypeOK
  <2>1. dirs' \in [Runs -> RunRecords]
    <3>1. sweep.victim \in Runs
      BY <1>16 DEF Evicted, StoreTypeOK, TargetsKnown, Advance
    <3>2. Edited(sweep.victim)
      BY <1>16, <3>1, SizesKnown DEF Evicted, Edited
    <3>3. QED
      BY <3>1, <3>2, DirsEdited
  <2>2. latest' \in [Runs -> Histories] /\ todo' \in [Procs -> SUBSET Objects]
    BY <1>16 DEF Evicted, StoreTypeOK
  <2>3. /\ DOMAIN sweep' = {"idle", "total", "extra", "victim", "next"}
        /\ sweep'.idle \subseteq Runs /\ sweep'.victim \in Runs \cup {Nobody}
    BY <1>16 DEF Evicted, StoreTypeOK
  <2>4. /\ retention' \in Procs \cup {Nobody} /\ active' \in [Runs -> Procs \cup {Nobody}]
        /\ recording' \in [Runs -> Procs \cup {Nobody}]
        /\ exporting' \in [Runs -> Procs \cup {Nobody}]
    BY <1>16 DEF Evicted, StoreTypeOK, Procs
  <2>5. where' \in [Procs -> Stations] /\ target' \in [Procs -> Runs \cup {Nobody}]
    BY HandlerKnown, <1>16 DEF Evicted, StoreTypeOK, Sweeps, Copiers, Recorders, Pinners,
      Retainers, Stations
  <2>6. QED
    BY <2>1, <2>2, <2>3, <2>4, <2>5 DEF StoreTypeOK
<1>17. CASE retention = p /\ Admit(p)
  BY <1>17 DEF Admit, Handler, StoreTypeOK, TargetsKnown, Procs, Objects, Statuses, Sweeps,
    Copiers, Recorders, Pinners, Retainers, Stations
<1>18. CASE LockRecord(p)
  BY <1>18 DEF LockRecord, StoreTypeOK, TargetsKnown, Procs, Objects, Statuses, Sweeps,
    Copiers, Recorders, Pinners, Retainers, Stations
<1>19. CASE LockExport(p)
  BY <1>19 DEF LockExport, StoreTypeOK, TargetsKnown, Procs, Objects, Statuses, Sweeps,
    Copiers, Recorders, Pinners, Retainers, Stations
<1>20. CASE Recharge(p)
  <2>a. dirs \in [Runs -> RunRecords]
    BY DEF StoreTypeOK
  <2>1. dirs' \in [Runs -> RunRecords]
    <3>1. target[p] \in Runs
      BY <1>20 DEF Recharge, StoreTypeOK, TargetsKnown, Advance
    <3>2. Edited(target[p])
      BY <1>20, <3>1, SizesKnown DEF Recharge, Edited
    <3>3. QED
      BY <3>1, <3>2, DirsEdited
  <2>2. latest' \in [Runs -> Histories] /\ todo' \in [Procs -> SUBSET Objects]
    BY <1>20 DEF Recharge, StoreTypeOK
  <2>3. /\ DOMAIN sweep' = {"idle", "total", "extra", "victim", "next"}
        /\ sweep'.idle \subseteq Runs /\ sweep'.victim \in Runs \cup {Nobody}
    BY <1>20 DEF Recharge, TakeRetention, StartSweep, NoSweep, StoreTypeOK
  <2>4. /\ retention' \in Procs \cup {Nobody} /\ active' \in [Runs -> Procs \cup {Nobody}]
        /\ recording' \in [Runs -> Procs \cup {Nobody}]
        /\ exporting' \in [Runs -> Procs \cup {Nobody}]
    BY <1>20 DEF Recharge, TakeRetention, StartSweep, NoSweep, StoreTypeOK, Procs
  <2>5. where' \in [Procs -> Stations] /\ target' \in [Procs -> Runs \cup {Nobody}]
    BY <1>20 DEF Recharge, TakeRetention, StartSweep, NoSweep, StoreTypeOK, Sweeps, Copiers,
      Recorders, Pinners, Retainers, Stations
  <2>6. QED
    BY <2>1, <2>2, <2>3, <2>4, <2>5 DEF StoreTypeOK
<1>21. CASE ReadManifest(p)
  BY <1>21 DEF ReadManifest, FreeRetention, NoSweep, StoreTypeOK, TargetsKnown, Procs,
    Objects, Statuses, Sweeps, Copiers, Recorders, Pinners, Retainers, Stations
<1>22. CASE ConfirmWorkflow(p)
  <2>1. dirs' \in [Runs -> RunRecords]
    BY <1>22 DEF ConfirmWorkflow, Log, StoreTypeOK
  <2>2. latest' \in [Runs -> Histories] /\ todo' \in [Procs -> SUBSET Objects]
    <3>1. latest' = latest \/ \E s \in Statuses : Log(p, s)
      BY <1>22 DEF ConfirmWorkflow, Statuses
    <3>2. target[p] \in Runs
      BY <1>22 DEF ConfirmWorkflow, TargetsKnown
    <3>3. latest' \in [Runs -> Histories]
      BY <3>1, <3>2, Logged DEF Log, StoreTypeOK
    <3>4. todo' \in [Procs -> SUBSET Objects]
      BY <1>22 DEF ConfirmWorkflow, StoreTypeOK
    <3>5. QED
      BY <3>3, <3>4
  <2>3. /\ DOMAIN sweep' = {"idle", "total", "extra", "victim", "next"}
        /\ sweep'.idle \subseteq Runs /\ sweep'.victim \in Runs \cup {Nobody}
    BY <1>22 DEF ConfirmWorkflow, Log, StoreTypeOK
  <2>4. /\ retention' \in Procs \cup {Nobody} /\ active' \in [Runs -> Procs \cup {Nobody}]
        /\ recording' \in [Runs -> Procs \cup {Nobody}]
        /\ exporting' \in [Runs -> Procs \cup {Nobody}]
    BY <1>22 DEF ConfirmWorkflow, Log, StoreTypeOK, Procs
  <2>5. where' \in [Procs -> Stations] /\ target' \in [Procs -> Runs \cup {Nobody}]
    BY <1>22 DEF ConfirmWorkflow, Log, StoreTypeOK, Sweeps, Copiers, Recorders, Pinners,
      Retainers, Stations
  <2>6. QED
    BY <2>1, <2>2, <2>3, <2>4, <2>5 DEF StoreTypeOK
<1>23. CASE Intend(p)
  <2>1. dirs' \in [Runs -> RunRecords]
    BY <1>23 DEF Intend, Log, StoreTypeOK
  <2>2. latest' \in [Runs -> Histories] /\ todo' \in [Procs -> SUBSET Objects]
    <3>1. latest' = latest \/ \E s \in Statuses : Log(p, s)
      BY <1>23 DEF Intend, Statuses
    <3>2. target[p] \in Runs
      BY <1>23 DEF Intend, TargetsKnown
    <3>3. latest' \in [Runs -> Histories]
      BY <3>1, <3>2, Logged DEF Log, StoreTypeOK
    <3>4. todo' \in [Procs -> SUBSET Objects]
      BY <1>23 DEF Intend, StoreTypeOK
    <3>5. QED
      BY <3>3, <3>4
  <2>3. /\ DOMAIN sweep' = {"idle", "total", "extra", "victim", "next"}
        /\ sweep'.idle \subseteq Runs /\ sweep'.victim \in Runs \cup {Nobody}
    BY <1>23 DEF Intend, Log, StoreTypeOK
  <2>4. /\ retention' \in Procs \cup {Nobody} /\ active' \in [Runs -> Procs \cup {Nobody}]
        /\ recording' \in [Runs -> Procs \cup {Nobody}]
        /\ exporting' \in [Runs -> Procs \cup {Nobody}]
    BY <1>23 DEF Intend, Log, StoreTypeOK, Procs
  <2>5. where' \in [Procs -> Stations] /\ target' \in [Procs -> Runs \cup {Nobody}]
    BY <1>23 DEF Intend, Log, StoreTypeOK, Sweeps, Copiers, Recorders, Pinners, Retainers,
      Stations
  <2>6. QED
    BY <2>1, <2>2, <2>3, <2>4, <2>5 DEF StoreTypeOK
<1>24. CASE WriteObject(p)
  <2>1. dirs' \in [Runs -> RunRecords]
    BY <1>24 DEF WriteObject, Receipt, StoreTypeOK
  <2>2. latest' \in [Runs -> Histories] /\ todo' \in [Procs -> SUBSET Objects]
    BY <1>24 DEF WriteObject, StoreTypeOK
  <2>3. /\ DOMAIN sweep' = {"idle", "total", "extra", "victim", "next"}
        /\ sweep'.idle \subseteq Runs /\ sweep'.victim \in Runs \cup {Nobody}
    BY <1>24 DEF WriteObject, Receipt, StoreTypeOK
  <2>4. /\ retention' \in Procs \cup {Nobody} /\ active' \in [Runs -> Procs \cup {Nobody}]
        /\ recording' \in [Runs -> Procs \cup {Nobody}]
        /\ exporting' \in [Runs -> Procs \cup {Nobody}]
    BY <1>24 DEF WriteObject, Receipt, StoreTypeOK, Procs
  <2>5. where' \in [Procs -> Stations] /\ target' \in [Procs -> Runs \cup {Nobody}]
    BY <1>24 DEF WriteObject, Receipt, StoreTypeOK, Sweeps, Copiers, Recorders, Pinners,
      Retainers, Stations
  <2>6. QED
    BY <2>1, <2>2, <2>3, <2>4, <2>5 DEF StoreTypeOK
<1>25. CASE Settle(p)
  <2>1. dirs' \in [Runs -> RunRecords]
    BY <1>25 DEF Settle, Log, StoreTypeOK
  <2>2. latest' \in [Runs -> Histories] /\ todo' \in [Procs -> SUBSET Objects]
    <3>1. latest' = latest \/ \E s \in Statuses : Log(p, s)
      BY <1>25 DEF Settle, Statuses
    <3>2. target[p] \in Runs
      BY <1>25 DEF Settle, TargetsKnown
    <3>3. latest' \in [Runs -> Histories]
      BY <3>1, <3>2, Logged DEF Log, StoreTypeOK
    <3>4. todo' \in [Procs -> SUBSET Objects]
      BY <1>25 DEF Settle, StoreTypeOK
    <3>5. QED
      BY <3>3, <3>4
  <2>3. /\ DOMAIN sweep' = {"idle", "total", "extra", "victim", "next"}
        /\ sweep'.idle \subseteq Runs /\ sweep'.victim \in Runs \cup {Nobody}
    BY <1>25 DEF Settle, Log, StoreTypeOK
  <2>4. /\ retention' \in Procs \cup {Nobody} /\ active' \in [Runs -> Procs \cup {Nobody}]
        /\ recording' \in [Runs -> Procs \cup {Nobody}]
        /\ exporting' \in [Runs -> Procs \cup {Nobody}]
    BY <1>25 DEF Settle, Log, StoreTypeOK, Procs
  <2>5. where' \in [Procs -> Stations] /\ target' \in [Procs -> Runs \cup {Nobody}]
    BY <1>25 DEF Settle, Log, StoreTypeOK, Sweeps, Copiers, Recorders, Pinners, Retainers,
      Stations
  <2>6. QED
    BY <2>1, <2>2, <2>3, <2>4, <2>5 DEF StoreTypeOK
<1>26. CASE UnlockFailed(p)
  BY <1>26 DEF UnlockFailed, FreeRetention, NoSweep, StoreTypeOK, TargetsKnown, Procs,
    Objects, Statuses, Sweeps, Copiers, Recorders, Pinners, Retainers, Stations
<1>27. CASE UnlockRun(p)
  BY <1>27 DEF UnlockRun, StoreTypeOK, TargetsKnown, Procs, Objects, Statuses, Sweeps,
    Copiers, Recorders, Pinners, Retainers, Stations
<1>28. CASE LockRelease(p)
  BY <1>28 DEF LockRelease, TakeRetention, StoreTypeOK, TargetsKnown, Procs, Objects,
    Statuses, Sweeps, Copiers, Recorders, Pinners, Retainers, Stations
<1>29. CASE ReleaseRun(p)
  <2>a. dirs \in [Runs -> RunRecords]
    BY DEF StoreTypeOK
  <2>1. dirs' \in [Runs -> RunRecords]
    <3>1. target[p] \in Runs
      BY <1>29 DEF ReleaseRun, StoreTypeOK, TargetsKnown, Advance
    <3>2. Edited(target[p])
      BY <1>29, <3>1, SizesKnown DEF ReleaseRun, Edited
    <3>3. QED
      BY <3>1, <3>2, DirsEdited
  <2>2. latest' \in [Runs -> Histories] /\ todo' \in [Procs -> SUBSET Objects]
    BY <1>29 DEF ReleaseRun, StoreTypeOK
  <2>3. /\ DOMAIN sweep' = {"idle", "total", "extra", "victim", "next"}
        /\ sweep'.idle \subseteq Runs /\ sweep'.victim \in Runs \cup {Nobody}
    BY <1>29 DEF ReleaseRun, FreeRetention, NoSweep, StoreTypeOK
  <2>4. /\ retention' \in Procs \cup {Nobody} /\ active' \in [Runs -> Procs \cup {Nobody}]
        /\ recording' \in [Runs -> Procs \cup {Nobody}]
        /\ exporting' \in [Runs -> Procs \cup {Nobody}]
    BY <1>29 DEF ReleaseRun, FreeRetention, NoSweep, StoreTypeOK, Procs
  <2>5. where' \in [Procs -> Stations] /\ target' \in [Procs -> Runs \cup {Nobody}]
    BY <1>29 DEF ReleaseRun, FreeRetention, NoSweep, StoreTypeOK, Sweeps, Copiers, Recorders,
      Pinners, Retainers, Stations
  <2>6. QED
    BY <2>1, <2>2, <2>3, <2>4, <2>5 DEF StoreTypeOK
<1>30. CASE Killed(p)
  BY <1>30 DEF Killed, FreeRetention, NoSweep, Dropped, StoreTypeOK, TargetsKnown, Procs,
    Objects, Statuses, Sweeps, Copiers, Recorders, Pinners, Retainers, Stations
<1>31. QED
  BY <1>1, <1>2, <1>3, <1>4, <1>5, <1>6, <1>7, <1>8, <1>9, <1>10,
     <1>11, <1>12, <1>13, <1>14, <1>15, <1>16, <1>17, <1>18, <1>19, <1>20,
     <1>21, <1>22, <1>23, <1>24, <1>25, <1>26, <1>27, <1>28, <1>29, <1>30
  DEF Works, ToolSteps, Exporter, Exporting, Cleanup

\* ... and therefore on their course.
LEMMA CoursesStay ==
    ASSUME StoreTypeOK, LocksHeld, NEW p \in Procs, Works(p) \/ Killed(p)
    PROVE  \A q \in Procs \ {p} :
              Course(q)' = Course(q) /\ where'[q] = where[q] /\ target'[q] = target[q]
<1>1. \A q \in Procs : where[q] \in Sweeps => retention = q
  BY DEF LocksHeld, Retainers
<1>2. QED
  BY <1>1, OthersStay DEF Course

\* A cleanup takes the lock of an idle run to remove it and gives it back with the
\* run; else it touches no lock of a run.
LEMMA CleanupVictim ==
    ASSUME StoreTypeOK, NEW p \in Procs, Cleanup(p)
    PROVE  \/ active' = active /\ sweep'.victim = sweep.victim
           \/ \E r \in Runs : /\ active[r] = Nobody /\ active' = [active EXCEPT ![r] = p]
                             /\ sweep.victim = Nobody /\ sweep'.victim = r
           \/ sweep.victim # Nobody /\ active' = [active EXCEPT ![sweep.victim] = Nobody]
<1>1. DOMAIN sweep = {"idle", "total", "extra", "victim", "next"} /\ sweep.idle \subseteq Runs
  BY DEF StoreTypeOK
<1>2. CASE Expire(p) \/ Weigh(p) \/ Admit(p)
  <2>1. active' = active
    BY <1>2 DEF Expire, Weigh, Admit, locks
  <2>2. sweep'.victim = sweep.victim
    BY <1>1, <1>2 DEF Expire, Weigh, Admit, Survey
  <2>3. QED
    BY <2>1, <2>2
<1>3. CASE Evict(p)
  <2>1. PICK r \in Oldest(sweep.idle) :
          IF active[r] = Nobody /\ recording[r] = Nobody /\ exporting[r] = Nobody
          THEN /\ active' = [active EXCEPT ![r] = p]
               /\ sweep' = [sweep EXCEPT !.victim = r, !.total = @ - Contribution(r),
                                         !.idle = @ \ {r}]
          ELSE sweep' = [sweep EXCEPT !.idle = @ \ {r}] /\ UNCHANGED active
    BY <1>3 DEF Evict
  <2>2. r \in Runs /\ sweep.victim = Nobody
    BY <1>1, <1>3, <2>1 DEF Oldest, Evict
  <2>3. CASE active[r] = Nobody /\ recording[r] = Nobody /\ exporting[r] = Nobody
    BY <1>1, <2>1, <2>2, <2>3
  <2>4. CASE ~(active[r] = Nobody /\ recording[r] = Nobody /\ exporting[r] = Nobody)
    BY <1>1, <2>1, <2>4
  <2>5. QED
    BY <2>3, <2>4
<1>4. CASE Evicted(p)
  BY <1>4 DEF Evicted
<1>5. QED
  BY <1>2, <1>3, <1>4 DEF Cleanup

\* A cleanup leads to where its caller goes on, or to the caller's handler.
LEMMA CleanupCourse ==
    ASSUME StoreTypeOK, LocksHeld, TargetsKnown, NEW p \in Procs, Cleanup(p)
    PROVE  /\ retention = p /\ where[p] \in Sweeps
           /\ UNCHANGED <<retention, recording, exporting, target, todo, outer>>
           /\ where'[p] \in Sweeps \cup {"mkdir", "pinned", "read", "unlock_begin", "unpin",
                                       "unlock_record"}
           /\ sweep'.next = sweep.next
           /\ \/ Course(p)' = Course(p)
              \/ Course(p) = "mkdir"  /\ Course(p)' = "unlock_begin"
              \/ Course(p) = "pinned" /\ Course(p)' = "unpin"
              \/ Course(p) = "read"   /\ Course(p)' = "unlock_record"
<1>1. retention = p /\ where[p] \in Sweeps
  BY DEF Cleanup, Expire, Weigh, Evict, Evicted, Admit, Sweeps
<1>2. sweep.next \in {"mkdir", "pinned", "read"}
  BY <1>1 DEF TargetsKnown
<1>3. UNCHANGED <<retention, recording, exporting, target, todo, outer>>
  BY DEF Cleanup, Expire, Weigh, Evict, Evicted, Admit, locks, outer
<1>4. sweep'.next = sweep.next
  <2>1. CASE Expire(p)
    BY <2>1 DEF Expire, Survey, StoreTypeOK
  <2>2. CASE Weigh(p)
    BY <2>2 DEF Weigh, Survey, StoreTypeOK
  <2>3. CASE Evict(p)
    BY <2>3 DEF Evict, StoreTypeOK
  <2>4. CASE Evicted(p)
    BY <2>4 DEF Evicted, StoreTypeOK
  <2>5. CASE Admit(p)
    BY <2>5 DEF Admit
  <2>6. QED
    BY <2>1, <2>2, <2>3, <2>4, <2>5 DEF Cleanup
<1>5. /\ sweep.next = "mkdir"  => Handler(p) = "unlock_begin"
      /\ sweep.next = "pinned" => Handler(p) = "unpin"
      /\ sweep.next = "read"   => Handler(p) = "unlock_record"
  BY DEF Handler
<1>6. where'[p] \in Sweeps \cup {Handler(p)} \/ where'[p] = sweep.next
  <2>1. CASE Expire(p)
    BY <2>1 DEF Expire, Sweeps, StoreTypeOK
  <2>2. CASE Weigh(p)
    BY <2>2 DEF Weigh, Sweeps, StoreTypeOK
  <2>3. CASE Evict(p)
    BY <2>3, <1>1 DEF Evict
  <2>4. CASE Evicted(p)
    BY <2>4, <1>1 DEF Evicted, StoreTypeOK
  <2>5. CASE Admit(p)
    BY <2>5 DEF Admit, StoreTypeOK
  <2>6. QED
    BY <2>1, <2>2, <2>3, <2>4, <2>5 DEF Cleanup
<1>7. QED
  BY <1>1, <1>2, <1>3, <1>4, <1>5, <1>6 DEF Course, Sweeps

\* What Pin does: the run is gone, or it is there and free, and is pinned.
LEMMA PinSteps ==
    ASSUME StoreTypeOK, TargetsKnown, NEW p \in Exporters, Pin(p)
    PROVE  /\ p \in Procs /\ p \notin Runs /\ target[p] \in Runs
           /\ where[p] = "pin" /\ retention = Nobody /\ p # Nobody
           /\ UNCHANGED <<recording, exporting, births, outer, target, todo>>
           /\ \/ /\ where' = [where EXCEPT ![p] = "done"] /\ where'[p] = "done"
                 /\ UNCHANGED <<retention, active, dirs, sweep>>
              \/ /\ where' = [where EXCEPT ![p] = "expire"] /\ where'[p] = "expire"
                 /\ dirs[target[p]].there /\ dirs[target[p]].started
                 /\ active[target[p]] = Nobody
                 /\ active' = [active EXCEPT ![target[p]] = p] /\ active'[target[p]] = p
                 /\ retention' = p
                 /\ dirs' = [dirs EXCEPT ![target[p]].reserved = Raised(target[p])]
                 /\ sweep'.next = "pinned" /\ sweep'.victim = Nobody
<1>1. p \in Procs /\ p \notin Runs /\ p # Nobody
  BY StoreAssumption DEF Procs
<1>2. where[p] = "pin" /\ target[p] \in Runs /\ retention = Nobody
  BY <1>1 DEF Pin, TargetsKnown
<1>3. CASE where' = [where EXCEPT ![p] = "done"] /\ UNCHANGED <<retention, active, dirs, sweep>>
  BY <1>1, <1>2, <1>3 DEF Pin, StoreTypeOK
<1>4. CASE /\ dirs[target[p]].there /\ dirs[target[p]].started /\ active[target[p]] = Nobody
           /\ active' = [active EXCEPT ![target[p]] = p]
           /\ retention' = p
           /\ dirs' = [dirs EXCEPT ![target[p]].reserved = Raised(target[p])]
           /\ StartSweep(0, "pinned")
           /\ where' = [where EXCEPT ![p] = "expire"]
  <2>1. sweep'.next = "pinned" /\ sweep'.victim = Nobody
    BY <1>4 DEF StartSweep, NoSweep
  <2>2. QED
    BY <1>1, <1>2, <1>4, <2>1 DEF Pin, StoreTypeOK
<1>5. QED
  BY <1>3, <1>4 DEF Pin

\* A process goes on with its own run.
LEMMA OwnTargets ==
    ASSUME StoreTypeOK, LocksHeld, TargetsKnown,
           NEW p \in Procs, Works(p) \/ Killed(p)
    PROVE  /\ p \in Runs => target'[p] = p
           /\ where'[p] # "idle" => target'[p] \in Runs
           /\ where'[p] \in Sweeps => sweep'.next \in {"mkdir", "pinned", "read"}
           /\ Course(p)' \in {"mkdir", "starting", "reserving", "running", "finishing",
                             "unlock_begin"} => p \in Runs
<1> USE StoreAssumption DEF locks, outer, storeVars, Advance, Course
<1>1. CASE p \in Runs /\ Begin(p)
  BY <1>1 DEF Begin, TakeRetention, StartSweep, NoSweep, StoreTypeOK, TargetsKnown, Sweeps
<1>2. CASE p \in Runs /\ MakeRun(p)
  BY <1>2 DEF MakeRun, StoreTypeOK, TargetsKnown, Sweeps
<1>3. CASE p \in Runs /\ WriteStarted(p)
  BY <1>3 DEF WriteStarted, StoreTypeOK, TargetsKnown, Sweeps
<1>4. CASE p \in Runs /\ WriteReservation(p)
  BY <1>4 DEF WriteReservation, FreeRetention, NoSweep, StoreTypeOK, TargetsKnown, Sweeps
<1>5. CASE p \in Runs /\ BeginFails(p)
  BY <1>5 DEF BeginFails, FreeRetention, NoSweep, StoreTypeOK, TargetsKnown, Sweeps
<1>6. CASE p \in Runs /\ Stage(p)
  BY <1>6 DEF Stage, StoreTypeOK, TargetsKnown, Sweeps
<1>7. CASE p \in Runs /\ Finish(p)
  BY <1>7 DEF Finish, StoreTypeOK, TargetsKnown, Sweeps
<1>8. CASE p \in Runs /\ WriteManifest(p)
  BY <1>8 DEF WriteManifest, StoreTypeOK, TargetsKnown, Sweeps
<1>9. CASE p \in Exporters /\ Open(p)
  BY <1>9 DEF Open, StoreTypeOK, TargetsKnown, Sweeps
<1>10. CASE p \in Exporters /\ Pin(p)
  <2>1. p \notin Runs /\ target' = target /\ target[p] \in Runs /\ p # Nobody
    BY <1>10, PinSteps
  <2>2. CASE where'[p] = "done"
    BY <2>1, <2>2 DEF Sweeps
  <2>3. CASE where'[p] = "expire" /\ sweep'.next = "pinned"
    BY <2>1, <2>3 DEF Sweeps
  <2>4. QED
    BY <1>10, <2>2, <2>3, PinSteps
<1>11. CASE p \in Exporters /\ Pinned(p)
  BY <1>11 DEF Pinned, FreeRetention, NoSweep, StoreTypeOK, TargetsKnown, Sweeps
<1>12. CASE p \in Exporters /\ Unpin(p)
  BY <1>12 DEF Unpin, FreeRetention, NoSweep, StoreTypeOK, TargetsKnown, Sweeps
<1>13. CASE Cleanup(p)
  BY <1>13, CleanupCourse DEF TargetsKnown, Sweeps
<1>14. CASE LockRecord(p)
  BY <1>14 DEF LockRecord, StoreTypeOK, TargetsKnown, Sweeps
<1>15. CASE LockExport(p)
  BY <1>15 DEF LockExport, StoreTypeOK, TargetsKnown, Sweeps
<1>16. CASE Recharge(p)
  BY <1>16 DEF Recharge, TakeRetention, StartSweep, NoSweep, StoreTypeOK, TargetsKnown, Sweeps
<1>17. CASE ReadManifest(p)
  BY <1>17 DEF ReadManifest, FreeRetention, NoSweep, StoreTypeOK, TargetsKnown, Sweeps
<1>18. CASE ConfirmWorkflow(p)
  BY <1>18 DEF ConfirmWorkflow, StoreTypeOK, TargetsKnown, Sweeps
<1>19. CASE Intend(p)
  BY <1>19 DEF Intend, StoreTypeOK, TargetsKnown, Sweeps
<1>20. CASE WriteObject(p)
  BY <1>20 DEF WriteObject, StoreTypeOK, TargetsKnown, Sweeps
<1>21. CASE Settle(p)
  BY <1>21 DEF Settle, StoreTypeOK, TargetsKnown, Sweeps
<1>22. CASE UnlockFailed(p)
  BY <1>22 DEF UnlockFailed, FreeRetention, NoSweep, StoreTypeOK, TargetsKnown, Sweeps
<1>23. CASE UnlockRun(p)
  BY <1>23 DEF UnlockRun, StoreTypeOK, TargetsKnown, Sweeps
<1>24. CASE LockRelease(p)
  BY <1>24 DEF LockRelease, TakeRetention, StoreTypeOK, TargetsKnown, Sweeps
<1>25. CASE ReleaseRun(p)
  BY <1>25 DEF ReleaseRun, FreeRetention, NoSweep, StoreTypeOK, TargetsKnown, Sweeps
<1>26. CASE Killed(p)
  BY <1>26 DEF Killed, FreeRetention, NoSweep, StoreTypeOK, TargetsKnown, Sweeps
<1>27. QED
  BY <1>1, <1>2, <1>3, <1>4, <1>5, <1>6, <1>7, <1>8, <1>9, <1>10,
     <1>11, <1>12, <1>13, <1>14, <1>15, <1>16, <1>17, <1>18, <1>19, <1>20,
     <1>21, <1>22, <1>23, <1>24, <1>25, <1>26
  DEF Works, ToolSteps, Exporter, Exporting

\* What a process is at work on stays the run it chose.
LEMMA TargetsKept ==
    ASSUME StoreTypeOK, LocksHeld, TargetsKnown, NEW p \in Procs, Works(p) \/ Killed(p)
    PROVE  TargetsKnown'
<1>1. \A q \in Procs \ {p} : where'[q] \in Sweeps => sweep' = sweep
  BY OthersStay DEF LocksHeld, Retainers
<1>2. QED
  BY <1>1, OwnTargets, CoursesStay DEF TargetsKnown

\* A process holds what its place asks for.
LEMMA OwnLocks ==
    ASSUME StoreTypeOK, TargetsKnown, LocksHeld, VictimHeld,
           NEW p \in Procs, Works(p) \/ Killed(p)
    PROVE  /\ where'[p] \in Retainers <=> retention' = p
           /\ Course(p)' \in Pinners   => active'[target'[p]] = p
           /\ Course(p)' \in Recorders => recording'[target'[p]] = p
           /\ Course(p)' \in Copiers   => exporting'[target'[p]] = p
<1> USE StoreAssumption DEF locks, outer, storeVars, Advance, Course, Sweeps, Copiers,
     Recorders, Pinners, Retainers, Stations
<1>1. CASE p \in Runs /\ Begin(p)
  BY <1>1 DEF Begin, TakeRetention, StartSweep, NoSweep, StoreTypeOK, TargetsKnown, LocksHeld
<1>2. CASE p \in Runs /\ MakeRun(p)
  BY <1>2 DEF MakeRun, StoreTypeOK, TargetsKnown, LocksHeld
<1>3. CASE p \in Runs /\ WriteStarted(p)
  BY <1>3 DEF WriteStarted, StoreTypeOK, TargetsKnown, LocksHeld
<1>4. CASE p \in Runs /\ WriteReservation(p)
  BY <1>4 DEF WriteReservation, FreeRetention, NoSweep, StoreTypeOK, TargetsKnown, LocksHeld
<1>5. CASE p \in Runs /\ BeginFails(p)
  BY <1>5 DEF BeginFails, FreeRetention, NoSweep, StoreTypeOK, TargetsKnown, LocksHeld
<1>6. CASE p \in Runs /\ Stage(p)
  BY <1>6 DEF Stage, StoreTypeOK, TargetsKnown, LocksHeld
<1>7. CASE p \in Runs /\ Finish(p)
  BY <1>7 DEF Finish, StoreTypeOK, TargetsKnown, LocksHeld
<1>8. CASE p \in Runs /\ WriteManifest(p)
  BY <1>8 DEF WriteManifest, StoreTypeOK, TargetsKnown, LocksHeld
<1>9. CASE p \in Exporters /\ Open(p)
  BY <1>9 DEF Open, StoreTypeOK, TargetsKnown, LocksHeld
<1>10. CASE p \in Exporters /\ Pin(p)
  <2>1. p \notin Runs /\ target' = target /\ target[p] \in Runs /\ p # Nobody
    BY <1>10, PinSteps
  <2>2. CASE where'[p] = "done" /\ retention' = Nobody
    BY <2>1, <2>2
  <2>3. CASE /\ where'[p] = "expire" /\ sweep'.next = "pinned"
             /\ retention' = p /\ active'[target[p]] = p
    BY <2>1, <2>3
  <2>4. QED
    BY <1>10, <2>2, <2>3, PinSteps
<1>11. CASE p \in Exporters /\ Pinned(p)
  BY <1>11 DEF Pinned, FreeRetention, NoSweep, StoreTypeOK, TargetsKnown, LocksHeld
<1>12. CASE p \in Exporters /\ Unpin(p)
  BY <1>12 DEF Unpin, FreeRetention, NoSweep, StoreTypeOK, TargetsKnown, LocksHeld
<1>13. CASE Cleanup(p)
  <2>1. target[p] \in Runs /\ Course(p) \in {"mkdir", "pinned", "read"} /\ retention = p
    BY <1>13, CleanupCourse DEF TargetsKnown
  <2>2. where'[p] \in Retainers /\ retention' = p /\ target' = target
    BY <1>13, CleanupCourse
  <2>3. UNCHANGED <<recording, exporting>>
    BY <1>13, CleanupCourse
  <2>4. \/ active' = active
        \/ \E r \in Runs : active[r] = Nobody /\ active' = [active EXCEPT ![r] = p]
        \/ sweep.victim # Nobody /\ active' = [active EXCEPT ![sweep.victim] = Nobody]
    BY <1>13, CleanupVictim
  <2>5. Course(p) # "mkdir" => active'[target[p]] = p
    BY <2>1, <2>4 DEF StoreTypeOK, LocksHeld, VictimHeld
  <2>6. QED
    BY <2>1, <2>2, <2>3, <2>5, <1>13, CleanupCourse DEF LocksHeld
<1>14. CASE LockRecord(p)
  BY <1>14 DEF LockRecord, StoreTypeOK, TargetsKnown, LocksHeld
<1>15. CASE LockExport(p)
  BY <1>15 DEF LockExport, StoreTypeOK, TargetsKnown, LocksHeld
<1>16. CASE Recharge(p)
  BY <1>16 DEF Recharge, TakeRetention, StartSweep, NoSweep, StoreTypeOK, TargetsKnown,
    LocksHeld
<1>17. CASE ReadManifest(p)
  BY <1>17 DEF ReadManifest, FreeRetention, NoSweep, StoreTypeOK, TargetsKnown, LocksHeld
<1>18. CASE ConfirmWorkflow(p)
  BY <1>18 DEF ConfirmWorkflow, StoreTypeOK, TargetsKnown, LocksHeld
<1>19. CASE Intend(p)
  BY <1>19 DEF Intend, StoreTypeOK, TargetsKnown, LocksHeld
<1>20. CASE WriteObject(p)
  BY <1>20 DEF WriteObject, StoreTypeOK, TargetsKnown, LocksHeld
<1>21. CASE Settle(p)
  BY <1>21 DEF Settle, StoreTypeOK, TargetsKnown, LocksHeld
<1>22. CASE UnlockFailed(p)
  BY <1>22 DEF UnlockFailed, FreeRetention, NoSweep, StoreTypeOK, TargetsKnown, LocksHeld
<1>23. CASE UnlockRun(p)
  BY <1>23 DEF UnlockRun, StoreTypeOK, TargetsKnown, LocksHeld
<1>24. CASE LockRelease(p)
  BY <1>24 DEF LockRelease, TakeRetention, StoreTypeOK, TargetsKnown, LocksHeld
<1>25. CASE ReleaseRun(p)
  BY <1>25 DEF ReleaseRun, FreeRetention, NoSweep, StoreTypeOK, TargetsKnown, LocksHeld
<1>26. CASE Killed(p)
  BY <1>26 DEF Killed, FreeRetention, NoSweep, Dropped, StoreTypeOK, TargetsKnown, LocksHeld
<1>27. QED
  BY <1>1, <1>2, <1>3, <1>4, <1>5, <1>6, <1>7, <1>8, <1>9, <1>10,
     <1>11, <1>12, <1>13, <1>14, <1>15, <1>16, <1>17, <1>18, <1>19, <1>20,
     <1>21, <1>22, <1>23, <1>24, <1>25, <1>26
  DEF Works, ToolSteps, Exporter, Exporting

\* No step takes a lock from another process, or gives it one.
LEMMA OthersLocks ==
    ASSUME StoreTypeOK, TargetsKnown, LocksHeld, LocksOwned, VictimHeld, RunsThere,
           NEW p \in Procs, Works(p) \/ Killed(p)
    PROVE  \A r \in Runs, q \in Procs \ {p} :
              /\ active'[r] = q    <=> active[r] = q
              /\ recording'[r] = q <=> recording[r] = q
              /\ exporting'[r] = q <=> exporting[r] = q
<1> USE StoreAssumption DEF locks, outer, storeVars, Advance, Course, Sweeps, Copiers,
     Recorders, Pinners, Retainers, Stations
<1>1. CASE p \in Runs /\ Begin(p)
  BY <1>1 DEF Begin, TakeRetention, StartSweep, NoSweep, StoreTypeOK, TargetsKnown, LocksHeld
<1>2. CASE p \in Runs /\ MakeRun(p)
  <2>1. p \in Runs /\ target[p] = p /\ retention = p /\ ~dirs[p].there
    BY <1>2 DEF MakeRun, TargetsKnown, LocksHeld, RunsThere
  <2>2. \A q \in Procs \ {p} : active[p] # q
    BY <2>1 DEF LocksOwned, RunsThere, TargetsKnown
  <2>3. QED
    BY <1>2, <2>1, <2>2 DEF MakeRun, StoreTypeOK, Procs
<1>3. CASE p \in Runs /\ WriteStarted(p)
  BY <1>3 DEF WriteStarted, StoreTypeOK, TargetsKnown, LocksHeld
<1>4. CASE p \in Runs /\ WriteReservation(p)
  BY <1>4 DEF WriteReservation, FreeRetention, NoSweep, StoreTypeOK, TargetsKnown, LocksHeld
<1>5. CASE p \in Runs /\ BeginFails(p)
  <2>1. p \in Runs /\ target[p] = p /\ retention = p /\ ~dirs[p].there
    BY <1>5 DEF BeginFails, TargetsKnown, LocksHeld, RunsThere
  <2>2. \A q \in Procs \ {p} : active[p] # q
    BY <2>1 DEF LocksOwned, RunsThere, TargetsKnown
  <2>3. QED
    BY <1>5, <2>1, <2>2 DEF BeginFails, StoreTypeOK, Procs
<1>6. CASE p \in Runs /\ Stage(p)
  BY <1>6 DEF Stage, StoreTypeOK, TargetsKnown, LocksHeld
<1>7. CASE p \in Runs /\ Finish(p)
  BY <1>7 DEF Finish, StoreTypeOK, TargetsKnown, LocksHeld
<1>8. CASE p \in Runs /\ WriteManifest(p)
  BY <1>8 DEF WriteManifest, StoreTypeOK, TargetsKnown, LocksHeld
<1>9. CASE p \in Exporters /\ Open(p)
  BY <1>9 DEF Open, StoreTypeOK, TargetsKnown, LocksHeld
<1>10. CASE p \in Exporters /\ Pin(p)
  <2>1. \/ active' = active
        \/ /\ target[p] \in Runs /\ active[target[p]] = Nobody
           /\ active' = [active EXCEPT ![target[p]] = p]
    BY <1>10, PinSteps
  <2>2. UNCHANGED <<recording, exporting>>
    BY <1>10, PinSteps
  <2>3. QED
    BY <2>1, <2>2 DEF StoreTypeOK
<1>11. CASE p \in Exporters /\ Pinned(p)
  BY <1>11 DEF Pinned, FreeRetention, NoSweep, StoreTypeOK, TargetsKnown, LocksHeld
<1>12. CASE p \in Exporters /\ Unpin(p)
  BY <1>12 DEF Unpin, FreeRetention, NoSweep, StoreTypeOK, TargetsKnown, LocksHeld
<1>13. CASE Cleanup(p)
  <2>1. \/ active' = active
        \/ \E r \in Runs : active[r] = Nobody /\ active' = [active EXCEPT ![r] = p]
        \/ sweep.victim # Nobody /\ active' = [active EXCEPT ![sweep.victim] = Nobody]
    BY <1>13, CleanupVictim
  <2>2. QED
    BY <2>1, <1>13, CleanupCourse, StoreAssumption DEF StoreTypeOK, VictimHeld
<1>14. CASE LockRecord(p)
  BY <1>14 DEF LockRecord, StoreTypeOK, TargetsKnown, LocksHeld
<1>15. CASE LockExport(p)
  BY <1>15 DEF LockExport, StoreTypeOK, TargetsKnown, LocksHeld
<1>16. CASE Recharge(p)
  BY <1>16 DEF Recharge, TakeRetention, StartSweep, NoSweep, StoreTypeOK, TargetsKnown,
    LocksHeld
<1>17. CASE ReadManifest(p)
  BY <1>17 DEF ReadManifest, FreeRetention, NoSweep, StoreTypeOK, TargetsKnown, LocksHeld
<1>18. CASE ConfirmWorkflow(p)
  BY <1>18 DEF ConfirmWorkflow, StoreTypeOK, TargetsKnown, LocksHeld
<1>19. CASE Intend(p)
  BY <1>19 DEF Intend, StoreTypeOK, TargetsKnown, LocksHeld
<1>20. CASE WriteObject(p)
  BY <1>20 DEF WriteObject, StoreTypeOK, TargetsKnown, LocksHeld
<1>21. CASE Settle(p)
  BY <1>21 DEF Settle, StoreTypeOK, TargetsKnown, LocksHeld
<1>22. CASE UnlockFailed(p)
  BY <1>22 DEF UnlockFailed, FreeRetention, NoSweep, StoreTypeOK, TargetsKnown, LocksHeld
<1>23. CASE UnlockRun(p)
  BY <1>23 DEF UnlockRun, StoreTypeOK, TargetsKnown, LocksHeld
<1>24. CASE LockRelease(p)
  BY <1>24 DEF LockRelease, TakeRetention, StoreTypeOK, TargetsKnown, LocksHeld
<1>25. CASE ReleaseRun(p)
  BY <1>25 DEF ReleaseRun, FreeRetention, NoSweep, StoreTypeOK, TargetsKnown, LocksHeld
<1>26. CASE Killed(p)
  BY <1>26 DEF Killed, FreeRetention, NoSweep, Dropped, StoreTypeOK, TargetsKnown, LocksHeld
<1>27. QED
  BY <1>1, <1>2, <1>3, <1>4, <1>5, <1>6, <1>7, <1>8, <1>9, <1>10,
     <1>11, <1>12, <1>13, <1>14, <1>15, <1>16, <1>17, <1>18, <1>19, <1>20,
     <1>21, <1>22, <1>23, <1>24, <1>25, <1>26
  DEF Works, ToolSteps, Exporter, Exporting

\* Whoever is between lock and unlock holds the lock.
LEMMA LocksKept ==
    ASSUME StoreTypeOK, TargetsKnown, LocksHeld, LocksOwned, VictimHeld, RunsThere,
           NEW p \in Procs, Works(p) \/ Killed(p)
    PROVE  LocksHeld'
<1>1. \A q \in Procs \ {p} :
         /\ where'[q] \in Retainers <=> retention' = q
         /\ Course(q)' \in Pinners   => active'[target'[q]] = q
         /\ Course(q)' \in Recorders => recording'[target'[q]] = q
         /\ Course(q)' \in Copiers   => exporting'[target'[q]] = q
  <2> SUFFICES ASSUME NEW q \in Procs \ {p}
               PROVE  /\ where'[q] \in Retainers <=> retention' = q
                      /\ Course(q)' \in Pinners   => active'[target'[q]] = q
                      /\ Course(q)' \in Recorders => recording'[target'[q]] = q
                      /\ Course(q)' \in Copiers   => exporting'[target'[q]] = q
    OBVIOUS
  <2>1. Course(q) \in Pinners => target[q] \in Runs
    BY DEF TargetsKnown, Course, Pinners, Recorders, Copiers, Sweeps
  <2>2. Course(q) \in Recorders \cup Copiers => Course(q) \in Pinners
    BY DEF Pinners, Recorders
  <2>3. Course(q)' = Course(q) /\ where'[q] = where[q] /\ target'[q] = target[q]
    BY CoursesStay
  <2>4. retention = q <=> retention' = q
    BY OthersStay
  <2>5. QED
    BY <2>1, <2>2, <2>3, <2>4, OthersLocks DEF LocksHeld
<1>2. QED
  BY <1>1, OwnLocks DEF LocksHeld

\* Out of a cleanup, a process holds the run that it works on, and no other.
LEMMA HeldAtHome ==
    ASSUME StoreTypeOK, TargetsKnown, LocksHeld, LocksOwned, VictimHeld, RunsThere,
           NEW p \in Procs, where[p] \notin Sweeps
    PROVE  /\ retention = p => sweep.victim = Nobody
           /\ \A r \in Runs :
                /\ active[r] = p => target[p] = r /\ Course(p) \in Pinners \cup {"unlock_begin"}
                /\ recording[r] = p => target[p] = r /\ Course(p) \in Recorders
                /\ exporting[r] = p => target[p] = r /\ Course(p) \in Copiers
<1>1. retention = p => sweep.victim = Nobody
  BY DEF VictimHeld, Sweeps
<1>2. \A r \in Runs : r # Nobody
  BY StoreAssumption DEF Procs
<1>3. QED
  BY <1>1, <1>2 DEF LocksOwned

\* A process that has left a place has left its locks.
LEMMA OwnOwned ==
    ASSUME StoreTypeOK, TargetsKnown, LocksHeld, LocksOwned, VictimHeld, RunsThere,
           NEW p \in Procs, Works(p) \/ Killed(p)
    PROVE  \A r \in Runs :
              /\ active'[r] = p =>
                    \/ target'[p] = r /\ Course(p)' \in Pinners \cup {"unlock_begin"}
                    \/ retention' = p /\ sweep'.victim = r
              /\ recording'[r] = p => target'[p] = r /\ Course(p)' \in Recorders
              /\ exporting'[r] = p => target'[p] = r /\ Course(p)' \in Copiers
<1> USE StoreAssumption DEF locks, outer, storeVars, Advance, Course, Sweeps, Copiers,
     Recorders, Pinners, Retainers, Stations
<1>1. CASE p \in Runs /\ Begin(p)
  BY <1>1 DEF Begin, TakeRetention, StartSweep, NoSweep, StoreTypeOK, TargetsKnown, LocksHeld,
    LocksOwned, VictimHeld
<1>2. CASE p \in Runs /\ MakeRun(p)
  BY <1>2 DEF MakeRun, StoreTypeOK, TargetsKnown, LocksHeld, LocksOwned, VictimHeld
<1>3. CASE p \in Runs /\ WriteStarted(p)
  BY <1>3 DEF WriteStarted, StoreTypeOK, TargetsKnown, LocksHeld, LocksOwned, VictimHeld
<1>4. CASE p \in Runs /\ WriteReservation(p)
  <2>1. where[p] \notin Sweeps
    BY <1>4 DEF WriteReservation
  <2>2. QED
    BY <2>1, HeldAtHome, <1>4 DEF WriteReservation, FreeRetention, NoSweep, StoreTypeOK,
      TargetsKnown
<1>5. CASE p \in Runs /\ BeginFails(p)
  <2>1. where[p] \notin Sweeps
    BY <1>5 DEF BeginFails
  <2>2. QED
    BY <2>1, HeldAtHome, <1>5 DEF BeginFails, FreeRetention, NoSweep, StoreTypeOK, TargetsKnown
<1>6. CASE p \in Runs /\ Stage(p)
  BY <1>6 DEF Stage, StoreTypeOK, TargetsKnown, LocksHeld, LocksOwned, VictimHeld
<1>7. CASE p \in Runs /\ Finish(p)
  BY <1>7 DEF Finish, StoreTypeOK, TargetsKnown, LocksHeld, LocksOwned, VictimHeld
<1>8. CASE p \in Runs /\ WriteManifest(p)
  BY <1>8 DEF WriteManifest, StoreTypeOK, TargetsKnown, LocksHeld, LocksOwned, VictimHeld
<1>9. CASE p \in Exporters /\ Open(p)
  BY <1>9 DEF Open, StoreTypeOK, TargetsKnown, LocksHeld, LocksOwned, VictimHeld
<1>10. CASE p \in Exporters /\ Pin(p)
  <2>1. where[p] \notin Sweeps /\ UNCHANGED <<recording, exporting, target>>
    BY <1>10, PinSteps
  <2>2. \A r \in Runs : active[r] # p /\ recording[r] # p /\ exporting[r] # p
    BY ZenonT(40), <1>10, <2>1, PinSteps, HeldAtHome
  <2>3. CASE active' = active
    BY <2>1, <2>2, <2>3
  <2>4. CASE /\ active' = [active EXCEPT ![target[p]] = p]
             /\ where'[p] = "expire" /\ sweep'.next = "pinned"
    BY <2>1, <2>2, <2>4 DEF StoreTypeOK
  <2>5. QED
    BY <1>10, <2>3, <2>4, PinSteps
<1>11. CASE p \in Exporters /\ Pinned(p)
  <2>1. where[p] \notin Sweeps
    BY <1>11 DEF Pinned
  <2>2. QED
    BY <2>1, HeldAtHome, <1>11 DEF Pinned, FreeRetention, NoSweep, StoreTypeOK, TargetsKnown
<1>12. CASE p \in Exporters /\ Unpin(p)
  <2>1. /\ where[p] = "unpin" /\ active' = [active EXCEPT ![target[p]] = Nobody]
        /\ recording' = recording /\ exporting' = exporting /\ p # Nobody
    BY <1>12 DEF Unpin, Procs
  <2>2. \A r \in Runs :
          /\ active[r] = p => target[p] = r
          /\ recording[r] # p /\ exporting[r] # p
    BY <2>1, HeldAtHome
  <2>3. \A r \in Runs : active'[r] # p
    BY <2>1, <2>2 DEF StoreTypeOK
  <2>4. QED
    BY <2>1, <2>2, <2>3
<1>13. CASE Cleanup(p)
  <2>1. /\ retention = p /\ retention' = p /\ UNCHANGED <<recording, exporting, target>>
        /\ Course(p) \in Pinners \cup {"unlock_begin"} =>
              Course(p)' \in Pinners \cup {"unlock_begin"}
        /\ Course(p) \in Recorders => Course(p)' \in Recorders
        /\ Course(p) \in Copiers => Course(p)' \in Copiers
    BY <1>13, CleanupCourse
  <2>2. \/ active' = active /\ sweep'.victim = sweep.victim
        \/ \E r \in Runs : active' = [active EXCEPT ![r] = p] /\ sweep.victim = Nobody
                            /\ sweep'.victim = r
        \/ /\ sweep.victim # Nobody /\ active' = [active EXCEPT ![sweep.victim] = Nobody]
    BY <1>13, CleanupVictim
  <2>3. \A r \in Runs : r # Nobody
    BY DEF Procs
  <2>4. CASE active' = active /\ sweep'.victim = sweep.victim
    BY <2>1, <2>4 DEF LocksOwned
  <2>6. CASE \E r \in Runs : active' = [active EXCEPT ![r] = p] /\ sweep.victim = Nobody
                         /\ sweep'.victim = r
    BY <2>1, <2>3, <2>6 DEF StoreTypeOK, LocksOwned
  <2>7. CASE sweep.victim # Nobody /\ active' = [active EXCEPT ![sweep.victim] = Nobody]
    BY <2>1, <2>3, <2>7 DEF StoreTypeOK, LocksOwned
  <2>8. QED
    BY <2>2, <2>4, <2>6, <2>7
<1>14. CASE LockRecord(p)
  BY <1>14 DEF LockRecord, StoreTypeOK, TargetsKnown, LocksHeld, LocksOwned, VictimHeld
<1>15. CASE LockExport(p)
  BY <1>15 DEF LockExport, StoreTypeOK, TargetsKnown, LocksHeld, LocksOwned, VictimHeld
<1>16. CASE Recharge(p)
  BY <1>16 DEF Recharge, TakeRetention, StartSweep, NoSweep, StoreTypeOK, TargetsKnown,
    LocksHeld, LocksOwned, VictimHeld
<1>17. CASE ReadManifest(p)
  <2>1. where[p] \notin Sweeps
    BY <1>17 DEF ReadManifest
  <2>2. QED
    BY <2>1, HeldAtHome, <1>17 DEF ReadManifest, FreeRetention, NoSweep, StoreTypeOK,
      TargetsKnown
<1>18. CASE ConfirmWorkflow(p)
  BY <1>18 DEF ConfirmWorkflow, StoreTypeOK, TargetsKnown, LocksHeld, LocksOwned, VictimHeld
<1>19. CASE Intend(p)
  BY <1>19 DEF Intend, StoreTypeOK, TargetsKnown, LocksHeld, LocksOwned, VictimHeld
<1>20. CASE WriteObject(p)
  BY <1>20 DEF WriteObject, StoreTypeOK, TargetsKnown, LocksHeld, LocksOwned, VictimHeld
<1>21. CASE Settle(p)
  BY <1>21 DEF Settle, StoreTypeOK, TargetsKnown, LocksHeld, LocksOwned, VictimHeld
<1>22. CASE UnlockFailed(p)
  <2>1. where[p] \notin Sweeps
    BY <1>22 DEF UnlockFailed
  <2>2. QED
    BY <2>1, HeldAtHome, <1>22 DEF UnlockFailed, FreeRetention, NoSweep, StoreTypeOK,
      TargetsKnown
<1>23. CASE UnlockRun(p)
  BY <1>23 DEF UnlockRun, StoreTypeOK, TargetsKnown, LocksHeld, LocksOwned, VictimHeld
<1>24. CASE LockRelease(p)
  BY <1>24 DEF LockRelease, TakeRetention, StoreTypeOK, TargetsKnown, LocksHeld, LocksOwned,
    VictimHeld
<1>25. CASE ReleaseRun(p)
  <2>1. where[p] \notin Sweeps
    BY <1>25 DEF ReleaseRun
  <2>2. QED
    BY SMTT(30), <2>1, HeldAtHome, <1>25 DEF ReleaseRun, FreeRetention, NoSweep, StoreTypeOK,
      TargetsKnown
<1>26. CASE Killed(p)
  BY <1>26 DEF Killed, FreeRetention, NoSweep, Dropped, StoreTypeOK, TargetsKnown, LocksHeld,
    LocksOwned, VictimHeld
<1>27. QED
  BY <1>1, <1>2, <1>3, <1>4, <1>5, <1>6, <1>7, <1>8, <1>9, <1>10,
     <1>11, <1>12, <1>13, <1>14, <1>15, <1>16, <1>17, <1>18, <1>19, <1>20,
     <1>21, <1>22, <1>23, <1>24, <1>25, <1>26
  DEF Works, ToolSteps, Exporter, Exporting

\* Whoever holds a lock is between lock and unlock.
LEMMA OwnersKept ==
    ASSUME StoreTypeOK, TargetsKnown, LocksHeld, LocksOwned, VictimHeld, RunsThere,
           NEW p \in Procs, Works(p) \/ Killed(p)
    PROVE  LocksOwned'
<1>1. \A r \in Runs, q \in Procs \ {p} :
         /\ active'[r] = q =>
               \/ target'[q] = r /\ Course(q)' \in Pinners \cup {"unlock_begin"}
               \/ retention' = q /\ sweep'.victim = r
         /\ recording'[r] = q => target'[q] = r /\ Course(q)' \in Recorders
         /\ exporting'[r] = q => target'[q] = r /\ Course(q)' \in Copiers
  BY OthersLocks, OthersStay, CoursesStay DEF LocksOwned
<1>2. QED
  BY <1>1, OwnOwned DEF LocksOwned

\* A sweep goes on with the run that it removes until that is gone or given up.
LEMMA VictimKept ==
    ASSUME StoreTypeOK, TargetsKnown, LocksHeld, LocksOwned, VictimHeld, RunsThere,
           NEW p \in Procs, Works(p) \/ Killed(p)
    PROVE  VictimHeld'
<1>1. CASE retention \in Procs \ {p}
  <2>1. sweep' = sweep /\ retention' = retention
    BY <1>1, OthersStay
  <2>2. where'[retention] = where[retention] /\ target'[retention] = target[retention]
    BY <1>1, CoursesStay
  <2>3. sweep.victim # Nobody => active'[sweep.victim] = retention
    BY <1>1, OthersLocks DEF VictimHeld, StoreTypeOK
  <2>4. QED
    BY <2>1, <2>2, <2>3 DEF VictimHeld
<1>2. CASE retention \in {p, Nobody} /\ Cleanup(p)
  <2>1. /\ retention = p /\ retention' = p /\ target' = target /\ p # Nobody
        /\ sweep'.next = sweep.next /\ target[p] \in Runs
    BY <1>2, CleanupCourse, StoreAssumption DEF TargetsKnown, Sweeps
  <2>2. CASE Evict(p)
    <3>1. where'[p] \in {"expiring", "evicting"} /\ sweep.victim = Nobody
      BY <2>2 DEF Evict
    <3>2. \/ sweep'.victim = Nobody
          \/ \E r \in Runs : active[r] = Nobody /\ active' = [active EXCEPT ![r] = p]
                            /\ sweep'.victim = r
      BY <2>2 DEF Evict, Oldest, StoreTypeOK
    <3>3. sweep.next # "mkdir" => active[target[p]] = p
      BY <2>1, <1>2, CleanupCourse DEF LocksHeld, TargetsKnown, Course, Pinners, Recorders,
        Copiers
    <3>4. QED
      BY <2>1, <3>1, <3>2, <3>3 DEF VictimHeld, StoreTypeOK
  <2>3. CASE Evicted(p)
    <3>1. sweep'.victim = Nobody
      BY <2>3 DEF Evicted, StoreTypeOK
    <3>2. QED
      BY <3>1 DEF VictimHeld
  <2>4. CASE Expire(p) \/ Weigh(p) \/ Admit(p)
    <3>1. sweep.victim = Nobody
      BY <2>1, <2>4 DEF Expire, Weigh, Admit, VictimHeld
    <3>2. sweep'.victim = sweep.victim
      BY <2>4 DEF Expire, Weigh, Admit, Survey, StoreTypeOK
    <3>3. QED
      BY <3>1, <3>2 DEF VictimHeld
  <2>5. QED
    BY <1>2, <2>2, <2>3, <2>4 DEF Cleanup
<1>3. CASE retention \in {p, Nobody} /\ ~Cleanup(p)
  <2>1. CASE sweep.victim = Nobody
    <3>1. \/ sweep' = sweep \/ FreeRetention
          \/ StartSweep(Reservation, "mkdir") \/ StartSweep(0, "read")
          \/ p \in Exporters /\ Pin(p)
      BY <1>3 DEF Works, ToolSteps, Exporter, Exporting, Advance, locks, outer, Begin,
        MakeRun, WriteStarted, WriteReservation, BeginFails, Stage, Finish, WriteManifest, Open,
        Pinned, Unpin, LockRecord, LockExport, Recharge, ReadManifest, ConfirmWorkflow, Intend,
        WriteObject, Settle, UnlockFailed, UnlockRun, LockRelease, ReleaseRun, Killed
    <3>2. FreeRetention => sweep'.victim = Nobody
      BY DEF FreeRetention, NoSweep
    <3>5. ASSUME NEW size, NEW course, StartSweep(size, course)
          PROVE  sweep'.victim = Nobody
      BY <3>5 DEF StartSweep, NoSweep
    <3>3. p \in Exporters /\ Pin(p) => sweep' = sweep \/ sweep'.victim = Nobody
      BY PinSteps
    <3>4. QED
      BY <2>1, <3>1, <3>2, <3>5, <3>3 DEF VictimHeld
  <2>2. CASE sweep.victim # Nobody
    <3>1. retention = p /\ where[p] \in Sweeps
      BY <1>3, <2>2 DEF VictimHeld, Sweeps
    <3>2. Killed(p)
      BY <1>3, <3>1, PinSteps DEF Works, ToolSteps, Exporter, Exporting, Advance, locks,
        outer, Begin,
        MakeRun, WriteStarted, WriteReservation, BeginFails, Stage, Finish, WriteManifest, Open,
        Pinned, Unpin, LockRecord, LockExport, Recharge, ReadManifest, ConfirmWorkflow, Intend,
        WriteObject, Settle, UnlockFailed, UnlockRun, LockRelease, ReleaseRun, Killed,
        Sweeps
    <3>3. QED
      BY <3>1, <3>2 DEF Killed, FreeRetention, NoSweep, VictimHeld
  <2>3. QED
    BY <2>1, <2>2
<1>4. QED
  BY <1>1, <1>2, <1>3 DEF StoreTypeOK

\* A process changes whether a run is there only when it is its own that begins, or
\* one that nobody holds, or that it is removing.
LEMMA RunsEdited ==
    ASSUME StoreTypeOK, TargetsKnown, LocksHeld,
           NEW p \in Procs, Works(p) \/ Killed(p)
    PROVE  \A r \in Runs :
              \/ /\ dirs'[r].there <=> dirs[r].there
                 /\ dirs'[r].started <=> dirs[r].started
              \/ r = p /\ where[p] \in {"mkdir", "starting", "reserving"}
              \/ /\ retention = p /\ (active[r] = Nobody \/ sweep.victim = r)
                 /\ dirs'[r].there => dirs[r].there
<1> USE StoreAssumption DEF locks, outer, storeVars, Advance
<1>1. CASE p \in Runs /\ Begin(p)
  BY <1>1 DEF Begin, StoreTypeOK, RunRecords
<1>2. CASE p \in Runs /\ MakeRun(p)
  BY <1>2 DEF MakeRun, Absent, StoreTypeOK, RunRecords
<1>3. CASE p \in Runs /\ WriteStarted(p)
  BY <1>3 DEF WriteStarted, Absent, StoreTypeOK, RunRecords
<1>4. CASE p \in Runs /\ WriteReservation(p)
  BY <1>4 DEF WriteReservation, Absent, StoreTypeOK, RunRecords
<1>5. CASE p \in Runs /\ BeginFails(p)
  BY <1>5 DEF BeginFails, StoreTypeOK, RunRecords
<1>6. CASE p \in Runs /\ Stage(p)
  BY <1>6 DEF Stage, StoreTypeOK, RunRecords
<1>7. CASE p \in Runs /\ Finish(p)
  BY <1>7 DEF Finish, StoreTypeOK, RunRecords
<1>8. CASE p \in Runs /\ WriteManifest(p)
  BY <1>8 DEF WriteManifest, StoreTypeOK, RunRecords
<1>9. CASE p \in Exporters /\ Open(p)
  BY <1>9 DEF Open, StoreTypeOK, RunRecords
<1>10. CASE p \in Exporters /\ Pin(p)
  <2>1. CASE dirs' = dirs
    BY <2>1
  <2>2. CASE dirs' = [dirs EXCEPT ![target[p]].reserved = Raised(target[p])]
    <3>1. \A r \in Runs : /\ dirs'[r].there <=> dirs[r].there
                          /\ dirs'[r].started <=> dirs[r].started
      BY <2>2 DEF StoreTypeOK, RunRecords
    <3>2. QED
      BY <3>1
  <2>3. QED
    BY <1>10, <2>1, <2>2, PinSteps
<1>11. CASE p \in Exporters /\ Pinned(p)
  BY <1>11 DEF Pinned, StoreTypeOK, RunRecords
<1>12. CASE p \in Exporters /\ Unpin(p)
  BY <1>12 DEF Unpin, StoreTypeOK, RunRecords
<1>13. CASE Cleanup(p)
  <2>1. CASE Evict(p)
    <3>1. PICK r \in Runs :
             \/ dirs' = dirs
             \/ active[r] = Nobody /\ \E b \in BOOLEAN : dirs' = [dirs EXCEPT ![r].started = b]
      BY <2>1 DEF Evict, Oldest, StoreTypeOK
    <3>2. retention = p
      BY <1>13 DEF Cleanup
    <3>3. dirs \in [Runs -> RunRecords]
      BY DEF StoreTypeOK
    <3>4. CASE dirs' = dirs
      BY <3>4
    <3>5. CASE active[r] = Nobody /\ \E b \in BOOLEAN : dirs' = [dirs EXCEPT ![r].started = b]
      BY <3>2, <3>3, <3>5 DEF RunRecords
    <3>6. QED
      BY <3>1, <3>4, <3>5
  <2>2. CASE Evicted(p)
    <3>1. dirs' = dirs \/ dirs' = [dirs EXCEPT ![sweep.victim] = Absent]
      BY <2>2 DEF Evicted
    <3>2. QED
      BY <1>13, <3>1, CleanupCourse DEF Absent, StoreTypeOK, RunRecords
  <2>3. CASE Expire(p) \/ Weigh(p) \/ Admit(p)
    BY <2>3 DEF Expire, Weigh, Admit
  <2>4. QED
    BY <1>13, <2>1, <2>2, <2>3 DEF Cleanup
<1>14. CASE LockRecord(p)
  BY <1>14 DEF LockRecord, StoreTypeOK, RunRecords
<1>15. CASE LockExport(p)
  BY <1>15 DEF LockExport, StoreTypeOK, RunRecords
<1>16. CASE Recharge(p)
  BY <1>16 DEF Recharge, StoreTypeOK, RunRecords
<1>17. CASE ReadManifest(p)
  BY <1>17 DEF ReadManifest, StoreTypeOK, RunRecords
<1>18. CASE ConfirmWorkflow(p)
  BY <1>18 DEF ConfirmWorkflow, StoreTypeOK, RunRecords
<1>19. CASE Intend(p)
  BY <1>19 DEF Intend, StoreTypeOK, RunRecords
<1>20. CASE WriteObject(p)
  BY <1>20 DEF WriteObject, StoreTypeOK, RunRecords
<1>21. CASE Settle(p)
  BY <1>21 DEF Settle, StoreTypeOK, RunRecords
<1>22. CASE UnlockFailed(p)
  BY <1>22 DEF UnlockFailed, StoreTypeOK, RunRecords
<1>23. CASE UnlockRun(p)
  BY <1>23 DEF UnlockRun, StoreTypeOK, RunRecords
<1>24. CASE LockRelease(p)
  BY <1>24 DEF LockRelease, StoreTypeOK, RunRecords
<1>25. CASE ReleaseRun(p)
  <2>1. dirs' = dirs \/ dirs' = [dirs EXCEPT ![target[p]].reserved = 0]
    BY <1>25 DEF ReleaseRun
  <2>2. \A r \in Runs : /\ dirs'[r].there <=> dirs[r].there
                        /\ dirs'[r].started <=> dirs[r].started
    BY <2>1 DEF StoreTypeOK, RunRecords
  <2>3. QED
    BY <2>2
<1>26. CASE Killed(p)
  BY <1>26 DEF Killed, StoreTypeOK, RunRecords
<1>27. QED
  BY <1>1, <1>2, <1>3, <1>4, <1>5, <1>6, <1>7, <1>8, <1>9, <1>10,
     <1>11, <1>12, <1>13, <1>14, <1>15, <1>16, <1>17, <1>18, <1>19, <1>20,
     <1>21, <1>22, <1>23, <1>24, <1>25, <1>26
  DEF Works, ToolSteps, Exporter, Exporting

\* A step of one process does not remove or start the run of another.
LEMMA OthersRuns ==
    ASSUME StoreTypeOK, TargetsKnown, LocksHeld, LocksOwned, VictimHeld, RunsThere,
           NEW p \in Procs, Works(p) \/ Killed(p), NEW q \in Procs \ {p}
    PROVE  /\ Course(q) \in Pinners =>
                 /\ dirs'[target[q]].there
                 /\ Course(q) # "starting" => dirs'[target[q]].started
           /\ q \in Runs /\ Course(q) \in {"idle", "mkdir", "unlock_begin"} => ~dirs'[q].there
<1>1. ASSUME Course(q) \in Pinners
      PROVE  /\ dirs'[target[q]].there
             /\ Course(q) # "starting" => dirs'[target[q]].started
  <2>1. target[q] \in Runs /\ active[target[q]] = q /\ q # Nobody
    BY <1>1, StoreAssumption
    DEF TargetsKnown, LocksHeld, Course, Pinners, Recorders, Copiers, Sweeps
  <2>2. /\ dirs[target[q]].there
        /\ Course(q) # "starting" => dirs[target[q]].started
    BY <1>1 DEF RunsThere
  <2>3. where[p] \in {"mkdir", "starting", "reserving"} => target[q] # p
    <3>1. CASE where[p] = "mkdir"
      BY <2>1, <2>2, <3>1 DEF RunsThere, Course, Sweeps
    <3>2. CASE where[p] \in {"starting", "reserving"}
      <4>1. Course(p) \in Pinners /\ p \in Runs /\ target[p] = p
        BY <3>2 DEF TargetsKnown, Course, Sweeps, Pinners
      <4>2. active[p] = p
        BY <4>1 DEF LocksHeld
      <4>3. QED
        BY <2>1, <4>2
    <3>3. QED
      BY <3>1, <3>2
  <2>4. ~(retention = p /\ (active[target[q]] = Nobody \/ sweep.victim = target[q]))
    BY <2>1, StoreAssumption DEF VictimHeld, Procs
  <2>5. QED
    BY <2>1, <2>2, <2>3, <2>4, RunsEdited
<1>2. ASSUME q \in Runs, Course(q) \in {"idle", "mkdir", "unlock_begin"}
      PROVE  ~dirs'[q].there
  BY <1>2, RunsEdited DEF RunsThere
<1>3. QED
  BY <1>1, <1>2

\* A process works on a run that is there, and a run that has not begun is not.
LEMMA OwnRuns ==
    ASSUME StoreTypeOK, TargetsKnown, LocksHeld, LocksOwned, VictimHeld, RunsThere,
           NEW p \in Procs, Works(p) \/ Killed(p)
    PROVE  /\ Course(p)' \in Pinners =>
                 /\ dirs'[target'[p]].there
                 /\ Course(p)' # "starting" => dirs'[target'[p]].started
           /\ p \in Runs /\ Course(p)' \in {"idle", "mkdir", "unlock_begin"} => ~dirs'[p].there
<1> USE StoreAssumption DEF locks, outer, storeVars, Advance, Course, Sweeps, Copiers,
     Recorders, Pinners, Retainers, Stations
<1>1. CASE p \in Runs /\ Begin(p)
  BY <1>1 DEF Begin, TakeRetention, StartSweep, NoSweep, StoreTypeOK, RunRecords,
    TargetsKnown, RunsThere
<1>2. CASE p \in Runs /\ MakeRun(p)
  BY <1>2 DEF MakeRun, Absent, StoreTypeOK, RunRecords, TargetsKnown, RunsThere
<1>3. CASE p \in Runs /\ WriteStarted(p)
  <2>1. /\ where[p] = "starting" /\ target' = target /\ target[p] = p /\ sweep' = sweep
        /\ dirs[p].there
    BY <1>3 DEF WriteStarted, StoreTypeOK, TargetsKnown, RunsThere
  <2>2. CASE where'[p] = "reserving" /\ dirs' = [dirs EXCEPT ![p].started = TRUE]
    <3>1. dirs'[p].there /\ dirs'[p].started
      BY <1>3, <2>1, <2>2 DEF StoreTypeOK, RunRecords
    <3>2. QED
      BY <2>1, <2>2, <3>1
  <2>3. CASE where'[p] = "unlock_begin" /\ dirs' = [dirs EXCEPT ![p] = Absent]
    <3>1. ~dirs'[p].there
      BY <1>3, <2>3 DEF StoreTypeOK, Absent
    <3>2. QED
      BY <2>3, <3>1
  <2>4. QED
    BY <1>3, <2>2, <2>3 DEF WriteStarted, StoreTypeOK
<1>4. CASE p \in Runs /\ WriteReservation(p)
  <2>1. /\ where[p] = "reserving" /\ target' = target /\ target[p] = p
        /\ dirs[p].there /\ dirs[p].started
    BY <1>4 DEF WriteReservation, TargetsKnown, RunsThere
  <2>2. CASE where'[p] = "running" /\ dirs' = [dirs EXCEPT ![p].reserved = Reservation]
    <3>1. dirs'[p].there /\ dirs'[p].started
      BY <1>4, <2>1, <2>2 DEF StoreTypeOK, RunRecords
    <3>2. QED
      BY <2>1, <2>2, <3>1
  <2>3. CASE where'[p] = "unlock_begin" /\ dirs' = [dirs EXCEPT ![p] = Absent]
    <3>1. ~dirs'[p].there
      BY <1>4, <2>3 DEF StoreTypeOK, Absent
    <3>2. QED
      BY <2>3, <3>1
  <2>4. QED
    BY <1>4, <2>2, <2>3 DEF WriteReservation, StoreTypeOK
<1>5. CASE p \in Runs /\ BeginFails(p)
  BY <1>5 DEF BeginFails, FreeRetention, NoSweep, StoreTypeOK, RunRecords, TargetsKnown,
    RunsThere
<1>6. CASE p \in Runs /\ Stage(p)
  BY <1>6 DEF Stage, StoreTypeOK, RunRecords, TargetsKnown, RunsThere
<1>7. CASE p \in Runs /\ Finish(p)
  BY <1>7 DEF Finish, StoreTypeOK, RunRecords, TargetsKnown, RunsThere
<1>8. CASE p \in Runs /\ WriteManifest(p)
  <2>1. /\ where[p] = "finishing" /\ where'[p] \in {"release", "lock_record"}
        /\ target' = target /\ target[p] = p
    BY <1>8 DEF WriteManifest, StoreTypeOK, TargetsKnown
  <2>2. dirs[p].there /\ dirs[p].started
    BY <2>1 DEF RunsThere
  <2>3. retention # p
    BY <2>1 DEF LocksHeld
  <2>4. dirs'[p].there /\ dirs'[p].started
    BY <1>8, <2>1, <2>2, <2>3, RunsEdited
  <2>5. QED
    BY <2>1, <2>4
<1>9. CASE p \in Exporters /\ Open(p)
  BY <1>9 DEF Open, StoreTypeOK, RunRecords, TargetsKnown, RunsThere
<1>10. CASE p \in Exporters /\ Pin(p)
  <2>1. p \notin Runs /\ target' = target
    BY <1>10, PinSteps
  <2>2. CASE where'[p] = "done"
    BY <2>1, <2>2 DEF Course, Sweeps, Pinners, Recorders, Copiers
  <2>3. CASE dirs[target[p]].there /\ dirs[target[p]].started
    <3>1. dirs'[target[p]].there /\ dirs'[target[p]].started
      <4>1. target[p] \in Runs /\ target[p] # p /\ where[p] = "pin" /\ retention # p
        BY <1>10, <2>1, PinSteps
      <4>2. QED
        BY <4>1, <2>3, RunsEdited
    <3>2. QED
      BY <2>1, <3>1
  <2>4. QED
    BY <1>10, <2>2, <2>3, PinSteps
<1>11. CASE p \in Exporters /\ Pinned(p)
  BY <1>11 DEF Pinned, FreeRetention, NoSweep, StoreTypeOK, RunRecords, TargetsKnown, RunsThere
<1>12. CASE p \in Exporters /\ Unpin(p)
  BY <1>12 DEF Unpin, FreeRetention, NoSweep, StoreTypeOK, RunRecords, TargetsKnown, RunsThere
<1>13. CASE Cleanup(p)
  <2>1. /\ retention = p /\ target' = target /\ target[p] \in Runs
        /\ Course(p) \in {"mkdir", "pinned", "read"}
    BY <1>13, CleanupCourse DEF TargetsKnown, Sweeps
  <2>2. CASE Course(p) = "mkdir"
    <3>1. p \in Runs /\ Course(p)' \in {"mkdir", "unlock_begin"} /\ ~dirs[p].there
      BY <2>2, <1>13, CleanupCourse DEF TargetsKnown, RunsThere
    <3>2. where[p] \notin {"mkdir", "starting", "reserving"}
      BY <1>13, CleanupCourse DEF Sweeps
    <3>3. ~dirs'[p].there
      BY <3>1, <3>2, RunsEdited
    <3>4. QED
      BY <3>1, <3>3 DEF Pinners, Recorders, Copiers
  <2>3. CASE Course(p) \in {"pinned", "read"}
    <3>1. Course(p)' \in Pinners \ {"starting"} /\ Course(p) \in Pinners \ {"starting"}
      BY <2>3, <1>13, CleanupCourse DEF Pinners, Recorders, Copiers
    <3>2. /\ dirs[target[p]].there /\ dirs[target[p]].started
          /\ active[target[p]] = p /\ sweep.victim # target[p]
      BY <2>1, <2>3, <3>1, CleanupCourse, <1>13 DEF RunsThere, LocksHeld, VictimHeld, Procs,
        Course
    <3>3. where[p] \notin {"mkdir", "starting", "reserving"} /\ active[target[p]] # Nobody
      BY <1>13, <3>2, CleanupCourse DEF Sweeps
    <3>4. dirs'[target[p]].there /\ dirs'[target[p]].started
      BY <2>1, <3>2, <3>3, RunsEdited
    <3>5. Course(p)' \notin {"idle", "mkdir", "unlock_begin"}
      BY <2>3, <1>13, CleanupCourse
    <3>6. QED
      BY <2>1, <3>4, <3>5
  <2>4. QED
    BY <2>1, <2>2, <2>3
<1>14. CASE LockRecord(p)
  BY <1>14 DEF LockRecord, StoreTypeOK, RunRecords, TargetsKnown, RunsThere
<1>15. CASE LockExport(p)
  BY <1>15 DEF LockExport, StoreTypeOK, RunRecords, TargetsKnown, RunsThere
<1>16. CASE Recharge(p)
  BY <1>16 DEF Recharge, TakeRetention, StartSweep, NoSweep, StoreTypeOK, RunRecords,
    TargetsKnown, RunsThere
<1>17. CASE ReadManifest(p)
  BY <1>17 DEF ReadManifest, FreeRetention, NoSweep, StoreTypeOK, RunRecords, TargetsKnown,
    RunsThere
<1>18. CASE ConfirmWorkflow(p)
  BY <1>18 DEF ConfirmWorkflow, StoreTypeOK, RunRecords, TargetsKnown, RunsThere
<1>19. CASE Intend(p)
  BY <1>19 DEF Intend, StoreTypeOK, RunRecords, TargetsKnown, RunsThere
<1>20. CASE WriteObject(p)
  BY <1>20 DEF WriteObject, StoreTypeOK, RunRecords, TargetsKnown, RunsThere
<1>21. CASE Settle(p)
  BY <1>21 DEF Settle, StoreTypeOK, RunRecords, TargetsKnown, RunsThere
<1>22. CASE UnlockFailed(p)
  BY <1>22 DEF UnlockFailed, FreeRetention, NoSweep, StoreTypeOK, RunRecords, TargetsKnown,
    RunsThere
<1>23. CASE UnlockRun(p)
  BY <1>23 DEF UnlockRun, StoreTypeOK, RunRecords, TargetsKnown, RunsThere
<1>24. CASE LockRelease(p)
  BY <1>24 DEF LockRelease, TakeRetention, StoreTypeOK, RunRecords, TargetsKnown, RunsThere
<1>25. CASE ReleaseRun(p)
  BY <1>25 DEF ReleaseRun, FreeRetention, NoSweep, StoreTypeOK, RunRecords, TargetsKnown,
    RunsThere
<1>26. CASE Killed(p)
  BY <1>26 DEF Killed, FreeRetention, NoSweep, StoreTypeOK, RunRecords, TargetsKnown, RunsThere
<1>27. QED
  BY <1>1, <1>2, <1>3, <1>4, <1>5, <1>6, <1>7, <1>8, <1>9, <1>10,
     <1>11, <1>12, <1>13, <1>14, <1>15, <1>16, <1>17, <1>18, <1>19, <1>20,
     <1>21, <1>22, <1>23, <1>24, <1>25, <1>26
  DEF Works, ToolSteps, Exporter, Exporting

\* The run a process is at work on is there.
LEMMA RunsKept ==
    ASSUME StoreTypeOK, TargetsKnown, LocksHeld, LocksOwned, VictimHeld, RunsThere,
           NEW p \in Procs, Works(p) \/ Killed(p)
    PROVE  RunsThere'
<1>1. \A q \in Procs \ {p} :
         /\ Course(q)' \in Pinners =>
               /\ dirs'[target'[q]].there
               /\ Course(q)' # "starting" => dirs'[target'[q]].started
         /\ q \in Runs /\ Course(q)' \in {"idle", "mkdir", "unlock_begin"} => ~dirs'[q].there
  BY OthersRuns, CoursesStay
<1>2. QED
  BY <1>1, OwnRuns DEF RunsThere, Procs

\* What an exporter has written stays written, and its log only says that everything
\* is when nothing is left to write.
Recorded(p) ==
    \E st \in Statuses :
       Log(p, st) /\ (st = "exported" => where[p] \in {"write", "settle"} /\ todo[p] = {})

Wrote(p) ==
    \/ where[p] = "history" /\ todo'[p] = Wants[p]
    \/ where[p] = "write" /\ todo'[p] = todo[p]
    \/ \E o \in todo[p] :
          /\ where[p] = "write" /\ todo'[p] = todo[p] \ {o}
          /\ [run |-> target[p], object |-> o, at |-> "bound"] \in memory'

\* How each step of a process bears on what is exported.
LEMMA ExportSteps ==
    ASSUME StoreTypeOK, LocksHeld, TargetsKnown,
           NEW p \in Procs, Works(p) \/ Killed(p)
    PROVE  /\ memory \subseteq memory'
           /\ latest' = latest \/ (target[p] \in Runs /\ Recorded(p))
           /\ where'[p] \in {"write", "settle"} => target' = target /\ Wrote(p)
<1> USE StoreAssumption DEF locks, outer, storeVars, Advance
<1>1. CASE p \in Runs /\ Begin(p)
  BY <1>1 DEF Begin, StoreTypeOK
<1>2. CASE p \in Runs /\ MakeRun(p)
  BY <1>2 DEF MakeRun, StoreTypeOK
<1>3. CASE p \in Runs /\ WriteStarted(p)
  BY <1>3 DEF WriteStarted, StoreTypeOK
<1>4. CASE p \in Runs /\ WriteReservation(p)
  BY <1>4 DEF WriteReservation, StoreTypeOK
<1>5. CASE p \in Runs /\ BeginFails(p)
  BY <1>5 DEF BeginFails, StoreTypeOK
<1>6. CASE p \in Runs /\ Stage(p)
  BY <1>6 DEF Stage, StoreTypeOK
<1>7. CASE p \in Runs /\ Finish(p)
  BY <1>7 DEF Finish, StoreTypeOK
<1>8. CASE p \in Runs /\ WriteManifest(p)
  BY <1>8 DEF WriteManifest, StoreTypeOK
<1>9. CASE p \in Exporters /\ Open(p)
  BY <1>9 DEF Open, StoreTypeOK
<1>10. CASE p \in Exporters /\ Pin(p)
  BY <1>10, PinSteps
<1>11. CASE p \in Exporters /\ Pinned(p)
  BY <1>11 DEF Pinned, StoreTypeOK
<1>12. CASE p \in Exporters /\ Unpin(p)
  BY <1>12 DEF Unpin, StoreTypeOK
<1>13. CASE Cleanup(p)
  BY <1>13, CleanupCourse DEF Sweeps
<1>14. CASE LockRecord(p)
  BY <1>14 DEF LockRecord, StoreTypeOK
<1>15. CASE LockExport(p)
  BY <1>15 DEF LockExport, StoreTypeOK
<1>16. CASE Recharge(p)
  BY <1>16 DEF Recharge, StoreTypeOK
<1>17. CASE ReadManifest(p)
  BY <1>17 DEF ReadManifest, StoreTypeOK
<1>18. CASE ConfirmWorkflow(p)
  <2>1. target[p] \in Runs
    BY <1>18 DEF ConfirmWorkflow, TargetsKnown
  <2>2. latest' = latest \/ Recorded(p)
    BY <1>18 DEF ConfirmWorkflow, Recorded, Statuses
  <2>3. QED
    BY <1>18, <2>1, <2>2 DEF ConfirmWorkflow, StoreTypeOK
<1>19. CASE Intend(p)
  <2>1. target[p] \in Runs
    BY <1>19 DEF Intend, TargetsKnown
  <2>2. latest' = latest \/ Recorded(p)
    BY <1>19 DEF Intend, Recorded, Statuses
  <2>3. where'[p] \in {"write", "settle"} => Wrote(p)
    BY <1>19 DEF Intend, Wrote, StoreTypeOK
  <2>4. QED
    BY <1>19, <2>1, <2>2, <2>3 DEF Intend
<1>20. CASE WriteObject(p)
  <2>1. PICK o \in todo[p], written \in BOOLEAN :
          /\ memory' = IF written
                       THEN memory \cup {[run |-> target[p], object |-> o, at |-> task]}
                       ELSE memory
          /\ \/ Receipt(written) /\ todo' = [todo EXCEPT ![p] = @ \ {o}]
             \/ todo' = todo
    BY <1>20 DEF WriteObject
  <2>2. memory \subseteq memory'
    BY <2>1
  <2>3. Wrote(p)
    <3>1. CASE Receipt(written) /\ todo' = [todo EXCEPT ![p] = @ \ {o}]
      <4>1. [run |-> target[p], object |-> o, at |-> "bound"] \in memory'
        BY <2>1, <3>1 DEF Receipt
      <4>2. QED
        BY <1>20, <3>1, <4>1 DEF WriteObject, Wrote, StoreTypeOK
    <3>2. CASE todo' = todo
      BY <1>20, <3>2 DEF WriteObject, Wrote
    <3>3. QED
      BY <2>1, <3>1, <3>2
  <2>4. QED
    BY <1>20, <2>2, <2>3 DEF WriteObject
<1>21. CASE Settle(p)
  <2>1. target[p] \in Runs
    BY <1>21 DEF Settle, TargetsKnown
  <2>2. Recorded(p)
    <3>1. CASE todo[p] = {}
      BY <1>21, <3>1 DEF Settle, Recorded, Statuses
    <3>2. CASE todo[p] # {}
      BY <1>21, <3>2 DEF Settle, Recorded, Statuses
    <3>3. QED
      BY <3>1, <3>2
  <2>3. QED
    BY <1>21, <2>1, <2>2 DEF Settle, StoreTypeOK
<1>22. CASE UnlockFailed(p)
  BY <1>22 DEF UnlockFailed, StoreTypeOK
<1>23. CASE UnlockRun(p)
  BY <1>23 DEF UnlockRun, StoreTypeOK
<1>24. CASE LockRelease(p)
  BY <1>24 DEF LockRelease, StoreTypeOK
<1>25. CASE ReleaseRun(p)
  BY <1>25 DEF ReleaseRun, StoreTypeOK
<1>26. CASE Killed(p)
  BY <1>26 DEF Killed, StoreTypeOK
<1>27. QED
  BY <1>1, <1>2, <1>3, <1>4, <1>5, <1>6, <1>7, <1>8, <1>9, <1>10,
     <1>11, <1>12, <1>13, <1>14, <1>15, <1>16, <1>17, <1>18, <1>19, <1>20,
     <1>21, <1>22, <1>23, <1>24, <1>25, <1>26
  DEF Works, ToolSteps, Exporter, Exporting

\* What is off an exporter's list is in project memory.
LEMMA WrittenKept ==
    ASSUME StoreTypeOK, LocksHeld, TargetsKnown, WrittenSoFar,
           NEW p \in Procs, Works(p) \/ Killed(p)
    PROVE  WrittenSoFar'
<1>1. memory \subseteq memory'
  BY ExportSteps
<1>2. ASSUME NEW q \in Procs \ {p}, where'[q] \in {"write", "settle"},
             NEW o \in Wants[q] \ todo'[q]
      PROVE  [run |-> target'[q], object |-> o, at |-> "bound"] \in memory'
  BY <1>1, <1>2, OthersStay DEF WrittenSoFar
<1>3. ASSUME where'[p] \in {"write", "settle"}, NEW o \in Wants[p] \ todo'[p]
      PROVE  [run |-> target'[p], object |-> o, at |-> "bound"] \in memory'
  <2>1. target' = target /\ Wrote(p)
    BY <1>3, ExportSteps
  <2>2. QED
    BY <1>1, <1>3, <2>1 DEF Wrote, WrittenSoFar
<1>4. QED
  BY <1>2, <1>3 DEF WrittenSoFar

\* What an export log says is in project memory is there.
LEMMA ExportKept ==
    ASSUME StoreTypeOK, LocksHeld, TargetsKnown, WrittenSoFar, ExportHonest,
           NEW p \in Procs, Works(p) \/ Killed(p)
    PROVE  ExportHonest'
<1>1. memory \subseteq memory'
  BY ExportSteps
<1>2. CASE latest' = latest
  BY <1>1, <1>2 DEF ExportHonest
<1>3. CASE target[p] \in Runs /\ Recorded(p)
  <2>1. PICK st \in Statuses :
          /\ latest' = [latest EXCEPT ![target[p]][Wants[p]] = st]
          /\ st = "exported" => where[p] \in {"write", "settle"} /\ todo[p] = {}
    BY <1>3 DEF Recorded, Log
  <2>2. Wants[p] \in SUBSET Objects
    BY StoreAssumption
  <2>3. SUFFICES ASSUME NEW r \in Runs, NEW os \in SUBSET Objects,
                        latest'[r][os] = "exported", NEW o \in os
                 PROVE  [run |-> r, object |-> o, at |-> "bound"] \in memory'
    BY DEF ExportHonest
  <2>4. CASE r = target[p] /\ os = Wants[p]
    <3>1. st = "exported"
      BY <1>3, <2>1, <2>2, <2>3, <2>4 DEF StoreTypeOK, Histories
    <3>2. QED
      BY <1>1, <2>1, <2>4, <3>1 DEF WrittenSoFar
  <2>5. CASE ~(r = target[p] /\ os = Wants[p])
    <3>1. latest[r][os] = "exported"
      BY <1>3, <2>1, <2>2, <2>3, <2>5 DEF StoreTypeOK, Histories
    <3>2. QED
      BY <1>1, <3>1 DEF ExportHonest
  <2>6. QED
    BY <2>4, <2>5
<1>4. QED
  BY <1>2, <1>3, ExportSteps

-----------------------------------------------------------------------------
(* The store of evidence: the theorems.                                     *)

\* The store starts empty, with nobody at work.
LEMMA StoreInvInit == StoreInit => StoreInv
<1> SUFFICES ASSUME StoreInit PROVE StoreInv
  OBVIOUS
<1> USE StoreAssumption DEF StoreInit, Sweeps, Copiers, Recorders, Pinners, Retainers, Course
<1>1. StoreTypeOK
  BY DEF StoreTypeOK, Stations, RunRecords, Absent, Histories, Statuses, NoSweep, Procs
<1>2. TargetsKnown /\ LocksHeld
  BY DEF TargetsKnown, LocksHeld, Procs
<1>3. LocksOwned /\ VictimHeld
  BY DEF LocksOwned, VictimHeld, NoSweep
<1>4. RunsThere
  BY DEF RunsThere, Absent, Procs
<1>5. WrittenSoFar /\ ExportHonest
  BY DEF WrittenSoFar, ExportHonest
<1>6. QED
  BY <1>1, <1>2, <1>3, <1>4, <1>5 DEF StoreInv

\* The invariant of the store, whoever works, is killed or binds the workspace again.
THEOREM StoreInvCorrect == StoreSpec => []StoreInv
<1>1. StoreInv /\ [StoreNext]_storeVars => StoreInv'
  <2> SUFFICES ASSUME StoreInv, [StoreNext]_storeVars PROVE StoreInv'
    OBVIOUS
  <2>1. ASSUME NEW p \in Procs, Works(p) \/ Killed(p) PROVE StoreInv'
    BY <2>1, StoreTypeKept, TargetsKept, LocksKept, OwnersKept, VictimKept, RunsKept,
       WrittenKept, ExportKept DEF StoreInv
  <2>2. CASE Rebind \/ UNCHANGED storeVars
    <3>1. UNCHANGED <<locks, dirs, latest, memory, where, target, todo, sweep>>
      BY <2>2 DEF Rebind, storeVars, outer
    <3>2. /\ StoreTypeOK'
          /\ \A p : Course(p)' = Course(p)
      BY <3>1 DEF StoreInv, StoreTypeOK, Course, locks
    <3>3. TargetsKnown' /\ LocksHeld' /\ LocksOwned' /\ VictimHeld' /\ RunsThere'
      BY <3>1, <3>2
      DEF StoreInv, TargetsKnown, LocksHeld, LocksOwned, VictimHeld, RunsThere, locks
    <3>4. WrittenSoFar' /\ ExportHonest'
      BY <3>1 DEF StoreInv, WrittenSoFar, ExportHonest
    <3>5. QED
      BY <3>2, <3>3, <3>4 DEF StoreInv
  <2>3. QED
    BY <2>1, <2>2 DEF StoreNext
<1>2. QED
  BY <1>1, StoreInvInit, PTL DEF StoreSpec

\* An export that is recorded as done has put every object under the Task that was
\* asked for, although the workspace may be bound to another Task between the
\* confirmation and the writes (_write_attachment): each receipt is checked against
\* the Task that was confirmed, so what is off the list is where it belongs.
THEOREM ExportHonestCorrect == StoreSpec => []ExportHonest
  BY StoreInvCorrect, PTL DEF StoreInv

\* A run on which a tool or an exporter is at work is not removed under it
\* (_remove_candidate, _prepare_export_pin): a sweep removes what nobody holds.
THEOREM PinnedCorrect == StoreSpec => []PinnedKept
<1>1. StoreInv => PinnedKept
  <2> SUFFICES ASSUME StoreInv, NEW p \in Procs,
                      where[p] \in {"running", "finishing", "lock_record", "lock_export",
                                 "charge", "read", "confirm", "history", "write", "settle",
                                 "unlock"}
               PROVE  dirs[target[p]].there /\ dirs[target[p]].started
    BY DEF PinnedKept
  <2>1. Course(p) = where[p]
    BY DEF Course, Sweeps
  <2>2. QED
    BY <2>1 DEF StoreInv, RunsThere, Pinners, Recorders, Copiers
<1>2. QED
  BY <1>1, StoreInvCorrect, PTL

\* Among any processes there is one that waits for none of the others.
LEMMA SomebodyGoesOn ==
    ASSUME StoreInv, NEW ps \in SUBSET Procs, ps # {}
    PROVE  \E p \in ps : \A q \in ps \ {p} : ~WaitsFor(p, q)
<1> USE DEF Sweeps, Copiers, Recorders, Pinners, Retainers, Course
<1>1. \A q \in Procs : where[q] \in Retainers <=> retention = q
  BY DEF StoreInv, LocksHeld
\* The holder of the retention lock waits for nobody.
<1>2. CASE retention \in ps
  BY <1>1, <1>2 DEF WaitsFor
\* Nor does, without it, anybody who is after it and holds all that it needs ...
<1>3. CASE retention \notin ps /\ \E p \in ps : where[p] # "pin"
  <2>1. PICK p \in ps : where[p] # "pin"
    BY <1>3
  <2>2. \A q \in ps : retention # q
    BY <1>3
  <2>3. CASE where[p] \notin {"lock_record", "lock_export"}
    BY <2>1, <2>2, <2>3 DEF WaitsFor
  \* ... or after a lock of the run that it has pinned.
  <2>4. CASE where[p] \in {"lock_record", "lock_export"}
    <3>1. target[p] \in Runs /\ active[target[p]] = p
      BY <2>4 DEF StoreInv, TargetsKnown, LocksHeld
    <3>2. \A q \in Procs : recording[target[p]] = q \/ exporting[target[p]] = q
             => active[target[p]] = q
      BY <3>1 DEF StoreInv, LocksOwned, LocksHeld
    <3>3. QED
      BY <2>1, <2>2, <2>4, <3>1, <3>2 DEF WaitsFor
  <2>5. QED
    BY <2>3, <2>4
\* Whoever has yet to pin a run holds nothing.
<1>4. CASE retention \notin ps /\ \A p \in ps : where[p] = "pin"
  <2>1. \A p \in ps : target[p] \in Runs
    BY <1>4 DEF StoreInv, TargetsKnown
  <2>2. \A p, q \in ps : active[target[p]] # q
    BY <1>4, <2>1 DEF StoreInv, LocksOwned
  <2>3. QED
    BY <1>4, <2>2 DEF WaitsFor
<1>5. QED
  BY <1>2, <1>3, <1>4

\* No order of the four locks makes tools, exporters and cleanups wait for each other
\* ("Never wait for an activity lock while holding the retention lock").
THEOREM NoWaitCycleCorrect == StoreSpec => []NoWaitCycle
<1>1. StoreInv => NoWaitCycle
  BY SomebodyGoesOn DEF NoWaitCycle
<1>2. QED
  BY <1>1, StoreInvCorrect, PTL

-----------------------------------------------------------------------------
(* Sums over the runs.                                                      *)

\* A family of finite sets has a least one.
LEMMA Least ==
    ASSUME NEW S, IsFiniteSet(S), NEW B \in SUBSET (SUBSET S), B # {}
    PROVE  \E s \in B : \A t \in B : t \subseteq s => t = s
<1>1. IsWellFoundedOn(StrictSubsetOrdering(S), SUBSET S)
  BY FS_StrictSubsetOrderingWellFounded, FS_FiniteSubsetsOfFinite
<1>2. PICK s \in B : \A t \in B : <<t, s>> \notin StrictSubsetOrdering(S)
  <2>1. PICK R : R = StrictSubsetOrdering(S)
    OBVIOUS
  <2>2. \E s \in B : \A t \in B : ~ (<<t, s>> \in R)
    BY <1>1, <2>1, WFMin
  <2>3. QED
    BY <2>1, <2>2
<1>3. ASSUME NEW t \in B, t \subseteq s, t # s PROVE FALSE
  <2>1. <<t, s>> \in StrictSubsetOrdering(S)
    BY <1>3 DEF StrictSubsetOrdering
  <2>2. QED
    BY <1>2, <2>1
<1>4. QED
  BY <1>3

\* T[s] is the sum of g over s, for each subset s of S.
Sums(g, S, T) ==
    /\ T \in [SUBSET S -> Int]
    /\ T[{}] = 0
    /\ \A s \in SUBSET S : \A x \in s : T[s] = g[x] + T[s \ {x}]

\* F adds up by taking one element at a time.
Unfolds(g, S, F) ==
    F = [s \in SUBSET S |-> IF s = {} THEN 0
                            ELSE g[CHOOSE x \in s : TRUE] + F[s \ {CHOOSE x \in s : TRUE}]]

\* What Functions.SumFunctionOnSet computes, from one element that it chooses to the next.
LEMMA Unfold ==
    ASSUME NEW g, NEW S, NEW T, Unfolds(g, S, T)
    PROVE  \E F : Unfolds(g, S, F) /\ SumFunctionOnSet(g, S) = F[S]
<1>1. PICK F : F = CHOOSE H : Unfolds(g, S, H)
  OBVIOUS
<1>2. Unfolds(g, S, F)
  BY <1>1
<1>3. SumFunctionOnSet(g, S) = F[S]
  BY <1>1 DEF SumFunctionOnSet, FoldFunctionOnSet, MapThenFoldSet, Unfolds
<1>4. QED
  BY <1>2, <1>3

\* The sum does not depend on the order in which it is taken.
LEMMA SumIs ==
    ASSUME NEW g, NEW S, IsFiniteSet(S), NEW T, Sums(g, S, T)
    PROVE  SumFunctionOnSet(g, S) = T[S]
<1>1. \A s \in SUBSET S : T[s] = IF s = {} THEN 0
                                 ELSE g[CHOOSE x \in s : TRUE] + T[s \ {CHOOSE x \in s : TRUE}]
  BY DEF Sums
<1>2. Unfolds(g, S, T)
  BY <1>1 DEF Unfolds, Sums
<1>3. PICK F : Unfolds(g, S, F) /\ SumFunctionOnSet(g, S) = F[S]
  BY <1>2, Unfold
<1>4. PICK B : B = {s \in SUBSET S : F[s] # T[s]}
  OBVIOUS
<1>5. ASSUME B # {} PROVE FALSE
  <2>1. PICK s \in B : \A t \in B : t \subseteq s => t = s
    BY <1>4, <1>5, Least
  <2>2. PICK c : c = CHOOSE x \in s : TRUE
    OBVIOUS
  <2>3. /\ F[s] = IF s = {} THEN 0 ELSE g[c] + F[s \ {c}]
        /\ T[s] = IF s = {} THEN 0 ELSE g[c] + T[s \ {c}]
    BY <1>1, <1>3, <1>4, <2>2 DEF Unfolds
  <2>4. s # {}
    BY <1>4, <2>3
  <2>5. c \in s
    BY <2>2, <2>4
  <2>6. F[s \ {c}] = T[s \ {c}]
    BY <1>4, <2>1, <2>5
  <2>7. QED
    BY <1>4, <2>3, <2>6
<1>6. F[S] = T[S]
  BY <1>4, <1>5
<1>7. QED
  BY <1>3, <1>6

\* There is a sum over each subset.
LEMMA SumThere ==
    ASSUME NEW S, IsFiniteSet(S), NEW g, \A x \in S : g[x] \in Int
    PROVE  \E T : Sums(g, S, T)
<1>1. PICK B : B = {s \in SUBSET S : ~ \E T : Sums(g, s, T)}
  OBVIOUS
<1>2. ASSUME B # {} PROVE FALSE
  <2>1. PICK s \in B : \A t \in B : t \subseteq s => t = s
    <3>1. B \in SUBSET (SUBSET S)
      BY <1>1
    <3>2. QED
      BY <1>2, <3>1, Least
  <2>2. s # {}
    <3>1. PICK T : T = [t \in SUBSET {} |-> 0]
      OBVIOUS
    <3>2. Sums(g, {}, T)
      BY <3>1 DEF Sums
    <3>3. QED
      BY <1>1, <3>2
  <2>3. PICK a \in s : TRUE
    BY <2>2
  <2>4. PICK T : Sums(g, s \ {a}, T)
    <3>1. s \ {a} \in SUBSET S /\ s \ {a} \notin B
      BY <1>1, <2>1, <2>3
    <3>2. QED
      BY <1>1, <3>1
  <2>5. PICK U : U = [t \in SUBSET s |-> IF a \in t THEN g[a] + T[t \ {a}] ELSE T[t]]
    OBVIOUS
  <2>6. g[a] \in Int /\ \A t \in SUBSET s : t \ {a} \in SUBSET (s \ {a})
    BY <1>1
  <2>7. U \in [SUBSET s -> Int] /\ U[{}] = 0
    BY <2>4, <2>5, <2>6 DEF Sums
  <2>8. ASSUME NEW t \in SUBSET s, NEW x \in t
        PROVE  U[t] = g[x] + U[t \ {x}]
    <3>1. CASE x = a
      BY <2>5, <2>8, <3>1
    <3>2. CASE x # a /\ a \notin t
      <4>1. t \in SUBSET (s \ {a}) /\ t \ {x} \in SUBSET s
        BY <3>2
      <4>2. T[t] = g[x] + T[t \ {x}]
        BY <2>4, <2>8, <4>1 DEF Sums
      <4>3. U[t] = T[t] /\ U[t \ {x}] = T[t \ {x}]
        BY <2>5, <3>2, <4>1
      <4>4. QED
        BY <4>2, <4>3
    <3>3. CASE x # a /\ a \in t
      <4>1. PICK r : r = t \ {a}
        OBVIOUS
      <4>2. r \in SUBSET (s \ {a}) /\ x \in r /\ t \ {x} \in SUBSET s /\ (t \ {x}) \ {a} = r \ {x}
        BY <3>3, <4>1
      <4>3. T[r] = g[x] + T[r \ {x}]
        BY <2>4, <4>2 DEF Sums
      <4>4. U[t] = g[a] + T[r] /\ U[t \ {x}] = g[a] + T[r \ {x}]
        BY <2>5, <3>3, <4>1, <4>2
      <4>5. T[r \ {x}] \in Int /\ g[x] \in Int
        BY <2>4, <4>2, <1>1, <2>8 DEF Sums
      <4>6. QED
        BY <2>6, <4>3, <4>4, <4>5
    <3>4. QED
      BY <3>1, <3>2, <3>3
  <2>9. Sums(g, s, U)
    BY <2>7, <2>8 DEF Sums
  <2>10. QED
    BY <1>1, <2>9
<1>3. QED
  BY <1>1, <1>2

\* The sum over a finite set, element by element.
LEMMA SumOf ==
    ASSUME NEW S, IsFiniteSet(S), NEW g, \A x \in S : g[x] \in Int
    PROVE  /\ SumFunctionOnSet(g, S) \in Int
           /\ SumFunctionOnSet(g, {}) = 0
           /\ \A x \in S : SumFunctionOnSet(g, S) = g[x] + SumFunctionOnSet(g, S \ {x})
<1>1. PICK T : Sums(g, S, T)
  BY SumThere
<1>2. ASSUME NEW s \in SUBSET S PROVE SumFunctionOnSet(g, s) = T[s]
  <2>1. PICK R : R = [t \in SUBSET s |-> T[t]]
    OBVIOUS
  <2>2. Sums(g, s, R)
    BY <1>1, <2>1 DEF Sums
  <2>3. IsFiniteSet(s)
    BY FS_Subset
  <2>4. QED
    BY <2>1, <2>2, <2>3, SumIs
<1>3. QED
  BY <1>1, <1>2 DEF Sums

\* A sum over fewer of smaller parts is smaller.
LEMMA SumLess ==
    ASSUME NEW S, IsFiniteSet(S), NEW R \in SUBSET S, NEW g, NEW h,
           \A x \in S : h[x] \in Nat,
           \A x \in R : g[x] \in Nat /\ g[x] <= h[x]
    PROVE  SumFunctionOnSet(g, R) <= SumFunctionOnSet(h, S)
<1>1. ASSUME NEW s \in SUBSET S
      PROVE  /\ SumFunctionOnSet(h, s) \in Int
             /\ \A x \in s : SumFunctionOnSet(h, s) = h[x] + SumFunctionOnSet(h, s \ {x})
  <2>1. IsFiniteSet(s) /\ \A x \in s : h[x] \in Int
    BY FS_Subset
  <2>2. QED
    BY <2>1, SumOf
<1>2. ASSUME NEW s \in SUBSET R
      PROVE  /\ SumFunctionOnSet(g, s) \in Int
             /\ \A x \in s : SumFunctionOnSet(g, s) = g[x] + SumFunctionOnSet(g, s \ {x})
  <2>1. IsFiniteSet(s) /\ \A x \in s : g[x] \in Int
    BY FS_Subset
  <2>2. QED
    BY <2>1, SumOf
<1>3. SumFunctionOnSet(g, {}) = 0 /\ SumFunctionOnSet(h, {}) = 0
  BY SumOf, FS_EmptySet
<1>4. PICK G, H : /\ \A s \in SUBSET S : H[s] = SumFunctionOnSet(h, s)
                  /\ \A s \in SUBSET R : G[s] = SumFunctionOnSet(g, s)
  <2>1. PICK G : G = [s \in SUBSET R |-> SumFunctionOnSet(g, s)]
    OBVIOUS
  <2>2. PICK H : H = [s \in SUBSET S |-> SumFunctionOnSet(h, s)]
    OBVIOUS
  <2>3. QED
    BY <2>1, <2>2
<1>5. PICK B : B = {s \in SUBSET S : ~(G[s \cap R] <= H[s])}
  OBVIOUS
<1>6. ASSUME B # {} PROVE FALSE
  <2>1. PICK s \in B : \A t \in B : t \subseteq s => t = s
    <3>1. B \in SUBSET (SUBSET S)
      BY <1>5
    <3>2. QED
      BY <1>6, <3>1, Least
  <2>2. s # {}
    <3>1. G[{}] = 0 /\ H[{}] = 0
      <4>1. {} \in SUBSET S /\ {} \in SUBSET R
        OBVIOUS
      <4>2. H[{}] = SumFunctionOnSet(h, {})
        BY <1>4, <4>1
      <4>3. G[{}] = SumFunctionOnSet(g, {})
        BY <1>4, <4>1
      <4>4. QED
        BY <1>3, <4>2, <4>3
    <3>2. {} \cap R = {}
      OBVIOUS
    <3>3. ~(G[s \cap R] <= H[s])
      BY <1>5
    <3>4. ASSUME s = {} PROVE FALSE
      <4>1. G[s \cap R] = 0 /\ H[s] = 0
        BY <3>1, <3>2, <3>4
      <4>2. QED
        BY <3>3, <4>1
    <3>5. QED
      BY <3>4
  <2>3. PICK x \in s : TRUE
    BY <2>2
  <2>4. /\ s \in SUBSET S /\ s \ {x} \in SUBSET S
        /\ s \cap R \in SUBSET R /\ (s \ {x}) \cap R \in SUBSET R
    BY <1>5
  <2>5. G[(s \ {x}) \cap R] <= H[s \ {x}]
    BY <1>5, <2>1, <2>3, <2>4
  <2>6. H[s] = h[x] + H[s \ {x}] /\ H[s \ {x}] \in Int
    BY <1>1, <1>4, <2>3, <2>4
  <2>7. G[(s \ {x}) \cap R] \in Int
    BY <1>2, <1>4, <2>4
  <2>8. ~(G[s \cap R] <= H[s])
    BY <1>5
  <2>9. CASE x \in R
    <3>1. PICK r : r = s \cap R
      OBVIOUS
    <3>2. r \in SUBSET R /\ x \in r /\ r \ {x} = (s \ {x}) \cap R
      BY <2>3, <2>9, <3>1
    <3>3. G[r] = g[x] + G[r \ {x}]
      BY <1>2, <1>4, <3>2
    <3>4. g[x] \in Nat /\ h[x] \in Nat /\ g[x] <= h[x]
      BY <2>3, <2>4, <2>9
    <3>5. G[r] = g[x] + G[(s \ {x}) \cap R]
      BY <3>2, <3>3
    <3>6. G[r] <= H[s]
      BY <2>5, <2>6, <2>7, <3>4, <3>5
    <3>7. QED
      BY <2>8, <3>1, <3>6
  <2>10. CASE x \notin R
    <3>1. s \cap R = (s \ {x}) \cap R
      BY <2>10
    <3>2. h[x] \in Nat
      BY <2>3, <2>4
    <3>3. G[(s \ {x}) \cap R] <= H[s]
      BY <2>5, <2>6, <2>7, <3>2
    <3>4. QED
      BY <2>8, <3>1, <3>3
  <2>11. QED
    BY <2>9, <2>10
<1>7. S \cap R = R
  OBVIOUS
<1>8. QED
  BY <1>4, <1>5, <1>6, <1>7

-----------------------------------------------------------------------------
(* There is room in the store.                                              *)

\* What a reservation that stands covers.
LEMMA Cover ==
    ASSUME StoreTypeOK, TargetsKnown, LocksOwned, RunsThere, SizesKept,
           NEW r \in Runs, dirs[r].there, Booked(r)
    PROVE  Contribution(r) <= dirs[r].reserved
<1>1. PICK q \in Procs : active[r] = q
  BY DEF StoreTypeOK, Booked
<1>2. r # sweep.victim
  BY DEF Booked
<1>3. target[q] = r /\ Course(q) \in Pinners \cup {"unlock_begin"}
  BY <1>1, <1>2 DEF LocksOwned
<1>4. Course(q) # "unlock_begin"
  BY <1>3 DEF TargetsKnown, RunsThere
<1>5. CASE Course(q) \in {"starting", "reserving"}
  BY <1>3, <1>5 DEF SizesKept, Sized, Contribution
<1>6. CASE Course(q) \in Pinners \ {"starting", "reserving"}
  BY <1>3, <1>6 DEF SizesKept, Sized
<1>7. QED
  BY <1>3, <1>4, <1>5, <1>6

\* The step of a process leaves the directory of a run that another one holds.
LEMMA OthersDirs ==
    ASSUME StoreTypeOK, TargetsKnown, LocksHeld, LocksOwned, VictimHeld, RunsThere,
           NEW p \in Procs, Works(p) \/ Killed(p)
    PROVE  \A r \in Runs :
              \/ dirs'[r] = dirs[r]
              \/ active[r] \in {Nobody, p}
              \/ r = p /\ where[p] = "mkdir"
<1> USE StoreAssumption DEF locks, outer, storeVars, Advance
<1> DEFINE Goal == \A r \in Runs : \/ dirs'[r] = dirs[r]
                                   \/ active[r] \in {Nobody, p}
                                   \/ r = p /\ where[p] = "mkdir"
<1>0. ASSUME NEW r \in Runs, NEW d, dirs' = [dirs EXCEPT ![r] = d],
             active[r] \in {Nobody, p} \/ (r = p /\ where[p] = "mkdir")
      PROVE  Goal
  BY <1>0 DEF StoreTypeOK
<1>1. CASE p \in Runs /\ Begin(p)
  BY <1>1 DEF Begin
<1>2. CASE p \in Runs /\ MakeRun(p)
  BY <1>2, <1>0 DEF MakeRun
<1>3. CASE p \in Runs /\ WriteStarted(p)
  <2>1. active[p] = p
    BY <1>3 DEF WriteStarted, LocksHeld, TargetsKnown, Course, Sweeps, Pinners
  <2>2. QED
    BY <1>3, <1>0, <2>1 DEF WriteStarted
<1>4. CASE p \in Runs /\ WriteReservation(p)
  <2>1. active[p] = p
    BY <1>4 DEF WriteReservation, LocksHeld, TargetsKnown, Course, Sweeps, Pinners
  <2>2. QED
    BY <1>4, <1>0, <2>1 DEF WriteReservation
<1>5. CASE p \in Runs /\ BeginFails(p)
  BY <1>5 DEF BeginFails
<1>6. CASE p \in Runs /\ Stage(p)
  <2>1. active[p] = p
    BY <1>6 DEF Stage, LocksHeld, TargetsKnown, Course, Sweeps, Pinners
  <2>2. QED
    BY <1>6, <1>0, <2>1 DEF Stage
<1>7. CASE p \in Runs /\ Finish(p)
  BY <1>7 DEF Finish
<1>8. CASE p \in Runs /\ WriteManifest(p)
  <2>1. active[p] = p
    BY <1>8 DEF WriteManifest, LocksHeld, TargetsKnown, Course, Sweeps, Pinners, Recorders
  <2>2. QED
    BY <1>8, <1>0, <2>1 DEF WriteManifest
<1>9. CASE p \in Exporters /\ Open(p)
  BY <1>9 DEF Open
<1>10. CASE p \in Exporters /\ Pin(p)
  <2>1. /\ target[p] \in Runs
        /\ \/ dirs' = dirs
           \/ /\ active[target[p]] = Nobody
              /\ dirs' = [dirs EXCEPT ![target[p]].reserved = Raised(target[p])]
    BY <1>10, PinSteps
  <2>2. QED
    BY <1>0, <2>1
<1>11. CASE p \in Exporters /\ Pinned(p)
  BY <1>11 DEF Pinned
<1>12. CASE p \in Exporters /\ Unpin(p)
  <2>1. active[target[p]] = p /\ target[p] \in Runs
    BY <1>12 DEF Unpin, LocksHeld, TargetsKnown, Course, Sweeps, Pinners
  <2>2. QED
    BY <1>12, <1>0, <2>1 DEF Unpin
<1>13. CASE Cleanup(p)
  <2>1. CASE Evict(p)
    <3>1. PICK r \in Runs :
             \/ dirs' = dirs
             \/ active[r] = Nobody /\ \E b \in BOOLEAN : dirs' = [dirs EXCEPT ![r].started = b]
      BY <2>1 DEF Evict, Oldest, StoreTypeOK
    <3>2. QED
      BY <1>0, <3>1
  <2>2. CASE Evicted(p)
    <3>1. dirs' = dirs \/ dirs' = [dirs EXCEPT ![sweep.victim] = Absent]
      BY <2>2 DEF Evicted
    <3>2. active[sweep.victim] = p /\ sweep.victim \in Runs
      BY <1>13, <2>2 DEF Evicted, Cleanup, VictimHeld, StoreTypeOK
    <3>3. QED
      BY <1>0, <3>1, <3>2
  <2>3. CASE Expire(p) \/ Weigh(p) \/ Admit(p)
    BY <2>3 DEF Expire, Weigh, Admit
  <2>4. QED
    BY <1>13, <2>1, <2>2, <2>3 DEF Cleanup
<1>14. CASE LockRecord(p)
  BY <1>14 DEF LockRecord
<1>15. CASE LockExport(p)
  BY <1>15 DEF LockExport
<1>16. CASE Recharge(p)
  <2>1. active[target[p]] = p /\ target[p] \in Runs
    BY <1>16 DEF Recharge, LocksHeld, TargetsKnown, Course, Sweeps, Pinners, Recorders, Copiers
  <2>2. QED
    BY <1>16, <1>0, <2>1 DEF Recharge
<1>17. CASE ReadManifest(p)
  BY <1>17 DEF ReadManifest
<1>18. CASE ConfirmWorkflow(p)
  BY <1>18 DEF ConfirmWorkflow
<1>19. CASE Intend(p)
  BY <1>19 DEF Intend
<1>20. CASE WriteObject(p)
  BY <1>20 DEF WriteObject
<1>21. CASE Settle(p)
  BY <1>21 DEF Settle
<1>22. CASE UnlockFailed(p)
  BY <1>22 DEF UnlockFailed
<1>23. CASE UnlockRun(p)
  BY <1>23 DEF UnlockRun
<1>24. CASE LockRelease(p)
  BY <1>24 DEF LockRelease
<1>25. CASE ReleaseRun(p)
  <2>1. active[target[p]] = p /\ target[p] \in Runs
    BY <1>25 DEF ReleaseRun, LocksHeld, TargetsKnown, Course, Sweeps, Pinners
  <2>2. dirs' = dirs \/ dirs' = [dirs EXCEPT ![target[p]].reserved = 0]
    BY <1>25 DEF ReleaseRun
  <2>3. QED
    BY <1>0, <2>1, <2>2
<1>26. CASE Killed(p)
  BY <1>26 DEF Killed
<1>27. QED
  BY <1>1, <1>2, <1>3, <1>4, <1>5, <1>6, <1>7, <1>8, <1>9, <1>10,
     <1>11, <1>12, <1>13, <1>14, <1>15, <1>16, <1>17, <1>18, <1>19, <1>20,
     <1>21, <1>22, <1>23, <1>24, <1>25, <1>26
  DEF Works, ToolSteps, Exporter, Exporting

\* The steps of a process at work that touch neither the retention lock, nor an
\* activity lock, nor a directory.
Quietly(p) ==
    \/ p \in Runs /\ Finish(p)
    \/ p \in Exporters /\ Open(p)
    \/ LockRecord(p) \/ LockExport(p) \/ ConfirmWorkflow(p) \/ Intend(p) \/ WriteObject(p)
    \/ Settle(p) \/ UnlockRun(p)

\* They lead from one place at work to another, or away from it.
LEMMA QuietSteps ==
    ASSUME StoreTypeOK, LocksHeld, TargetsKnown, NEW p \in Procs, Quietly(p)
    PROVE  /\ UNCHANGED <<retention, active, dirs, sweep>>
           /\ retention # p
           /\ where'[p] \in Stations \ Retainers
           /\ Course(p)' = where'[p] /\ where'[p] \notin {"starting", "reserving"}
           /\ where'[p] \in Pinners =>
                 /\ Course(p) \in Pinners \ {"starting", "reserving"}
                 /\ target' = target
<1> USE DEF StoreTypeOK, locks, outer, Advance, Stations, Retainers, Sweeps, Pinners, Recorders,
     Copiers, Course, LocksHeld
<1>1. CASE p \in Runs /\ Finish(p)
  BY <1>1 DEF Finish
<1>2. CASE p \in Exporters /\ Open(p)
  BY <1>2 DEF Open
<1>3. CASE LockRecord(p)
  BY <1>3 DEF LockRecord
<1>4. CASE LockExport(p)
  BY <1>4 DEF LockExport
<1>5. CASE ConfirmWorkflow(p)
  BY <1>5 DEF ConfirmWorkflow
<1>6. CASE Intend(p)
  BY <1>6 DEF Intend
<1>7. CASE WriteObject(p)
  BY <1>7 DEF WriteObject
<1>8. CASE Settle(p)
  BY <1>8 DEF Settle
<1>9. CASE UnlockRun(p)
  BY <1>9 DEF UnlockRun
<1>10. QED
  BY <1>1, <1>2, <1>3, <1>4, <1>5, <1>6, <1>7, <1>8, <1>9 DEF Quietly

\* What a run counts does not change with anything else than its directory.
LEMMA Counted ==
    ASSUME StoreTypeOK, NEW r \in Runs
    PROVE  /\ Contribution(r) \in Nat /\ dirs[r].reserved \in Nat /\ dirs[r].used \in Nat
           /\ dirs[r].there \in BOOLEAN /\ dirs[r].finished \in BOOLEAN
           /\ Contribution(r) <= dirs[r].used + LogBytes
           /\ ~dirs[r].finished => Contribution(r) = dirs[r].used
           /\ Contribution(r) <= Raised(r) /\ dirs[r].reserved <= Raised(r)
  BY StoreAssumption DEF StoreTypeOK, RunRecords, Contribution, Raised

\* A step of a process keeps its own run within what is reserved for it.
LEMMA OwnSizes ==
    ASSUME StoreTypeOK, TargetsKnown, LocksHeld, LocksOwned, VictimHeld, RunsThere, SizesKept,
           NEW p \in Procs, Works(p) \/ Killed(p)
    PROVE  /\ \A r \in Runs : dirs'[r].used <= DataBytes
           /\ Sized(p)'
<1> USE StoreAssumption DEF locks, outer, storeVars, Advance, Course, Sweeps, Copiers,
     Recorders, Pinners, Retainers, Stations, RunRecords
<1>0. Sized(p) /\ (\A r \in Runs : dirs[r].used <= DataBytes) /\ dirs \in [Runs -> RunRecords]
  BY DEF SizesKept, StoreTypeOK
<1>1. CASE p \in Runs /\ Begin(p)
  BY <1>0, <1>1 DEF Begin, TakeRetention, StartSweep, NoSweep, StoreTypeOK, Sized
<1>2. CASE p \in Runs /\ MakeRun(p)
  BY <1>0, <1>2 DEF MakeRun, Absent, StoreTypeOK, TargetsKnown, Sized
<1>3. CASE p \in Runs /\ WriteStarted(p)
  <2>1. where[p] = "starting" /\ target' = target /\ target[p] = p
    BY <1>3 DEF WriteStarted, StoreTypeOK, TargetsKnown
  <2>2. dirs[p].used = 0 /\ ~dirs[p].finished /\ dirs[p].reserved = 0
    BY <1>0, <2>1 DEF Sized
  <2>3. CASE where'[p] = "reserving" /\ dirs' = [dirs EXCEPT ![p].started = TRUE]
    <3>1. /\ dirs'[p].used = 0 /\ ~dirs'[p].finished /\ dirs'[p].reserved = 0
          /\ \A r \in Runs : dirs'[r].used <= DataBytes
      BY <1>0, <1>3, <2>2, <2>3
    <3>2. QED
      BY <2>1, <2>3, <3>1 DEF Sized
  <2>4. CASE where'[p] = "unlock_begin" /\ dirs' = [dirs EXCEPT ![p] = Absent]
    <3>1. \A r \in Runs : dirs'[r].used <= DataBytes
      BY <1>0, <1>3, <2>4 DEF Absent
    <3>2. QED
      BY <2>4, <3>1 DEF Sized
  <2>5. QED
    BY <1>3, <2>3, <2>4 DEF WriteStarted, StoreTypeOK
<1>4. CASE p \in Runs /\ WriteReservation(p)
  <2>1. where[p] = "reserving" /\ target' = target /\ target[p] = p
    BY <1>4 DEF WriteReservation, StoreTypeOK, TargetsKnown
  <2>2. dirs[p].used = 0 /\ ~dirs[p].finished
    BY <1>0, <2>1 DEF Sized
  <2>3. CASE where'[p] = "running" /\ dirs' = [dirs EXCEPT ![p].reserved = Reservation]
    <3>1. /\ dirs'[p].used = 0 /\ ~dirs'[p].finished /\ dirs'[p].reserved = Reservation
          /\ \A r \in Runs : dirs'[r].used <= DataBytes
      BY <1>0, <1>4, <2>2, <2>3
    <3>2. Reservation \in Nat
      BY DEF Reservation
    <3>3. QED
      BY <2>1, <2>3, <3>1, <3>2 DEF Sized, Contribution
  <2>4. CASE where'[p] = "unlock_begin" /\ dirs' = [dirs EXCEPT ![p] = Absent]
    <3>1. \A r \in Runs : dirs'[r].used <= DataBytes
      BY <1>0, <1>4, <2>4 DEF Absent
    <3>2. QED
      BY <2>4, <3>1 DEF Sized
  <2>5. QED
    BY <1>4, <2>3, <2>4 DEF WriteReservation, StoreTypeOK
<1>5. CASE p \in Runs /\ BeginFails(p)
  BY <1>0, <1>5 DEF BeginFails, StoreTypeOK, Sized
<1>6. CASE p \in Runs /\ Stage(p)
  <2>1. where[p] = "running" /\ where' = where /\ target' = target /\ target[p] = p
    BY <1>6 DEF Stage, StoreTypeOK, TargetsKnown
  <2>2. /\ \A r \in Runs : dirs'[r].used <= DataBytes
        /\ dirs'[p].reserved = dirs[p].reserved
    BY <1>0, <1>6 DEF Stage
  <2>3. dirs'[p].finished = dirs[p].finished /\ dirs'[p].used \in Nat
    BY <1>0, <1>6 DEF Stage
  <2>4. Contribution(p)' <= Reservation
    BY <1>6, <2>2, <2>3 DEF Contribution, Reservation
  <2>5. Reservation <= dirs[p].reserved
    BY <1>0, <1>6, <2>1 DEF Sized
  <2>6. Contribution(p)' \in Nat /\ Reservation \in Nat /\ dirs[p].reserved \in Nat
    BY <1>0, <1>6, <2>3 DEF Contribution, Reservation
  <2>7. QED
    BY <1>6, <2>1, <2>2, <2>4, <2>5, <2>6 DEF Sized
<1>7. CASE Quietly(p)
  <2>1. QED
    BY <1>0, <1>7, QuietSteps DEF Sized, Contribution
<1>8. CASE p \in Runs /\ WriteManifest(p)
  <2>1. where[p] = "finishing" /\ target' = target /\ target[p] = p
        /\ where'[p] \in {"release", "lock_record"}
    BY <1>8 DEF WriteManifest, StoreTypeOK, TargetsKnown
  <2>2. /\ \A r \in Runs : dirs'[r].used <= DataBytes
        /\ dirs'[p].reserved = dirs[p].reserved
    BY <1>0, <1>8 DEF WriteManifest
  <2>3. dirs'[p].used \in Nat
    BY <1>0, <1>8 DEF WriteManifest
  <2>4. Contribution(p)' <= Reservation
    BY <1>8, <2>2, <2>3 DEF Contribution, Reservation
  <2>5. Reservation <= dirs[p].reserved
    BY <1>0, <1>8, <2>1 DEF Sized
  <2>6. Contribution(p)' \in Nat /\ Reservation \in Nat /\ dirs[p].reserved \in Nat
    BY <1>0, <1>8, <2>3 DEF Contribution, Reservation
  <2>7. QED
    BY <1>8, <2>1, <2>2, <2>4, <2>5, <2>6 DEF Sized
<1>10. CASE p \in Exporters /\ Pin(p)
  <2>1. CASE where'[p] = "done" /\ dirs' = dirs
    BY <1>0, <2>1 DEF Sized
  <2>2. CASE /\ where'[p] = "expire" /\ sweep'.next = "pinned"
             /\ dirs' = [dirs EXCEPT ![target[p]].reserved = Raised(target[p])]
    <3>1. target[p] \in Runs /\ p \notin Runs /\ target' = target
      BY <1>10, PinSteps
    <3>2. /\ \A r \in Runs : dirs'[r].used <= DataBytes
          /\ dirs'[target[p]].reserved = Raised(target[p])
      BY <1>0, <2>2, <3>1
    <3>3. dirs'[target[p]].used = dirs[target[p]].used
          /\ dirs'[target[p]].finished = dirs[target[p]].finished
      BY <1>0, <2>2, <3>1
    <3>4. Contribution(target[p])' = Contribution(target[p])
      BY <3>1, <3>3 DEF Contribution
    <3>5. Contribution(target[p]) <= Raised(target[p])
      BY <3>1, Counted
    <3>6. QED
      BY <2>2, <3>1, <3>2, <3>4, <3>5 DEF Sized
  <2>3. QED
    BY <1>10, <2>1, <2>2, PinSteps
<1>11. CASE p \in Exporters /\ Pinned(p)
  BY <1>0, <1>11 DEF Pinned, StoreTypeOK, Sized, Contribution
<1>12. CASE p \in Exporters /\ Unpin(p)
  <2>1. where'[p] = "done" /\ dirs' = [dirs EXCEPT ![target[p]].reserved = 0]
    BY <1>12 DEF Unpin, StoreTypeOK
  <2>2. \A r \in Runs : dirs'[r].used <= DataBytes
    BY <1>0, <2>1
  <2>3. QED
    BY <2>1, <2>2 DEF Sized
<1>13. CASE Cleanup(p)
  <2>1. /\ retention = p /\ target' = target /\ target[p] \in Runs
        /\ Course(p) \in {"mkdir", "pinned", "read"}
    BY <1>13, CleanupCourse DEF TargetsKnown, Sweeps
  <2>2. \A r \in Runs : dirs'[r].used <= DataBytes
    <3>1. CASE Evict(p)
      <4>1. PICK r \in Runs :
               \/ dirs' = dirs
               \/ \E b \in BOOLEAN : dirs' = [dirs EXCEPT ![r].started = b]
        BY <3>1 DEF Evict, Oldest, StoreTypeOK
      <4>2. QED
        BY <1>0, <4>1
    <3>2. CASE Evicted(p)
      <4>1. dirs' = dirs \/ dirs' = [dirs EXCEPT ![sweep.victim] = Absent]
        BY <3>2 DEF Evicted
      <4>2. QED
        BY <1>0, <4>1 DEF Absent
    <3>3. CASE Expire(p) \/ Weigh(p) \/ Admit(p)
      BY <1>0, <3>3 DEF Expire, Weigh, Admit
    <3>4. QED
      BY <1>13, <3>1, <3>2, <3>3 DEF Cleanup
  <2>3. CASE Course(p) = "mkdir"
    <3>1. Course(p)' \in {"mkdir", "unlock_begin"}
      BY <2>3, <1>13, CleanupCourse
    <3>2. QED
      BY <2>2, <3>1 DEF Sized
  <2>4. CASE Course(p) \in {"pinned", "read"}
    <3>1. Course(p)' \in {"pinned", "unpin", "read", "unlock_record"}
      BY <2>4, <1>13, CleanupCourse
    <3>2. active[target[p]] = p
      BY <2>4 DEF LocksHeld
    <3>3. where[p] # "mkdir"
      BY <1>13, CleanupCourse
    <3>4. sweep.victim # target[p]
      <4>1. sweep.next # "mkdir" /\ target[p] # Nobody
        BY <2>1, <2>4, <1>13, CleanupCourse DEF Procs
      <4>2. QED
        BY <2>1, <4>1 DEF VictimHeld
    <3>5. dirs'[target[p]] = dirs[target[p]]
      <4>1. CASE Evict(p)
        BY <4>1, <2>1, <3>2 DEF Evict, Oldest, StoreTypeOK, Procs
      <4>2. CASE Evicted(p)
        BY <4>2, <2>1, <3>4 DEF Evicted, StoreTypeOK
      <4>3. CASE Expire(p) \/ Weigh(p) \/ Admit(p)
        BY <4>3 DEF Expire, Weigh, Admit
      <4>4. QED
        BY <1>13, <4>1, <4>2, <4>3 DEF Cleanup
    <3>6. Contribution(target[p])' = Contribution(target[p])
      BY <2>1, <3>5 DEF Contribution
    <3>7. Contribution(target[p]) <= dirs[target[p]].reserved
          /\ (p \in Runs => Reservation <= dirs[target[p]].reserved)
      BY <1>0, <2>4 DEF Sized
    <3>8. QED
      BY <2>1, <2>2, <3>1, <3>5, <3>6, <3>7 DEF Sized
  <2>5. QED
    BY <2>1, <2>3, <2>4
<1>16. CASE Recharge(p)
  <2>1. where[p] = "charge" /\ target' = target /\ target[p] \in Runs
        /\ Course(p)' = "read"
    BY <1>16 DEF Recharge, StartSweep, NoSweep, StoreTypeOK, TargetsKnown
  <2>2. /\ Contribution(target[p]) <= dirs[target[p]].reserved
        /\ p \in Runs => Reservation <= dirs[target[p]].reserved
    BY <1>0, <2>1 DEF Sized
  <2>3. Raised(target[p]) = dirs[target[p]].reserved
    BY <1>0, <2>1, <2>2, Counted DEF Raised
  <2>4. dirs' = dirs
    BY <1>0, <1>16, <2>1, <2>3 DEF Recharge
  <2>5. QED
    BY <1>0, <2>1, <2>2, <2>4 DEF Sized, Contribution
<1>17. CASE ReadManifest(p)
  BY <1>0, <1>17 DEF ReadManifest, StoreTypeOK, Sized, Contribution
<1>22. CASE UnlockFailed(p)
  BY <1>0, <1>22 DEF UnlockFailed, StoreTypeOK, Sized, Contribution
<1>24. CASE LockRelease(p)
  BY <1>0, <1>24 DEF LockRelease, StoreTypeOK, Sized, Contribution
<1>25. CASE ReleaseRun(p)
  <2>1. where'[p] = "done"
    BY <1>25 DEF ReleaseRun, StoreTypeOK
  <2>2. dirs' = dirs \/ dirs' = [dirs EXCEPT ![target[p]].reserved = 0]
    BY <1>25 DEF ReleaseRun
  <2>3. \A r \in Runs : dirs'[r].used <= DataBytes
    BY <1>0, <2>2
  <2>4. QED
    BY <2>1, <2>3 DEF Sized
<1>26. CASE Killed(p)
  <2>1. where'[p] = "done" /\ dirs' = dirs
    BY <1>26 DEF Killed, StoreTypeOK
  <2>2. QED
    BY <1>0, <2>1 DEF Sized
<1>27. QED
  BY <1>1, <1>2, <1>3, <1>4, <1>5, <1>6, <1>7, <1>8, <1>10,
     <1>11, <1>12, <1>13, <1>16, <1>17, <1>22, <1>24, <1>25, <1>26
  DEF Works, ToolSteps, Exporter, Exporting, Quietly

\* Each run stays within what is reserved for it.
LEMMA SizesStay ==
    ASSUME StoreTypeOK, TargetsKnown, LocksHeld, LocksOwned, VictimHeld, RunsThere, SizesKept,
           NEW p \in Procs, Works(p) \/ Killed(p)
    PROVE  SizesKept'
<1>1. ASSUME NEW q \in Procs \ {p} PROVE Sized(q)'
  <2>1. Course(q)' = Course(q) /\ target'[q] = target[q]
    BY CoursesStay
  <2>2. CASE Course(q) \in Pinners
    <3>1. active[target[q]] = q /\ target[q] \in Runs /\ dirs[target[q]].there
      <4>1. where[q] # "idle"
        BY <2>2 DEF Course, Sweeps, Pinners, Recorders, Copiers
      <4>2. QED
        BY <2>2, <4>1 DEF LocksHeld, TargetsKnown, RunsThere
    <3>2. dirs'[target[q]] = dirs[target[q]]
      <4>1. q # Nobody /\ q # p
        BY StoreAssumption
      <4>2. where[p] = "mkdir" /\ p \in Runs => ~dirs[p].there
        BY DEF RunsThere, Course, Sweeps
      <4>3. QED
        BY <3>1, <4>1, <4>2, OthersDirs
    <3>3. Sized(q)
      BY DEF SizesKept
    <3>4. QED
      BY <2>1, <3>2, <3>3 DEF Sized, Contribution
  <2>3. CASE Course(q) \notin Pinners
    BY <2>1, <2>3 DEF Sized, Pinners
  <2>4. QED
    BY <2>2, <2>3
<1>2. QED
  BY <1>1, OwnSizes DEF SizesKept

\* What runs count are sizes, and finitely many of them.
LEMMA SizesThere ==
    ASSUME StoreTypeOK
    PROVE  /\ \A r \in Runs : Charges[r] \in Nat /\ Weights[r] \in Nat /\ Contributions[r] \in Nat
           /\ Present \subseteq Runs /\ \A rs \in SUBSET Runs : IsFiniteSet(rs)
<1>1. ASSUME NEW r \in Runs
      PROVE  Charges[r] \in Nat /\ Weights[r] \in Nat /\ Contributions[r] \in Nat
  <2>1. Contribution(r) \in Nat /\ dirs[r].reserved \in Nat
    BY Counted
  <2>2. QED
    BY <2>1 DEF Charges, Weights, Contributions, Charge
<1>2. \A rs \in SUBSET Runs : IsFiniteSet(rs)
  BY FS_Subset, StoreAssumption
<1>3. QED
  BY <1>1, <1>2 DEF Present

\* What several runs count together is a number.
LEMMA BytesThere ==
    ASSUME StoreTypeOK, NEW rs \in SUBSET Runs
    PROVE  Bytes(Charges, rs) \in Int /\ Bytes(Weights, rs) \in Int
<1>1. IsFiniteSet(rs) /\ (\A r \in rs : Charges[r] \in Int) /\ (\A r \in rs : Weights[r] \in Int)
  BY SizesThere
<1>2. SumFunctionOnSet(Charges, rs) \in Int
  BY <1>1, SumOf
<1>3. SumFunctionOnSet(Weights, rs) \in Int
  BY <1>1, SumOf
<1>4. QED
  BY <1>2, <1>3 DEF Bytes

\* Nobody sweeps when the retention lock is given back.
LEMMA Freed ==
    ASSUME FreeRetention
    PROVE  /\ retention' = Nobody /\ sweep' = NoSweep /\ sweep'.total = 0 /\ sweep'.idle = {}
           /\ sweep'.victim = Nobody /\ sweep'.next = "done"
  BY DEF FreeRetention, NoSweep

\* A sweep starts with nothing found.
LEMMA Started ==
    ASSUME NEW size, NEW next, StartSweep(size, next)
    PROVE  /\ sweep'.total = 0 /\ sweep'.idle = {} /\ sweep'.victim = Nobody
           /\ sweep'.extra = size /\ sweep'.next = next
  BY DEF StartSweep, NoSweep

\* What a sweep knows after a step of whoever holds the retention lock or may take it.
LEMMA OwnSweep ==
    ASSUME StoreTypeOK, TargetsKnown, LocksHeld, LocksOwned, VictimHeld, RunsThere, SweepKnown,
           NEW p \in Procs, Works(p) \/ Killed(p), retention \in {p, Nobody}
    PROVE  /\ retention' = Nobody => sweep' = NoSweep
           /\ sweep'.total \in Int
           /\ sweep'.victim \notin sweep'.idle
           /\ Sweeping(p)'
<1> DEFINE Goal == /\ retention' = Nobody => sweep' = NoSweep
                   /\ sweep'.total \in Int
                   /\ sweep'.victim \notin sweep'.idle
                   /\ Sweeping(p)'
<1> USE DEF locks, outer, storeVars, Advance
<1>0. /\ retention = Nobody => sweep = NoSweep
      /\ sweep.total \in Int
      /\ sweep.victim \notin sweep.idle
      /\ Sweeping(p)
      /\ where \in [Procs -> Stations] /\ p # Nobody
      /\ DOMAIN sweep = {"idle", "total", "extra", "victim", "next"}
  BY StoreAssumption DEF SweepKnown, StoreTypeOK
<1>f. ASSUME FreeRetention, where'[p] \notin Retainers
      PROVE  Goal
  BY <1>f, Freed DEF Sweeping, Retainers, Sweeps
<1>s. ASSUME NEW size, NEW next, StartSweep(size, next), retention' = p, where'[p] = "expire",
             size = IF next = "mkdir" THEN Reservation ELSE 0
      PROVE  Goal
  <2>1. /\ sweep'.total = 0 /\ sweep'.idle = {} /\ sweep'.victim = Nobody
        /\ sweep'.extra = size /\ sweep'.next = next
    BY <1>s, Started
  <2>2. QED
    BY <1>0, <1>s, <2>1 DEF Sweeping, Retainers, Sweeps, Reservation
<1>k. ASSUME sweep' = sweep, retention' = retention, where'[p] \notin Retainers
      PROVE  Goal
  BY <1>0, <1>k DEF Sweeping, Retainers, Sweeps
<1>1. CASE p \in Runs /\ Begin(p)
  <2>1. where'[p] = "expire" /\ retention' = p
    BY <1>0, <1>1 DEF Begin, TakeRetention
  <2>2. QED
    BY <1>1, <1>s, <2>1 DEF Begin
<1>2. CASE p \in Runs /\ MakeRun(p)
  <2>1. /\ where[p] = "mkdir" /\ where'[p] = "starting" /\ sweep' = sweep
        /\ retention' = retention
    BY <1>0, <1>2 DEF MakeRun
  <2>2. QED
    BY <1>0, <2>1 DEF Sweeping, Retainers, Sweeps
<1>3. CASE p \in Runs /\ WriteStarted(p)
  <2>1. /\ where[p] = "starting" /\ where'[p] \in {"reserving", "unlock_begin"} /\ sweep' = sweep
        /\ retention' = retention
    BY <1>0, <1>3 DEF WriteStarted
  <2>2. QED
    BY <1>0, <2>1 DEF Sweeping, Retainers, Sweeps
<1>4. CASE p \in Runs /\ WriteReservation(p)
  <2>1. /\ where[p] = "reserving"
        /\ \/ where'[p] = "running" /\ FreeRetention
           \/ where'[p] = "unlock_begin" /\ sweep' = sweep /\ retention' = retention
    BY <1>0, <1>4 DEF WriteReservation
  <2>2. CASE where'[p] = "running" /\ FreeRetention
    BY <1>f, <2>2 DEF Retainers, Sweeps
  <2>3. CASE where'[p] = "unlock_begin" /\ sweep' = sweep /\ retention' = retention
    BY <1>0, <2>1, <2>3 DEF Sweeping, Retainers, Sweeps
  <2>4. QED
    BY <2>1, <2>2, <2>3
<1>5. CASE p \in Runs /\ BeginFails(p)
  <2>1. where'[p] = "done" /\ FreeRetention
    BY <1>0, <1>5 DEF BeginFails
  <2>2. QED
    BY <1>f, <2>1 DEF Retainers, Sweeps
<1>6. CASE p \in Runs /\ Stage(p)
  <2>1. where'[p] = "running" /\ sweep' = sweep /\ retention' = retention
    BY <1>0, <1>6 DEF Stage
  <2>2. QED
    BY <1>k, <2>1 DEF Retainers, Sweeps
<1>7. CASE Quietly(p)
  <2>1. where'[p] \notin Retainers /\ sweep' = sweep /\ retention' = retention
    BY <1>7, QuietSteps
  <2>2. QED
    BY <1>k, <2>1
<1>8. CASE p \in Runs /\ WriteManifest(p)
  <2>1. /\ where'[p] \in {"release", "lock_record"} /\ sweep' = sweep
        /\ retention' = retention
    BY <1>0, <1>8 DEF WriteManifest
  <2>2. QED
    BY <1>k, <2>1 DEF Retainers, Sweeps
<1>10. CASE p \in Exporters /\ Pin(p)
  <2>1. \/ where'[p] = "done" /\ sweep' = sweep /\ retention' = retention
        \/ where'[p] = "expire" /\ StartSweep(0, "pinned") /\ retention' = p
    BY <1>0, <1>10 DEF Pin
  <2>2. CASE where'[p] = "done" /\ sweep' = sweep /\ retention' = retention
    BY <1>k, <2>2 DEF Retainers, Sweeps
  <2>3. CASE where'[p] = "expire" /\ StartSweep(0, "pinned") /\ retention' = p
    BY <1>s, <2>3
  <2>4. QED
    BY <2>1, <2>2, <2>3
<1>11. CASE p \in Exporters /\ Pinned(p)
  <2>1. where'[p] = "lock_record" /\ FreeRetention
    BY <1>0, <1>11 DEF Pinned
  <2>2. QED
    BY <1>f, <2>1 DEF Retainers, Sweeps
<1>12. CASE p \in Exporters /\ Unpin(p)
  <2>1. where'[p] = "done" /\ FreeRetention
    BY <1>0, <1>12 DEF Unpin
  <2>2. QED
    BY <1>f, <2>1 DEF Retainers, Sweeps
<1>13. CASE Cleanup(p)
  <2>1. /\ retention = p /\ retention' = p /\ where[p] \in Sweeps
        /\ sweep'.next = sweep.next
        /\ sweep.next \in {"mkdir", "pinned", "read"}
    BY <1>13, CleanupCourse DEF TargetsKnown
  <2>2. sweep.extra = IF sweep.next = "mkdir" THEN Reservation ELSE 0
    BY <1>0, <2>1 DEF Sweeping
  <2>h. Handler(p) = CASE sweep.next = "mkdir"  -> "unlock_begin"
                       [] sweep.next = "pinned" -> "unpin"
                       [] OTHER                 -> "unlock_record"
    BY DEF Handler
  <2>l. ASSUME sweep' = sweep, where'[p] \in {Handler(p), sweep.next} PROVE Goal
    BY <1>0, <2>1, <2>h, <2>l DEF Sweeping, Retainers, Sweeps
  <2>v. ASSUME NEW idle \in SUBSET Present, sweep' = Survey(idle), dirs' = dirs,
               where'[p] \in Sweeps, sweep.victim = Nobody
        PROVE  Goal
    <3>1. /\ sweep'.idle = idle /\ sweep'.total = Bytes(Charges, Present)
          /\ sweep'.victim = Nobody /\ sweep'.extra = sweep.extra
      BY <1>0, <2>v DEF Survey
    <3>2. Bytes(Charges, Present) \in Int
      BY BytesThere, SizesThere
    <3>3. Nobody \notin Present /\ Present' = Present
      BY <2>v, StoreAssumption DEF Present, Procs
    <3>4. QED
      BY <1>0, <2>1, <2>2, <2>v, <3>1, <3>2, <3>3 DEF Sweeping, Retainers, Sweeps, Reservation
  <2>3. CASE Expire(p)
    <3>1. CASE sweep' = sweep /\ where'[p] = Handler(p)
      BY <2>l, <3>1
    <3>2. CASE where'[p] = "expiring" /\ \E old \in SUBSET Idle : sweep' = Survey(old)
      <4>1. sweep.victim = Nobody
        BY <2>1, <2>3 DEF VictimHeld, Expire
      <4>2. Idle \subseteq Present /\ dirs' = dirs
        BY <2>3 DEF Idle, Expire
      <4>3. QED
        BY <2>v, <3>2, <4>1, <4>2 DEF Sweeps
    <3>3. QED
      BY <1>0, <2>3, <3>1, <3>2 DEF Expire
  <2>4. CASE Weigh(p)
    <3>1. CASE sweep' = sweep /\ where'[p] = Handler(p)
      BY <2>l, <3>1
    <3>2. CASE where'[p] = "evicting" /\ sweep' = Survey(Idle)
      <4>2. Idle \subseteq Present /\ dirs' = dirs /\ sweep.victim = Nobody
        BY <2>4 DEF Idle, Weigh
      <4>3. QED
        BY <2>v, <3>2, <4>2 DEF Sweeps
    <3>3. QED
      BY <1>0, <2>4, <3>1, <3>2 DEF Weigh
  <2>5. CASE Evict(p)
    <3>1. where'[p] = where[p] /\ where[p] \in {"expiring", "evicting"} /\ sweep.victim = Nobody
      BY <2>5 DEF Evict
    <3>2. sweep.idle \subseteq Present
      BY <1>0, <3>1 DEF Sweeping
    <3>3. PICK r \in sweep.idle :
             \/ /\ \E left \in BOOLEAN : dirs' = [dirs EXCEPT ![r].started = left]
                /\ sweep' = [sweep EXCEPT !.victim = r, !.total = @ - Contribution(r),
                                          !.idle = @ \ {r}]
             \/ /\ sweep' = [sweep EXCEPT !.idle = @ \ {r}]
                /\ dirs' = dirs
      BY <2>5 DEF Evict, Oldest
    <3>4. r \in Runs /\ Contribution(r) \in Nat
      BY <3>2, Counted DEF Present
    <3>5. Present' = Present
      <4>1. dirs' = dirs \/ \E left \in BOOLEAN : dirs' = [dirs EXCEPT ![r].started = left]
        BY <3>3
      <4>2. \A s \in Runs : dirs'[s].there = dirs[s].there
        BY <3>4, <4>1 DEF StoreTypeOK, RunRecords
      <4>3. QED
        BY <4>2 DEF Present
    <3>6. /\ sweep'.idle = sweep.idle \ {r} /\ sweep'.extra = sweep.extra
          /\ sweep'.total \in {sweep.total, sweep.total - Contribution(r)}
          /\ sweep'.victim \in {r, sweep.victim}
      BY <1>0, <3>3
    <3>7. QED
      BY <1>0, <2>1, <2>2, <3>1, <3>2, <3>4, <3>5, <3>6 DEF Sweeping, Sweeps, Reservation
  <2>6. CASE Evicted(p)
    <3>1. /\ sweep'.idle = sweep.idle /\ sweep'.total = sweep.total /\ sweep'.victim = Nobody
          /\ sweep'.extra = sweep.extra
      BY <1>0, <2>6 DEF Evicted
    <3>2. Nobody \notin sweep.idle
      BY StoreAssumption DEF StoreTypeOK, Procs
    <3>3. CASE dirs' = [dirs EXCEPT ![sweep.victim] = Absent] /\ where' = where
      <4>1. sweep.idle \subseteq Present
        BY <1>0, <2>6 DEF Sweeping, Evicted
      <4>2. \A r \in sweep.idle : dirs'[r] = dirs[r]
        BY <1>0, <3>3, <4>1 DEF StoreTypeOK
      <4>3. sweep.idle \subseteq Present'
        BY <4>1, <4>2 DEF Present
      <4>4. QED
        BY <1>0, <2>1, <2>2, <3>1, <3>2, <3>3, <4>3 DEF Sweeping, Sweeps, Reservation
    <3>4. CASE where'[p] = Handler(p) /\ dirs' = dirs
      BY <1>0, <2>1, <2>h, <3>1, <3>2, <3>4 DEF Sweeping, Retainers, Sweeps
    <3>5. QED
      BY <1>0, <2>6, <3>3, <3>4 DEF Evicted
  <2>7. CASE Admit(p)
    <3>1. sweep' = sweep /\ where'[p] \in {Handler(p), sweep.next}
      BY <1>0, <2>7 DEF Admit
    <3>2. QED
      BY <2>l, <3>1
  <2>8. QED
    BY <1>13, <2>3, <2>4, <2>5, <2>6, <2>7 DEF Cleanup
<1>16. CASE Recharge(p)
  <2>1. where'[p] = "expire" /\ retention' = p
    BY <1>0, <1>16 DEF Recharge, TakeRetention
  <2>2. QED
    BY <1>16, <1>s, <2>1 DEF Recharge
<1>17. CASE ReadManifest(p)
  <2>1. where'[p] \in {"confirm", "unlock"} /\ FreeRetention
    BY <1>0, <1>17 DEF ReadManifest
  <2>2. QED
    BY <1>f, <2>1 DEF Retainers, Sweeps
<1>22. CASE UnlockFailed(p)
  <2>1. where'[p] = "unlock" /\ FreeRetention
    BY <1>0, <1>22 DEF UnlockFailed
  <2>2. QED
    BY <1>f, <2>1 DEF Retainers, Sweeps
<1>24. CASE LockRelease(p)
  <2>1. where'[p] = "unreserve" /\ retention' = p /\ retention = Nobody /\ sweep' = sweep
    BY <1>0, <1>24 DEF LockRelease, TakeRetention
  <2>2. sweep.next = "done"
    BY <1>0, <2>1 DEF NoSweep
  <2>3. QED
    BY <1>0, <2>1, <2>2 DEF Sweeping, Retainers, Sweeps
<1>25. CASE ReleaseRun(p)
  <2>1. where'[p] = "done" /\ FreeRetention
    BY <1>0, <1>25 DEF ReleaseRun
  <2>2. QED
    BY <1>f, <2>1 DEF Retainers, Sweeps
<1>26. CASE Killed(p)
  <2>1. where'[p] = "done" /\ (FreeRetention \/ (sweep' = sweep /\ retention' = retention))
    BY <1>0, <1>26 DEF Killed
  <2>2. QED
    BY <1>f, <1>k, <2>1 DEF Retainers, Sweeps
<1>27. QED
  BY <1>1, <1>2, <1>3, <1>4, <1>5, <1>6, <1>7, <1>8, <1>10,
     <1>11, <1>12, <1>13, <1>16, <1>17, <1>22, <1>24, <1>25, <1>26
  DEF Works, ToolSteps, Exporter, Exporting, Quietly

\* What a sweep is for, and what it has found.
LEMMA SweepStays ==
    ASSUME StoreTypeOK, TargetsKnown, LocksHeld, LocksOwned, VictimHeld, RunsThere, SweepKnown,
           NEW p \in Procs, Works(p) \/ Killed(p)
    PROVE  SweepKnown'
<1>1. LocksHeld' /\ StoreTypeOK'
  BY LocksKept, StoreTypeKept
<1>2. CASE retention \in Procs \ {p}
  <2>1. PICK h \in Procs \ {p} : h = retention
    BY <1>2
  <2>2. sweep' = sweep /\ retention' = h /\ where'[h] = where[h]
    BY <2>1, OthersStay
  <2>3. Present \subseteq Present'
    <3>1. where[p] \notin {"mkdir", "starting", "reserving"}
      BY <2>1 DEF LocksHeld, Retainers
    <3>2. \A r \in Runs : dirs'[r].there <=> dirs[r].there
      BY <2>1, <3>1, RunsEdited
    <3>3. QED
      BY <3>2 DEF Present
  <2>4. Sweeping(h) /\ sweep.total \in Int /\ sweep.victim \notin sweep.idle
    BY DEF SweepKnown
  <2>5. Sweeping(h)'
    BY <2>2, <2>3, <2>4 DEF Sweeping, Reservation
  <2>6. ASSUME NEW q \in Procs \ {h} PROVE Sweeping(q)'
    BY <1>1, <2>2, <2>6 DEF Sweeping, LocksHeld, Retainers, Sweeps
  <2>7. retention' # Nobody
    BY <2>2, StoreAssumption
  <2>8. QED
    BY <2>2, <2>4, <2>5, <2>6, <2>7 DEF SweepKnown
<1>3. CASE retention \in {p, Nobody}
  <2>1. ASSUME NEW q \in Procs \ {p} PROVE Sweeping(q)'
    <3>1. where'[q] = where[q] /\ retention # q
      BY <1>3, OthersStay, StoreAssumption
    <3>2. QED
      BY <3>1 DEF LocksHeld, Sweeping, Retainers, Sweeps
  <2>2. QED
    BY <1>3, <2>1, OwnSweep DEF SweepKnown
<1>4. QED
  BY <1>2, <1>3 DEF StoreTypeOK

\* A run counts no more after a step than what it held or what was reserved for it.
Falls(r) ==
    dirs'[r].there =>
       /\ dirs[r].there
       /\ IF Booked(r)' THEN Booked(r) /\ dirs'[r].reserved <= dirs[r].reserved
          ELSE IF Booked(r) THEN Contribution(r)' <= dirs[r].reserved
          ELSE Contribution(r)' <= Contribution(r)

\* Runs that count less, and fewer of them, count less together.
LEMMA BytesLess ==
    ASSUME NEW rs \in SUBSET Runs, NEW qs \in SUBSET rs, NEW v, NEW w,
           \A r \in rs : w[r] \in Nat,
           \A r \in qs : v[r] \in Nat /\ v[r] <= w[r]
    PROVE  Bytes(v, qs) <= Bytes(w, rs)
<1>1. IsFiniteSet(rs)
  BY FS_Subset, StoreAssumption
<1>2. SumFunctionOnSet(v, qs) <= SumFunctionOnSet(w, rs)
  BY <1>1, SumLess
<1>3. QED
  BY <1>2 DEF Bytes

\* What runs count together is what one counts and what the others count.
LEMMA BytesOf ==
    ASSUME NEW rs \in SUBSET Runs, NEW v, \A r \in rs : v[r] \in Nat
    PROVE  /\ Bytes(v, rs) \in Int
           /\ \A r \in rs : Bytes(v, rs) = v[r] + Bytes(v, rs \ {r})
<1>1. IsFiniteSet(rs) /\ \A r \in rs : v[r] \in Int
  BY FS_Subset, StoreAssumption
<1>2. /\ SumFunctionOnSet(v, rs) \in Int
      /\ \A r \in rs : SumFunctionOnSet(v, rs) = v[r] + SumFunctionOnSet(v, rs \ {r})
  BY <1>1, SumOf
<1>3. QED
  BY <1>2 DEF Bytes

\* If what each run counts falls, then so does what they count together.
LEMMA WeightsFall ==
    ASSUME StoreTypeOK, StoreTypeOK', \A r \in Runs : Falls(r)
    PROVE  /\ Bytes(Weights, Present)' <= Bytes(Weights, Present)
           /\ Bytes(Weights, Present)' \in Int /\ Bytes(Weights, Present) \in Int
<1>1. PICK v, w, qs, rs : v = Weights' /\ w = Weights /\ qs = Present' /\ rs = Present
  OBVIOUS
<1>2. rs \in SUBSET Runs /\ qs \in SUBSET rs
  BY <1>1 DEF Present, Falls
<1>3. \A r \in rs : w[r] \in Nat
  BY <1>1, <1>2, SizesThere
<1>4. ASSUME NEW r \in qs PROVE v[r] \in Nat /\ v[r] <= w[r]
  <2>1. r \in Runs /\ dirs'[r].there /\ Falls(r)
    BY <1>1, <1>2 DEF Present
  <2>2. dirs'[r].reserved \in Nat /\ Contribution(r)' \in Nat
    BY <2>1, StoreAssumption DEF StoreTypeOK, RunRecords, Contribution
  <2>3. v[r] = IF Booked(r)' THEN dirs'[r].reserved ELSE Contribution(r)'
    BY <1>1, <2>1 DEF Weights
  <2>4. w[r] = IF Booked(r) THEN dirs[r].reserved ELSE Contribution(r)
    BY <1>1, <2>1 DEF Weights
  <2>5. QED
    BY <2>1, <2>2, <2>3, <2>4 DEF Falls
<1>5. Bytes(v, qs) <= Bytes(w, rs)
  BY <1>2, <1>3, <1>4, BytesLess
<1>6. Bytes(v, qs) \in Int /\ Bytes(w, rs) \in Int
  BY <1>2, <1>3, <1>4, BytesOf
<1>7. Bytes(Weights, Present)' = Bytes(v, qs)
  BY <1>1
<1>8. QED
  BY <1>1, <1>5, <1>6, <1>7

\* While another process holds the retention lock, a step changes at most what a run
\* counts whose reservation the process itself holds.
LEMMA AtWork ==
    ASSUME StoreTypeOK, TargetsKnown, LocksHeld, LocksOwned, VictimHeld, RunsThere, SizesKept,
           SweepKnown,
           NEW p \in Procs, Works(p) \/ Killed(p), retention \in Procs \ {p}
    PROVE  \A r \in Runs :
              /\ dirs'[r].there <=> dirs[r].there
              /\ \/ dirs'[r] = dirs[r] /\ active'[r] = active[r]
                 \/ /\ active[r] = p /\ active'[r] = p
                    /\ dirs'[r].reserved = dirs[r].reserved
                 \/ active[r] = p /\ active'[r] = Nobody /\ dirs'[r] = dirs[r]
<1> DEFINE Goal == \A r \in Runs :
                      /\ dirs'[r].there <=> dirs[r].there
                      /\ \/ dirs'[r] = dirs[r] /\ active'[r] = active[r]
                         \/ /\ active[r] = p /\ active'[r] = p
                            /\ dirs'[r].reserved = dirs[r].reserved
                         \/ active[r] = p /\ active'[r] = Nobody /\ dirs'[r] = dirs[r]
<1> USE DEF locks, outer, storeVars, Advance
<1>1. /\ where[p] \notin Retainers /\ retention # p /\ retention # Nobody
      /\ dirs \in [Runs -> RunRecords] /\ active \in [Runs -> Procs \cup {Nobody}]
  BY StoreAssumption DEF LocksHeld, StoreTypeOK
<1>2. CASE Quietly(p)
  <2>1. dirs' = dirs /\ active' = active
    BY <1>2, QuietSteps
  <2>2. QED
    BY <2>1
<1>3. CASE p \in Runs /\ Stage(p)
  <2>1. where[p] = "running" /\ dirs' = [dirs EXCEPT ![p].used = @ + 1] /\ active' = active
    BY <1>3 DEF Stage
  <2>2. active[p] = p
    BY <1>3, <2>1 DEF LocksHeld, TargetsKnown, Course, Sweeps, Pinners
  <2>3. \A r \in Runs : /\ r # p => dirs'[r] = dirs[r]
                        /\ dirs'[r].there = dirs[r].there /\ dirs'[r].reserved = dirs[r].reserved
    BY <1>1, <1>3, <2>1 DEF RunRecords
  <2>4. QED
    BY <2>1, <2>2, <2>3
<1>4. CASE p \in Runs /\ WriteManifest(p)
  <2>1. /\ where[p] = "finishing" /\ active' = active
        /\ dirs' = dirs \/ dirs' = [dirs EXCEPT ![p].finished = TRUE]
    BY <1>4 DEF WriteManifest
  <2>2. active[p] = p
    BY <1>4, <2>1 DEF LocksHeld, TargetsKnown, Course, Sweeps, Pinners, Recorders
  <2>3. \A r \in Runs : /\ r # p => dirs'[r] = dirs[r]
                        /\ dirs'[r].there = dirs[r].there /\ dirs'[r].reserved = dirs[r].reserved
    BY <1>1, <1>4, <2>1 DEF RunRecords
  <2>4. QED
    BY <2>1, <2>2, <2>3
<1>5. CASE Killed(p)
  <2>1. dirs' = dirs /\ active' = [r \in Runs |-> IF active[r] = p THEN Nobody ELSE active[r]]
    BY <1>5 DEF Killed, Dropped
  <2>2. QED
    BY <2>1
<1>6. ~(p \in Exporters /\ Pin(p))
  BY <1>1 DEF Pin
<1>7. ~Cleanup(p)
  BY <1>1 DEF Cleanup
<1>8. /\ ~(p \in Runs /\ Begin(p)) /\ ~Recharge(p) /\ ~LockRelease(p)
  BY <1>1 DEF Begin, Recharge, LockRelease, TakeRetention
<1>9. /\ ~(p \in Runs /\ (MakeRun(p) \/ WriteStarted(p) \/ WriteReservation(p) \/ BeginFails(p)))
      /\ ~(p \in Exporters /\ (Pinned(p) \/ Unpin(p)))
      /\ ~ReadManifest(p) /\ ~UnlockFailed(p) /\ ~ReleaseRun(p)
  BY <1>1 DEF MakeRun, WriteStarted, WriteReservation, BeginFails, Pinned, Unpin, ReadManifest,
     UnlockFailed, ReleaseRun, Retainers
<1>10. QED
  BY <1>2, <1>3, <1>4, <1>5, <1>6, <1>7, <1>8, <1>9
  DEF Works, ToolSteps, Exporter, Exporting, Quietly

\* The reservations of those who hold the runs that a sweep may take back.
LEMMA SweepsHold ==
    ASSUME StoreTypeOK, TargetsKnown, LocksHeld, VictimHeld, SweepKnown, retention \in Procs
    PROVE  /\ sweep.victim \in Runs => active[sweep.victim] = retention
           /\ sweep.next = "pinned" => /\ target[retention] \in Runs
                                       /\ active[target[retention]] = retention
<1>1. sweep.victim \in Runs => active[sweep.victim] = retention
  BY StoreAssumption DEF VictimHeld, Procs
<1>2. ASSUME sweep.next = "pinned"
      PROVE  target[retention] \in Runs /\ active[target[retention]] = retention
  <2>1. where[retention] \in Retainers /\ Sweeping(retention)
    BY DEF LocksHeld, SweepKnown
  <2>2. Course(retention) \in {"pinned", "unpin"} /\ where[retention] # "idle"
    BY <1>2, <2>1 DEF Sweeping, Course, Sweeps
  <2>3. QED
    BY <2>2 DEF LocksHeld, TargetsKnown, Pinners
<1>3. QED
  BY <1>1, <1>2

\* There is room while another process holds the retention lock.
LEMMA OthersRoom ==
    ASSUME StoreTypeOK, TargetsKnown, LocksHeld, LocksOwned, VictimHeld, RunsThere, SizesKept,
           SweepKnown, RoomKept, StoreTypeOK', LocksHeld', SizesKept',
           NEW p \in Procs, Works(p) \/ Killed(p), retention \in Procs \ {p}
    PROVE  RoomKept'
<1>1. PICK h \in Procs \ {p} : h = retention
  OBVIOUS
<1>2. /\ sweep' = sweep /\ retention' = h /\ where'[h] = where[h] /\ target'[h] = target[h]
      /\ h # Nobody /\ p # Nobody
  BY <1>1, OthersStay, StoreAssumption
<1>3. /\ sweep.victim \in Runs => active[sweep.victim] = h
      /\ sweep.next = "pinned" => target[h] \in Runs /\ active[target[h]] = h
  BY <1>1, SweepsHold
<1>4. \A r \in Runs : active[r] = p => Booked(r)
  BY <1>1, <1>2, <1>3 DEF Booked
<1>5. \A r \in Runs :
         /\ dirs'[r].there <=> dirs[r].there
         /\ \/ dirs'[r] = dirs[r] /\ active'[r] = active[r]
            \/ /\ active[r] = p /\ active'[r] = p
               /\ dirs'[r].reserved = dirs[r].reserved
            \/ active[r] = p /\ active'[r] = Nobody /\ dirs'[r] = dirs[r]
  BY <1>1, AtWork
<1>6. ASSUME NEW r \in Runs, dirs[r].there
      PROVE  /\ Falls(r)
             /\ Charge(r)' <= Charge(r) /\ Charge(r)' \in Nat /\ Charge(r) \in Nat
  <2>1. /\ dirs[r].reserved \in Nat /\ Contribution(r) \in Nat
        /\ Booked(r) => Contribution(r) <= dirs[r].reserved
    BY <1>6, Counted, Cover
  <2>2. Booked(r)' <=> (/\ active'[r] # Nobody /\ r # sweep.victim
                        /\ sweep.next = "pinned" => r # target[h])
    BY <1>2 DEF Booked
  <2>3. Booked(r) <=> (/\ active[r] # Nobody /\ r # sweep.victim
                       /\ sweep.next = "pinned" => r # target[h])
    BY <1>1 DEF Booked
  <2>4. CASE dirs'[r] = dirs[r] /\ active'[r] = active[r]
    <3>1. Contribution(r)' = Contribution(r) /\ (Booked(r)' <=> Booked(r))
      BY <2>2, <2>3, <2>4 DEF Contribution
    <3>2. Charge(r)' = Charge(r)
      BY <2>4, <3>1 DEF Charge
    <3>3. QED
      BY <1>6, <2>1, <2>4, <3>1, <3>2 DEF Falls, Charge
  <2>5. CASE active[r] = p /\ active'[r] = p /\ dirs'[r].reserved = dirs[r].reserved
    <3>1. Booked(r) /\ Booked(r)'
      BY <1>2, <1>4, <2>2, <2>3, <2>5
    <3>2. Charge(r)' = Charge(r)
      BY <1>2, <2>5 DEF Charge
    <3>3. QED
      BY <1>6, <2>1, <2>5, <3>1, <3>2 DEF Falls, Charge
  <2>6. CASE active[r] = p /\ active'[r] = Nobody /\ dirs'[r] = dirs[r]
    <3>1. Booked(r) /\ ~Booked(r)' /\ Contribution(r)' = Contribution(r)
      BY <1>4, <2>2, <2>6 DEF Contribution
    <3>2. Charge(r)' = Contribution(r) /\ Charge(r) = dirs[r].reserved
      BY <1>2, <2>6, <3>1 DEF Charge
    <3>3. QED
      BY <1>6, <2>1, <3>1, <3>2 DEF Falls
  <2>7. QED
    BY <1>5, <2>4, <2>5, <2>6
<1>7. \A r \in Runs : Falls(r)
  BY <1>5, <1>6 DEF Falls
<1>8. Bytes(Weights, Present)' <= MaxBytes
  BY <1>7, WeightsFall, StoreAssumption DEF RoomKept
<1>9. ASSUME NEW rs \in SUBSET Present
      PROVE  Bytes(Charges', rs) <= Bytes(Charges, rs) /\ Bytes(Charges', rs) \in Int
             /\ Bytes(Charges, rs) \in Int
  <2>1. PICK v, w : v = Charges' /\ w = Charges
    OBVIOUS
  <2>2. \A r \in rs : v[r] \in Nat /\ w[r] \in Nat /\ v[r] <= w[r]
    BY <1>6, <2>1 DEF Charges, Present
  <2>3. rs \in SUBSET Runs
    BY DEF Present
  <2>4. Bytes(v, rs) <= Bytes(w, rs) /\ Bytes(v, rs) \in Int /\ Bytes(w, rs) \in Int
    BY <2>2, <2>3, BytesLess, BytesOf
  <2>5. QED
    BY <2>1, <2>4
<1>10. Present' = Present
  BY <1>5 DEF Present
<1>11. Roomy(h)'
  <2>1. /\ Bytes(Charges', Present) <= Bytes(Charges, Present)
        /\ Bytes(Charges', Present) \in Int /\ Bytes(Charges, Present) \in Int
        /\ Bytes(Charges', Present \ {sweep.victim}) <= Bytes(Charges, Present \ {sweep.victim})
        /\ Bytes(Charges', Present \ {sweep.victim}) \in Int
        /\ Bytes(Charges, Present \ {sweep.victim}) \in Int
    BY <1>9
  <2>2. Roomy(h) /\ sweep.total \in Int /\ Reservation \in Nat /\ MaxBytes \in Nat
    BY StoreAssumption DEF RoomKept, SweepKnown, Reservation
  <2>3. /\ Bytes(Charges, Present)' = Bytes(Charges', Present)
        /\ Bytes(Charges, Present \ {sweep.victim})' = Bytes(Charges', Present \ {sweep.victim})
    BY <1>2, <1>10
  <2>4. QED
    BY <1>2, <2>1, <2>2, <2>3 DEF Roomy, Reservation
<1>12. ASSUME NEW q \in Procs \ {h} PROVE Roomy(q)'
  <2>1. where'[q] \notin Retainers
    BY <1>2, <1>12 DEF LocksHeld
  <2>2. QED
    BY <2>1 DEF Roomy, Retainers, Sweeps
<1>13. QED
  BY <1>8, <1>11, <1>12 DEF RoomKept

\* While nobody sweeps, or the sweep is neither for a pin nor removes a run, every
\* reservation stands.
LEMMA AllBooked ==
    ASSUME sweep.victim \notin Runs, sweep.next # "pinned"
    PROVE  /\ \A r \in Runs : Booked(r) <=> active[r] # Nobody
           /\ Weights = Charges
<1>1. \A r \in Runs : Booked(r) <=> active[r] # Nobody
  BY DEF Booked
<1>2. QED
  BY <1>1 DEF Weights, Charges, Charge

\* A step leaves what a run counts, or takes its directory or its reservation away.
LEMMA Settles ==
    ASSUME StoreTypeOK, TargetsKnown, LocksOwned, RunsThere, SizesKept,
           NEW r \in Runs, dirs[r].there, dirs'[r] = dirs[r], Booked(r)' => Booked(r)
    PROVE  Falls(r)
<1>1. Contribution(r) \in Nat /\ dirs[r].reserved \in Nat
      /\ (Booked(r) => Contribution(r) <= dirs[r].reserved)
  BY Counted, Cover
<1>2. Contribution(r)' = Contribution(r)
  BY DEF Contribution
<1>3. QED
  BY <1>1, <1>2 DEF Falls

\* What runs count falls with every step of whoever holds the retention lock or may
\* take it, but for the three that let a run have what there is room for.
LEMMA OwnFalls ==
    ASSUME StoreTypeOK, TargetsKnown, LocksHeld, LocksOwned, VictimHeld, RunsThere, SizesKept,
           SweepKnown, StoreTypeOK', SizesKept',
           NEW p \in Procs, Works(p) \/ Killed(p), retention \in {p, Nobody},
           where[p] \notin {"mkdir", "reserving", "pinned"}
    PROVE  \A r \in Runs : Falls(r)
<1> DEFINE Goal == \A r \in Runs : Falls(r)
<1> USE DEF locks, outer, storeVars, Advance
<1>0. /\ retention = Nobody => sweep = NoSweep
      /\ Sweeping(p)
      /\ retention = p <=> where[p] \in Retainers
      /\ where \in [Procs -> Stations] /\ p # Nobody /\ Nobody \notin Runs
      /\ dirs \in [Runs -> RunRecords] /\ active \in [Runs -> Procs \cup {Nobody}]
      /\ DOMAIN sweep = {"idle", "total", "extra", "victim", "next"}
      /\ \A r \in Runs : dirs'[r].there \in BOOLEAN
  BY StoreAssumption DEF SweepKnown, StoreTypeOK, Procs, LocksHeld, RunRecords
\* The steps of those who do not sweep.
<1>a. ASSUME where[p] \notin Sweeps \cup {"pinned", "unpin"},
             \A r \in Runs : active'[r] # Nobody => active[r] # Nobody,
             \A r \in Runs : \/ dirs'[r] = dirs[r]
                             \/ ~dirs'[r].there
                             \/ /\ dirs[r].there
                                /\ dirs'[r].reserved \in Nat
                                /\ dirs'[r].reserved <= dirs[r].reserved
                                /\ \/ /\ dirs'[r].used = dirs[r].used
                                      /\ dirs'[r].finished = dirs[r].finished
                                   \/ active[r] # Nobody /\ Contribution(r)' <= dirs[r].reserved
      PROVE  Goal
  <2>1. sweep.victim = Nobody /\ sweep.next # "pinned"
    <3>1. CASE retention = Nobody
      BY <1>0, <3>1 DEF NoSweep
    <3>2. CASE retention = p
      BY <1>0, <1>a, <3>2 DEF Sweeping, VictimHeld, Sweeps
    <3>3. QED
      BY <3>1, <3>2
  <2>2. \A r \in Runs : Booked(r) <=> active[r] # Nobody
    BY <1>0, <2>1, AllBooked
  <2>3. \A r \in Runs : Booked(r)' => Booked(r)
    BY <1>a, <2>2 DEF Booked
  <2>4. ASSUME NEW r \in Runs, dirs'[r].there PROVE Falls(r)
    <3>1. CASE dirs'[r] = dirs[r]
      BY <2>3, <2>4, <3>1, Settles
    <3>2. CASE /\ dirs[r].there
               /\ dirs'[r].reserved \in Nat /\ dirs'[r].reserved <= dirs[r].reserved
               /\ \/ dirs'[r].used = dirs[r].used /\ dirs'[r].finished = dirs[r].finished
                  \/ active[r] # Nobody /\ Contribution(r)' <= dirs[r].reserved
      <4>1. Contribution(r) \in Nat /\ dirs[r].reserved \in Nat
            /\ (Booked(r) => Contribution(r) <= dirs[r].reserved)
        BY <3>2, Counted, Cover
      <4>2. CASE dirs'[r].used = dirs[r].used /\ dirs'[r].finished = dirs[r].finished
        <5>1. Contribution(r)' = Contribution(r)
          BY <4>2 DEF Contribution
        <5>2. QED
          BY <2>3, <3>2, <4>1, <5>1 DEF Falls
      <4>3. CASE active[r] # Nobody /\ Contribution(r)' <= dirs[r].reserved
        BY <2>2, <3>2, <4>3 DEF Falls
      <4>4. QED
        BY <3>2, <4>2, <4>3
    <3>3. QED
      BY <1>a, <2>4, <3>1, <3>2
  <2>5. QED
    BY <2>4 DEF Falls
<1>b. ASSUME where[p] \notin Sweeps \cup {"pinned", "unpin"}, dirs' = dirs,
             \A r \in Runs : active'[r] # Nobody => active[r] # Nobody
      PROVE  Goal
  BY <1>a, <1>b
<1>1. CASE p \in Runs /\ Begin(p)
  BY <1>1, <1>b DEF Begin, Sweeps
<1>3. CASE p \in Runs /\ WriteStarted(p)
  <2>1. where[p] = "starting" /\ active' = active /\ target[p] = p
        /\ (dirs' = [dirs EXCEPT ![p].started = TRUE] \/ dirs' = [dirs EXCEPT ![p] = Absent])
    BY <1>3 DEF WriteStarted, TargetsKnown
  <2>2. dirs[p].there
    BY <2>1 DEF RunsThere, Course, Sweeps, Pinners
  <2>3. CASE dirs' = [dirs EXCEPT ![p].started = TRUE]
    <3>1. \A r \in Runs : \/ dirs'[r] = dirs[r]
                          \/ /\ dirs[r].there
                             /\ dirs'[r].reserved \in Nat /\ dirs'[r].reserved <= dirs[r].reserved
                             /\ dirs'[r].used = dirs[r].used /\ dirs'[r].finished = dirs[r].finished
      BY <1>0, <1>3, <2>2, <2>3 DEF RunRecords
    <3>2. QED
      BY <1>a, <2>1, <3>1 DEF Sweeps
  <2>4. CASE dirs' = [dirs EXCEPT ![p] = Absent]
    <3>1. \A r \in Runs : dirs'[r] = dirs[r] \/ ~dirs'[r].there
      BY <1>0, <1>3, <2>4 DEF Absent
    <3>2. QED
      BY <1>a, <2>1, <3>1 DEF Sweeps
  <2>5. QED
    BY <2>1, <2>3, <2>4
<1>5. CASE p \in Runs /\ BeginFails(p)
  BY <1>0, <1>5, <1>b DEF BeginFails, Sweeps
<1>6. CASE p \in Runs /\ (Stage(p) \/ WriteManifest(p))
  <2>1. /\ where[p] \in {"running", "finishing"} /\ active' = active /\ target' = target
        /\ target[p] = p
        /\ \/ dirs' = dirs
           \/ dirs' = [dirs EXCEPT ![p].used = @ + 1]
           \/ dirs' = [dirs EXCEPT ![p].finished = TRUE]
    BY <1>6 DEF Stage, WriteManifest, TargetsKnown
  <2>2. active[p] = p /\ dirs[p].there
    BY <1>0, <2>1 DEF LocksHeld, RunsThere, Course, Sweeps, Pinners, Recorders
  <2>3. /\ where'[p] \in {"running", "release", "lock_record"}
    BY <1>0, <1>6 DEF Stage, WriteManifest
  <2>4. Contribution(p)' <= dirs'[p].reserved
    BY <2>1, <2>3 DEF SizesKept, Sized, Course, Sweeps, Pinners
  <2>5. /\ \A r \in Runs \ {p} : dirs'[r] = dirs[r]
        /\ dirs'[p].reserved = dirs[p].reserved /\ dirs[p].reserved \in Nat
    BY <1>0, <1>6, <2>1 DEF RunRecords
  <2>6. QED
    BY <1>0, <1>6, <1>a, <2>1, <2>2, <2>4, <2>5 DEF Sweeps
<1>7. CASE Quietly(p)
  <2>1. dirs' = dirs /\ active' = active /\ retention # p
    BY <1>7, QuietSteps
  <2>2. where[p] \notin Sweeps \cup {"pinned", "unpin"}
    BY <1>0, <2>1 DEF Retainers
  <2>3. QED
    BY <1>b, <2>1, <2>2
<1>10. CASE p \in Exporters /\ Pin(p)
  <2>1. retention = Nobody /\ target' = target /\ target[p] \in Runs /\ where[p] = "pin"
    BY <1>10, PinSteps
  <2>2. sweep.victim = Nobody /\ sweep.next # "pinned"
    BY <1>0, <2>1 DEF NoSweep
  <2>3. CASE active' = active /\ dirs' = dirs
    BY <1>b, <2>1, <2>3 DEF Sweeps
  <2>4. CASE /\ active[target[p]] = Nobody /\ dirs[target[p]].there
             /\ active' = [active EXCEPT ![target[p]] = p]
             /\ retention' = p
             /\ dirs' = [dirs EXCEPT ![target[p]].reserved = Raised(target[p])]
             /\ sweep'.next = "pinned"
    <3>1. PICK t \in Runs : t = target[p]
      BY <2>1
    <3>2. ~Booked(t) /\ ~Booked(t)'
      BY <2>1, <2>4, <3>1 DEF Booked
    <3>3. /\ dirs'[t].there /\ dirs'[t].used = dirs[t].used /\ dirs'[t].finished = dirs[t].finished
          /\ \A r \in Runs \ {t} : dirs'[r] = dirs[r] /\ active'[r] = active[r]
      BY <1>0, <2>4, <3>1 DEF RunRecords
    <3>4. Contribution(t)' = Contribution(t) /\ Contribution(t) \in Nat
      BY <3>3, Counted DEF Contribution
    <3>5. Falls(t)
      BY <2>4, <3>1, <3>2, <3>4 DEF Falls
    <3>6. ASSUME NEW r \in Runs \ {t} PROVE Falls(r)
      <4>1. Booked(r)' => Booked(r)
        BY <1>0, <2>2, <3>3, <3>6 DEF Booked
      <4>2. CASE dirs[r].there
        BY <3>3, <3>6, <4>1, <4>2, Settles
      <4>3. CASE ~dirs[r].there
        BY <3>3, <3>6, <4>3 DEF Falls
      <4>4. QED
        BY <4>2, <4>3
    <3>7. QED
      BY <3>5, <3>6
  <2>5. QED
    BY <1>10, <2>3, <2>4, PinSteps
<1>12. CASE p \in Exporters /\ Unpin(p)
  <2>1. /\ where[p] = "unpin" /\ active' = [active EXCEPT ![target[p]] = Nobody]
        /\ dirs' = [dirs EXCEPT ![target[p]].reserved = 0] /\ target' = target
    BY <1>12 DEF Unpin
  <2>2. target[p] \in Runs /\ retention = p
    BY <1>0, <2>1 DEF TargetsKnown, Retainers
  <2>3. sweep.victim = Nobody /\ sweep.next = "pinned"
    BY <1>0, <2>1, <2>2 DEF Sweeping, VictimHeld, Retainers, Sweeps
  <2>4. PICK t \in Runs : t = target[p]
    BY <2>2
  <2>5. ~Booked(t) /\ ~Booked(t)'
    BY <1>0, <2>1, <2>2, <2>3, <2>4 DEF Booked
  <2>6. /\ dirs'[t].used = dirs[t].used /\ dirs'[t].finished = dirs[t].finished
        /\ dirs'[t].there = dirs[t].there
        /\ \A r \in Runs \ {t} : dirs'[r] = dirs[r] /\ active'[r] = active[r]
    BY <1>0, <2>1, <2>4 DEF RunRecords
  <2>7. Contribution(t)' = Contribution(t) /\ Contribution(t) \in Nat
    BY <2>6, Counted DEF Contribution
  <2>8. Falls(t)
    BY <2>5, <2>6, <2>7 DEF Falls
  <2>9. ASSUME NEW r \in Runs \ {t} PROVE Falls(r)
    <3>1. Booked(r)' => Booked(r)
      BY <1>0, <2>2, <2>3, <2>4, <2>6, <2>9 DEF Booked
    <3>2. CASE dirs[r].there
      BY <2>6, <2>9, <3>1, <3>2, Settles
    <3>3. CASE ~dirs[r].there
      BY <2>6, <2>9, <3>3 DEF Falls
    <3>4. QED
      BY <3>2, <3>3
  <2>10. QED
    BY <2>8, <2>9
<1>13. CASE Cleanup(p)
  <2>1. /\ retention = p /\ retention' = p /\ target' = target /\ sweep'.next = sweep.next
    BY <1>13, CleanupCourse
  <2>2. CASE Expire(p) \/ Weigh(p) \/ Admit(p)
    <3>1. /\ dirs' = dirs /\ active' = active
          /\ sweep'.victim = sweep.victim
      BY <1>0, <2>2 DEF Expire, Weigh, Admit, Survey
    <3>2. \A r \in Runs : Booked(r)' => Booked(r)
      BY <2>1, <3>1 DEF Booked
    <3>3. ASSUME NEW r \in Runs PROVE Falls(r)
      <4>1. CASE dirs[r].there
        BY <3>1, <3>2, <4>1, Settles
      <4>2. CASE ~dirs[r].there
        BY <3>1, <4>2 DEF Falls
      <4>3. QED
        BY <4>1, <4>2
    <3>4. QED
      BY <3>3
  <2>3. CASE Evict(p)
    <3>1. PICK t \in Runs :
             \/ /\ active[t] = Nobody
                /\ \E left \in BOOLEAN : dirs' = [dirs EXCEPT ![t].started = left]
                /\ active' = [active EXCEPT ![t] = p]
                /\ sweep' = [sweep EXCEPT !.victim = t, !.total = @ - Contribution(t),
                                          !.idle = @ \ {t}]
             \/ /\ sweep' = [sweep EXCEPT !.idle = @ \ {t}]
                /\ dirs' = dirs /\ active' = active
      BY <2>3 DEF Evict, Oldest, StoreTypeOK
    <3>2. CASE /\ active[t] = Nobody
               /\ \E left \in BOOLEAN : dirs' = [dirs EXCEPT ![t].started = left]
               /\ active' = [active EXCEPT ![t] = p]
               /\ sweep' = [sweep EXCEPT !.victim = t, !.total = @ - Contribution(t),
                                         !.idle = @ \ {t}]
      <4>1. sweep.victim = Nobody /\ sweep'.victim = t
        BY <1>0, <2>3, <3>2 DEF Evict
      <4>2. ~Booked(t) /\ ~Booked(t)'
        BY <3>2, <4>1 DEF Booked
      <4>3. /\ dirs'[t].used = dirs[t].used /\ dirs'[t].finished = dirs[t].finished
            /\ dirs'[t].there = dirs[t].there
            /\ \A r \in Runs \ {t} : dirs'[r] = dirs[r] /\ active'[r] = active[r]
        BY <1>0, <3>2 DEF RunRecords
      <4>4. Contribution(t)' = Contribution(t) /\ Contribution(t) \in Nat
        BY <4>3, Counted DEF Contribution
      <4>5. Falls(t)
        BY <4>2, <4>3, <4>4 DEF Falls
      <4>6. ASSUME NEW r \in Runs \ {t} PROVE Falls(r)
        <5>1. Booked(r)' => Booked(r)
          BY <1>0, <2>1, <4>1, <4>3, <4>6 DEF Booked
        <5>2. CASE dirs[r].there
          BY <4>3, <4>6, <5>1, <5>2, Settles
        <5>3. CASE ~dirs[r].there
          BY <4>3, <4>6, <5>3 DEF Falls
        <5>4. QED
          BY <5>2, <5>3
      <4>7. QED
        BY <4>5, <4>6
    <3>3. CASE sweep' = [sweep EXCEPT !.idle = @ \ {t}] /\ dirs' = dirs /\ active' = active
      <4>1. sweep'.victim = sweep.victim
        BY <1>0, <3>3
      <4>2. \A r \in Runs : Booked(r)' => Booked(r)
        BY <2>1, <3>3, <4>1 DEF Booked
      <4>3. ASSUME NEW r \in Runs PROVE Falls(r)
        <5>1. CASE dirs[r].there
          BY <3>3, <4>2, <5>1, Settles
        <5>2. CASE ~dirs[r].there
          BY <3>3, <5>2 DEF Falls
        <5>3. QED
          BY <5>1, <5>2
      <4>4. QED
        BY <4>3
    <3>4. QED
      BY <3>1, <3>2, <3>3
  <2>4. CASE Evicted(p)
    <3>1. PICK t \in Runs : t = sweep.victim
      BY <1>0, <2>4 DEF Evicted, StoreTypeOK
    <3>2. /\ active' = [active EXCEPT ![t] = Nobody] /\ sweep'.victim = Nobody
          /\ dirs' = dirs \/ dirs' = [dirs EXCEPT ![t] = Absent]
      BY <1>0, <2>4, <3>1 DEF Evicted
    <3>3. \A r \in Runs : Booked(r)' => Booked(r)
      BY <1>0, <2>1, <3>1, <3>2 DEF Booked
    <3>4. \A r \in Runs : dirs'[r] = dirs[r] \/ ~dirs'[r].there
      BY <1>0, <3>2 DEF Absent
    <3>5. ASSUME NEW r \in Runs PROVE Falls(r)
      <4>1. CASE dirs'[r] = dirs[r] /\ dirs[r].there
        BY <3>3, <4>1, Settles
      <4>2. CASE ~dirs'[r].there
        BY <4>2 DEF Falls
      <4>3. QED
        BY <3>4, <4>1, <4>2
    <3>6. QED
      BY <3>5
  <2>5. QED
    BY <1>13, <2>2, <2>3, <2>4 DEF Cleanup
<1>16. CASE Recharge(p)
  <2>1. where[p] = "charge" /\ active' = active /\ target[p] \in Runs
    BY <1>16 DEF Recharge, TargetsKnown
  <2>2. Contribution(target[p]) <= dirs[target[p]].reserved
    BY <2>1 DEF SizesKept, Sized, Course, Sweeps, Pinners, Recorders, Copiers
  <2>3. Raised(target[p]) = dirs[target[p]].reserved
    BY <2>1, <2>2, Counted DEF Raised
  <2>4. dirs' = dirs
    BY <1>0, <1>16, <2>1, <2>3 DEF Recharge, RunRecords
  <2>5. QED
    BY <1>b, <2>1, <2>4 DEF Sweeps
<1>17. CASE ReadManifest(p)
  BY <1>17, <1>b DEF ReadManifest, Sweeps
<1>22. CASE UnlockFailed(p)
  BY <1>22, <1>b DEF UnlockFailed, Sweeps
<1>24. CASE LockRelease(p)
  BY <1>24, <1>b DEF LockRelease, Sweeps
<1>25. CASE ReleaseRun(p)
  <2>1. /\ where[p] = "unreserve" /\ target[p] \in Runs
        /\ active' = [active EXCEPT ![target[p]] = Nobody]
        /\ dirs' = dirs \/ dirs' = [dirs EXCEPT ![target[p]].reserved = 0]
    BY <1>25 DEF ReleaseRun, TargetsKnown
  <2>2. dirs[target[p]].there
    BY <2>1 DEF RunsThere, Course, Sweeps, Pinners
  <2>3. \A r \in Runs : \/ dirs'[r] = dirs[r]
                        \/ /\ dirs[r].there
                           /\ dirs'[r].reserved \in Nat /\ dirs'[r].reserved <= dirs[r].reserved
                           /\ dirs'[r].used = dirs[r].used /\ dirs'[r].finished = dirs[r].finished
    BY <1>0, <2>1, <2>2 DEF RunRecords
  <2>4. \A r \in Runs : active'[r] # Nobody => active[r] # Nobody
    BY <1>0, <2>1
  <2>5. QED
    BY <1>a, <2>1, <2>3, <2>4 DEF Sweeps
<1>26. CASE Killed(p)
  <2>1. /\ dirs' = dirs
        /\ \A r \in Runs : active'[r] = IF active[r] = p THEN Nobody ELSE active[r]
        /\ retention = p => sweep' = NoSweep
    BY <1>26 DEF Killed, Dropped, FreeRetention
  <2>2. CASE retention = Nobody
    <3>1. where[p] \notin Sweeps \cup {"pinned", "unpin"}
      BY <1>0, <2>2 DEF Retainers
    <3>2. QED
      BY <1>b, <2>1, <3>1
  <2>3. CASE retention = p
    <3>1. /\ sweep.victim \in Runs => active[sweep.victim] = p
          /\ sweep.next = "pinned" => target[p] \in Runs /\ active[target[p]] = p
      BY <2>3, SweepsHold
    <3>2. ASSUME NEW r \in Runs, Booked(r)' PROVE Booked(r)
      <4>1. active[r] # p /\ active[r] # Nobody
        BY <2>1, <3>2 DEF Booked
      <4>2. QED
        BY <2>3, <3>1, <4>1 DEF Booked
    <3>3. ASSUME NEW r \in Runs PROVE Falls(r)
      <4>1. CASE dirs[r].there
        BY <2>1, <3>2, <4>1, Settles
      <4>2. CASE ~dirs[r].there
        BY <2>1, <4>2 DEF Falls
      <4>3. QED
        BY <4>1, <4>2
    <3>4. QED
      BY <3>3
  <2>4. QED
    BY <2>2, <2>3
<1>27. QED
  <2>1. /\ ~(p \in Runs /\ (MakeRun(p) \/ WriteReservation(p)))
        /\ ~(p \in Exporters /\ Pinned(p))
    BY DEF MakeRun, WriteReservation, Pinned
  <2>2. QED
    BY <2>1, <1>1, <1>3, <1>5, <1>6, <1>7, <1>10, <1>12, <1>13, <1>16, <1>17, <1>22, <1>24,
       <1>25, <1>26
    DEF Works, ToolSteps, Exporter, Exporting, Quietly

\* A run that may have what there is room for: its tool makes it, or reserves for it.
LEMMA OneMore ==
    ASSUME StoreTypeOK, StoreTypeOK', NEW t \in Runs,
           sweep.victim \notin Runs, sweep.next # "pinned",
           sweep'.victim \notin Runs, sweep'.next # "pinned",
           dirs'[t].there,
           \A r \in Runs \ {t} : dirs'[r] = dirs[r] /\ active'[r] = active[r]
    PROVE  /\ Bytes(Charges, Present)' <= Charge(t)' + Bytes(Charges, Present)
           /\ Bytes(Weights, Present)' = Bytes(Charges, Present)'
           /\ Bytes(Charges, Present)' \in Int /\ Bytes(Charges, Present) \in Int
<1>1. PICK v, w, qs, rs : v = Charges' /\ w = Charges /\ qs = Present' /\ rs = Present
  OBVIOUS
<1>2. rs \in SUBSET Runs /\ qs \in SUBSET Runs /\ t \in qs /\ qs \ {t} \in SUBSET rs
  BY <1>1 DEF Present
<1>3. /\ \A r \in rs : w[r] \in Nat
      /\ Charge(t)' \in Nat
      /\ \A r \in qs : v[r] \in Nat
  <2>1. \A r \in Runs : Contribution(r)' \in Nat /\ dirs'[r].reserved \in Nat
    BY StoreAssumption DEF StoreTypeOK, RunRecords, Contribution
  <2>2. \A r \in Runs : Charge(r)' \in Nat
    BY <2>1 DEF Charge
  <2>3. \A r \in rs : w[r] \in Nat
    BY <1>1, <1>2, SizesThere
  <2>4. QED
    BY <1>1, <1>2, <2>2, <2>3 DEF Charges
<1>4. \A r \in qs \ {t} : v[r] = w[r]
  <2>1. ASSUME NEW r \in Runs \ {t} PROVE Charge(r)' = Charge(r)
    BY <2>1 DEF Charge, Contribution
  <2>2. QED
    BY <1>1, <1>2, <2>1 DEF Charges
<1>5. Bytes(v, qs) = v[t] + Bytes(v, qs \ {t}) /\ Bytes(v, qs) \in Int
  BY <1>2, <1>3, BytesOf
<1>6. Bytes(v, qs \ {t}) \in Int /\ Bytes(w, rs) \in Int
  BY <1>2, <1>3, BytesOf
<1>7. Bytes(v, qs \ {t}) <= Bytes(w, rs)
  <2>1. \A r \in qs \ {t} : v[r] \in Nat /\ v[r] <= w[r]
    BY <1>2, <1>3, <1>4
  <2>2. QED
    BY <1>2, <1>3, <2>1, BytesLess
<1>8. v[t] = Charge(t)'
  BY <1>1 DEF Charges
<1>9. Bytes(Charges, Present)' = Bytes(v, qs) /\ Bytes(Charges, Present) = Bytes(w, rs)
  BY <1>1
<1>10. Weights' = Charges'
  <2>1. \A r \in Runs : Booked(r)' <=> active'[r] # Nobody
    BY DEF Booked
  <2>2. QED
    BY <2>1 DEF Weights, Charges, Charge
<1>11. Bytes(Weights, Present)' = Bytes(Charges, Present)'
  BY <1>10
<1>12. QED
  BY <1>3, <1>5, <1>6, <1>7, <1>8, <1>9, <1>11

\* There is room after a step of whoever holds the retention lock or may take it.
LEMMA OwnRoom ==
    ASSUME StoreTypeOK, TargetsKnown, LocksHeld, LocksOwned, VictimHeld, RunsThere, SizesKept,
           SweepKnown, RoomKept, StoreTypeOK', SizesKept',
           NEW p \in Procs, Works(p) \/ Killed(p), retention \in {p, Nobody}
    PROVE  Bytes(Weights, Present)' <= MaxBytes /\ Roomy(p)'
<1> USE DEF locks, outer, storeVars, Advance
<1>0. /\ Sweeping(p) /\ Roomy(p) /\ Bytes(Weights, Present) <= MaxBytes
      /\ retention = p <=> where[p] \in Retainers
      /\ where \in [Procs -> Stations] /\ p # Nobody /\ Nobody \notin Runs
      /\ dirs \in [Runs -> RunRecords] /\ active \in [Runs -> Procs \cup {Nobody}]
      /\ DOMAIN sweep = {"idle", "total", "extra", "victim", "next"}
      /\ Reservation \in Nat /\ MaxBytes \in Nat /\ sweep.total \in Int
  BY StoreAssumption
  DEF SweepKnown, RoomKept, StoreTypeOK, Procs, LocksHeld, RunRecords, Reservation
<1>1. where[p] \in {"mkdir", "starting", "reserving"} =>
         sweep.victim = Nobody /\ sweep.next # "pinned"
  BY <1>0 DEF Sweeping, VictimHeld, Retainers, Sweeps
<1>2. CASE where[p] = "mkdir" /\ ~Killed(p)
  <2>1. p \in Runs /\ MakeRun(p)
    <3>1. ~Cleanup(p)
      BY <1>2, CleanupCourse DEF Sweeps
    <3>2. QED
      BY <1>2, <3>1
      DEF Works, ToolSteps, Exporter, Exporting, Begin, MakeRun, WriteStarted, WriteReservation,
      BeginFails, Stage, Finish, WriteManifest, Open, Pin, Pinned, Unpin, LockRecord, LockExport,
      Recharge, ReadManifest, ConfirmWorkflow, Intend, WriteObject, Settle, UnlockFailed,
      UnlockRun, LockRelease, ReleaseRun
  <2>2. /\ dirs' = [dirs EXCEPT ![p] = [Absent EXCEPT !.there = TRUE]]
        /\ active' = [active EXCEPT ![p] = p] /\ sweep' = sweep /\ where'[p] = "starting"
    BY <1>0, <2>1 DEF MakeRun
  <2>3. /\ dirs'[p].there /\ dirs'[p].reserved = 0 /\ active'[p] = p
        /\ \A r \in Runs \ {p} : dirs'[r] = dirs[r] /\ active'[r] = active[r]
    BY <1>0, <2>1, <2>2 DEF Absent
  <2>4. Charge(p)' = 0
    BY <1>0, <2>3 DEF Charge
  <2>5. /\ Bytes(Charges, Present)' <= Charge(p)' + Bytes(Charges, Present)
        /\ Bytes(Weights, Present)' = Bytes(Charges, Present)'
        /\ Bytes(Charges, Present)' \in Int /\ Bytes(Charges, Present) \in Int
    BY <1>0, <1>1, <1>2, <2>1, <2>2, <2>3, OneMore
  <2>6. Bytes(Charges, Present) + Reservation <= MaxBytes
    BY <1>0, <1>2 DEF Roomy
  <2>7. Bytes(Charges, Present)' + Reservation <= MaxBytes
    BY <1>0, <2>4, <2>5, <2>6
  <2>8. Bytes(Weights, Present)' <= MaxBytes
    BY <1>0, <2>5, <2>7
  <2>9. Roomy(p)'
    BY <2>2, <2>7 DEF Roomy, Reservation
  <2>10. QED
    BY <2>8, <2>9
<1>3. CASE where[p] = "reserving" /\ ~Killed(p)
  <2>1. p \in Runs /\ WriteReservation(p)
    <3>1. ~Cleanup(p)
      BY <1>3, CleanupCourse DEF Sweeps
    <3>2. QED
      BY <1>3, <3>1
      DEF Works, ToolSteps, Exporter, Exporting, Begin, MakeRun, WriteStarted, WriteReservation,
      BeginFails, Stage, Finish, WriteManifest, Open, Pin, Pinned, Unpin, LockRecord, LockExport,
      Recharge, ReadManifest, ConfirmWorkflow, Intend, WriteObject, Settle, UnlockFailed,
      UnlockRun, LockRelease, ReleaseRun
  <2>2. active' = active /\ target[p] = p /\ active[p] = p /\ dirs[p].there
    BY <1>3, <2>1
    DEF WriteReservation, TargetsKnown, LocksHeld, RunsThere, Course, Sweeps, Pinners
  <2>3. CASE /\ dirs' = [dirs EXCEPT ![p].reserved = Reservation]
             /\ FreeRetention /\ where'[p] = "running"
    <3>1. /\ dirs'[p].there /\ dirs'[p].reserved = Reservation
          /\ \A r \in Runs \ {p} : dirs'[r] = dirs[r] /\ active'[r] = active[r]
      BY <1>0, <2>1, <2>2, <2>3 DEF RunRecords
    <3>2. sweep'.victim = Nobody /\ sweep'.next = "done"
      BY <2>3, Freed
    <3>3. Charge(p)' = Reservation
      BY <1>0, <2>2, <3>1 DEF Charge
    <3>4. /\ Bytes(Charges, Present)' <= Charge(p)' + Bytes(Charges, Present)
          /\ Bytes(Weights, Present)' = Bytes(Charges, Present)'
          /\ Bytes(Charges, Present)' \in Int /\ Bytes(Charges, Present) \in Int
      BY <1>0, <1>1, <1>3, <2>1, <3>1, <3>2, OneMore
    <3>5. Bytes(Charges, Present) + Reservation <= MaxBytes
      BY <1>0, <1>3 DEF Roomy
    <3>6. Bytes(Weights, Present)' <= MaxBytes
      BY <1>0, <3>3, <3>4, <3>5
    <3>7. Roomy(p)'
      BY <2>3 DEF Roomy
    <3>8. QED
      BY <3>6, <3>7
  <2>4. CASE dirs' = [dirs EXCEPT ![p] = Absent] /\ sweep' = sweep /\ where'[p] = "unlock_begin"
    <3>1. ~dirs'[p].there /\ \A r \in Runs \ {p} : dirs'[r] = dirs[r]
      BY <1>0, <2>1, <2>4 DEF Absent
    <3>2. \A r \in Runs : Booked(r)' => Booked(r)
      BY <1>0, <1>1, <1>3, <2>2, <2>4 DEF Booked
    <3>3. ASSUME NEW r \in Runs PROVE Falls(r)
      <4>1. CASE r # p /\ dirs[r].there
        BY <3>1, <3>2, <4>1, Settles
      <4>2. CASE r # p /\ ~dirs[r].there
        BY <3>1, <4>2 DEF Falls
      <4>3. CASE r = p
        BY <3>1, <4>3 DEF Falls
      <4>4. QED
        BY <4>1, <4>2, <4>3
    <3>4. Bytes(Weights, Present)' <= MaxBytes
      BY <1>0, <3>3, WeightsFall
    <3>5. Roomy(p)'
      BY <2>4 DEF Roomy
    <3>6. QED
      BY <3>4, <3>5
  <2>5. QED
    BY <1>0, <2>1, <2>3, <2>4 DEF WriteReservation
<1>4. CASE where[p] = "pinned" /\ ~Killed(p)
  <2>1. p \in Exporters /\ Pinned(p)
    <3>1. ~Cleanup(p)
      BY <1>4, CleanupCourse DEF Sweeps
    <3>2. QED
      BY <1>4, <3>1
      DEF Works, ToolSteps, Exporter, Exporting, Begin, MakeRun, WriteStarted, WriteReservation,
      BeginFails, Stage, Finish, WriteManifest, Open, Pin, Pinned, Unpin, LockRecord, LockExport,
      Recharge, ReadManifest, ConfirmWorkflow, Intend, WriteObject, Settle, UnlockFailed,
      UnlockRun, LockRelease, ReleaseRun
  <2>2. dirs' = dirs /\ active' = active /\ FreeRetention /\ where'[p] = "lock_record"
    BY <1>0, <2>1 DEF Pinned
  <2>3. sweep'.victim = Nobody /\ sweep'.next = "done"
    BY <2>2, Freed
  <2>4. Weights' = Charges
    <3>1. \A r \in Runs : /\ Booked(r)' <=> active[r] # Nobody
                          /\ Contribution(r)' = Contribution(r)
      BY <1>0, <2>2, <2>3 DEF Booked, Contribution
    <3>2. QED
      BY <2>2, <3>1 DEF Weights, Charges, Charge
  <2>5. Present' = Present
    BY <2>2 DEF Present
  <2>6. Bytes(Charges, Present) <= MaxBytes
    BY <1>0, <1>4 DEF Roomy
  <2>7. Roomy(p)'
    BY <2>2 DEF Roomy
  <2>8. QED
    BY <2>4, <2>5, <2>6, <2>7
<1>5. CASE where[p] \notin {"mkdir", "reserving", "pinned"}
  <2>1. \A r \in Runs : Falls(r)
    BY <1>5, OwnFalls
  <2>2. /\ Bytes(Weights, Present)' <= Bytes(Weights, Present)
        /\ Bytes(Weights, Present)' \in Int /\ Bytes(Weights, Present) \in Int
    BY <2>1, WeightsFall
  <2>3. Bytes(Weights, Present)' <= MaxBytes
    BY <1>0, <2>2
  <2>4. ASSUME Cleanup(p) PROVE Roomy(p)'
    <3>1. /\ where[p] \in Sweeps /\ retention = p
          /\ where'[p] \in Sweeps \cup {"mkdir", "pinned", "read", "unlock_begin", "unpin",
                                      "unlock_record"}
          /\ sweep.next \in {"mkdir", "pinned", "read"}
      BY <2>4, CleanupCourse DEF TargetsKnown
    <3>2. Handler(p) \in {"unlock_begin", "unpin", "unlock_record"}
      BY HandlerKnown
    <3>h. ASSUME where'[p] = Handler(p) PROVE Roomy(p)'
      BY <3>2, <3>h DEF Roomy
    <3>v. ASSUME NEW idle, sweep' = Survey(idle), dirs' = dirs, active' = active,
                 where'[p] \in {"expiring", "evicting"}
          PROVE  Roomy(p)'
      <4>1. sweep'.total = Bytes(Charges, Present) /\ sweep'.victim = sweep.victim
        BY <1>0, <3>v DEF Survey
      <4>2. Charges' = Charges /\ Present' = Present
        BY <3>v DEF Charges, Charge, Contribution, Present
      <4>3. PICK w, rs : w = Charges /\ rs = Present
        OBVIOUS
      <4>4. Bytes(w, rs \ {sweep.victim}) <= Bytes(w, rs)
        <5>1. /\ rs \in SUBSET Runs
              /\ \A r \in rs : w[r] \in Nat
          BY <4>3, SizesThere
        <5>2. \A r \in rs \ {sweep.victim} : w[r] \in Nat /\ w[r] <= w[r]
          BY <5>1
        <5>3. rs \ {sweep.victim} \in SUBSET rs
          OBVIOUS
        <5>4. QED
          BY <5>1, <5>2, <5>3, BytesLess
      <4>5. Bytes(Charges, Present \ {sweep.victim})' = Bytes(w, rs \ {sweep.victim})
        BY <4>1, <4>2, <4>3
      <4>6. QED
        BY <3>v, <4>1, <4>3, <4>4, <4>5 DEF Roomy
    <3>3. CASE Expire(p)
      BY <1>0, <3>3, <3>h, <3>v DEF Expire
    <3>4. CASE Weigh(p)
      BY <1>0, <3>4, <3>h, <3>v DEF Weigh
    <3>5. CASE Evict(p)
      <4>1. /\ where[p] \in {"expiring", "evicting"} /\ where' = where
            /\ sweep.victim = Nobody
        BY <3>5 DEF Evict
      <4>2. sweep.idle \subseteq Present /\ Nobody \notin Present
        BY <1>0, <4>1 DEF Sweeping, Present
      <4>3. Bytes(Charges, Present) <= sweep.total
        <5>1. Present \ {sweep.victim} = Present
          BY <4>1, <4>2
        <5>2. QED
          BY <1>0, <4>1, <5>1 DEF Roomy
      <4>4. PICK t \in sweep.idle :
               \/ /\ active[t] = Nobody
                  /\ \E left \in BOOLEAN : dirs' = [dirs EXCEPT ![t].started = left]
                  /\ active' = [active EXCEPT ![t] = p]
                  /\ sweep' = [sweep EXCEPT !.victim = t, !.total = @ - Contribution(t),
                                            !.idle = @ \ {t}]
               \/ /\ sweep' = [sweep EXCEPT !.idle = @ \ {t}]
                  /\ dirs' = dirs /\ active' = active
        BY <3>5 DEF Evict, Oldest
      <4>5. t \in Present /\ t \in Runs
        BY <4>2 DEF Present
      <4>6. CASE /\ sweep' = [sweep EXCEPT !.idle = @ \ {t}]
                 /\ dirs' = dirs /\ active' = active
        <5>1. sweep'.total = sweep.total /\ sweep'.victim = Nobody
          BY <1>0, <4>1, <4>6
        <5>2. Charges' = Charges /\ Present' = Present
          BY <4>6 DEF Charges, Charge, Contribution, Present
        <5>3. Present \ {Nobody} = Present
          BY <4>2
        <5>4. Bytes(Charges, Present \ {sweep.victim})' = Bytes(Charges, Present)
          BY <5>1, <5>2, <5>3
        <5>5. QED
          BY <4>1, <4>3, <5>1, <5>4 DEF Roomy
      <4>7. CASE /\ active[t] = Nobody
                 /\ \E left \in BOOLEAN : dirs' = [dirs EXCEPT ![t].started = left]
                 /\ active' = [active EXCEPT ![t] = p]
                 /\ sweep' = [sweep EXCEPT !.victim = t, !.total = @ - Contribution(t),
                                           !.idle = @ \ {t}]
        <5>1. sweep'.total = sweep.total - Contribution(t) /\ sweep'.victim = t
          BY <1>0, <4>7
        <5>2. /\ \A r \in Runs \ {t} : dirs'[r] = dirs[r] /\ active'[r] = active[r]
              /\ dirs'[t].there = dirs[t].there
          BY <1>0, <4>5, <4>7 DEF RunRecords
        <5>3. PICK v, w, rs : v = Charges' /\ w = Charges /\ rs = Present
          OBVIOUS
        <5>4. /\ rs \in SUBSET Runs /\ t \in rs
              /\ \A r \in rs : w[r] \in Nat
          BY <4>5, <5>3, SizesThere
        <5>5. \A r \in rs \ {t} : v[r] = w[r]
          <6>1. ASSUME NEW r \in Runs \ {t} PROVE Charge(r)' = Charge(r)
            BY <5>2, <6>1 DEF Charge, Contribution
          <6>2. QED
            BY <5>3, <5>4, <6>1 DEF Charges
        <5>6. Bytes(w, rs) = w[t] + Bytes(w, rs \ {t}) /\ Bytes(w, rs) \in Int
          BY <5>4, BytesOf
        <5>7. Bytes(v, rs \ {t}) <= Bytes(w, rs \ {t}) /\ Bytes(v, rs \ {t}) \in Int
              /\ Bytes(w, rs \ {t}) \in Int
          <6>1. \A r \in rs \ {t} : v[r] \in Nat /\ v[r] <= w[r] /\ w[r] \in Nat
            BY <5>4, <5>5
          <6>2. rs \ {t} \in SUBSET Runs
            BY <5>4
          <6>3. QED
            BY <6>1, <6>2, BytesLess, BytesOf
        <5>8. w[t] = Contribution(t) /\ Contribution(t) \in Nat
          BY <4>5, <4>7, <5>3, Counted DEF Charges, Charge
        <5>9. Bytes(w, rs) <= sweep.total
          BY <4>3, <5>3
        <5>10. Bytes(v, rs \ {t}) <= sweep'.total
          BY <1>0, <5>1, <5>6, <5>7, <5>8, <5>9
        <5>11. Present' = Present
          BY <5>2, <4>5 DEF Present
        <5>12. Bytes(Charges, Present \ {sweep.victim})' = Bytes(v, rs \ {t})
          BY <5>1, <5>3, <5>11
        <5>13. QED
          BY <4>1, <5>10, <5>12 DEF Roomy
      <4>8. QED
        BY <4>4, <4>6, <4>7
    <3>6. CASE Evicted(p)
      <4>1. /\ where[p] \in {"expiring", "evicting"}
            /\ sweep'.victim = Nobody /\ sweep'.total = sweep.total
            /\ active' = [active EXCEPT ![sweep.victim] = Nobody]
        BY <1>0, <3>6 DEF Evicted
      <4>2. CASE dirs' = [dirs EXCEPT ![sweep.victim] = Absent] /\ where' = where
        <5>1. PICK t \in Runs : t = sweep.victim
          BY <3>6 DEF Evicted, StoreTypeOK
        <5>2. /\ \A r \in Runs \ {t} : dirs'[r] = dirs[r] /\ active'[r] = active[r]
              /\ ~dirs'[t].there
          BY <1>0, <4>1, <4>2, <5>1 DEF Absent
        <5>3. Present' = Present \ {t} /\ Nobody \notin Present'
          BY <1>0, <5>2 DEF Present
        <5>4. PICK v, w, rs : v = Charges' /\ w = Charges /\ rs = Present \ {t}
          OBVIOUS
        <5>5. rs \in SUBSET Runs /\ \A r \in rs : w[r] \in Nat
          BY <5>4, SizesThere
        <5>6. \A r \in rs : v[r] = w[r]
          <6>1. ASSUME NEW r \in Runs \ {t} PROVE Charge(r)' = Charge(r)
            BY <5>2, <6>1 DEF Charge, Contribution
          <6>2. QED
            BY <5>4, <5>5, <6>1 DEF Charges
        <5>7. Bytes(v, rs) <= Bytes(w, rs) /\ Bytes(v, rs) \in Int /\ Bytes(w, rs) \in Int
          <6>1. \A r \in rs : v[r] \in Nat /\ v[r] <= w[r]
            BY <5>5, <5>6
          <6>2. QED
            BY <5>5, <6>1, BytesLess, BytesOf
        <5>8. Bytes(w, rs) <= sweep.total
          BY <1>0, <4>1, <5>1, <5>4 DEF Roomy
        <5>9. Present' \ {Nobody} = rs
          BY <5>3, <5>4
        <5>10. Bytes(Charges, Present \ {sweep.victim})' = Bytes(v, rs)
          BY <4>1, <5>4, <5>9
        <5>11. QED
          BY <1>0, <4>1, <4>2, <5>7, <5>8, <5>10 DEF Roomy
      <4>3. CASE where'[p] = Handler(p)
        BY <3>h, <4>3
      <4>4. QED
        BY <1>0, <3>6, <4>2, <4>3 DEF Evicted
    <3>7. CASE Admit(p)
      <4>1. /\ where[p] = "evicting" /\ sweep.victim = Nobody /\ dirs' = dirs /\ active' = active
            /\ sweep' = sweep
            /\ where'[p] = IF TooMuch THEN Handler(p) ELSE sweep.next
        BY <1>0, <3>7 DEF Admit
      <4>2. CASE ~TooMuch
        <5>1. Present \ {sweep.victim} = Present
          BY <1>0, <4>1 DEF Present
        <5>2. Bytes(Charges, Present) <= sweep.total
          BY <1>0, <4>1, <5>1 DEF Roomy
        <5>3. Bytes(Charges, Present) \in Int
          BY BytesThere, SizesThere
        <5>4. sweep.extra = IF sweep.next = "mkdir" THEN Reservation ELSE 0
          BY <1>0, <3>1 DEF Sweeping
        <5>5. sweep.total + sweep.extra <= MaxBytes
          BY <1>0, <4>2, <5>4 DEF TooMuch
        <5>6. Charges' = Charges /\ Present' = Present
          BY <4>1 DEF Charges, Charge, Contribution, Present
        <5>7. Bytes(Charges, Present)' = Bytes(Charges, Present)
          BY <5>6
        <5>8. CASE sweep.next = "mkdir"
          <6>1. Bytes(Charges, Present) + Reservation <= MaxBytes
            BY <1>0, <5>2, <5>3, <5>4, <5>5, <5>8
          <6>2. QED
            BY <4>1, <4>2, <5>7, <5>8, <6>1 DEF Roomy, Reservation
        <5>9. CASE sweep.next = "pinned"
          <6>1. Bytes(Charges, Present) <= MaxBytes
            BY <1>0, <5>2, <5>3, <5>4, <5>5, <5>9
          <6>2. QED
            BY <4>1, <4>2, <5>7, <5>9, <6>1 DEF Roomy
        <5>10. CASE sweep.next = "read"
          BY <4>1, <4>2, <5>10 DEF Roomy
        <5>11. QED
          BY <3>1, <5>8, <5>9, <5>10
      <4>3. QED
        BY <3>h, <4>1, <4>2
    <3>8. QED
      BY <2>4, <3>3, <3>4, <3>5, <3>6, <3>7 DEF Cleanup
  <2>5. CASE p \in Runs /\ WriteStarted(p)
    <3>1. /\ where[p] = "starting" /\ where'[p] \in {"reserving", "unlock_begin"}
          /\ sweep' = sweep
      BY <1>0, <2>5 DEF WriteStarted
    <3>2. Weights = Charges
      BY <1>0, <1>1, <3>1, AllBooked
    <3>3. Weights' = Charges'
      <4>1. \A r \in Runs : Booked(r)' <=> active'[r] # Nobody
        BY <1>0, <1>1, <3>1 DEF Booked
      <4>2. QED
        BY <4>1 DEF Weights, Charges, Charge
    <3>4. Bytes(Weights, Present) = Bytes(Charges, Present)
      BY <3>2
    <3>5. Bytes(Weights, Present)' = Bytes(Charges, Present)'
      BY <3>3
    <3>6. Bytes(Charges, Present) + Reservation <= MaxBytes
      BY <1>0, <3>1 DEF Roomy
    <3>7. Bytes(Charges, Present)' + Reservation <= MaxBytes
      BY <1>0, <2>2, <3>4, <3>5, <3>6
    <3>8. QED
      BY <2>3, <3>1, <3>7 DEF Roomy, Reservation
  <2>6. CASE ~Cleanup(p) /\ ~(p \in Runs /\ WriteStarted(p))
    <3>1. where'[p] \notin {"expiring", "evicting", "mkdir", "starting", "reserving", "pinned"}
      <4>1. CASE Quietly(p)
        BY <4>1, QuietSteps DEF Retainers, Sweeps
      <4>2. CASE p \in Exporters /\ Pin(p)
        BY <4>2, PinSteps
      <4>3. CASE Killed(p)
        BY <1>0, <4>3 DEF Killed
      <4>4. CASE p \in Runs /\ (Begin(p) \/ BeginFails(p) \/ Stage(p) \/ WriteManifest(p))
        BY <1>0, <4>4 DEF Begin, BeginFails, Stage, WriteManifest
      <4>5. CASE p \in Exporters /\ Unpin(p)
        BY <1>0, <4>5 DEF Unpin
      <4>6. CASE \/ Recharge(p) \/ ReadManifest(p) \/ UnlockFailed(p) \/ LockRelease(p)
                 \/ ReleaseRun(p)
        BY <1>0, <4>6 DEF Recharge, ReadManifest, UnlockFailed, LockRelease, ReleaseRun
      <4>7. QED
        <5>1. /\ ~(p \in Runs /\ (MakeRun(p) \/ WriteReservation(p)))
              /\ ~(p \in Exporters /\ Pinned(p))
          BY <1>5 DEF MakeRun, WriteReservation, Pinned
        <5>2. QED
          BY <2>6, <4>1, <4>2, <4>3, <4>4, <4>5, <4>6, <5>1
          DEF Works, ToolSteps, Exporter, Exporting, Quietly
    <3>2. QED
      BY <2>3, <3>1 DEF Roomy
  <2>7. QED
    BY <2>3, <2>4, <2>5, <2>6
<1>6. CASE Killed(p) /\ where[p] \in {"mkdir", "reserving", "pinned"}
  <2>1. /\ dirs' = dirs /\ where'[p] = "done" /\ retention = p /\ sweep' = NoSweep
        /\ \A r \in Runs : active'[r] = IF active[r] = p THEN Nobody ELSE active[r]
    BY <1>0, <1>6 DEF Killed, Dropped, FreeRetention, Retainers
  <2>2. /\ sweep.victim \in Runs => active[sweep.victim] = p
        /\ sweep.next = "pinned" => target[p] \in Runs /\ active[target[p]] = p
    BY <2>1, SweepsHold
  <2>3. ASSUME NEW r \in Runs, Booked(r)' PROVE Booked(r)
    <3>1. active[r] # p /\ active[r] # Nobody
      BY <2>1, <2>3 DEF Booked
    <3>2. QED
      BY <2>1, <2>2, <3>1 DEF Booked
  <2>4. ASSUME NEW r \in Runs PROVE Falls(r)
    <3>1. CASE dirs[r].there
      BY <2>1, <2>3, <3>1, Settles
    <3>2. CASE ~dirs[r].there
      BY <2>1, <3>2 DEF Falls
    <3>3. QED
      BY <3>1, <3>2
  <2>5. Bytes(Weights, Present)' <= MaxBytes
    BY <1>0, <2>4, WeightsFall
  <2>6. QED
    BY <2>1, <2>5 DEF Roomy
<1>7. QED
  BY <1>2, <1>3, <1>4, <1>5, <1>6

\* The runs and the reservations that stand fit.
LEMMA RoomStays ==
    ASSUME StoreInv, RoomInv, NEW p \in Procs, Works(p) \/ Killed(p)
    PROVE  RoomInv'
<1>1. /\ StoreTypeOK /\ TargetsKnown /\ LocksHeld /\ LocksOwned /\ VictimHeld /\ RunsThere
      /\ SizesKept /\ SweepKnown /\ RoomKept
  BY DEF StoreInv, RoomInv
<1>2. StoreTypeOK' /\ LocksHeld' /\ SizesKept' /\ SweepKnown'
  BY <1>1, StoreTypeKept, LocksKept, SizesStay, SweepStays
<1>3. CASE retention \in Procs \ {p}
  BY <1>1, <1>2, <1>3, OthersRoom DEF RoomInv
<1>4. CASE retention \in {p, Nobody}
  <2>1. Bytes(Weights, Present)' <= MaxBytes /\ Roomy(p)'
    BY <1>1, <1>2, <1>4, OwnRoom
  <2>2. ASSUME NEW q \in Procs \ {p} PROVE Roomy(q)'
    <3>1. where'[q] = where[q] /\ retention # q
      BY <1>1, <1>4, OthersStay, StoreAssumption
    <3>2. QED
      BY <1>1, <3>1 DEF LocksHeld, Roomy, Retainers, Sweeps
  <2>3. QED
    BY <1>2, <2>1, <2>2 DEF RoomInv, RoomKept
<1>5. QED
  BY <1>1, <1>3, <1>4 DEF StoreTypeOK

\* There is room at first.
LEMMA RoomInit == StoreInit => RoomInv
<1> SUFFICES ASSUME StoreInit PROVE RoomInv
  OBVIOUS
<1>1. SizesKept
  BY StoreAssumption DEF StoreInit, SizesKept, Sized, Course, Absent, Sweeps, Pinners, Recorders,
     Copiers
<1>2. SweepKnown
  BY DEF StoreInit, SweepKnown, Sweeping, NoSweep, Retainers, Sweeps
<1>3. RoomKept
  <2>1. Present = {}
    BY DEF StoreInit, Present, Absent
  <2>2. PICK w : w = Weights
    OBVIOUS
  <2>3. SumFunctionOnSet(w, {}) = 0
    <3>1. IsFiniteSet({}) /\ \A x \in {} : w[x] \in Int
      BY FS_EmptySet
    <3>2. QED
      BY <3>1, SumOf
  <2>4. Bytes(Weights, Present) = 0
    BY <2>1, <2>2, <2>3 DEF Bytes
  <2>5. QED
    BY <2>4, StoreAssumption DEF StoreInit, RoomKept, Roomy
<1>4. QED
  BY <1>1, <1>2, <1>3 DEF RoomInv

\* The runs and the reservations that stand fit, whoever works, is killed or binds the
\* workspace again.
THEOREM RoomInvCorrect == StoreSpec => [](StoreInv /\ RoomInv)
<1>1. StoreInv /\ RoomInv /\ [StoreNext]_storeVars => RoomInv'
  <2> SUFFICES ASSUME StoreInv, RoomInv, [StoreNext]_storeVars PROVE RoomInv'
    OBVIOUS
  <2>1. ASSUME NEW p \in Procs, Works(p) \/ Killed(p) PROVE RoomInv'
    BY <2>1, RoomStays
  <2>2. CASE Rebind \/ UNCHANGED storeVars
    <3>1. UNCHANGED <<locks, dirs, where, target, sweep>>
      BY <2>2 DEF Rebind, storeVars
    <3>2. \A r : Contribution(r)' = Contribution(r) /\ Charge(r)' = Charge(r)
                 /\ (Booked(r)' <=> Booked(r))
      BY <3>1 DEF Contribution, Charge, Booked, locks
    <3>3. Charges' = Charges /\ Weights' = Weights /\ Present' = Present
      BY <3>1, <3>2 DEF Charges, Weights, Present
    <3>4. \A q : Course(q)' = Course(q)
      BY <3>1 DEF Course
    <3>5. SizesKept'
      BY <3>1, <3>2, <3>4 DEF RoomInv, SizesKept, Sized, Reservation
    <3>6. SweepKnown'
      BY <3>1, <3>3 DEF RoomInv, SweepKnown, Sweeping, Reservation, locks
    <3>7. RoomKept'
      BY <3>1, <3>3 DEF RoomInv, RoomKept, Roomy, Reservation
    <3>8. QED
      BY <3>5, <3>6, <3>7 DEF RoomInv
  <2>3. QED
    BY <2>1, <2>2 DEF StoreNext
<1>2. QED
  BY <1>1, RoomInit, StoreInvCorrect, PTL DEF StoreSpec

\* What the runs hold fits, because it is covered by what is reserved for them.
LEMMA CapacityThere ==
    ASSUME StoreInv, RoomInv
    PROVE  CapacityKept
<1>1. /\ StoreTypeOK /\ TargetsKnown /\ LocksOwned /\ RunsThere /\ SizesKept
      /\ SweepKnown /\ Bytes(Weights, Present) <= MaxBytes
  BY DEF StoreInv, RoomInv, RoomKept
<1>2. Bytes(Contributions, Present) <= MaxBytes
  <2>1. PICK v, w, rs : v = Contributions /\ w = Weights /\ rs = Present
    OBVIOUS
  <2>2. rs \in SUBSET Runs /\ \A r \in rs : v[r] \in Nat /\ w[r] \in Nat
    BY <1>1, <2>1, SizesThere
  <2>3. ASSUME NEW r \in rs PROVE v[r] <= w[r]
    <3>1. r \in Runs /\ dirs[r].there
      BY <2>1 DEF Present
    <3>2. Booked(r) => Contribution(r) <= dirs[r].reserved
      BY <1>1, <3>1, Cover
    <3>3. Contribution(r) \in Nat
      BY <1>1, <3>1, Counted
    <3>4. QED
      BY <2>1, <3>1, <3>2, <3>3 DEF Weights, Contributions
  <2>4. Bytes(v, rs) <= Bytes(w, rs) /\ Bytes(v, rs) \in Int /\ Bytes(w, rs) \in Int
    BY <2>2, <2>3, BytesLess, BytesOf
  <2>5. QED
    BY <1>1, <2>1, <2>4, StoreAssumption
<1>3. retention = Nobody => Bytes(Charges, Present) <= MaxBytes
  <2> SUFFICES ASSUME retention = Nobody PROVE Bytes(Charges, Present) <= MaxBytes
    OBVIOUS
  <2>1. sweep.victim \notin Runs /\ sweep.next # "pinned"
    BY <1>1, StoreAssumption DEF SweepKnown, NoSweep, Procs
  <2>2. Weights = Charges
    BY <2>1, AllBooked
  <2>3. QED
    BY <1>1, <2>2
<1>4. QED
  BY <1>2, <1>3 DEF CapacityKept

\* Sweeps make room enough, and only where nobody works (begin_run, _cleanup_locked,
\* _prepare_export_pin): the store never outgrows its capacity, whatever the runs still
\* write within their reservations, and no run is removed under its holder.
THEOREM RetentionCorrect == StoreSpec => []RetentionKept
<1>1. StoreInv /\ RoomInv => CapacityKept
  BY CapacityThere
<1>2. CapacityKept /\ PinnedKept => RetentionKept
  BY DEF RetentionKept
<1>3. QED
  BY <1>1, <1>2, RoomInvCorrect, PinnedCorrect, PTL
=============================================================================
