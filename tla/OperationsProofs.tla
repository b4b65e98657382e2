-------------------------- MODULE OperationsProofs --------------------------
(***************************************************************************)
(* Theorems about three components of operations.py and delivery.py:       *)
(* EffectJournal, for every set of invocations, SourceAdmission, for every *)
(* set of producers, candidate files, extras and bounds, and               *)
(* DeliveryPackets, for every set of branches, cursors and reports.        *)
(*                                                                         *)
(* EffectJournal.  GeneralInv holds under every fault.  CustodyInv needs   *)
(* an environment in which no child outlives its driver's hold on the      *)
(* lock; the theorems that rest on it assume Faults \cap Escapes = {}.     *)
(*                                                                         *)
(* SourceAdmission.  Nothing is locked while a producer or an admission    *)
(* looks at one thing after another.  SourceInv says that each of them saw *)
(* all it relies on at once, or has yet to look at what moved; the world   *)
(* only moves on, so the last look settles it.                             *)
(*                                                                         *)
(* DeliveryPackets.  PacketsInv says of every name what its files may look *)
(* like at each file operation, and of every produced packet that it is    *)
(* built on printed ones; what may be packed is honest whatever the        *)
(* packets are, because producers must agree on what they own.             *)
(***************************************************************************)
EXTENDS EffectJournal, SourceAdmission, DeliveryPackets, FiniteSetTheorems, TLAPS

GeneralInv == TypeOK /\ LockInv /\ HolderViewCurrent /\ PhaseInv

-----------------------------------------------------------------------------
\* Types

\* The entry a persist writes keeps or sets the fields the invariants read.
LEMMA ImageFields ==
    ASSUME TypeOK, NEW i \in Invocation, pc[i] \in Persisting
    PROVE  /\ Image(i) \in Entry
           /\ pc[i] = "attempting" => Image(i).status = "attempted"
           /\ pc[i] = "owning" =>
                  Image(i).status = view[i].status /\ Image(i).child = i
           /\ pc[i] = "recording" => Image(i).status = "unresolved"
           /\ pc[i] = "repairing" => Image(i).status = "unresolved"
           /\ pc[i] = "settling" => Image(i).status = Classify(seen[i])
<1> DEFINE v == view[i]
<1>1. v \in Entry /\ seen[i] \in Worlds
    BY DEF TypeOK
<1>2. CASE pc[i] = "attempting"
    <2>1. Image(i) = [status |-> "attempted", attempt |-> v.attempt + 1,
                      child |-> NoInvocation, settledBy |-> NoInvocation]
        BY <1>2 DEF Image
    <2> QED
        BY <1>1, <1>2, <2>1 DEF Entry, Statuses, Open
<1>3. CASE pc[i] = "owning"
    <2>1. Image(i) = [v EXCEPT !.child = i]
        BY <1>3 DEF Image
    <2> QED
        BY <1>1, <1>3, <2>1 DEF Entry
<1>4. CASE pc[i] = "recording"
    <2>1. Image(i) = [v EXCEPT !.status = "unresolved"]
        BY <1>4 DEF Image
    <2> QED
        BY <1>1, <1>4, <2>1 DEF Entry, Statuses, Open
<1>5. CASE pc[i] = "repairing"
    <2>1. Image(i) = [status |-> "unresolved", attempt |-> v.attempt,
                      child |-> NoInvocation, settledBy |-> NoInvocation]
        BY <1>5 DEF Image
    <2> QED
        BY <1>1, <1>5, <2>1 DEF Entry, Statuses, Open
<1>6. CASE pc[i] = "settling"
    <2> DEFINE by == IF seen[i] = "pre" THEN i ELSE v.settledBy
    <2>1. Image(i) = [v EXCEPT !.status = Classify(seen[i]), !.settledBy = by]
        BY <1>6 DEF Image
    <2>2. Classify(seen[i]) \in Statuses
        BY DEF Classify, Statuses, Open, Settled
    <2>3. by \in Invocation \cup {NoInvocation}
        BY <1>1 DEF Entry
    <2> HIDE DEF by
    <2> QED
        BY <1>1, <1>6, <2>1, <2>2, <2>3 DEF Entry
<1> QED
    BY <1>2, <1>3, <1>4, <1>5, <1>6 DEF Persisting

LEMMA InitType == Init => TypeOK
BY InvocationAssumption
   DEF Init, TypeOK, NoEntry, Entry, Statuses, Open, Settled, Worlds, ActivePc

LEMMA NextType == TypeOK /\ [Next]_vars => TypeOK'
<1> SUFFICES ASSUME TypeOK, [Next]_vars PROVE TypeOK'
    OBVIOUS
<1> USE DEF Goto, Leave, processes
<1>1. ASSUME NEW i \in Invocation, Enter(i) PROVE TypeOK'
    BY <1>1 DEF TypeOK, Enter, ActivePc
<1>2. ASSUME NEW i \in Invocation, Driver(i) PROVE TypeOK'
    <2>1. CASE Exit(i) \/ StartAttempt(i) \/ RefuseReplay(i) \/ Recover(i)
               \/ VerifiedDrift(i) \/ Readback(i)
        BY ZenonT(40), <2>1 DEF TypeOK, Exit, StartAttempt, RefuseReplay, Recover, VerifiedDrift,
                    Readback, ActivePc, Persisting, Setup
    <2>2. CASE OpenTemp(i)
        BY <2>2 DEF TypeOK, OpenTemp
    <2>3. CASE Replace(i)
        <3>1. Image(i) \in Entry
            BY <2>3, ImageFields DEF Replace
        <3>2. pc' \in [Invocation -> ActivePc \cup {"out", "done", "crashed"}]
            BY <2>3 DEF Replace, AfterPersist, TypeOK, ActivePc, Setup
        <3>3. flocked' \in [Invocation -> BOOLEAN]
            BY <2>3 DEF Replace, AfterPersist, TypeOK
        <3> QED
            BY <2>3, <3>1, <3>2, <3>3 DEF Replace, TypeOK
    <2>4. CASE SpawnGuardian(i) \/ ReadAck(i) \/ SetupFails(i) \/ Release(i)
        BY <2>4 DEF TypeOK, SpawnGuardian, ReadAck, SetupFails, Release,
                    ActivePc, Persisting, Setup, Waiting
    <2>5. CASE Collect(i) \/ Timeout(i) \/ TerminateOwned(i)
        BY <2>5 DEF TypeOK, Collect, Timeout, TerminateOwned, ActivePc, Persisting, Waiting
    <2> QED
        BY <1>2, <2>1, <2>2, <2>3, <2>4, <2>5 DEF Driver
<1>3. ASSUME NEW i \in Invocation, Raises(i) PROVE TypeOK'
    <2>1. ReplaceRaises(i) => Image(i) \in Entry
        BY ImageFields DEF ReplaceRaises
    <2> QED
        BY <1>3, <2>1 DEF TypeOK, Raises, PersistRaises, ReplaceRaises, ReadbackRaises,
                          Unwind, ActivePc, Persisting
<1>4. ASSUME NEW i \in Invocation, Guardian(i) PROVE TypeOK'
    BY <1>4 DEF TypeOK, Guardian, GuardianReports, GuardianStops, GuardianReleases,
      GuardianExits
<1>5. ASSUME NEW i \in Invocation, Child(i) PROVE TypeOK'
    BY <1>5 DEF TypeOK, Child, GateEof, ChildBegins, ChildCompletes, ChildFails, Worlds
<1>6. ASSUME NEW i \in Invocation, Environment(i) PROVE TypeOK'
    BY <1>6 DEF TypeOK, Environment, Crash, Interrupt, GuardianKilled
<1>7. CASE Drift
    BY <1>7 DEF TypeOK, Drift
<1>8. CASE UNCHANGED vars
    BY <1>8 DEF TypeOK, vars
<1> QED
    BY <1>1, <1>2, <1>3, <1>4, <1>5, <1>6, <1>7, <1>8 DEF Next

\* Every reachable state is well typed, for any number of invocations.
THEOREM TypeCorrect == Spec => []TypeOK
BY InitType, NextType, PTL DEF Spec

-----------------------------------------------------------------------------
\* The lock, the holder's view and the phases, under every fault

\* Steps of i leave the program counters of the other drivers alone.
LEMMA OthersStand ==
    ASSUME TypeOK, NEW i \in Invocation, NEW p, Goto(i, p), NEW j \in Invocation, j # i
    PROVE  pc'[j] = pc[j]
BY DEF Goto, TypeOK

\* A step after which every holder held before, and every running driver ran
\* before and has kept its flock, preserves the lock invariant.
LEMMA NoNewHolder ==
    ASSUME LockInv,
           \A k \in Invocation : Holds(k)' => Holds(k),
           \A k \in Invocation : Active(k)' => Active(k) /\ flocked'[k] = flocked[k]
    PROVE  LockInv'
BY DEF LockInv, Active, Holds, HasDescriptor, GuardianAlive, ChildAlive

LEMMA LockStep == TypeOK /\ LockInv /\ [Next]_vars => LockInv'
<1> SUFFICES ASSUME TypeOK, LockInv, [Next]_vars PROVE LockInv'
    OBVIOUS
<1> USE DEF Goto, Leave, processes, Active, GuardianAlive, ChildAlive, HasDescriptor, Holds
<1>1. ASSUME NEW i \in Invocation, Enter(i) PROVE LockInv'
    <2>1. \A k \in Invocation : ~Holds(k)
        BY <1>1 DEF Enter
    <2>2. \A k \in Invocation : k # i => ~Holds(k)'
        BY <1>1, <2>1 DEF Enter, TypeOK
    <2>3. \A k \in Invocation : k # i => (Active(k)' <=> Active(k)) /\ flocked'[k] = flocked[k]
        BY <1>1 DEF Enter, TypeOK
    <2>4. flocked'[i]
        BY <1>1 DEF Enter, TypeOK
    <2> QED
        BY <2>2, <2>3, <2>4 DEF LockInv
<1> DEFINE Kept(k) == /\ Holds(k)' => Holds(k)
                      /\ Active(k)' => Active(k) /\ flocked'[k] = flocked[k]
<1>2. ASSUME NEW i \in Invocation, Driver(i), NEW k \in Invocation PROVE Kept(k)
    <2>1. CASE Exit(i) \/ RefuseReplay(i) \/ VerifiedDrift(i)
        BY <2>1 DEF TypeOK, Exit, RefuseReplay, VerifiedDrift, ActivePc, Persisting, Setup,
          Waiting
    <2>2. CASE StartAttempt(i) \/ Recover(i) \/ Readback(i) \/ OpenTemp(i)
        BY <2>2 DEF TypeOK, StartAttempt, Recover, Readback, OpenTemp, ActivePc, Persisting
    <2>3. CASE Replace(i)
        <3>1. Active(i) /\ UNCHANGED <<guardian, child>>
            BY <2>3 DEF Replace, ActivePc
        <3>2. \/ (\E p \in ActivePc : Goto(i, p)) /\ UNCHANGED flocked
              \/ Leave(i)
            BY <2>3 DEF Replace, AfterPersist, ActivePc, Setup
        <3>3. CASE (\E p \in ActivePc : Goto(i, p)) /\ UNCHANGED flocked
            BY <3>1, <3>3 DEF TypeOK
        <3>4. CASE Leave(i)
            BY <3>1, <3>4 DEF TypeOK, ActivePc, Persisting, Setup, Waiting
        <3> QED
            BY <3>2, <3>3, <3>4
    <2>4. CASE SpawnGuardian(i)
        BY <2>4 DEF TypeOK, SpawnGuardian, ActivePc, Setup
    <2>5. CASE ReadAck(i) \/ SetupFails(i) \/ Release(i)
        BY <2>5 DEF TypeOK, ReadAck, SetupFails, Release, ActivePc, Persisting, Setup, Waiting
    <2>6. CASE Collect(i) \/ Timeout(i)
        BY <2>6 DEF TypeOK, Collect, Timeout, ActivePc, Persisting, Waiting
    <2>7. CASE TerminateOwned(i)
        BY <2>7 DEF TypeOK, TerminateOwned, ActivePc, Persisting, Waiting
    <2> QED
        BY <1>2, <2>1, <2>2, <2>3, <2>4, <2>5, <2>6, <2>7 DEF Driver
<1>3. ASSUME NEW i \in Invocation, Raises(i), NEW k \in Invocation PROVE Kept(k)
    <2>1. CASE PersistRaises(i) \/ ReplaceRaises(i)
        BY <2>1 DEF TypeOK, PersistRaises, ReplaceRaises, Unwind,
                    ActivePc, Persisting, Setup, Waiting
    <2>2. CASE ReadbackRaises(i)
        BY <2>2 DEF TypeOK, ReadbackRaises, ActivePc, Persisting, Setup, Waiting
    <2> QED
        BY <1>3, <2>1, <2>2 DEF Raises
<1>4. ASSUME NEW i \in Invocation, Guardian(i), NEW k \in Invocation PROVE Kept(k)
    <2>1. GuardianAlive(i) /\ UNCHANGED <<pc, flocked>>
        BY <1>4 DEF Guardian, GuardianReports, GuardianStops, GuardianReleases, GuardianExits
    <2>2. k # i => guardian'[k] = guardian[k] /\ child'[k] = child[k]
        BY <1>4 DEF TypeOK, Guardian, GuardianReports, GuardianStops, GuardianReleases,
                    GuardianExits
    <2> QED
        BY <2>1, <2>2
<1>5. ASSUME NEW i \in Invocation, Child(i), NEW k \in Invocation PROVE Kept(k)
    <2>1. ChildAlive(i) /\ UNCHANGED <<pc, flocked, guardian>>
        BY <1>5 DEF Child, GateEof, ChildBegins, ChildCompletes, ChildFails, Live
    <2>2. k # i => child'[k] = child[k]
        BY <1>5 DEF TypeOK, Child, GateEof, ChildBegins, ChildCompletes, ChildFails
    <2> QED
        BY <2>1, <2>2
<1>6. ASSUME NEW i \in Invocation, Environment(i), NEW k \in Invocation PROVE Kept(k)
    <2>1. CASE Crash(i) \/ Interrupt(i)
        BY <2>1 DEF TypeOK, Crash, Interrupt, ActivePc, Persisting, Setup, Waiting
    <2>2. CASE GuardianKilled(i)
        BY <2>2 DEF TypeOK, GuardianKilled
    <2> QED
        BY <1>6, <2>1, <2>2 DEF Environment
<1>7. ASSUME Drift \/ UNCHANGED vars, NEW k \in Invocation PROVE Kept(k)
    BY <1>7 DEF Drift, vars
<1>8. (\A k \in Invocation : Kept(k)) => LockInv'
    BY NoNewHolder
<1> QED
    BY <1>1, <1>2, <1>3, <1>4, <1>5, <1>6, <1>7, <1>8 DEF Next

\* Two running drivers are one.
LEMMA OneDriver ==
    ASSUME LockInv, NEW i \in Invocation, NEW j \in Invocation, Active(i), Active(j)
    PROVE  i = j
BY DEF LockInv, Holds, HasDescriptor

\* A driver other than i neither moves nor loses its entry: if i writes the
\* journal it is the one running driver.
LEMMA OtherDrivers ==
    ASSUME LockInv, HolderViewCurrent, PhaseInv,
           NEW i \in Invocation, NEW k \in Invocation, k # i,
           pc'[k] = pc[k], view'[k] = view[k],
           Active(i) \/ UNCHANGED journal
    PROVE  ViewCurrent(k)' /\ Phase(k)'
<1>1. CASE Active(k)
    <2>1. UNCHANGED journal
        BY <1>1, OneDriver
    <2> QED
        BY <2>1 DEF HolderViewCurrent, PhaseInv, ViewCurrent, Phase, Active
<1>2. CASE ~Active(k)
    BY <1>2 DEF ViewCurrent, Phase, Active, ActivePc, Persisting, Setup, Waiting
<1> QED
    BY <1>1, <1>2

LEMMA PhaseStep ==
    TypeOK /\ LockInv /\ HolderViewCurrent /\ PhaseInv /\ [Next]_vars
        => HolderViewCurrent' /\ PhaseInv'
<1> SUFFICES ASSUME TypeOK, LockInv, HolderViewCurrent, PhaseInv, [Next]_vars
             PROVE  HolderViewCurrent' /\ PhaseInv'
    OBVIOUS
<1> USE DEF Goto, Leave, processes
<1> DEFINE Good(k) == ViewCurrent(k)' /\ Phase(k)'
<1>1. ASSUME NEW i \in Invocation, Enter(i), NEW k \in Invocation PROVE Good(k)
    <2>1. CASE k = i
        BY <1>1, <2>1 DEF Enter, TypeOK, ViewCurrent, Phase, Setup, Waiting
    <2>2. CASE k # i
        BY <1>1, <2>2, OtherDrivers DEF Enter, TypeOK
    <2> QED
        BY <2>1, <2>2
<1>2. ASSUME NEW i \in Invocation, Driver(i), NEW k \in Invocation PROVE Good(k)
    <2>1. CASE k # i
        <3>1. UNCHANGED journal \/ Replace(i)
            BY <1>2 DEF Driver, Exit, StartAttempt, RefuseReplay, Recover, VerifiedDrift,
                        Readback, OpenTemp, SpawnGuardian, ReadAck, SetupFails, Release,
                        Collect, Timeout, TerminateOwned
        <3>2. Replace(i) => Active(i)
            BY DEF Replace, Active, ActivePc
        <3>3. pc'[k] = pc[k]
            BY <1>2, <2>1 DEF TypeOK, Driver, Exit, StartAttempt, RefuseReplay, Recover,
                        VerifiedDrift, Readback, OpenTemp, Replace, AfterPersist,
                        SpawnGuardian, ReadAck, SetupFails, Release, Collect, Timeout,
                        TerminateOwned
        <3>4. view'[k] = view[k]
            BY <1>2, <2>1 DEF TypeOK, Driver, Exit, StartAttempt, RefuseReplay, Recover,
                        VerifiedDrift, Readback, OpenTemp, Replace, SpawnGuardian, ReadAck,
                        SetupFails, Release, Collect, Timeout, TerminateOwned
        <3> QED
            BY <2>1, <3>1, <3>2, <3>3, <3>4, OtherDrivers
    <2>2. CASE k = i
        <3> USE DEF ViewCurrent, Phase, Active
        <3>0. ViewCurrent(i) /\ Phase(i)
            BY DEF HolderViewCurrent, PhaseInv
        <3>1. CASE Exit(i) \/ RefuseReplay(i) \/ VerifiedDrift(i)
            BY <3>1, <2>2 DEF TypeOK, Exit, RefuseReplay, VerifiedDrift, ActivePc, Persisting,
                              Setup, Waiting
        <3>2. CASE StartAttempt(i) \/ Recover(i) \/ Readback(i) \/ OpenTemp(i)
            BY <3>0, <3>2, <2>2 DEF TypeOK, StartAttempt, Recover, Readback, OpenTemp,
                              ActivePc, Persisting, Setup, Waiting
        <3>3. CASE Replace(i)
            <4>1. pc[i] \in Persisting /\ Active(i)
                BY <3>3 DEF Replace, ActivePc
            <4>2. journal' = Image(i) /\ view'[i] = Image(i)
                BY <3>3 DEF Replace, TypeOK
            <4>3. ViewCurrent(i)'
                BY <4>2
            <4>4. pc[i] # "repairing" => view[i] = journal
                BY <3>0, <4>1
            <4>5. Phase(i)'
                <5>1. CASE pc[i] = "attempting"
                    BY <3>3, <4>1, <4>2, <5>1, ImageFields
                       DEF Replace, AfterPersist, TypeOK, Setup, Waiting
                <5>2. CASE pc[i] = "owning"
                    BY <3>0, <3>3, <4>1, <4>2, <4>4, <5>2, ImageFields
                       DEF Replace, AfterPersist, TypeOK, Setup, Waiting
                <5>3. CASE pc[i] = "recording"
                    BY <3>3, <4>1, <4>2, <5>3, ImageFields
                       DEF Replace, AfterPersist, TypeOK, Setup, Waiting, Open
                <5>4. CASE pc[i] \in {"repairing", "settling"}
                    BY <3>3, <5>4 DEF Replace, AfterPersist, TypeOK, Setup, Waiting
                <5> QED
                    BY <4>1, <5>1, <5>2, <5>3, <5>4 DEF Persisting
            <4> QED
                BY <2>2, <4>3, <4>5
        <3>4. CASE SpawnGuardian(i) \/ ReadAck(i) \/ SetupFails(i) \/ Release(i)
            BY <3>0, <3>4, <2>2 DEF TypeOK, SpawnGuardian, ReadAck, SetupFails, Release,
                              ActivePc, Persisting, Setup, Waiting
        <3>5. CASE Collect(i) \/ Timeout(i) \/ TerminateOwned(i)
            BY <3>0, <3>5, <2>2 DEF TypeOK, Collect, Timeout, TerminateOwned,
                              ActivePc, Persisting, Setup, Waiting
        <3> QED
            BY <1>2, <3>1, <3>2, <3>3, <3>4, <3>5 DEF Driver
    <2> QED
        BY <2>1, <2>2
<1>3. ASSUME NEW i \in Invocation, Raises(i), NEW k \in Invocation PROVE Good(k)
    <2>1. Active(i)
        BY <1>3 DEF Raises, PersistRaises, ReplaceRaises, ReadbackRaises, Active, ActivePc,
                    Persisting
    <2>2. k # i => pc'[k] = pc[k] /\ view'[k] = view[k]
        BY <1>3 DEF TypeOK, Raises, PersistRaises, ReplaceRaises, ReadbackRaises, Unwind
    <2>3. CASE k # i
        BY <2>1, <2>2, <2>3, OtherDrivers
    <2>4. CASE k = i
        <3>0. ViewCurrent(i) /\ Phase(i)
            BY DEF HolderViewCurrent, PhaseInv
        <3>1. CASE pc'[i] = "done"
            BY <2>4, <3>1 DEF ViewCurrent, Phase, Active, ActivePc, Persisting, Setup, Waiting
        <3>2. CASE pc'[i] = "repairing" /\ pc[i] = "owning"
            <4>1. journal'.status = "attempted"
                <5>1. journal.status = "attempted" /\ view[i] = journal
                    BY <2>1, <3>0, <3>2 DEF ViewCurrent, Phase
                <5>2. journal' = journal \/ journal' = Image(i)
                    BY <1>3 DEF Raises, PersistRaises, ReplaceRaises, ReadbackRaises
                <5>3. Image(i).status = "attempted"
                    BY <3>2, <5>1, ImageFields DEF Persisting
                <5> QED
                    BY <5>1, <5>2, <5>3
            <4> QED
                BY <2>4, <3>2, <4>1 DEF ViewCurrent, Phase, Setup, Waiting
        <3> QED
            BY <1>3, <3>1, <3>2 DEF TypeOK, Raises, PersistRaises, ReplaceRaises,
                                    ReadbackRaises, Unwind
    <2> QED
        BY <2>3, <2>4
<1>4. ASSUME NEW i \in Invocation, Guardian(i) \/ Child(i) \/ GuardianKilled(i),
             NEW k \in Invocation
      PROVE  Good(k)
    <2>1. UNCHANGED <<pc, view, journal>>
        BY <1>4 DEF Guardian, GuardianReports, GuardianStops, GuardianReleases, GuardianExits,
                    Child, GateEof, ChildBegins, ChildCompletes, ChildFails, GuardianKilled
    <2> QED
        BY <2>1 DEF HolderViewCurrent, PhaseInv, ViewCurrent, Phase, Active
<1>5. ASSUME NEW i \in Invocation, Crash(i) \/ Interrupt(i), NEW k \in Invocation
      PROVE  Good(k)
    <2>1. UNCHANGED <<view, journal>>
        BY <1>5 DEF Crash, Interrupt
    <2>2. pc'[k] = IF k = i THEN pc'[i] ELSE pc[k]
        BY <1>5 DEF Crash, Interrupt, TypeOK
    <2>3. pc'[i] \in {"done", "crashed"}
        BY <1>5 DEF Crash, Interrupt, TypeOK
    <2> QED
        BY <2>1, <2>2, <2>3
           DEF HolderViewCurrent, PhaseInv, ViewCurrent, Phase, Active, ActivePc, Persisting,
               Setup, Waiting
<1>6. ASSUME Drift \/ UNCHANGED vars, NEW k \in Invocation PROVE Good(k)
    BY <1>6 DEF Drift, vars, HolderViewCurrent, PhaseInv, ViewCurrent, Phase, Active
<1>7. (\A k \in Invocation : Good(k)) => HolderViewCurrent' /\ PhaseInv'
    BY DEF HolderViewCurrent, PhaseInv
<1> QED
    BY <1>1, <1>2, <1>3, <1>4, <1>5, <1>6, <1>7 DEF Next, Environment

LEMMA InitGeneral == Init => GeneralInv
<1> SUFFICES ASSUME Init PROVE GeneralInv
    OBVIOUS
<1>1. TypeOK
    BY InitType
<1>2. \A i \in Invocation : ~Active(i) /\ ~Holds(i)
    BY DEF Init, Active, ActivePc, Persisting, Setup, Waiting, Holds
<1>3. PhaseInv
    BY DEF Init, PhaseInv, Phase, Setup, Waiting
<1> QED
    BY <1>1, <1>2, <1>3 DEF GeneralInv, LockInv, HolderViewCurrent, ViewCurrent

LEMMA NextGeneral == GeneralInv /\ [Next]_vars => GeneralInv'
BY NextType, LockStep, PhaseStep DEF GeneralInv

LEMMA GeneralCorrect == Spec => []GeneralInv
BY InitGeneral, NextGeneral, PTL DEF Spec

\* Whatever fails, the running driver computes its next persist from the
\* entry that is durable (OperationJournal.persist writes {**state, ...}).
THEOREM HolderCorrect == Spec => []HolderViewCurrent
<1>1. GeneralInv => HolderViewCurrent
    BY DEF GeneralInv
<1> QED
    BY <1>1, GeneralCorrect, PTL

\* Whatever fails, the journal of a verified effect is never rewritten.
THEOREM VerifiedFinal == Spec => VerifiedIsFinal
<1>1. GeneralInv /\ [Next]_vars => [journal.status = "verified" => journal' = journal]_journal
    <2> SUFFICES ASSUME GeneralInv, [Next]_vars, journal.status = "verified"
                 PROVE  UNCHANGED journal
        OBVIOUS
    <2>1. ASSUME NEW i \in Invocation, Replace(i) \/ ReplaceRaises(i) PROVE FALSE
        <3>1. pc[i] \in Persisting
            BY <2>1 DEF Replace, ReplaceRaises
        <3>2. Phase(i)
            BY DEF GeneralInv, PhaseInv
        <3> QED
            BY <3>1, <3>2 DEF Phase, Persisting, Open
    <2> QED
        BY <2>1
           DEF Next, vars, Enter, Driver, Exit, StartAttempt, RefuseReplay, Recover,
               VerifiedDrift, Readback, OpenTemp, SpawnGuardian, ReadAck, SetupFails, Release,
               Collect, Timeout, TerminateOwned, Raises, PersistRaises, ReadbackRaises,
               Guardian, GuardianReports, GuardianStops, GuardianReleases, GuardianExits,
               Child, GateEof, ChildBegins, ChildCompletes, ChildFails, Environment, Crash,
               Interrupt, GuardianKilled, Drift
<1> QED
    BY <1>1, GeneralCorrect, PTL DEF Spec, VerifiedIsFinal

-----------------------------------------------------------------------------
\* Custody of the child, when no fault lets it escape

Contained == Faults \cap Escapes = {}

\* What another invocation may do to the custody of k: a step of i # k that
\* leaves guardian, child and driver of k alone cannot touch its journal
\* entry, because k still holds the lock.
LEMMA OtherCustody ==
    ASSUME LockInv, CustodyInv,
           NEW i \in Invocation, NEW k \in Invocation, k # i,
           pc'[k] = pc[k], flocked'[k] = flocked[k], guardian'[k] = guardian[k],
           released'[k] = released[k], child'[k] = child[k],
           Active(i) \/ UNCHANGED journal
    PROVE  Custody(k)'
<1>1. Custody(k)
    BY DEF CustodyInv
<1>2. CASE released[k] /\ GuardianAlive(k)
    <2>1. Holds(k)
        BY <1>1, <1>2 DEF Custody, Holds, HasDescriptor
    <2>2. UNCHANGED journal
        BY <2>1 DEF LockInv, Holds, HasDescriptor
    <2> QED
        BY <1>1, <2>2 DEF Custody, Live, GuardianAlive
<1>3. CASE ~(released[k] /\ GuardianAlive(k))
    BY <1>1, <1>3 DEF Custody, Live, GuardianAlive
<1> QED
    BY <1>2, <1>3

LEMMA CustodyStep ==
    ASSUME Contained
    PROVE  GeneralInv /\ CustodyInv /\ [Next]_vars => CustodyInv'
<1> SUFFICES ASSUME GeneralInv, CustodyInv, [Next]_vars PROVE CustodyInv'
    OBVIOUS
<1>0. TypeOK /\ LockInv /\ HolderViewCurrent /\ PhaseInv
    BY DEF GeneralInv
<1> USE DEF Goto, Leave, processes
<1>1. ASSUME NEW i \in Invocation, Enter(i), NEW k \in Invocation PROVE Custody(k)'
    BY <1>0, <1>1 DEF TypeOK, Enter, CustodyInv, Custody, Live, GuardianAlive, Waiting
<1>2. ASSUME NEW i \in Invocation, Driver(i), NEW k \in Invocation PROVE Custody(k)'
    <2>0. Active(i)
        BY <1>2 DEF Driver, Exit, StartAttempt, RefuseReplay, Recover, VerifiedDrift,
                    Readback, OpenTemp, Replace, SpawnGuardian, ReadAck, SetupFails, Release,
                    Collect, Timeout, TerminateOwned, Active, ActivePc, Setup, Waiting
    <2>1. CASE k # i
        <3>1. pc'[k] = pc[k] /\ flocked'[k] = flocked[k]
            BY <1>0, <1>2, <2>1 DEF TypeOK, Driver, Exit, StartAttempt, RefuseReplay, Recover,
                        VerifiedDrift, Readback, OpenTemp, Replace, AfterPersist,
                        SpawnGuardian, ReadAck, SetupFails, Release, Collect, Timeout,
                        TerminateOwned
        <3>2. guardian'[k] = guardian[k] /\ released'[k] = released[k] /\ child'[k] = child[k]
            BY <1>0, <1>2, <2>1 DEF TypeOK, Driver, Exit, StartAttempt, RefuseReplay, Recover,
                        VerifiedDrift, Readback, OpenTemp, Replace,
                        SpawnGuardian, ReadAck, SetupFails, Release, Collect, Timeout,
                        TerminateOwned
        <3> QED
            BY <1>0, <2>0, <2>1, <3>1, <3>2, OtherCustody
    <2>2. CASE k = i
        <3> USE DEF Custody, Live, GuardianAlive
        <3>0. Custody(i) /\ Phase(i)
            BY <1>0 DEF CustodyInv, PhaseInv
        <3>1. CASE pc[i] \notin Waiting /\ UNCHANGED <<guardian, released, child>>
            \* Before the release and after the wait there is no child to keep.
            BY <2>0, <2>2, <3>0, <3>1 DEF Active, ActivePc, Persisting, Setup, Waiting
        <3>2. CASE SpawnGuardian(i) \/ SetupFails(i)
            BY <1>0, <2>2, <3>0, <3>2 DEF TypeOK, SpawnGuardian, SetupFails, Setup, Waiting
        <3>3. CASE Release(i)
            <4>1. journal.status = "attempted" /\ journal.child = i /\ flocked[i]
                BY <1>0, <2>0, <3>0, <3>3 DEF Release, Phase, Setup, LockInv
            <4> QED
                BY <1>0, <2>2, <3>0, <3>3, <4>1 DEF TypeOK, Release, Waiting
        <3>4. CASE Collect(i)
            BY <1>0, <2>2, <3>0, <3>4 DEF TypeOK, Collect
        <3>5. CASE Timeout(i)
            BY <1>0, <2>2, <3>0, <3>5 DEF TypeOK, Timeout, Waiting
        <3>6. CASE TerminateOwned(i)
            BY <1>0, <2>2, <3>0, <3>6 DEF TypeOK, TerminateOwned, Contained, Escapes
        <3> QED
            BY <1>2, <3>1, <3>2, <3>3, <3>4, <3>5, <3>6
               DEF Driver, Exit, StartAttempt, RefuseReplay, Recover, VerifiedDrift, Readback,
                   OpenTemp, Replace, ReadAck, Waiting, Persisting
    <2> QED
        BY <2>1, <2>2
<1>3. ASSUME NEW i \in Invocation, Raises(i), NEW k \in Invocation PROVE Custody(k)'
    <2>0. Active(i)
        BY <1>3 DEF Raises, PersistRaises, ReplaceRaises, ReadbackRaises, Active, ActivePc,
                    Persisting
    <2>1. CASE k # i
        <3>1. /\ pc'[k] = pc[k] /\ flocked'[k] = flocked[k]
              /\ guardian'[k] = guardian[k] /\ released'[k] = released[k]
              /\ child'[k] = child[k]
            BY <1>0, <1>3, <2>1 DEF TypeOK, Raises, PersistRaises, ReplaceRaises,
                        ReadbackRaises, Unwind
        <3> QED
            BY <1>0, <2>0, <2>1, <3>1, OtherCustody
    <2>2. CASE k = i
        <3>1. Custody(i) /\ pc[i] \in Persisting \cup {"reading"}
            BY <1>3 DEF CustodyInv, Raises, PersistRaises, ReplaceRaises, ReadbackRaises
        <3>2. ~Live(i) /\ guardian[i] # "armed" /\ ~(released[i] /\ GuardianAlive(i))
            BY <3>1 DEF Custody, GuardianAlive, Persisting, Waiting
        <3>3. UNCHANGED <<released, child>> /\ guardian'[i] \in {guardian[i], "gone"}
            BY <1>0, <1>3 DEF TypeOK, Raises, PersistRaises, ReplaceRaises, ReadbackRaises,
              Unwind
        <3> QED
            BY <2>2, <3>2, <3>3 DEF Custody, Live, GuardianAlive
    <2> QED
        BY <2>1, <2>2
<1>4. ASSUME NEW i \in Invocation, Guardian(i) \/ Child(i), NEW k \in Invocation
      PROVE  Custody(k)'
    <2>1. UNCHANGED <<pc, flocked, journal, released>>
        BY <1>4 DEF Guardian, GuardianReports, GuardianStops, GuardianReleases, GuardianExits,
                    Child, GateEof, ChildBegins, ChildCompletes, ChildFails
    <2>2. Custody(i) /\ Custody(k)
        BY DEF CustodyInv
    <2>3. CASE k # i
        <3>1. guardian'[k] = guardian[k] /\ child'[k] = child[k]
            BY <1>0, <1>4, <2>3 DEF TypeOK, Guardian, GuardianReports, GuardianStops,
                        GuardianReleases, GuardianExits, Child, GateEof, ChildBegins,
                        ChildCompletes, ChildFails
        <3> QED
            BY <2>1, <2>2, <3>1 DEF Custody, Live, GuardianAlive
    <2>4. CASE k = i /\ Guardian(i)
        BY <1>0, <2>1, <2>2, <2>4
           DEF TypeOK, Guardian, GuardianReports, GuardianStops, GuardianReleases,
               GuardianExits, Custody, Live, GuardianAlive
    <2>5. CASE k = i /\ Child(i)
        BY <1>0, <2>1, <2>2, <2>5
           DEF TypeOK, Child, GateEof, ChildBegins, ChildCompletes, ChildFails, Custody, Live,
               GuardianAlive
    <2> QED
        BY <1>4, <2>3, <2>4, <2>5
<1>5. ASSUME NEW i \in Invocation, Environment(i), NEW k \in Invocation PROVE Custody(k)'
    <2>1. Crash(i)
        BY <1>5 DEF Environment, Interrupt, GuardianKilled, Contained, Escapes
    <2>2. Custody(k)
        BY DEF CustodyInv
    <2> QED
        BY <1>0, <2>1, <2>2
           DEF TypeOK, Crash, Custody, Live, GuardianAlive
<1>6. ASSUME Drift \/ UNCHANGED vars, NEW k \in Invocation PROVE Custody(k)'
    BY <1>6 DEF Drift, vars, CustodyInv, Custody, Live, GuardianAlive
<1> QED
    BY <1>1, <1>2, <1>3, <1>4, <1>5, <1>6 DEF Next, CustodyInv

CustodyGeneral == GeneralInv /\ CustodyInv

LEMMA CustodyCorrect ==
    ASSUME Contained
    PROVE  Spec => []CustodyGeneral
<1>1. Init => CustodyGeneral
    BY InitGeneral DEF CustodyGeneral, Init, CustodyInv, Custody, Live, GuardianAlive
<1>2. CustodyGeneral /\ [Next]_vars => CustodyGeneral'
    BY NextGeneral, CustodyStep DEF CustodyGeneral
<1> QED
    BY <1>1, <1>2, PTL DEF Spec

\* A running child has its driver's lock and its driver's journal entry.
LEMMA LiveHolds ==
    ASSUME CustodyInv, NEW i \in Invocation, Live(i)
    PROVE  /\ Holds(i)
           /\ pc[i] \in Waiting \cup {"crashed"}
           /\ journal.status = "attempted"
           /\ journal.child = i
BY DEF CustodyInv, Custody, Holds, HasDescriptor, GuardianAlive

\* With crashes, torn persists and drift, but no escape: at most one child
\* runs.
THEOREM ExclusiveCorrect ==
    ASSUME Contained
    PROVE  Spec => []EffectExclusive
<1>1. CustodyGeneral => EffectExclusive
    BY LiveHolds DEF CustodyGeneral, GeneralInv, LockInv, EffectExclusive
<1> QED
    BY <1>1, CustodyCorrect, PTL

\* The durable journal names the child before it runs and while it runs.
THEOREM OwnershipCorrect ==
    ASSUME Contained
    PROVE  Spec => []OwnershipDurable
<1>1. CustodyGeneral => OwnershipDurable
    BY LiveHolds DEF CustodyGeneral, OwnershipDurable
<1> QED
    BY <1>1, CustodyCorrect, PTL

\* A driver past its wait has no child left.
THEOREM ReapedCorrect ==
    ASSUME Contained
    PROVE  Spec => []EffectReaped
<1>1. CustodyGeneral => EffectReaped
    BY LiveHolds DEF CustodyGeneral, EffectReaped, Waiting
<1> QED
    BY <1>1, CustodyCorrect, PTL

-----------------------------------------------------------------------------
\* Settlements, when moreover nobody else moves the target

SettleInv ==
    /\ ReadbackInv
    /\ journal.status = "verified" => world = "post"
    /\ journal.status = "settled_preimage" => world = "pre"

SettleGeneral == CustodyGeneral /\ SettleInv

Undisturbed == Contained /\ "drift" \notin Faults

\* Nothing runs while a driver reads back or settles.
LEMMA QuietSettling ==
    ASSUME CustodyGeneral, NEW i \in Invocation, Active(i), pc[i] \notin Waiting
    PROVE  \A k \in Invocation : ~Live(k)
<1> SUFFICES ASSUME NEW k \in Invocation, Live(k) PROVE FALSE
    OBVIOUS
<1>1. Holds(k) /\ pc[k] \in Waiting \cup {"crashed"}
    BY LiveHolds DEF CustodyGeneral
<1>2. Holds(i)
    BY DEF CustodyGeneral, GeneralInv, LockInv, Holds, HasDescriptor
<1>3. k = i
    BY <1>1, <1>2 DEF CustodyGeneral, GeneralInv, LockInv
<1> QED
    BY <1>1, <1>3 DEF Active, ActivePc, Persisting, Setup, Waiting

\* Writing the entry at pc[i], torn or not, keeps a settlement true.
LEMMA WriteSettles ==
    ASSUME SettleGeneral, NEW i \in Invocation, pc[i] \in Persisting,
           journal' = Image(i), UNCHANGED world
    PROVE  /\ journal'.status = "verified" => world' = "post"
           /\ journal'.status = "settled_preimage" => world' = "pre"
<1>1. TypeOK /\ Phase(i) /\ ViewCurrent(i)
    BY DEF SettleGeneral, CustodyGeneral, GeneralInv, PhaseInv, HolderViewCurrent
<1>2. CASE pc[i] = "settling"
    <2>1. journal'.status = Classify(world)
        BY <1>1, <1>2, ImageFields DEF SettleGeneral, SettleInv, ReadbackInv, Persisting
    <2> QED
        BY <2>1 DEF Classify
<1>3. CASE pc[i] = "owning"
    BY <1>1, <1>3, ImageFields DEF ViewCurrent, Phase, Active, ActivePc, Persisting
<1> QED
    BY <1>1, <1>2, <1>3, ImageFields DEF Persisting

LEMMA SettleStep ==
    ASSUME Undisturbed
    PROVE  SettleGeneral /\ [Next]_vars => SettleInv'
<1> SUFFICES ASSUME SettleGeneral, [Next]_vars PROVE SettleInv'
    OBVIOUS
<1>0. TypeOK /\ CustodyGeneral /\ SettleInv
    BY DEF SettleGeneral, CustodyGeneral, GeneralInv
<1> USE DEF Goto, Leave, processes
<1>1. ASSUME NEW i \in Invocation, Replace(i) \/ ReplaceRaises(i) PROVE SettleInv'
    <2>1. ReadbackInv'
        BY <1>0, <1>1 DEF SettleInv, ReadbackInv, TypeOK, Replace, ReplaceRaises, AfterPersist,
                          Unwind
    <2>2. pc[i] \in Persisting /\ journal' = Image(i) /\ UNCHANGED world
        BY <1>1 DEF Replace, ReplaceRaises, Unwind
    <2> QED
        BY <2>1, <2>2, WriteSettles DEF SettleInv
<1>2. ASSUME NEW i \in Invocation, ChildBegins(i) \/ ChildCompletes(i) PROVE SettleInv'
    <2>1. Live(i) /\ UNCHANGED <<pc, seen, journal>>
        BY <1>2 DEF ChildBegins, ChildCompletes, Live
    <2>2. \A k \in Invocation : pc[k] # "settling"
        BY <1>0, <2>1, QuietSettling DEF Active, ActivePc, Persisting, Waiting
    <2>3. journal.status = "attempted"
        BY <1>0, <2>1, LiveHolds DEF CustodyGeneral
    <2> QED
        BY <2>1, <2>2, <2>3 DEF SettleInv, ReadbackInv
<1>3. ASSUME NEW i \in Invocation, Readback(i) PROVE SettleInv'
    BY <1>0, <1>3 DEF SettleInv, ReadbackInv, TypeOK, Readback
<1>4. ASSUME UNCHANGED <<seen, journal, world>>,
             \A k \in Invocation : pc'[k] = "settling" => pc[k] = "settling"
      PROVE  SettleInv'
    BY <1>0, <1>4 DEF SettleInv, ReadbackInv
<1>5. ASSUME NEW i \in Invocation, Enter(i) \/ Driver(i), ~Replace(i), ~Readback(i)
      PROVE  SettleInv'
    <2>1. UNCHANGED <<seen, journal, world>>
        BY <1>5 DEF Enter, Driver, Exit, StartAttempt, RefuseReplay, Recover, VerifiedDrift,
                    OpenTemp, SpawnGuardian, ReadAck, SetupFails, Release, Collect, Timeout,
                    TerminateOwned
    <2>2. \A k \in Invocation : pc'[k] = "settling" => pc[k] = "settling"
        BY <1>0, <1>5
           DEF TypeOK, Enter, Driver, Exit, StartAttempt, RefuseReplay, Recover, VerifiedDrift,
               OpenTemp, SpawnGuardian, ReadAck, SetupFails, Release, Collect, Timeout,
               TerminateOwned
    <2> QED
        BY <1>4, <2>1, <2>2
<1>6. ASSUME NEW i \in Invocation, Raises(i) \/ Crash(i), ~ReplaceRaises(i) PROVE SettleInv'
    <2>1. UNCHANGED <<seen, journal, world>>
        BY <1>6 DEF Raises, PersistRaises, ReadbackRaises, Unwind, Crash
    <2>2. \A k \in Invocation : pc'[k] = "settling" => pc[k] = "settling"
        BY <1>0, <1>6 DEF TypeOK, Raises, PersistRaises, ReadbackRaises, Unwind, Crash
    <2> QED
        BY <1>4, <2>1, <2>2
<1>7. ASSUME NEW i \in Invocation, Guardian(i) \/ GateEof(i) \/ ChildFails(i)
      PROVE  SettleInv'
    <2>1. UNCHANGED <<pc, seen, journal, world>>
        BY <1>7 DEF Guardian, GuardianReports, GuardianStops, GuardianReleases, GuardianExits,
                    GateEof, ChildFails
    <2> QED
        BY <1>4, <2>1
<1>8. CASE UNCHANGED vars
    BY <1>4, <1>8 DEF vars
<1>9. ~Drift /\ \A i \in Invocation : ~Interrupt(i) /\ ~GuardianKilled(i)
    BY DEF Undisturbed, Contained, Escapes, Drift, Interrupt, GuardianKilled
<1> QED
    BY <1>1, <1>2, <1>3, <1>5, <1>6, <1>7, <1>8, <1>9 DEF Next, Child, Environment, Raises

LEMMA SettleCorrect ==
    ASSUME Undisturbed
    PROVE  Spec => []SettleGeneral
<1>1. Init => SettleInv
    BY DEF Init, SettleInv, ReadbackInv, NoEntry
<1>2. SettleGeneral /\ [Next]_vars => SettleInv'
    BY SettleStep
<1>3. Spec => []CustodyGeneral
    BY CustodyCorrect DEF Undisturbed
<1> QED
    BY <1>1, <1>2, <1>3, PTL DEF Spec, SettleGeneral

\* A settled entry tells the truth about the target until the next attempt.
THEOREM SettlementCorrect ==
    ASSUME Undisturbed
    PROVE  Spec => []SettlementStable
<1>1. SettleGeneral => SettlementStable
    BY DEF SettleGeneral, SettleInv, SettlementStable
<1> QED
    BY <1>1, SettleCorrect, PTL

-----------------------------------------------------------------------------
\* The journaled effect implements EffectContract

Running == \E i \in Invocation : Live(i)

\* A persist opens the ledger, settles it, or is invisible to the contract.
LEMMA WriteRefines ==
    ASSUME SettleGeneral, NEW i \in Invocation, pc[i] \in Persisting,
           journal' = Image(i), UNCHANGED <<world, child>>
    PROVE  Contract!ContractNext \/ UNCHANGED Contract!cvars
<1> DEFINE led == LedgerOf(journal.status)
<1>1. TypeOK /\ Phase(i) /\ ViewCurrent(i) /\ CustodyGeneral
    BY DEF SettleGeneral, CustodyGeneral, GeneralInv, PhaseInv, HolderViewCurrent
<1>2. UNCHANGED Running /\ UNCHANGED world
    BY DEF Running, Live
<1>3. CASE pc[i] = "attempting"
    <2>1. led \in {"none", "preimage"} /\ led' = "open"
        BY <1>1, <1>3, ImageFields DEF Phase, LedgerOf, Persisting
    <2> QED
        BY <1>2, <2>1 DEF Contract!ContractNext, Contract!Attempt, Running
<1>4. CASE pc[i] \in {"owning", "recording", "repairing"}
    <2>1. led = "open" /\ led' = "open"
        BY <1>1, <1>4, ImageFields
           DEF Phase, LedgerOf, Persisting, ViewCurrent, Active, ActivePc
    <2> QED
        BY <1>2, <2>1 DEF Contract!cvars, Running
<1>5. CASE pc[i] = "settling"
    <2>1. ~Running
        BY <1>1, <1>5, QuietSettling DEF Running, Active, ActivePc, Persisting, Waiting
    <2>2. led \in {"open", "ambiguous"}
        BY <1>1, <1>5 DEF Phase, LedgerOf, Open
    <2>3. seen[i] = world
        BY <1>5 DEF SettleGeneral, SettleInv, ReadbackInv
    <2>4. led' = Contract!Verdict(world)
        BY <1>1, <1>5, <2>3, ImageFields
           DEF Persisting, LedgerOf, Classify, Contract!Verdict
    <2> QED
        BY <1>2, <2>1, <2>2, <2>4 DEF Contract!ContractNext, Contract!Settle, Running
<1> QED
    BY <1>3, <1>4, <1>5 DEF Persisting

LEMMA RefinesStep ==
    ASSUME Undisturbed
    PROVE  SettleGeneral /\ [Next]_vars => [Contract!ContractNext]_(Contract!cvars)
<1> SUFFICES ASSUME SettleGeneral, [Next]_vars
             PROVE  Contract!ContractNext \/ UNCHANGED Contract!cvars
    OBVIOUS
<1>0. TypeOK /\ CustodyGeneral
    BY DEF SettleGeneral, CustodyGeneral, GeneralInv
<1> USE DEF Goto, Leave, processes
<1>1. ASSUME NEW i \in Invocation, Replace(i) \/ ReplaceRaises(i)
      PROVE  Contract!ContractNext \/ UNCHANGED Contract!cvars
    BY <1>1, WriteRefines DEF Replace, ReplaceRaises, Unwind
<1>2. ASSUME UNCHANGED <<journal, world>>, UNCHANGED Running
      PROVE  UNCHANGED Contract!cvars
    BY <1>2 DEF Contract!cvars, Running
<1>3. ASSUME NEW i \in Invocation, GuardianReleases(i)
      PROVE  Contract!ContractNext
    <2>1. released[i] /\ GuardianAlive(i) /\ Custody(i)
        BY <1>3 DEF GuardianReleases, GuardianAlive, SettleGeneral, CustodyGeneral, CustodyInv
    <2>2. Holds(i) /\ journal.status = "attempted" /\ ~Live(i)
        BY <1>3, <2>1 DEF Custody, Holds, HasDescriptor, GuardianReleases
    <2>3. ~Running
        BY <1>0, <2>2, LiveHolds DEF Running, CustodyGeneral, GeneralInv, LockInv
    <2>4. Running'
        BY <1>0, <1>3 DEF Running, Live, GuardianReleases, TypeOK
    <2>5. UNCHANGED <<journal, world>>
        BY <1>3 DEF GuardianReleases
    <2> QED
        BY <2>2, <2>3, <2>4, <2>5
           DEF Contract!ContractNext, Contract!Launch, LedgerOf, Running
\* The one running child is the one that stops.
<1>4. ASSUME NEW i \in Invocation, child' = [child EXCEPT ![i] = "exited"], Live(i)
      PROVE  Running /\ ~Running'
    <2>1. \A k \in Invocation : k # i => ~Live(k)
        BY <1>0, <1>4, LiveHolds DEF CustodyGeneral, GeneralInv, LockInv
    <2> QED
        BY <1>0, <1>4, <2>1 DEF Running, Live, TypeOK
<1>5. ASSUME NEW i \in Invocation, ChildBegins(i)
      PROVE  Contract!ContractNext
    <2>1. Running /\ Running'
        BY <1>0, <1>5 DEF ChildBegins, Running, Live, TypeOK
    <2> QED
        BY <1>5, <2>1 DEF ChildBegins, Contract!ContractNext, Contract!Begin, Running
<1>6. ASSUME NEW i \in Invocation, ChildCompletes(i)
      PROVE  Contract!ContractNext
    <2>1. Running /\ ~Running'
        BY <1>4, <1>6 DEF ChildCompletes, Live
    <2>2. CASE world = "mid"
        BY <1>6, <2>1, <2>2
           DEF ChildCompletes, Contract!ContractNext, Contract!Finish, Running
    <2>3. CASE world # "mid"
        BY <1>6, <2>1, <2>3
           DEF ChildCompletes, Contract!ContractNext, Contract!Abort, Running
    <2> QED
        BY <2>2, <2>3
<1>7. ASSUME NEW i \in Invocation, ChildFails(i)
      PROVE  Contract!ContractNext
    <2>1. Running /\ ~Running'
        BY <1>4, <1>7 DEF ChildFails
    <2> QED
        BY <1>7, <2>1 DEF ChildFails, Contract!ContractNext, Contract!Abort, Running
<1>8. ASSUME NEW i \in Invocation, TerminateOwned(i)
      PROVE  Contract!ContractNext \/ UNCHANGED Contract!cvars
    <2>1. UNCHANGED <<journal, world>>
        BY <1>8 DEF TerminateOwned
    <2>2. child' = [child EXCEPT ![i] = IF @ = "none" THEN @ ELSE "exited"]
        BY <1>8 DEF TerminateOwned, Undisturbed, Contained, Escapes
    <2>3. CASE Live(i)
        <3>1. child' = [child EXCEPT ![i] = "exited"]
            BY <2>2, <2>3 DEF Live
        <3>2. Running /\ ~Running'
            BY <1>4, <2>3, <3>1
        <3> QED
            BY <2>1, <3>2 DEF Contract!ContractNext, Contract!Abort, Running
    <2>4. CASE ~Live(i)
        <3>1. UNCHANGED Running
            BY <1>0, <2>2, <2>4 DEF Running, Live, TypeOK
        <3> QED
            BY <1>2, <2>1, <3>1
    <2> QED
        BY <2>3, <2>4
<1>9. ASSUME NEW i \in Invocation,
             GuardianReports(i) \/ GuardianStops(i) \/ SpawnGuardian(i) \/ GateEof(i)
      PROVE  UNCHANGED Contract!cvars
    <2>1. UNCHANGED <<journal, world>>
        BY <1>9 DEF GuardianReports, GuardianStops, SpawnGuardian, GateEof
    <2>2. \A k \in Invocation : Live(k)' <=> Live(k)
        <3>1. Custody(i)
            BY DEF SettleGeneral, CustodyGeneral, CustodyInv
        <3>2. ~Live(i)
            <4>1. CASE SpawnGuardian(i)
                BY <1>0, <4>1, QuietSettling
                   DEF SpawnGuardian, Active, ActivePc, Setup, Waiting
            <4>2. CASE GuardianReports(i) \/ GuardianStops(i) \/ GateEof(i)
                BY <3>1, <4>2 DEF Custody, Live, GuardianReports, GuardianStops, GateEof
            <4> QED
                BY <1>9, <4>1, <4>2
        <3> QED
            BY <1>0, <1>9, <3>2
               DEF GuardianReports, GuardianStops, SpawnGuardian, GateEof, Live, TypeOK
    <2>3. UNCHANGED Running
        BY <2>2 DEF Running
    <2> QED
        BY <1>2, <2>1, <2>3
<1>10. ASSUME UNCHANGED <<journal, world, child>> PROVE UNCHANGED Contract!cvars
    BY <1>2, <1>10 DEF Running, Live
<1>11. ASSUME NEW i \in Invocation,
              \/ Enter(i) \/ Exit(i) \/ StartAttempt(i) \/ RefuseReplay(i) \/ Recover(i)
              \/ VerifiedDrift(i) \/ Readback(i) \/ OpenTemp(i) \/ ReadAck(i)
              \/ SetupFails(i) \/ Release(i) \/ Collect(i) \/ Timeout(i)
              \/ PersistRaises(i) \/ ReadbackRaises(i) \/ GuardianExits(i) \/ Crash(i)
       PROVE  UNCHANGED Contract!cvars
    <2>1. UNCHANGED <<journal, world, child>>
        BY <1>11 DEF Enter, Exit, StartAttempt, RefuseReplay, Recover, VerifiedDrift, Readback,
                     OpenTemp, ReadAck, SetupFails, Release, Collect, Timeout, PersistRaises,
                     Unwind, ReadbackRaises, GuardianExits, Crash
    <2> QED
        BY <1>10, <2>1
<1>12. CASE UNCHANGED vars
    BY <1>10, <1>12 DEF vars
<1>13. ~Drift /\ \A i \in Invocation : ~Interrupt(i) /\ ~GuardianKilled(i)
    BY DEF Undisturbed, Contained, Escapes, Drift, Interrupt, GuardianKilled
<1> QED
    BY <1>1, <1>3, <1>5, <1>6, <1>7, <1>8, <1>9, <1>11, <1>12, <1>13
       DEF Next, Driver, Raises, Guardian, Child, Environment

\* Guardian, gate, torn persists, crashes and recoveries together are an
\* effect that opens its ledger first, runs one executor at a time and closes
\* the ledger on a readback taken while nothing runs.
THEOREM ContractCorrect ==
    ASSUME Undisturbed
    PROVE  Spec => ImplementsContract
<1>1. Init => Contract!ContractInit
    BY DEF Init, NoEntry, LedgerOf, Live, Contract!ContractInit
<1>2. SettleGeneral /\ [Next]_vars => [Contract!ContractNext]_(Contract!cvars)
    BY RefinesStep
<1> QED
    BY <1>1, <1>2, SettleCorrect, PTL DEF Spec, ImplementsContract, Contract!ContractSpec

-----------------------------------------------------------------------------
(* SourceAdmission: what each step does *)

\* A preparation goes on with the same arguments.
Carries(q, t) ==
    /\ DOMAIN t = DOMAIN Idle
    /\ t.path = q.path /\ t.pin = q.pin /\ t.added = q.added
    /\ t.capture = q.capture /\ t.binding = q.binding

\* What a look leaves of the preparation q: it fails, answers, or goes on.
Looked(q, t) ==
    \/ t = Idle
    \/ /\ q.pc = "after" /\ q.at = 4
       /\ t = [Idle EXCEPT !.pc = "prepared", !.path = q.path]
    \/ /\ LookHolds(q, Looks[q.at]) /\ Carries(q, t)
       /\ \/ t.extras \in {q.extras, {}}
          \/ t.extras = Prior(q).extras \cup q.added /\ ~Runtime(q)
       /\ \/ q.at < 4 /\ t.at = q.at + 1 /\ t.pc = q.pc
          \/ q.at = 4 /\ q.pc = "collect" /\ t.at = 1 /\ t.pc = "before"
          \/ q.at = 4 /\ q.pc = "before" /\ t.at = 1 /\ t.pc = "write"

\* Steps of the producer p, and those that are nobody's preparation.
Prepares(p) == Begin(p) \/ Look(p) \/ Write(p) \/ WritePacket(p) \/ Die(p)
Others == Ask \/ Admit \/ Forget \/ Install \/ Outside \/ Provide

\* Checkouts and refs only move on, and the installation is only bound again.
LEMMA OutsideGrows ==
    ASSUME SourceTypeOK, Outside
    PROVE  /\ \A r \in Roots : disk[r] <= disk'[r] /\ head[r] <= head'[r] /\ tip[r] <= tip'[r]
           /\ disk' \in [Roots -> Nat] /\ head' \in [Roots -> Nat] /\ tip' \in [Roots -> Nat]
           /\ \/ binding' = binding
              \/ binding' \in Bindings /\ binding'.serial > binding.serial
                 /\ receipts[binding'.receipt] # None /\ UNCHANGED env
           /\ graph' \in Graphs /\ graph'.frame = graph.frame
           /\ UNCHANGED <<receipts, packets, prod, adm>>
<1>1. /\ disk \in [Roots -> Nat] /\ head \in [Roots -> Nat] /\ tip \in [Roots -> Nat]
      /\ binding \in Bindings /\ graph \in Graphs
  BY DEF SourceTypeOK
<1>2. UNCHANGED <<receipts, packets, prod, adm>>
  BY DEF Outside
<1>3. CASE /\ UNCHANGED <<binding, graph>>
           /\ \E r \in Roots :
                \/ disk' = [disk EXCEPT ![r] = @ + 1] /\ UNCHANGED <<head, tip>>
                \/ head[r] < disk[r] /\ head' = [head EXCEPT ![r] = disk[r]] /\ UNCHANGED <<disk, tip>>
                \/ tip' = [tip EXCEPT ![r] = @ + 1] /\ UNCHANGED <<disk, head>>
  BY <1>1, <1>2, <1>3
<1>4. CASE /\ UNCHANGED <<env, graph>>
           /\ \E path \in {x \in Paths : receipts[x] # None /\ receipts[x].schema = "runtime"} :
                binding' = [receipt |-> path, serial |-> binding.serial + 1]
  BY <1>1, <1>2, <1>4 DEF env, Bindings
<1>5. CASE /\ UNCHANGED <<env, binding>>
           /\ \E stray \in BOOLEAN : graph' = [graph EXCEPT !.revision = @ + 1, !.stray = stray]
  <2>1. PICK stray \in BOOLEAN : graph' = [graph EXCEPT !.revision = @ + 1, !.stray = stray]
    BY <1>5
  <2>2. graph' = [revision |-> graph.revision + 1, frame |-> graph.frame, stray |-> stray]
    BY <1>1, <2>1 DEF Graphs
  <2>3. graph' \in Graphs /\ graph'.frame = graph.frame
    BY <1>1, <2>2 DEF Graphs
  <2>4. QED
    BY <1>1, <1>2, <1>5, <2>3 DEF env
<1>6. QED
  BY <1>3, <1>4, <1>5 DEF Outside

\* A receipt that is there stays as it is.
LEMMA WriteKeeps ==
    ASSUME SourceTypeOK, NEW p \in Producers, Write(p)
    PROVE  /\ prod[p].pc = "write" /\ UNCHANGED <<env, packets, binding, graph, adm>>
           /\ \/ /\ receipts[prod[p].path] = None
                 /\ receipts' = [receipts EXCEPT ![prod[p].path] = Candidate(prod[p])]
                 /\ \E place \in {"after"} \cup (IF Runtime(prod[p]) THEN {} ELSE {"packet"}) :
                       prod' = [prod EXCEPT ![p].pc = place]
              \/ receipts' = receipts /\ prod' = [prod EXCEPT ![p] = Idle]
           /\ Candidate(prod[p]) \in Receipts
           /\ receipts' \in [Paths \cup {First} -> Receipts \cup {None}]
           /\ \A x \in Paths \cup {First} : receipts[x] # None => receipts'[x] = receipts[x]
<1>1. prod[p].path \in Paths /\ prod[p].pin \in [Roots -> Nat] /\ prod[p].extras \in SUBSET Extras
      /\ receipts \in [Paths \cup {First} -> Receipts \cup {None}]
  BY DEF SourceTypeOK, PreparationOK, Write, Preparing
<1>2. Candidate(prod[p]) \in Receipts
  BY <1>1 DEF Candidate, Receipt, Receipts, SourceSchemas
<1>3. prod[p].pc = "write" /\ UNCHANGED <<env, packets, binding, graph, adm>>
  BY DEF Write
<1>4. \/ /\ receipts[prod[p].path] = None
         /\ receipts' = [receipts EXCEPT ![prod[p].path] = Candidate(prod[p])]
         /\ \E place \in {"after"} \cup (IF Runtime(prod[p]) THEN {} ELSE {"packet"}) :
               prod' = [prod EXCEPT ![p].pc = place]
      \/ receipts' = receipts /\ prod' = [prod EXCEPT ![p] = Idle]
  BY DEF Write
<1> HIDE DEF Candidate
<1>5. QED
  BY <1>1, <1>2, <1>3, <1>4

\* A receipt from elsewhere is put where there was none.
LEMMA ProvideSteps ==
    ASSUME SourceTypeOK, Provide
    PROVE  /\ UNCHANGED <<env, packets, binding, graph, prod, adm>>
           /\ receipts' \in [Paths \cup {First} -> Receipts \cup {None}]
           /\ \A x \in Paths \cup {First} : receipts[x] # None => receipts'[x] = receipts[x]
<1>1. receipts \in [Paths \cup {First} -> Receipts \cup {None}] /\ head \in [Roots -> Nat]
  BY DEF SourceTypeOK
<1>2. PICK path \in Paths, extras \in SUBSET (Extras \cap Tree[head["project"]]), schema \in {"source-v1", "runtime"} :
         /\ receipts[path] = None
         /\ receipts' = [receipts EXCEPT ![path] = Receipt(schema, head, extras)]
  BY DEF Provide
<1>3. Receipt(schema, head, extras) \in Receipts
  BY <1>1 DEF Receipt, Receipts, SourceSchemas
<1>4. UNCHANGED <<env, packets, binding, graph, prod, adm>>
  BY DEF Provide
<1> HIDE DEF Receipt
<1>5. QED
  BY <1>1, <1>2, <1>3, <1>4

\* A look fails, goes on, begins another pass or answers.
LEMMA LookSteps ==
    ASSUME SourceTypeOK, NEW p \in Producers, Look(p)
    PROVE  /\ UNCHANGED <<env, receipts, packets, binding, graph, adm>>
           /\ prod[p].pc \in {"collect", "before", "after"}
           /\ \E t : prod' = [prod EXCEPT ![p] = t] /\ Looked(prod[p], t)
<1> DEFINE q == prod[p]
           settling == q.pc = "collect" /\ Looks[q.at] = "predecessor"
           good == LookHolds(q, Looks[q.at]) /\ (settling => Settleable(q))
           settled == IF settling THEN Settle(q) ELSE q
           t == IF ~good THEN Idle
                ELSE IF q.at < Len(Looks) THEN [settled EXCEPT !.at = @ + 1]
                ELSE IF q.pc = "after" THEN [Idle EXCEPT !.pc = "prepared", !.path = q.path]
                ELSE [settled EXCEPT !.at = 1, !.pc = IF q.pc = "collect" THEN "before" ELSE "write"]
<1>1. /\ UNCHANGED <<env, receipts, packets, binding, graph, adm>>
      /\ q.pc \in {"collect", "before", "after"}
      /\ prod' = [prod EXCEPT ![p] = t]
  BY DEF Look
<1>2. /\ DOMAIN q = {"pc", "at", "path", "pin", "tips", "added", "extras", "capture", "binding"}
      /\ q.at \in 1 .. 4 /\ Len(Looks) = 4
  BY <1>1 DEF SourceTypeOK, PreparationOK, Idle, Preparing, Looks
<1>3. /\ DOMAIN settled = DOMAIN q
      /\ settled.path = q.path /\ settled.pin = q.pin /\ settled.added = q.added
      /\ settled.capture = q.capture /\ settled.binding = q.binding
      /\ settled.at = q.at /\ settled.pc = q.pc
      /\ \/ settled.extras = q.extras \/ settled.extras = {}
         \/ settled.extras = Prior(q).extras \cup q.added /\ ~Runtime(q)
  BY <1>2 DEF Settle
<1> HIDE DEF settled
<1>4. CASE ~good
  <2>1. t = Idle
    BY <1>4
  <2> HIDE DEF t, good
  <2>2. QED
    BY <1>1, <2>1 DEF Looked
<1>5. CASE good /\ q.at < 4
  <2>1. t = [settled EXCEPT !.at = @ + 1]
    BY <1>2, <1>5
  <2> HIDE DEF t
  <2>2. /\ DOMAIN t = DOMAIN q /\ t.path = q.path /\ t.pin = q.pin /\ t.added = q.added
        /\ t.capture = q.capture /\ t.binding = q.binding /\ t.extras = settled.extras
        /\ t.at = q.at + 1 /\ t.pc = q.pc
    BY <1>2, <1>3, <2>1
  <2>3. LookHolds(q, Looks[q.at])
    BY <1>5
  <2> HIDE DEF good
  <2>4. QED
    BY <1>1, <1>2, <1>3, <1>5, <2>2, <2>3 DEF Idle, Carries, Looked
<1>6. CASE good /\ q.at = 4 /\ q.pc = "after"
  <2>1. t = [Idle EXCEPT !.pc = "prepared", !.path = q.path]
    BY <1>2, <1>6
  <2> HIDE DEF t
  <2>2. QED
    BY <1>1, <1>6, <2>1 DEF Looked
<1>7. CASE good /\ q.at = 4 /\ q.pc # "after"
  <2>1. t = [settled EXCEPT !.at = 1, !.pc = IF q.pc = "collect" THEN "before" ELSE "write"]
    BY <1>2, <1>7
  <2> HIDE DEF t
  <2>2. /\ DOMAIN t = DOMAIN q /\ t.path = q.path /\ t.pin = q.pin /\ t.added = q.added
        /\ t.capture = q.capture /\ t.binding = q.binding /\ t.extras = settled.extras
        /\ t.at = 1 /\ t.pc = IF q.pc = "collect" THEN "before" ELSE "write"
    BY <1>2, <1>3, <2>1
  <2>3. LookHolds(q, Looks[q.at])
    BY <1>7
  <2> HIDE DEF good
  <2>4. QED
    BY <1>1, <1>2, <1>3, <1>7, <2>2, <2>3 DEF Idle, Carries, Looked
<1>8. QED
  BY <1>2, <1>4, <1>5, <1>6, <1>7

\* A preparation begins, on what the Workflow or a packet is a capture of, or on the
\* installation.
LEMMA BeginSteps ==
    ASSUME SourceTypeOK, NamesBacked, NEW p \in Producers, Begin(p)
    PROVE  /\ UNCHANGED <<env, receipts, packets, binding, graph, adm>>
           /\ \E t : /\ prod' = [prod EXCEPT ![p] = t]
                     /\ DOMAIN t = DOMAIN Idle /\ t.pc = "collect" /\ t.at = 1 /\ t.pin = head
                     /\ t.path \in Paths /\ t.added \in SUBSET Extras /\ t.extras = {}
                     /\ t.capture \in Graphs \cup {None}
                     /\ ~Runtime(t) => receipts[t.capture.frame.receipt] # None
                     /\ t.binding = binding
<1>1. UNCHANGED <<env, receipts, packets, binding, graph, adm>>
  BY DEF Begin
<1>2. PICK path \in Paths, added \in SUBSET Extras,
           capture \in {graph, None} \cup {k.capture : k \in packets} :
        prod' = [prod EXCEPT ![p] = Begun(path, added, capture)]
  BY DEF Begin
<1>3. capture = graph => capture \in Graphs /\ receipts[capture.frame.receipt] # None
  <2>1. graph \in Graphs /\ receipts[graph.frame.receipt] # None
    BY DEF NamesBacked, SourceTypeOK
  <2>2. QED
    BY <2>1
<1>4. \A k \in packets : capture = k.capture =>
        capture \in Graphs /\ receipts[capture.frame.receipt] # None
  BY DEF NamesBacked
<1> DEFINE t == Begun(path, added, capture)
<1>5. /\ DOMAIN t = DOMAIN Idle /\ t.pc = "collect" /\ t.at = 1 /\ t.pin = head
      /\ t.path = path /\ t.added = added /\ t.extras = {}
      /\ t.capture = capture /\ t.binding = binding
  BY DEF Idle, Begun
<1>6. prod' = [prod EXCEPT ![p] = t]
  BY <1>2
<1>7. capture = None \/ (capture \in Graphs /\ receipts[capture.frame.receipt] # None)
  BY <1>2, <1>3, <1>4
<1> HIDE DEF t
<1>8. QED
  BY <1>1, <1>2, <1>5, <1>6, <1>7 DEF Runtime

\* An admission is refused, takes its next look, or has its verdict.
LEMMA AdmitSteps ==
    ASSUME SourceTypeOK, Admit
    PROVE  /\ UNCHANGED <<env, receipts, packets, binding, graph, prod>>
           /\ adm.at \in 1 .. 10 /\ adm.verdict = None
           /\ \/ adm' = NoAdmission
              \/ /\ Passed(adm, Steps[adm.at]) /\ adm.at < 10
                 /\ DOMAIN adm' = DOMAIN NoAdmission /\ adm'.at = adm.at + 1
                 /\ adm'.verdict = None /\ adm'.role = adm.role
                 /\ adm'.frame = IF adm.at <= 2 THEN graph.frame ELSE adm.frame
                 /\ adm'.binding = IF adm.at = 3 THEN binding ELSE adm.binding
                 /\ adm'.pin = IF adm.at = 3 THEN receipts[adm.frame.receipt].pin ELSE adm.pin
                 /\ adm'.tips = IF adm.at = 4 THEN tip ELSE adm.tips
              \/ /\ Passed(adm, "again") /\ adm.at = 10
                 /\ adm' = [adm EXCEPT !.verdict = "admitted"]
<1>1. /\ UNCHANGED <<env, receipts, packets, binding, graph, prod>>
      /\ adm.at > 0 /\ adm.verdict = None
  BY DEF Admit
<1>2. /\ DOMAIN adm = {"at", "frame", "binding", "pin", "tips", "role", "verdict"}
      /\ adm.at \in 1 .. 10 /\ Len(Steps) = 10 /\ Steps[10] = "again"
  BY <1>1 DEF SourceTypeOK, AdmissionOK, NoAdmission, Steps
<1>3. \/ adm' = NoAdmission
      \/ /\ Passed(adm, Steps[adm.at]) /\ adm.at < 10
         /\ adm' = [Learn(adm, Steps[adm.at]) EXCEPT !.at = @ + 1]
      \/ /\ Passed(adm, Steps[adm.at]) /\ adm.at = 10
         /\ adm' = [adm EXCEPT !.verdict = "admitted"]
  BY <1>1, <1>2 DEF Admit
<1>4. ASSUME adm.at < 10, adm' = [Learn(adm, Steps[adm.at]) EXCEPT !.at = @ + 1]
      PROVE  /\ DOMAIN adm' = DOMAIN NoAdmission /\ adm'.at = adm.at + 1
             /\ adm'.verdict = None /\ adm'.role = adm.role
             /\ adm'.frame = IF adm.at <= 2 THEN graph.frame ELSE adm.frame
             /\ adm'.binding = IF adm.at = 3 THEN binding ELSE adm.binding
             /\ adm'.pin = IF adm.at = 3 THEN receipts[adm.frame.receipt].pin ELSE adm.pin
             /\ adm'.tips = IF adm.at = 4 THEN tip ELSE adm.tips
  <2> DEFINE learnt == Learn(adm, Steps[adm.at])
  <2>1. /\ DOMAIN learnt = DOMAIN adm /\ learnt.at = adm.at
        /\ learnt.verdict = adm.verdict /\ learnt.role = adm.role
        /\ learnt.frame = IF adm.at <= 2 THEN graph.frame ELSE adm.frame
        /\ learnt.binding = IF adm.at = 3 THEN binding ELSE adm.binding
        /\ learnt.pin = IF adm.at = 3 THEN receipts[adm.frame.receipt].pin ELSE adm.pin
        /\ learnt.tips = IF adm.at = 4 THEN tip ELSE adm.tips
    <3>1. CASE adm.at \in {1, 2}
      <4>1. learnt = [adm EXCEPT !.frame = graph.frame]
        BY <3>1 DEF Learn, Steps
      <4> HIDE DEF learnt
      <4>2. QED
        BY <1>2, <3>1, <4>1
    <3>2. CASE adm.at = 3
      <4>1. learnt = [adm EXCEPT !.binding = binding, !.pin = receipts[adm.frame.receipt].pin]
        BY <3>2 DEF Learn, Steps, Record
      <4> HIDE DEF learnt
      <4>2. QED
        BY <1>2, <3>2, <4>1
    <3>3. CASE adm.at = 4
      <4>1. learnt = [adm EXCEPT !.tips = tip]
        BY <3>3 DEF Learn, Steps
      <4> HIDE DEF learnt
      <4>2. QED
        BY <1>2, <3>3, <4>1
    <3>4. CASE adm.at \in 5 .. 9
      <4>1. learnt = adm
        BY <3>4 DEF Learn, Steps
      <4> HIDE DEF learnt
      <4>2. QED
        BY <1>2, <3>4, <4>1
    <3>5. QED
      BY <1>2, <1>4, <3>1, <3>2, <3>3, <3>4
  <2>2. adm' = [learnt EXCEPT !.at = @ + 1]
    BY <1>4
  <2> HIDE DEF learnt
  <2>3. /\ DOMAIN adm' = DOMAIN learnt /\ adm'.at = learnt.at + 1
        /\ adm'.verdict = learnt.verdict /\ adm'.role = learnt.role
        /\ adm'.frame = learnt.frame /\ adm'.binding = learnt.binding
        /\ adm'.pin = learnt.pin /\ adm'.tips = learnt.tips
    BY <1>2, <2>1, <2>2
  <2>4. DOMAIN adm = DOMAIN NoAdmission
    BY DEF SourceTypeOK, AdmissionOK
  <2>5. QED
    BY <1>1, <2>1, <2>3, <2>4
<1>5. QED
  BY <1>1, <1>2, <1>3, <1>4

\* An admission is asked for by a gate, by the Script or by a reader.
LEMMA AskSteps ==
    ASSUME SourceTypeOK, Ask
    PROVE  /\ UNCHANGED <<env, receipts, packets, binding, graph, prod>>
           /\ AdmissionOK(adm')
           /\ adm'.verdict = None /\ adm'.at \in 1 .. 3
           /\ adm'.at = 3 => receipts[adm'.frame.receipt] # None
<1>1. UNCHANGED <<env, receipts, packets, binding, graph, prod>>
  BY DEF Ask
<1>2. ASSUME NEW path \in Paths \cup {First}, NEW serial \in {0, binding.serial}, receipts[path] # None,
             adm' = [NoAdmission EXCEPT !.at = 3, !.frame = Frame(path, serial)]
      PROVE  /\ AdmissionOK(adm') /\ adm'.verdict = None /\ adm'.at = 3
             /\ receipts[adm'.frame.receipt] # None
  <2> DEFINE frame == Frame(path, serial)
  <2>1. frame.receipt = path /\ frame \in Frames
    BY DEF Frame, Frames, SourceTypeOK, Bindings
  <2>2. adm' = [NoAdmission EXCEPT !.at = 3, !.frame = frame]
    BY <1>2
  <2> HIDE DEF frame
  <2>3. adm'.verdict = None /\ adm'.at = 3 /\ adm'.frame = frame /\ AdmissionOK(adm')
    BY <2>1, <2>2 DEF NoAdmission, AdmissionOK, Zero
  <2>4. QED
    BY <1>2, <2>1, <2>3
<1>3. CASE adm' = [NoAdmission EXCEPT !.at = 2, !.role = "script"]
  BY <1>1, <1>3 DEF NoAdmission, AdmissionOK, Zero
<1>4. CASE adm' = [NoAdmission EXCEPT !.at = 1, !.role = "reader"]
  BY <1>1, <1>4 DEF NoAdmission, AdmissionOK, Zero
<1>5. CASE \E path \in Paths \cup {First}, serial \in {0, binding.serial} :
              /\ receipts[path] # None
              /\ adm' = [NoAdmission EXCEPT !.at = 3, !.frame = Frame(path, serial)]
  <2>1. AdmissionOK(adm') /\ adm'.verdict = None /\ adm'.at = 3 /\ receipts[adm'.frame.receipt] # None
    BY <1>2, <1>5
  <2>2. QED
    BY <1>1, <2>1
<1>6. QED
  BY <1>3, <1>4, <1>5 DEF Ask

\* What a producer's step leaves of its preparation, and of the rest.
LEMMA PrepareSteps ==
    ASSUME SourceTypeOK, NamesBacked, NEW p \in Producers, Prepares(p)
    PROVE  /\ UNCHANGED <<env, binding, graph, adm>>
           /\ \E t : prod' = [prod EXCEPT ![p] = t] /\ PreparationOK(t)
           /\ receipts' \in [Paths \cup {First} -> Receipts \cup {None}]
           /\ \A x \in Paths \cup {First} : receipts[x] # None => receipts'[x] = receipts[x]
<1>1. PreparationOK(prod[p]) /\ receipts \in [Paths \cup {First} -> Receipts \cup {None}]
      /\ DOMAIN prod = Producers /\ head \in [Roots -> Nat] /\ binding \in Bindings
  BY DEF SourceTypeOK
<1>2. PreparationOK(Idle)
  BY DEF PreparationOK, Idle, Preparing, Zero
<1>3. \A path \in Paths : PreparationOK([Idle EXCEPT !.pc = "prepared", !.path = path])
  BY DEF PreparationOK, Idle, Preparing, Zero
<1>4. CASE Begin(p)
  <2>1. PICK t : /\ prod' = [prod EXCEPT ![p] = t]
                 /\ DOMAIN t = DOMAIN Idle /\ t.pc = "collect" /\ t.at = 1 /\ t.pin = head
                 /\ t.path \in Paths /\ t.added \in SUBSET Extras /\ t.extras = {}
                 /\ t.capture \in Graphs \cup {None} /\ t.binding = binding
    BY <1>4, BeginSteps
  <2>2. PreparationOK(t)
    BY <1>1, <2>1 DEF PreparationOK, Preparing
  <2>3. UNCHANGED <<env, receipts, packets, binding, graph, adm>>
    BY <1>4, BeginSteps
  <2>4. QED
    BY <1>1, <2>1, <2>2, <2>3
<1>5. CASE Look(p)
  <2>1. /\ UNCHANGED <<env, receipts, packets, binding, graph, adm>>
        /\ prod[p].pc \in {"collect", "before", "after"}
    BY <1>5, LookSteps
  <2>2. PICK t : prod' = [prod EXCEPT ![p] = t] /\ Looked(prod[p], t)
    BY <1>5, LookSteps
  <2>3. prod[p].path \in Paths
    BY <1>1, <2>1 DEF PreparationOK, Preparing
  <2>4. ASSUME Carries(prod[p], t),
               \/ t.extras \in {prod[p].extras, {}}
               \/ /\ t.extras = Prior(prod[p]).extras \cup prod[p].added
                  /\ ~Runtime(prod[p]),
               \/ prod[p].at < 4 /\ t.at = prod[p].at + 1 /\ t.pc = prod[p].pc
               \/ t.at = 1 /\ t.pc \in {"before", "write"}
        PROVE  PreparationOK(t)
    <3>1. t.extras \in SUBSET Extras
      <4>1. CASE t.extras \in {prod[p].extras, {}}
        BY <1>1, <4>1 DEF PreparationOK
      <4>2. CASE /\ t.extras = Prior(prod[p]).extras \cup prod[p].added
                 /\ ~Runtime(prod[p])
        <5>1. Prior(prod[p]) = receipts[prod[p].capture.frame.receipt]
          BY <4>2 DEF Prior, Record
        <5>2. /\ prod[p].capture.frame.receipt \in Paths \cup {First}
              /\ receipts[prod[p].capture.frame.receipt] # None /\ prod[p].added \in SUBSET Extras
          BY <1>1, <2>1, <4>2 DEF PreparationOK, Preparing, NamesBacked, Graphs, Frames, Runtime
        <5>3. Prior(prod[p]).extras \in SUBSET Extras
          BY <1>1, <5>1, <5>2 DEF Receipts
        <5>4. QED
          BY <4>2, <5>2, <5>3
      <4>3. QED
        BY <2>4, <4>1, <4>2
    <3>2. QED
      BY <1>1, <2>1, <2>4, <3>1 DEF PreparationOK, Preparing, Carries
  <2>5. PreparationOK(t)
    BY <1>2, <1>3, <2>2, <2>3, <2>4 DEF Looked
  <2>6. QED
    BY <1>1, <2>1, <2>2, <2>5
<1>6. CASE Write(p)
  <2>1. PreparationOK([prod[p] EXCEPT !.pc = "packet"]) \/ prod[p].pc # "write" \/ Runtime(prod[p])
    BY <1>1 DEF PreparationOK, Preparing, Idle, Runtime
  <2>2. PreparationOK([prod[p] EXCEPT !.pc = "after"]) \/ prod[p].pc # "write"
    BY <1>1 DEF PreparationOK, Preparing, Idle
  <2>3. \A place : [prod EXCEPT ![p].pc = place] = [prod EXCEPT ![p] = [prod[p] EXCEPT !.pc = place]]
    BY <1>1
  <2>4. QED
    BY <1>2, <1>6, <2>1, <2>2, <2>3, WriteKeeps
<1>7. CASE WritePacket(p)
  <2>1. PreparationOK([prod[p] EXCEPT !.pc = "after"]) \/ prod[p].pc # "packet"
    BY <1>1 DEF PreparationOK, Preparing, Idle
  <2>2. QED
    BY <1>1, <1>7, <2>1 DEF WritePacket
<1>8. CASE Die(p)
  BY <1>1, <1>2, <1>8 DEF Die
<1>9. QED
  BY <1>4, <1>5, <1>6, <1>7, <1>8 DEF Prepares

-----------------------------------------------------------------------------
(* Types and names *)

\* Every step keeps the types.
LEMMA TypeKept ==
    ASSUME SourceTypeOK, NamesBacked, SeenWhole, [SourceNext]_sourceVars
    PROVE  SourceTypeOK'
<1>1. CASE UNCHANGED sourceVars
  BY <1>1 DEF SourceTypeOK, PreparationOK, AdmissionOK, sourceVars, env
<1>2. CASE SourceNext
  <2>1. whole' \in BOOLEAN
    BY <1>2 DEF SourceNext, Noted
  <2>2. ASSUME NEW p \in Producers, Prepares(p) PROVE SourceTypeOK'
    <3>1. /\ UNCHANGED <<env, binding, graph, adm>>
          /\ receipts' \in [Paths \cup {First} -> Receipts \cup {None}]
      BY <2>2, PrepareSteps
    <3>2. PICK t : prod' = [prod EXCEPT ![p] = t] /\ PreparationOK(t)
      BY <2>2, PrepareSteps
    <3>3. DOMAIN prod' = Producers /\ \A x \in Producers : PreparationOK(prod'[x])
      BY <3>2 DEF SourceTypeOK
    <3>4. (\A x \in Producers : PreparationOK(prod[x]))'
      BY <3>3 DEF PreparationOK
    <3>5. AdmissionOK(adm)'
      BY <3>1 DEF SourceTypeOK, AdmissionOK
    <3>6. QED
      BY <2>1, <3>1, <3>3, <3>4, <3>5 DEF SourceTypeOK, env
  <2>3. ASSUME UNCHANGED <<env, receipts, binding, prod>>, graph' \in Graphs, AdmissionOK(adm)'
        PROVE  SourceTypeOK'
    <3>1. (\A x \in Producers : PreparationOK(prod[x]))'
      BY <2>3 DEF SourceTypeOK, PreparationOK
    <3>2. QED
      BY <2>1, <2>3, <3>1 DEF SourceTypeOK, env
  <2>4. AdmissionOK(adm) /\ graph \in Graphs /\ binding \in Bindings /\ tip \in [Roots -> Nat]
        /\ receipts \in [Paths \cup {First} -> Receipts \cup {None}]
    BY DEF SourceTypeOK
  <2>5. AdmissionOK(NoAdmission)
    BY DEF AdmissionOK, NoAdmission, Zero
  <2>6. CASE Ask
    <3>1. UNCHANGED <<env, receipts, binding, graph, prod>> /\ AdmissionOK(adm')
      BY <2>6, AskSteps
    <3>2. QED
      BY <2>3, <2>4, <3>1 DEF AdmissionOK
  <2>7. CASE Admit
    <3>1. UNCHANGED <<env, receipts, binding, graph, prod>> /\ adm.at \in 1 .. 10
      BY <2>7, AdmitSteps
    <3>2. CASE adm' = NoAdmission
      BY <2>3, <2>4, <2>5, <3>1, <3>2 DEF AdmissionOK
    <3>3. CASE /\ adm.at < 10
               /\ DOMAIN adm' = DOMAIN NoAdmission /\ adm'.at = adm.at + 1
               /\ adm'.verdict = None /\ adm'.role = adm.role
               /\ adm'.frame = IF adm.at <= 2 THEN graph.frame ELSE adm.frame
               /\ adm'.binding = IF adm.at = 3 THEN binding ELSE adm.binding
               /\ adm'.pin = IF adm.at = 3 THEN receipts[adm.frame.receipt].pin ELSE adm.pin
               /\ adm'.tips = IF adm.at = 4 THEN tip ELSE adm.tips
      <4>1. adm'.pin \in [Roots -> Nat]
        <5>1. CASE adm.at = 3
          <6>1. receipts[adm.frame.receipt] \in Receipts
            BY <2>4, <5>1 DEF NamesBacked, AdmissionOK, Frames
          <6>2. QED
            BY <3>3, <5>1, <6>1 DEF Receipts
        <5>2. QED
          BY <2>4, <3>3, <5>1 DEF AdmissionOK
      <4>2. AdmissionOK(adm')
        BY <2>4, <3>1, <3>3, <4>1 DEF AdmissionOK, Graphs
      <4>3. QED
        BY <2>3, <2>4, <3>1, <4>2 DEF AdmissionOK
    <3>4. CASE adm' = [adm EXCEPT !.verdict = "admitted"]
      <4>1. AdmissionOK(adm')
        BY <2>4, <3>4 DEF AdmissionOK, NoAdmission
      <4>2. QED
        BY <2>3, <2>4, <3>1, <4>1 DEF AdmissionOK
    <3>5. QED
      BY <2>7, <3>2, <3>3, <3>4, AdmitSteps
  <2>8. CASE Forget
    BY <2>3, <2>4, <2>5, <2>8 DEF Forget, AdmissionOK
  <2>9. CASE Install
    <3>1. adm.frame \in Frames
      BY <2>4, <2>9 DEF Install, Admitted, SeenWhole, AdmissionOK
    <3>2. graph' \in Graphs
      BY <2>4, <2>9, <3>1 DEF Install, Rendered, Graphs
    <3>3. QED
      BY <2>3, <2>5, <2>9, <3>2 DEF Install, AdmissionOK
  <2>10. CASE Outside
    <3>1. /\ disk' \in [Roots -> Nat] /\ head' \in [Roots -> Nat] /\ tip' \in [Roots -> Nat]
          /\ binding' \in Bindings /\ graph' \in Graphs
          /\ UNCHANGED <<receipts, prod, adm>>
      BY <2>4, <2>10, OutsideGrows
    <3>2. (\A x \in Producers : PreparationOK(prod[x]))' /\ AdmissionOK(adm)'
      BY <3>1 DEF SourceTypeOK, PreparationOK, AdmissionOK
    <3>3. QED
      BY <2>1, <3>1, <3>2 DEF SourceTypeOK
  <2>11. CASE Provide
    <3>1. /\ UNCHANGED <<env, binding, graph, prod, adm>>
          /\ receipts' \in [Paths \cup {First} -> Receipts \cup {None}]
      BY <2>11, ProvideSteps
    <3>2. (\A x \in Producers : PreparationOK(prod[x]))' /\ AdmissionOK(adm)'
      BY <3>1 DEF SourceTypeOK, PreparationOK, AdmissionOK
    <3>3. QED
      BY <2>1, <3>1, <3>2 DEF SourceTypeOK, env
  <2>12. QED
    BY <1>2, <2>2, <2>6, <2>7, <2>8, <2>9, <2>10, <2>11 DEF SourceNext, Prepares
<1>3. QED
  BY <1>1, <1>2

\* Receipts are never removed and never change.
LEMMA ReceiptsStay ==
    ASSUME SourceTypeOK, NamesBacked, [SourceNext]_sourceVars
    PROVE  \A x \in Paths \cup {First} : receipts[x] # None => receipts'[x] = receipts[x]
<1>1. CASE \E p \in Producers : Prepares(p)
  BY <1>1, PrepareSteps
<1>2. CASE Others
  BY <1>2, ProvideSteps DEF Others, Ask, Admit, Forget, Install, Outside
<1>3. CASE UNCHANGED sourceVars
  BY <1>3 DEF sourceVars
<1>4. QED
  BY <1>1, <1>2, <1>3 DEF SourceNext, Prepares, Others

\* Every name still has its receipt after a producer's step.
LEMMA NamesPrepared ==
    ASSUME SourceTypeOK, NamesBacked, WrittenTrue, NEW p \in Producers, Prepares(p)
    PROVE  NamesBacked'
<1>1. /\ UNCHANGED <<env, binding, graph, adm>>
      /\ \A x \in Paths \cup {First} : receipts[x] # None => receipts'[x] = receipts[x]
  BY PrepareSteps
<1>2. /\ graph.frame.receipt \in Paths \cup {First} /\ binding.receipt \in Paths \cup {First}
      /\ adm.at > 2 => adm.frame.receipt \in Paths \cup {First}
      /\ DOMAIN prod = Producers /\ \A x \in Producers : PreparationOK(prod[x])
      /\ \A g \in Graphs : g.frame.receipt \in Paths \cup {First}
      /\ \A b \in Bindings : b.receipt \in Paths \cup {First}
  BY DEF SourceTypeOK, AdmissionOK, Graphs, Bindings, Frames
<1>3. /\ \A x \in {First, graph.frame.receipt, binding.receipt} : receipts'[x] # None
      /\ adm.at > 2 => receipts'[adm.frame.receipt] # None
  BY <1>1, <1>2 DEF NamesBacked
<1>4. ASSUME NEW k \in packets'
      PROVE  /\ k.capture \in Graphs /\ receipts'[k.capture.frame.receipt] # None
             /\ k.candidate \in Paths /\ receipts'[k.candidate] # None
  <2>1. CASE k \in packets
    BY <1>1, <1>2, <2>1 DEF NamesBacked
  <2>2. CASE k \notin packets
    <3>1. WritePacket(p)
      <4>1. CASE Begin(p)
        BY <1>4, <2>2, <4>1, BeginSteps
      <4>2. CASE Look(p)
        BY <1>4, <2>2, <4>2, LookSteps
      <4>3. CASE Write(p)
        BY <1>4, <2>2, <4>3, WriteKeeps
      <4>4. CASE Die(p)
        BY <1>4, <2>2, <4>4 DEF Die
      <4>5. QED
        BY <4>1, <4>2, <4>3, <4>4 DEF Prepares
    <3>2. prod[p].pc = "packet" /\ k = Packet(prod[p])
      BY <1>4, <2>2, <3>1 DEF WritePacket
    <3>3. k.capture = prod[p].capture /\ k.candidate = prod[p].path
      BY <3>2 DEF Packet
    <3>4. prod[p].capture \in Graphs /\ prod[p].path \in Paths /\ receipts[prod[p].path] # None
          /\ receipts[prod[p].capture.frame.receipt] # None
      BY <1>2, <3>2 DEF PreparationOK, Preparing, WrittenTrue, Written, NamesBacked, Runtime
    <3>5. QED
      BY <1>1, <1>2, <3>3, <3>4
  <2>3. QED
    BY <2>1, <2>2
<1>5. ASSUME NEW x \in Producers, prod'[x].pc \in Preparing
      PROVE  /\ ~Runtime(prod'[x]) => receipts'[prod'[x].capture.frame.receipt] # None
             /\ receipts'[prod'[x].binding.receipt] # None
  <2>1. SUFFICES ASSUME prod'[x].pc \in Preparing
                 PROVE  /\ ~Runtime(prod'[x]) => /\ prod'[x].capture \in Graphs
                                                 /\ receipts[prod'[x].capture.frame.receipt] # None
                        /\ prod'[x].binding \in Bindings /\ receipts[prod'[x].binding.receipt] # None
    BY <1>1, <1>2, <1>5
  <2>2. ASSUME prod[x].pc \in Preparing, prod'[x].capture = prod[x].capture, prod'[x].binding = prod[x].binding
        PROVE  /\ ~Runtime(prod'[x]) => /\ prod'[x].capture \in Graphs
                                        /\ receipts[prod'[x].capture.frame.receipt] # None
               /\ prod'[x].binding \in Bindings /\ receipts[prod'[x].binding.receipt] # None
    BY <1>2, <2>2 DEF PreparationOK, NamesBacked, Runtime
  <2>3. CASE x # p
    <3>1. prod'[x] = prod[x]
      BY <1>2, <2>3, PrepareSteps
    <3>2. QED
      BY <2>1, <2>2, <3>1
  <2>4. CASE x = p /\ Begin(p)
    <3>1. PICK t : /\ prod' = [prod EXCEPT ![p] = t]
                   /\ t.capture \in Graphs \cup {None}
                   /\ ~Runtime(t) => receipts[t.capture.frame.receipt] # None
                   /\ t.binding = binding
      BY <2>4, BeginSteps
    <3>2. prod'[x] = t
      BY <1>2, <2>4, <3>1
    <3>3. QED
      BY <3>1, <3>2 DEF NamesBacked, SourceTypeOK, Runtime
  <2>5. CASE x = p /\ Look(p)
    <3>1. PICK t : prod' = [prod EXCEPT ![p] = t] /\ Looked(prod[p], t)
      BY <2>5, LookSteps
    <3>2. prod'[p] = t
      BY <1>2, <3>1
    <3>3. Carries(prod[p], t)
      <4>1. Idle.pc = "idle" /\ [Idle EXCEPT !.pc = "prepared", !.path = prod[p].path].pc = "prepared"
        BY DEF Idle
      <4>2. t.pc \in Preparing
        BY <2>1, <2>5, <3>2
      <4>3. t.pc # "idle" /\ t.pc # "prepared"
        BY <4>2 DEF Preparing
      <4>4. QED
        BY <3>1, <4>1, <4>3, Zenon DEF Looked
    <3>4. prod[p].pc \in Preparing
      BY <2>5, LookSteps DEF Preparing
    <3>5. QED
      BY <2>2, <2>5, <3>2, <3>3, <3>4 DEF Carries
  <2>6. CASE x = p /\ Write(p)
    <3>1. prod[p].pc = "write" /\ DOMAIN prod[p] = DOMAIN Idle
      BY <1>2, <2>6, WriteKeeps DEF PreparationOK
    <3>2. \/ \E place \in {"packet", "after"} : prod' = [prod EXCEPT ![p].pc = place]
          \/ prod' = [prod EXCEPT ![p] = Idle]
      BY <2>6, WriteKeeps
    <3>3. prod'[p] # Idle
      BY <2>1, <2>6 DEF Idle, Preparing
    <3>4. prod'[p].capture = prod[p].capture /\ prod'[p].binding = prod[p].binding
      BY <1>2, <3>1, <3>2, <3>3 DEF Idle
    <3>5. QED
      BY <2>2, <2>6, <3>1, <3>4 DEF Preparing
  <2>7. CASE x = p /\ WritePacket(p)
    <3>1. prod[p].pc = "packet" /\ prod' = [prod EXCEPT ![p].pc = "after"] /\ DOMAIN prod[p] = DOMAIN Idle
      BY <1>2, <2>7 DEF WritePacket, PreparationOK
    <3>2. prod'[p].capture = prod[p].capture /\ prod'[p].binding = prod[p].binding
      BY <1>2, <3>1 DEF Idle
    <3>3. QED
      BY <2>2, <2>7, <3>1, <3>2 DEF Preparing
  <2>8. CASE x = p /\ Die(p)
    BY <1>2, <2>1, <2>8 DEF Die, Idle, Preparing
  <2>9. QED
    BY <2>3, <2>4, <2>5, <2>6, <2>7, <2>8 DEF Prepares
<1>6. QED
  BY <1>1, <1>3, <1>4, <1>5 DEF NamesBacked

LEMMA NamesKept ==
    ASSUME SourceTypeOK, NamesBacked, WrittenTrue, SeenWhole, [SourceNext]_sourceVars
    PROVE  NamesBacked'
<1>1. CASE \E p \in Producers : Prepares(p)
  BY <1>1, NamesPrepared
<1>2. /\ AdmissionOK(adm) /\ graph \in Graphs /\ binding \in Bindings
  BY DEF SourceTypeOK
<1>3. CASE UNCHANGED sourceVars
  BY <1>3 DEF sourceVars, NamesBacked
<1>4. ASSUME UNCHANGED <<receipts, packets, prod>>,
             receipts[graph'.frame.receipt] # None, receipts[binding'.receipt] # None,
             adm'.at > 2 => receipts[adm'.frame.receipt] # None
      PROVE  NamesBacked'
  BY <1>4 DEF NamesBacked
<1>5. CASE Ask
  <2>1. UNCHANGED <<receipts, packets, binding, graph, prod>>
    BY <1>5, AskSteps
  <2>2. adm'.at > 2 => receipts[adm'.frame.receipt] # None
    BY <1>5, AskSteps
  <2>3. QED
    BY <1>4, <2>1, <2>2 DEF NamesBacked
<1>6. CASE Admit
  <2>1. UNCHANGED <<receipts, packets, binding, graph, prod>> /\ adm.at \in 1 .. 10
    BY <1>6, AdmitSteps
  <2>2. adm'.at > 2 => receipts[adm'.frame.receipt] # None
    <3>1. CASE adm' = NoAdmission
      BY <3>1 DEF NoAdmission
    <3>2. CASE adm'.at = adm.at + 1 /\ adm'.frame = IF adm.at <= 2 THEN graph.frame ELSE adm.frame
      BY <2>1, <3>2 DEF NamesBacked
    <3>3. CASE adm' = [adm EXCEPT !.verdict = "admitted"]
      <4>1. adm'.at = adm.at /\ adm'.frame = adm.frame
        BY <1>2, <3>3 DEF AdmissionOK, NoAdmission
      <4>2. QED
        BY <4>1 DEF NamesBacked
    <3>4. QED
      BY <1>6, <3>1, <3>2, <3>3, AdmitSteps
  <2>3. QED
    BY <1>4, <2>1, <2>2 DEF NamesBacked
<1>7. CASE Forget
  BY <1>4, <1>7 DEF Forget, NoAdmission, NamesBacked
<1>8. CASE Install
  <2>1. UNCHANGED <<receipts, packets, binding, prod>> /\ adm' = NoAdmission
        /\ graph'.frame = adm.frame /\ adm.at = 10
    BY <1>8 DEF Install, Rendered, Admitted, SeenWhole
  <2>2. QED
    BY <1>4, <2>1 DEF NoAdmission, NamesBacked
<1>9. CASE Outside
  <2>1. /\ UNCHANGED <<receipts, packets, prod, adm>> /\ graph'.frame = graph.frame
        /\ binding' = binding \/ receipts[binding'.receipt] # None
    BY <1>9, OutsideGrows
  <2>2. QED
    BY <1>4, <2>1 DEF NamesBacked
<1>10. CASE Provide
  <2>1. /\ UNCHANGED <<packets, binding, graph, prod, adm>>
        /\ \A x \in Paths \cup {First} : receipts[x] # None => receipts'[x] = receipts[x]
    BY <1>10, ProvideSteps
  <2>2. /\ graph.frame.receipt \in Paths \cup {First} /\ binding.receipt \in Paths \cup {First}
        /\ adm.at > 2 => adm.frame.receipt \in Paths \cup {First}
        /\ \A x \in Producers : PreparationOK(prod[x])
        /\ \A g \in Graphs : g.frame.receipt \in Paths \cup {First}
        /\ \A b \in Bindings : b.receipt \in Paths \cup {First}
    BY DEF SourceTypeOK, AdmissionOK, Graphs, Bindings, Frames
  <2>3. /\ \A x \in {First, graph.frame.receipt, binding.receipt} : receipts'[x] # None
        /\ adm.at > 2 => receipts'[adm.frame.receipt] # None
    BY <2>1, <2>2 DEF NamesBacked
  <2>4. ASSUME NEW k \in packets
        PROVE  /\ k.capture \in Graphs /\ receipts'[k.capture.frame.receipt] # None
               /\ k.candidate \in Paths /\ receipts'[k.candidate] # None
    BY <2>1, <2>2 DEF NamesBacked
  <2>5. ASSUME NEW x \in Producers, prod[x].pc \in Preparing
        PROVE  /\ ~Runtime(prod[x]) => receipts'[prod[x].capture.frame.receipt] # None
               /\ receipts'[prod[x].binding.receipt] # None
    <3>1. /\ ~Runtime(prod[x]) => prod[x].capture \in Graphs
          /\ prod[x].binding \in Bindings
      BY <2>2, <2>5 DEF PreparationOK, Runtime
    <3>2. QED
      BY <2>1, <2>2, <2>5, <3>1 DEF NamesBacked
  <2>6. QED
    BY <2>1, <2>3, <2>4, <2>5 DEF NamesBacked, Runtime
<1>11. QED
  BY <1>1, <1>3, <1>5, <1>6, <1>7, <1>8, <1>9, <1>10 DEF SourceNext, Prepares

-----------------------------------------------------------------------------
(* Producers *)

\* Whether what a preparation has written was true is settled by its own record
\* and its receipt; the roots only move on.
LEMMA WrittenOn ==
    ASSUME SourceTypeOK, NEW q, PreparationOK(q), Written(q),
           \A r \in Roots : disk[r] <= disk'[r] /\ head[r] <= head'[r],
           disk' \in [Roots -> Nat], head' \in [Roots -> Nat],
           q.path \in Paths /\ receipts[q.path] # None => receipts'[q.path] = receipts[q.path]
    PROVE  Written(q)'
<1>1. disk \in [Roots -> Nat] /\ head \in [Roots -> Nat] /\ q.pin \in [Roots -> Nat]
  BY DEF SourceTypeOK, PreparationOK
<1>2. \A r \in Roots : /\ disk[r] \in Nat /\ head[r] \in Nat /\ q.pin[r] \in Nat
                       /\ disk'[r] \in Nat /\ head'[r] \in Nat
  BY <1>1
<1>3. \A r \in Roots : /\ Reached(r, q.pin[r]) => Reached(r, q.pin[r])'
                       /\ Beyond(r, q.pin[r]) => Beyond(r, q.pin[r])'
  BY <1>2 DEF Reached, Beyond
<1>4. "project" \in Roots /\ "kit" \in Roots /\ Unvisited(q) \subseteq Roots
  BY DEF Roots, Unvisited
<1>5. /\ q.pc = "collect" /\ q.at > 2 => Reached("project", q.pin["project"])'
      /\ q.pc = "collect" /\ q.at > 3 => Reached("kit", q.pin["kit"])'
      /\ q.pc \in Preparing \ {"collect"} => \A r \in Roots : Reached(r, q.pin[r])'
  BY <1>3, <1>4 DEF Written
<1>6. q.pc \in {"packet", "after"} =>
        /\ receipts'[q.path] # None
        /\ receipts'[q.path].true \/ \E r \in Unvisited(q) : Beyond(r, q.pin[r])'
  <2>1. q.pc \in {"packet", "after"} => q.path \in Paths
    BY DEF PreparationOK, Preparing
  <2>2. QED
    BY <1>3, <1>4, <2>1 DEF Written
<1>7. q.pc = "prepared" => q.path \in Paths /\ receipts'[q.path] # None /\ receipts'[q.path].true
  BY DEF Written
<1>8. QED
  BY <1>5, <1>6, <1>7 DEF Written

\* A passed look settles its root; the last one after the writing, the receipt.
LEMMA WrittenLook ==
    ASSUME SourceTypeOK, WrittenTrue, NEW p \in Producers, Look(p)
    PROVE  \E t : prod' = [prod EXCEPT ![p] = t] /\ Written(t)
<1> DEFINE q == prod[p]
<1>1. /\ PreparationOK(q) /\ Written(q) /\ DOMAIN prod = Producers
      /\ disk \in [Roots -> Nat] /\ head \in [Roots -> Nat] /\ q.pin \in [Roots -> Nat]
  BY DEF SourceTypeOK, WrittenTrue, PreparationOK
<1>2. UNCHANGED <<env, receipts>> /\ q.pc \in {"collect", "before", "after"}
  BY LookSteps
<1>3. PICK t : prod' = [prod EXCEPT ![p] = t] /\ Looked(q, t)
  BY LookSteps
<1> HIDE DEF q
<1>5. q.at \in 1 .. 4 /\ q.path \in Paths
  BY <1>1, <1>2 DEF PreparationOK, Preparing
<1>6. SUFFICES Written(t)
  BY <1>3
<1>7. CASE t = Idle
  BY <1>7 DEF Written, Idle, Preparing
<1>8. CASE q.pc = "after" /\ q.at = 4 /\ t = [Idle EXCEPT !.pc = "prepared", !.path = q.path]
  <2>1. t.pc = "prepared" /\ t.path = q.path
    BY <1>8 DEF Idle
  <2>2. Unvisited(q) = {}
    BY <1>8 DEF Unvisited
  <2>3. receipts[q.path] # None /\ receipts[q.path].true
    BY <1>1, <1>8, <2>2 DEF Written
  <2>4. QED
    BY <1>5, <2>1, <2>3 DEF Written, Preparing
<1>9. CASE /\ LookHolds(q, Looks[q.at]) /\ Carries(q, t)
           /\ \/ q.at < 4 /\ t.at = q.at + 1 /\ t.pc = q.pc
              \/ q.at = 4 /\ q.pc = "collect" /\ t.at = 1 /\ t.pc = "before"
              \/ q.at = 4 /\ q.pc = "before" /\ t.at = 1 /\ t.pc = "write"
  <2>1. t.pin = q.pin /\ t.path = q.path
    BY <1>9 DEF Carries
  <2>2. \A r \in Roots : disk[r] \in Nat /\ head[r] \in Nat /\ q.pin[r] \in Nat
    BY <1>1
  <2>3. q.at = 2 => At("project", q.pin["project"])
    BY <1>9 DEF LookHolds, Looks
  <2>4. q.at = 3 => At("kit", q.pin["kit"])
    BY <1>9 DEF LookHolds, Looks
  <2>5. \A r \in Roots : At(r, q.pin[r]) => Reached(r, q.pin[r]) /\ ~Beyond(r, q.pin[r])
    BY <2>2 DEF At, Reached, Beyond
  <2>6. Roots = {"project", "kit"}
    BY DEF Roots
  <2>7. /\ t.pc = "collect" /\ t.at > 2 => Reached("project", q.pin["project"])
        /\ t.pc = "collect" /\ t.at > 3 => Reached("kit", q.pin["kit"])
        /\ t.pc \in Preparing \ {"collect"} => \A r \in Roots : Reached(r, q.pin[r])
    BY <1>1, <1>2, <1>5, <1>9, <2>3, <2>4, <2>5, <2>6 DEF Written, Preparing
  <2>8. ASSUME t.pc \in {"packet", "after"}
        PROVE  /\ receipts[q.path] # None
               /\ receipts[q.path].true \/ \E r \in Unvisited(t) : Beyond(r, q.pin[r])
    <3>1. q.pc = "after" /\ q.at < 4 /\ t.at = q.at + 1
      BY <1>2, <1>9, <2>8
    <3>2. \A r \in Unvisited(q) : Beyond(r, q.pin[r]) => r \in Unvisited(t)
      BY <1>5, <2>3, <2>4, <2>5, <2>6, <3>1 DEF Unvisited
    <3>3. QED
      BY <1>1, <3>1, <3>2 DEF Written
  <2>9. t.pc # "prepared"
    BY <1>2, <1>9
  <2>10. QED
    BY <2>1, <2>7, <2>8, <2>9 DEF Written
<1>10. QED
  BY <1>3, <1>7, <1>8, <1>9, Zenon DEF Looked

\* What is written was true unless a root had moved beyond it by then.
LEMMA WrittenWrite ==
    ASSUME SourceTypeOK, WrittenTrue, NEW p \in Producers, Write(p)
    PROVE  \E t : prod' = [prod EXCEPT ![p] = t] /\ Written(t)'
<1> DEFINE q == prod[p]
<1>1. /\ PreparationOK(q) /\ Written(q) /\ DOMAIN prod = Producers
      /\ disk \in [Roots -> Nat] /\ head \in [Roots -> Nat] /\ q.pin \in [Roots -> Nat]
      /\ receipts \in [Paths \cup {First} -> Receipts \cup {None}]
  BY DEF SourceTypeOK, WrittenTrue, PreparationOK
<1>2. q.pc = "write" /\ q.path \in Paths /\ q.at = 1 /\ DOMAIN q = DOMAIN Idle
  BY <1>1, WriteKeeps DEF PreparationOK, Preparing
<1>3. CASE /\ receipts' = [receipts EXCEPT ![q.path] = Candidate(q)]
           /\ \E place \in {"packet", "after"} : prod' = [prod EXCEPT ![p].pc = place]
  <2>1. PICK place \in {"packet", "after"} : prod' = [prod EXCEPT ![p].pc = place]
    BY <1>3
  <2>2. PICK t : t = [q EXCEPT !.pc = place]
    OBVIOUS
  <2>3. prod' = [prod EXCEPT ![p] = t]
    BY <1>1, <2>1, <2>2
  <2>4. t.pc = place /\ t.at = 1 /\ t.pin = q.pin /\ t.path = q.path
    BY <1>2, <2>2 DEF Idle
  <2>5. receipts'[q.path] = Candidate(q)
    BY <1>1, <1>2, <1>3
  <2>6. receipts'[q.path] \in Receipts
    BY <2>5, WriteKeeps
  <2>7. receipts'[q.path].true = \A r \in Roots : At(r, q.pin[r])
    BY <2>5 DEF Candidate, Receipt
  <2>8. \A r \in Roots : Reached(r, q.pin[r])
    BY <1>1, <1>2 DEF Written, Preparing
  <2>9. \A r \in Roots : disk[r] \in Nat /\ head[r] \in Nat /\ q.pin[r] \in Nat
    BY <1>1
  <2>10. receipts'[q.path].true \/ \E r \in Roots : Beyond(r, q.pin[r])
    BY <2>7, <2>8, <2>9 DEF At, Reached, Beyond
  <2>11. Unvisited(t) = Roots
    BY <2>4 DEF Unvisited
  <2>12. disk' = disk /\ head' = head
    BY WriteKeeps DEF env
  <2>13. receipts'[q.path] # None
    BY <2>6, SourceAssumption
  <2>14. Written(t)'
    BY <2>1, <2>4, <2>8, <2>10, <2>11, <2>12, <2>13 DEF Written, Reached, Beyond
  <2>15. QED
    BY <2>3, <2>14
<1>4. CASE prod' = [prod EXCEPT ![p] = Idle]
  <2>1. Written(Idle)'
    BY DEF Written, Idle, Preparing
  <2>2. QED
    BY <1>4, <2>1
<1>5. QED
  BY <1>3, <1>4, WriteKeeps

\* A packet or a death says nothing of a root, and a new preparation nothing yet.
LEMMA WrittenElse ==
    ASSUME SourceTypeOK, NamesBacked, WrittenTrue, NEW p \in Producers,
           Begin(p) \/ WritePacket(p) \/ Die(p)
    PROVE  \E t : prod' = [prod EXCEPT ![p] = t] /\ Written(t)
<1> DEFINE q == prod[p]
<1>1. PreparationOK(q) /\ Written(q) /\ DOMAIN prod = Producers
  BY DEF SourceTypeOK, WrittenTrue
<1>2. CASE Begin(p)
  <2>1. PICK t : prod' = [prod EXCEPT ![p] = t] /\ t.pc = "collect" /\ t.at = 1
    BY <1>2, BeginSteps
  <2>2. Written(t)
    BY <2>1 DEF Written, Preparing
  <2>3. QED
    BY <2>1, <2>2
<1>3. CASE WritePacket(p)
  <2>1. q.pc = "packet" /\ prod' = [prod EXCEPT ![p].pc = "after"]
    BY <1>3 DEF WritePacket
  <2>2. PICK t : t = [q EXCEPT !.pc = "after"]
    OBVIOUS
  <2>3. prod' = [prod EXCEPT ![p] = t]
    BY <1>1, <2>1, <2>2
  <2>4. DOMAIN q = DOMAIN Idle
    BY <1>1 DEF PreparationOK
  <2>5. t.pc = "after" /\ t.at = q.at /\ t.pin = q.pin /\ t.path = q.path
    BY <2>2, <2>4 DEF Idle
  <2>6. Unvisited(t) = Unvisited(q)
    BY <2>5 DEF Unvisited
  <2>7. Written(t)
    BY <1>1, <2>1, <2>5, <2>6 DEF Written, Preparing
  <2>8. QED
    BY <2>3, <2>7
<1>4. CASE Die(p)
  <2>1. Written(Idle)
    BY DEF Written, Idle, Preparing
  <2>2. QED
    BY <1>4, <2>1 DEF Die
<1>5. QED
  BY <1>2, <1>3, <1>4

\* What is written is true, or a root is beyond it; nobody writes over it.
LEMMA WrittenKept ==
    ASSUME SourceTypeOK, NamesBacked, WrittenTrue, [SourceNext]_sourceVars
    PROVE  WrittenTrue'
<1>1. /\ DOMAIN prod = Producers /\ \A x \in Producers : PreparationOK(prod[x]) /\ Written(prod[x])
      /\ disk \in [Roots -> Nat] /\ head \in [Roots -> Nat]
  BY DEF SourceTypeOK, WrittenTrue
<1>2. /\ \A r \in Roots : disk[r] <= disk'[r] /\ head[r] <= head'[r]
      /\ disk' \in [Roots -> Nat] /\ head' \in [Roots -> Nat]
  <2>1. CASE UNCHANGED env
    BY <1>1, <2>1 DEF env
  <2>2. CASE Outside
    BY <2>2, OutsideGrows
  <2>3. CASE \E p \in Producers : Prepares(p)
    BY <2>1, <2>3, PrepareSteps
  <2>4. QED
    BY <2>1, <2>2, <2>3 DEF SourceNext, Prepares, Ask, Admit, Forget, Install, Provide, sourceVars
<1>3. ASSUME NEW x \in Producers, prod'[x] = prod[x] PROVE Written(prod[x])'
  <2>1. PICK q : q = prod[x]
    OBVIOUS
  <2>2. q.path \in Paths /\ receipts[q.path] # None => receipts'[q.path] = receipts[q.path]
    BY ReceiptsStay
  <2>3. Written(q)'
    BY <1>1, <1>2, <2>1, <2>2, WrittenOn
  <2>4. prod'[x] = q
    BY <1>3, <2>1
  <2>5. QED
    BY <2>3, <2>4 DEF Written
<1>4. ASSUME NEW p \in Producers, NEW t, prod' = [prod EXCEPT ![p] = t], Written(t)'
      PROVE  WrittenTrue'
  <2>1. prod'[p] = t /\ \A x \in Producers \ {p} : prod'[x] = prod[x]
    BY <1>1, <1>4
  <2>2. Written(prod[p])'
    BY <1>4, <2>1 DEF Written
  <2>3. ASSUME NEW x \in Producers PROVE Written(prod[x])'
    <3>1. CASE x = p
      BY <2>2, <3>1
    <3>2. CASE x # p
      BY <1>3, <2>1, <3>2
    <3>3. QED
      BY <3>1, <3>2
  <2>4. QED
    BY <2>3 DEF WrittenTrue
<1>5. ASSUME NEW p \in Producers, Prepares(p) PROVE WrittenTrue'
  <2>1. CASE Write(p)
    BY <1>4, <2>1, WrittenWrite
  <2>2. ASSUME UNCHANGED <<disk, head, receipts>>,
               \E t : prod' = [prod EXCEPT ![p] = t] /\ Written(t)
        PROVE  WrittenTrue'
    <3>1. PICK t : prod' = [prod EXCEPT ![p] = t] /\ Written(t)
      BY <2>2
    <3>2. Written(t)'
      BY <2>2, <3>1 DEF Written, Reached, Beyond
    <3>3. QED
      BY <1>4, <3>1, <3>2
  <2>3. CASE Look(p)
    <3>1. UNCHANGED <<disk, head, receipts>>
      BY <2>3, LookSteps DEF env
    <3>2. QED
      BY <2>2, <2>3, <3>1, WrittenLook
  <2>4. CASE Begin(p) \/ WritePacket(p) \/ Die(p)
    <3>1. UNCHANGED <<disk, head, receipts>>
      BY <2>4 DEF Begin, WritePacket, Die, env
    <3>2. QED
      BY <2>2, <2>4, <3>1, WrittenElse
  <2>5. QED
    BY <1>5, <2>1, <2>3, <2>4 DEF Prepares
<1>6. CASE UNCHANGED prod
  <2>1. ASSUME NEW x \in Producers PROVE Written(prod[x])'
    BY <1>3, <1>6
  <2>2. QED
    BY <2>1 DEF WrittenTrue
<1>7. QED
  BY <1>5, <1>6 DEF SourceNext, Prepares, Ask, Admit, Forget, Install, Outside, Provide, sourceVars

-----------------------------------------------------------------------------
(* Admissions *)

\* Whether an admission has been overtaken is not undone by the world moving on.
LEMMA OvertakenStays ==
    ASSUME SourceTypeOK, adm.at > 4, adm' = adm, SeenWhole,
           \A r \in Roots : disk[r] <= disk'[r] /\ head[r] <= head'[r] /\ tip[r] <= tip'[r],
           disk' \in [Roots -> Nat], head' \in [Roots -> Nat], tip' \in [Roots -> Nat],
           binding' = binding \/ (binding' \in Bindings /\ binding'.serial > binding.serial)
    PROVE  Overtaken(adm) => Overtaken(adm)'
<1>1. /\ disk \in [Roots -> Nat] /\ head \in [Roots -> Nat] /\ tip \in [Roots -> Nat]
      /\ adm.pin \in [Roots -> Nat] /\ adm.tips \in [Roots -> Nat] /\ adm.at \in 0 .. 10
      /\ binding.serial \in Nat /\ adm.binding.serial \in Nat
  BY DEF SourceTypeOK, AdmissionOK, Bindings
<1>2. "project" \in Roots
  BY DEF Roots
<1>3. Beyond("project", adm.pin["project"]) => Beyond("project", adm.pin["project"])'
  BY <1>1, <1>2 DEF Beyond
<1>4. (\E r \in Roots : adm.tips[r] < tip[r]) => \E r \in Roots : adm'.tips[r] < tip'[r]
  BY <1>1
<1>5. adm.binding.serial < binding.serial => adm'.binding.serial < binding'.serial
  BY <1>1 DEF Bindings
<1>6. QED
  BY <1>3, <1>4, <1>5 DEF Overtaken, SourceOnly

\* At the end of the first pass all of it holds at once, or something is beyond it.
LEMMA SeenOnce ==
    ASSUME SourceTypeOK, SeenWhole, adm.at = 6, At("kit", adm.pin["kit"])
    PROVE  \/ Together(adm)
           \/ Beyond("project", adm.pin["project"])
           \/ \E r \in Roots : adm.tips[r] < tip[r]
           \/ ~SourceOnly(adm.frame) /\ adm.binding.serial < binding.serial
<1>1. /\ disk \in [Roots -> Nat] /\ head \in [Roots -> Nat] /\ tip \in [Roots -> Nat]
      /\ adm.pin \in [Roots -> Nat] /\ adm.tips \in [Roots -> Nat]
      /\ binding.serial \in Nat /\ adm.binding.serial \in Nat
  BY DEF SourceTypeOK, AdmissionOK, Bindings
<1>2. Roots = {"project", "kit"}
  BY DEF Roots
<1>3. Beyond("project", adm.pin["project"]) \/ At("project", adm.pin["project"])
  <2>1. Reached("project", adm.pin["project"])
    BY DEF SeenWhole
  <2>2. disk["project"] \in Nat /\ head["project"] \in Nat /\ adm.pin["project"] \in Nat
    BY <1>1, <1>2
  <2>3. QED
    BY <2>1, <2>2 DEF Reached, Beyond, At
<1>4. tip = adm.tips \/ \E r \in Roots : adm.tips[r] < tip[r]
  <2>1. \A r \in Roots : adm.tips[r] <= tip[r] /\ adm.tips[r] \in Nat /\ tip[r] \in Nat
    BY <1>1 DEF SeenWhole
  <2>2. SUFFICES ASSUME \A r \in Roots : ~(adm.tips[r] < tip[r]) PROVE tip = adm.tips
    OBVIOUS
  <2>3. \A r \in Roots : adm.tips[r] = tip[r]
    BY <2>1, <2>2
  <2>4. QED
    BY <1>1, <2>3
<1>5. binding = adm.binding \/ adm.binding.serial < binding.serial
  BY <1>1 DEF SeenWhole
<1>6. QED
  BY <1>2, <1>3, <1>4, <1>5 DEF Together

\* An admission saw everything at once, or will find that it did not.
LEMMA SeenKept ==
    ASSUME SourceTypeOK, NamesBacked, SeenWhole, [SourceNext]_sourceVars
    PROVE  SeenWhole'
<1>1. /\ disk \in [Roots -> Nat] /\ head \in [Roots -> Nat] /\ tip \in [Roots -> Nat]
      /\ AdmissionOK(adm) /\ binding \in Bindings /\ whole \in BOOLEAN
  BY DEF SourceTypeOK
<1>2. CASE UNCHANGED sourceVars
  BY <1>2 DEF sourceVars, env, SeenWhole, Reached, Overtaken, Beyond, SourceOnly
<1>3. SourceNext /\ adm.at > 4 /\ whole /\ adm'.at > 4 => whole'
  BY DEF SourceNext, Noted
<1>4. CASE SourceNext /\ adm' = adm
  <2>1. /\ \A r \in Roots : disk[r] <= disk'[r] /\ head[r] <= head'[r] /\ tip[r] <= tip'[r]
        /\ disk' \in [Roots -> Nat] /\ head' \in [Roots -> Nat] /\ tip' \in [Roots -> Nat]
        /\ \/ binding' = binding
           \/ binding' \in Bindings /\ binding'.serial > binding.serial
    <3>1. CASE UNCHANGED <<env, binding>>
      BY <1>1, <3>1 DEF env
    <3>2. CASE Outside
      BY <3>2, OutsideGrows
    <3>3. CASE \E p \in Producers : Prepares(p)
      BY <3>1, <3>3, PrepareSteps
    <3>4. QED
      BY <1>4, <3>1, <3>2, <3>3 DEF SourceNext, Prepares, Ask, Admit, Forget, Install, Provide
  <2>2. adm.at > 3 => /\ adm.binding.serial <= binding'.serial
                      /\ adm.binding.serial = binding'.serial => adm.binding = binding'
    BY <1>1, <2>1 DEF SeenWhole, AdmissionOK, Bindings
  <2>3. adm.at > 4 => \A r \in Roots : adm.tips[r] <= tip'[r]
    BY <1>1, <2>1 DEF SeenWhole, AdmissionOK
  <2>4. adm.at > 5 => Reached("project", adm.pin["project"])'
    <3>1. adm.pin' = adm.pin /\ "project" \in Roots /\ adm.pin["project"] \in Nat
      BY <1>1, <1>4 DEF AdmissionOK, Roots
    <3>2. QED
      BY <1>1, <1>4, <2>1, <3>1 DEF SeenWhole, Reached
  <2>5. adm.at > 6 => whole' \/ Overtaken(adm)'
    <3>1. adm.at > 6 => adm.at > 4
      BY <1>1 DEF AdmissionOK
    <3>2. adm.at > 6 => (Overtaken(adm) => Overtaken(adm)')
      BY <1>4, <2>1, <3>1, OvertakenStays
    <3>3. adm.at > 6 => (whole => whole')
      BY <1>3, <1>4, <3>1, Zenon
    <3>4. adm.at > 6 => whole \/ Overtaken(adm)
      BY DEF SeenWhole
    <3>5. QED
      BY <3>2, <3>3, <3>4, Zenon
  <2>6. adm.verdict = "admitted" => adm.at = 10 /\ whole'
    BY <1>3, <1>4 DEF SeenWhole
  <2>7. QED
    BY <1>4, <2>2, <2>3, <2>4, <2>5, <2>6 DEF SeenWhole
<1>5. CASE adm'.at \in 0 .. 3 /\ adm'.verdict = None
  <2>1. adm'.at \notin {4, 5, 6, 7, 8, 9, 10} /\ adm'.verdict # "admitted"
    BY <1>5, SourceAssumption
  <2>2. ~(adm'.at > 3) /\ ~(adm'.at > 4) /\ ~(adm'.at > 5) /\ ~(adm'.at > 6)
    BY <1>5
  <2>3. QED
    BY <2>1, <2>2 DEF SeenWhole
<1>6. CASE SourceNext /\ Admit
  <2>1. UNCHANGED <<env, binding>> /\ adm.at \in 1 .. 10 /\ adm.verdict = None
    BY <1>6, AdmitSteps
  <2>2. CASE adm' = NoAdmission
    BY <1>5, <2>2 DEF NoAdmission
  <2>3. CASE /\ Passed(adm, Steps[adm.at]) /\ adm.at < 10
             /\ adm'.at = adm.at + 1 /\ adm'.verdict = None
             /\ adm'.frame = IF adm.at <= 2 THEN graph.frame ELSE adm.frame
             /\ adm'.binding = IF adm.at = 3 THEN binding ELSE adm.binding
             /\ adm'.pin = IF adm.at = 3 THEN receipts[adm.frame.receipt].pin ELSE adm.pin
             /\ adm'.tips = IF adm.at = 4 THEN tip ELSE adm.tips
    <3>1. adm'.at > 3 => /\ adm'.binding.serial <= binding.serial
                         /\ adm'.binding.serial = binding.serial => adm'.binding = binding
      BY <1>1, <2>1, <2>3 DEF SeenWhole, Bindings
    <3>2. adm'.at > 4 => \A r \in Roots : adm'.tips[r] <= tip[r]
      BY <1>1, <2>1, <2>3 DEF SeenWhole
    <3>3. adm.at = 5 => At("project", adm.pin["project"])
      BY <2>3 DEF Passed, Steps
    <3>4. adm'.at > 5 => Reached("project", adm'.pin["project"])
      <4>1. CASE adm.at = 5
        <5>1. disk["project"] \in Nat /\ head["project"] \in Nat
          BY <1>1 DEF Roots
        <5>2. QED
          BY <2>3, <3>3, <4>1, <5>1 DEF At, Reached
      <4>2. CASE adm.at > 5
        BY <2>1, <2>3, <4>2 DEF SeenWhole
      <4>3. QED
        BY <2>1, <2>3, <4>1, <4>2
    <3>5. adm.at >= 6 => whole' \/ Overtaken(adm')
      <4>1. CASE adm.at = 6
        <5>1. At("kit", adm.pin["kit"])
          BY <2>3, <4>1 DEF Passed, Steps
        <5>2. adm'.at > 4
          BY <2>3, <4>1
        <5>3. Together(adm)' => whole'
          BY <1>6, <5>2 DEF SourceNext, Noted
        <5>4. Together(adm) => Together(adm)'
          BY <2>1, <2>3, <4>1 DEF Together, At, env, SourceOnly
        <5>5. adm'.at = 7 /\ adm'.pin = adm.pin /\ adm'.tips = adm.tips /\ adm'.frame = adm.frame
              /\ adm'.binding = adm.binding
          BY <2>3, <4>1
        <5>6. ~Together(adm) => Overtaken(adm')
          BY <4>1, <5>1, <5>5, SeenOnce DEF Overtaken
        <5>7. QED
          BY <5>3, <5>4, <5>6, Zenon
      <4>2. CASE adm.at \in 7 .. 9
        <5>1. whole \/ Overtaken(adm)
          BY <4>2 DEF SeenWhole
        <5>2. whole => whole'
          BY <1>3, <1>6, <2>3, <4>2
        <5>3. adm'.at = adm.at + 1 /\ adm'.pin = adm.pin /\ adm'.tips = adm.tips /\ adm'.frame = adm.frame
              /\ adm'.binding = adm.binding
          BY <2>3, <4>2
        <5>4. adm.at = 7 => ~Beyond("project", adm.pin["project"])
          <6>1. adm.at = 7 => At("project", adm.pin["project"])
            BY <2>3 DEF Passed, Steps
          <6>2. disk["project"] \in Nat /\ head["project"] \in Nat
            BY <1>1 DEF Roots
          <6>3. QED
            BY <6>1, <6>2 DEF At, Beyond
        <5>5. adm.at = 9 => ~\E r \in Roots : adm.tips[r] < tip[r]
          <6>1. adm.at = 9 => tip = adm.tips
            BY <2>3 DEF Passed, Steps
          <6>2. \A r \in Roots : tip[r] \in Nat
            BY <1>1
          <6>3. QED
            BY <6>1, <6>2
        <5>6. Overtaken(adm) => Overtaken(adm')
          BY <4>2, <5>3, <5>4, <5>5 DEF Overtaken
        <5>7. QED
          BY <5>1, <5>2, <5>6
      <4>3. QED
        BY <2>1, <2>3, <4>1, <4>2
    <3>6. adm'.at > 6 => whole' \/ Overtaken(adm)'
      <4>1. Overtaken(adm') => Overtaken(adm)'
        BY <2>1 DEF Overtaken, Beyond, env, SourceOnly
      <4>2. QED
        BY <2>1, <2>3, <3>5, <4>1
    <3>7. Reached("project", adm'.pin["project"]) => Reached("project", adm.pin["project"])'
      BY <2>1 DEF Reached, env
    <3>8. tip' = tip /\ binding' = binding /\ adm'.verdict # "admitted"
      BY <2>1, <2>3, SourceAssumption DEF env
    <3>9. QED
      BY <3>1, <3>2, <3>4, <3>6, <3>7, <3>8 DEF SeenWhole
  <2>4. CASE Passed(adm, "again") /\ adm.at = 10 /\ adm' = [adm EXCEPT !.verdict = "admitted"]
    <3>1. /\ adm'.at = 10 /\ adm'.pin = adm.pin /\ adm'.tips = adm.tips /\ adm'.frame = adm.frame
          /\ adm'.binding = adm.binding
      BY <1>1, <2>4 DEF AdmissionOK, NoAdmission
    <3>2. SourceOnly(adm.frame) \/ binding = adm.binding
      BY <2>4 DEF Passed, Unchanged
    <3>3. ~Overtaken(adm)
      BY <1>1, <2>4, <3>2 DEF Overtaken, Bindings
    <3>4. whole'
      BY <1>3, <1>6, <2>4, <3>1, <3>3 DEF SeenWhole
    <3>5. Reached("project", adm.pin["project"])'
      BY <2>1, <2>4, <3>1 DEF SeenWhole, Reached, env
    <3>6. QED
      BY <2>1, <2>4, <3>1, <3>4, <3>5 DEF SeenWhole, env
  <2>5. QED
    BY <1>6, <2>2, <2>3, <2>4, AdmitSteps
<1>7. CASE Forget \/ Install
  BY <1>5, <1>7 DEF Forget, Install, NoAdmission
<1>8. CASE Ask
  BY <1>5, <1>8, AskSteps
<1>9. QED
  <2>1. CASE SourceNext
    <3>1. CASE (\E p \in Producers : Prepares(p)) \/ Outside \/ Provide
      BY <1>4, <2>1, <3>1, PrepareSteps, OutsideGrows, ProvideSteps
    <3>2. QED
      BY <1>6, <1>7, <1>8, <2>1, <3>1 DEF SourceNext, Prepares
  <2>2. QED
    BY <1>2, <2>1

-----------------------------------------------------------------------------
(* The source theorems *)

\* At the start nothing is written and nobody asks.
LEMMA SourceStarts ==
    SourceInit => SourceInv
<1> SUFFICES ASSUME SourceInit PROVE SourceInv
  OBVIOUS
<1>1. /\ disk = Zero /\ head = Zero /\ tip = Zero /\ Zero \in [Roots -> Nat]
      /\ packets = {} /\ adm = NoAdmission /\ whole = FALSE
      /\ prod = [p \in Producers |-> Idle]
  BY DEF SourceInit, Zero
<1>2. PICK serial \in {0, 1}, schema \in SourceSchemas \cup {"runtime"}, extras \in SUBSET (Extras \cap Tree[0]) :
        /\ receipts = [x \in Paths \cup {First} |->
                        IF x = First THEN Receipt(schema, Zero, extras) ELSE None]
        /\ binding = [receipt |-> First, serial |-> serial]
        /\ graph = [revision |-> 0, frame |-> Frame(First, serial), stray |-> FALSE]
  BY DEF SourceInit
<1>3. Receipt(schema, Zero, extras) \in Receipts
  BY <1>1 DEF Receipt, Receipts
<1>4. /\ receipts \in [Paths \cup {First} -> Receipts \cup {None}]
      /\ receipts[First] # None
  <2> HIDE DEF Receipt
  <2>1. QED
    BY <1>2, <1>3, SourceAssumption
<1>5. /\ binding \in Bindings /\ graph \in Graphs
      /\ binding.receipt = First /\ graph.frame.receipt = First
  BY <1>2 DEF Bindings, Graphs, Frames, Frame
<1>6. PreparationOK(Idle)
  BY DEF PreparationOK, Idle, Preparing, Zero
<1>7. AdmissionOK(NoAdmission)
  BY DEF AdmissionOK, NoAdmission, Zero
<1>8. SourceTypeOK
  BY <1>1, <1>4, <1>5, <1>6, <1>7 DEF SourceTypeOK
<1>9. NamesBacked
  BY <1>1, <1>4, <1>5 DEF NamesBacked, NoAdmission, Idle, Preparing
<1>10. WrittenTrue
  BY <1>1 DEF WrittenTrue, Written, Idle, Preparing
<1>11. SeenWhole
  BY <1>1, SourceAssumption DEF SeenWhole, NoAdmission
<1>12. QED
  BY <1>8, <1>9, <1>10, <1>11 DEF SourceInv

LEMMA SourceKept ==
    SourceInv /\ [SourceNext]_sourceVars => SourceInv'
BY TypeKept, NamesKept, WrittenKept, SeenKept DEF SourceInv

\* The inductive invariant behind the two results below: whatever a frame, a
\* binding, a packet or a preparation names is there, and every producer and every admission saw all of it at once or has yet to
\* come upon the root, ref or installation that moved.
THEOREM SourceInvCorrect == SourceSpec => []SourceInv
<1>1. SourceInit => SourceInv
  BY SourceStarts
<1>2. SourceInv /\ [SourceNext]_sourceVars => SourceInv'
  BY SourceKept
<1>3. QED
  BY <1>1, <1>2, PTL DEF SourceSpec

\* Producer and admission vouch only for what was the case: a receipt answered
\* for was true when it was written, and an admitted source was whole at one
\* moment of its admission, though nothing is locked while they look
\* (operations.py:2169-2201, :2631-2652 and :3163-3186,
\* inspect-delivery-source:715-760).
THEOREM VouchedCorrect == SourceSpec => []VouchedWhole
<1>1. SourceInv => VouchedWhole
  BY DEF SourceInv, WrittenTrue, Written, SeenWhole, VouchedWhole, PublishedWhole, AdmittedWhole
<1>2. QED
  BY <1>1, SourceInvCorrect, PTL

\* What the step to a frame under the content policy keeps.
Covered == graph'.frame # graph.frame /\ Governed(graph.frame)' =>
              /\ SourceOnly(graph.frame)
              /\ receipts[graph.frame.receipt].extras \subseteq receipts'[graph'.frame.receipt].extras

\* Only an install changes the frame, and one that installs a frame under the policy
\* has a packet whose capture is the Workflow it changes.
LEMMA CoverageStep ==
    ASSUME SourceInv, [SourceNext]_sourceVars
    PROVE  Covered
<1>1. SourceTypeOK /\ NamesBacked
  BY DEF SourceInv
<1>2. CASE graph'.frame = graph.frame
  BY <1>2 DEF Covered
<1>3. CASE Install
  <2>1. receipts' = receipts /\ graph'.frame = adm.frame /\ Introduced(adm.frame)
    BY <1>3 DEF Install, Rendered
  <2>2. SUFFICES ASSUME adm.frame # graph.frame, Governed(adm.frame)
                 PROVE  /\ SourceOnly(graph.frame)
                        /\ receipts[graph.frame.receipt].extras \subseteq receipts[adm.frame.receipt].extras
    BY <2>1 DEF Covered, Governed, SourceOnly, Record
  <2>3. PICK k \in packets : k.capture = graph /\ Vouches(k, adm.frame)
    BY <2>1, <2>2 DEF Introduced
  <2>4. SourceOnly(graph.frame)
    BY <2>3 DEF Vouches
  <2>5. Coverage(receipts[graph.frame.receipt], receipts[adm.frame.receipt], k.added)
    BY <2>3 DEF Vouches, Record
  <2>6. QED
    BY <2>4, <2>5 DEF Coverage
<1>4. CASE UNCHANGED graph
  BY <1>2, <1>4
<1>5. CASE Outside
  BY <1>1, <1>2, <1>5, OutsideGrows
<1>6. CASE \E p \in Producers : Prepares(p)
  BY <1>1, <1>4, <1>6, PrepareSteps
<1>7. QED
  BY <1>3, <1>4, <1>5, <1>6 DEF SourceNext, Prepares, Ask, Admit, Forget, Provide, sourceVars

\* A frame under the content policy is introduced only on top of a source-only one and
\* covers all that one covered, however many producers prepared from the same
\* predecessor, whatever became of their packets, and whether or not the Workflow has
\* been outside of the policy before (operations.py:2457-2485, :6362-6455).
THEOREM CoverageCorrect == SourceSpec => CoverageGrows
<1>1. SourceInv /\ [SourceNext]_sourceVars => [Covered]_sourceVars
  BY CoverageStep
<1>2. QED
  BY <1>1, SourceInvCorrect, PTL DEF SourceSpec, CoverageGrows, Covered

-----------------------------------------------------------------------------
(***************************************************************************)
(* Producer packets: what was printed stays readable whoever is killed, and *)
(* what an agent packs is what the producers it names gave.                 *)
(***************************************************************************)
\* What a packet must be to be published.
Acknowledged(d) ==
    d.kind = "decide" /\ d.more = "acknowledge" =>
        \E w \in d.refs : /\ d.refs = {w} /\ w.kind = "watch" /\ w.more # Absent
                          /\ d.given.flat["cursor"] = w.more

Publishable(p) ==
    /\ Form(p.fed) /\ Form(p.given) /\ p.refs \subseteq handed
    /\ Acknowledged(p) /\ (p.kind = "pack" => Honest(p))

\* An agent names at most two packets here.
Couple(refs) == \E a, b : refs = {a, b}

LEMMA Pair ==
    ASSUME NEW a, NEW b
    PROVE  IsFiniteSet({a, b}) /\ (a # b => Cardinality({a, b}) = 2)
<1>1. IsFiniteSet({a}) /\ Cardinality({a}) = 1
  BY FS_Singleton
<1>2. {a, b} = {a} \cup {b}
  OBVIOUS
<1>3. IsFiniteSet({a} \cup {b})
      /\ Cardinality({a} \cup {b}) = IF b \in {a} THEN Cardinality({a}) ELSE Cardinality({a}) + 1
  BY <1>1, FS_AddElement
<1>4. QED
  BY <1>1, <1>2, <1>3

LEMMA PairOfOne ==
    ASSUME NEW a, NEW b, Cardinality({a, b}) = 1 PROVE a = b
<1>1. SUFFICES ASSUME a # b PROVE FALSE
  OBVIOUS
<1>2. Cardinality({a, b}) = 2
  BY <1>1, Pair
<1>3. QED
  BY <1>2

LEMMA OnlyOne ==
    ASSUME NEW S, Couple(S), Cardinality(S) = 1, NEW x \in S, NEW y \in S PROVE x = y
<1>1. PICK a, b : S = {a, b}
  BY DEF Couple
<1>2. Cardinality({a, b}) = 1
  BY <1>1
<1>3. a = b
  <2> HIDE <1>1
  <2>1. QED
    BY <1>2, PairOfOne
<1>4. QED
  BY <1>1, <1>3

\* The value that all agree on is that of whoever has one.
LEMMA OneValue ==
    ASSUME NEW S, IsFiniteSet(S), NEW none, Cardinality(S \ {none}) <= 1, NEW a \in S, a # none
    PROVE  TheOne(S, none) = a
<1>1. IsFiniteSet(S \ {none})
  BY FS_Subset
<1>2. \A v \in S : v # none => v = a
  <2>1. SUFFICES ASSUME NEW v \in S, v # none, v # a PROVE FALSE
    OBVIOUS
  <2>2. {a, v} \subseteq S \ {none} /\ IsFiniteSet({a, v})
    BY <1>1, <2>1, FS_Subset
  <2>3. Cardinality({a, v}) = 2
    BY <2>1, Pair
  <2>4. Cardinality({a, v}) <= Cardinality(S \ {none})
    BY <1>1, <2>2, FS_Subset
  <2>5. Cardinality(S \ {none}) \in Nat
    BY <1>1, FS_CardinalityType
  <2>6. QED
    BY <2>3, <2>4, <2>5
<1>3. ~(S \subseteq {none})
  OBVIOUS
<1>4. QED
  BY <1>2, <1>3 DEF TheOne

LEMMA NoValue ==
    ASSUME NEW S, NEW none PROVE TheOne(S, none) = none \/ TheOne(S, none) \in S
BY DEF TheOne

\* What the packed sources hold is what each of them that holds anything holds.
LEMMA SourcesOf ==
    ASSUME NEW refs, Couple(refs), Agreeing(refs), \A q \in refs : Form(q.given) /\ Form(q.fed)
    PROVE  /\ \A q \in refs, f \in Fields : FieldsOf(q).flat[f] # Absent =>
                Sources(refs).flat[f] = FieldsOf(q).flat[f]
           /\ \A q \in refs : FieldsOf(q).context # NoContext =>
                Sources(refs).context = FieldsOf(q).context
           /\ Sources(refs).context = [f \in Fields |-> Sources(refs).context[f]]
<1>1. ASSUME NEW q \in refs, NEW f \in Fields, FieldsOf(q).flat[f] # Absent
      PROVE  Sources(refs).flat[f] = FieldsOf(q).flat[f]
  <2> DEFINE S == {FieldsOf(p).flat[f] : p \in refs}
  <2>1. IsFiniteSet(S)
    <3>1. PICK a, b : refs = {a, b}
      BY DEF Couple
    <3>2. S = {FieldsOf(a).flat[f], FieldsOf(b).flat[f]}
      BY <3>1
    <3> HIDE DEF S, FieldsOf
    <3>3. QED
      BY <3>2, Pair
  <2>2. Cardinality(S \ {Absent}) <= 1
    BY DEF Agreeing
  <2>3. FieldsOf(q).flat[f] \in S
    OBVIOUS
  <2> HIDE DEF S
  <2>4. TheOne(S, Absent) = FieldsOf(q).flat[f]
    BY <1>1, <2>1, <2>2, <2>3, OneValue
  <2>5. Sources(refs).flat[f] = TheOne(S, Absent)
    BY DEF Sources, S
  <2>6. QED
    BY <2>4, <2>5
<1> DEFINE C == {FieldsOf(p).context : p \in refs}
<1>2. Sources(refs).context = TheOne(C, NoContext)
  BY DEF Sources
<1>3. ASSUME NEW q \in refs, FieldsOf(q).context # NoContext
      PROVE  Sources(refs).context = FieldsOf(q).context
  <2>1. IsFiniteSet(C)
    <3>1. PICK a, b : refs = {a, b}
      BY DEF Couple
    <3>2. C = {FieldsOf(a).context, FieldsOf(b).context}
      BY <3>1
    <3> HIDE DEF C, FieldsOf
    <3>3. QED
      BY <3>2, Pair
  <2>2. Cardinality(C \ {NoContext}) <= 1
    BY DEF Agreeing
  <2>3. FieldsOf(q).context \in C
    OBVIOUS
  <2> HIDE DEF C
  <2>4. QED
    BY <1>2, <1>3, <2>1, <2>2, <2>3, OneValue
<1>4. \A c \in C : c = [f \in Fields |-> c[f]]
  <2>1. SUFFICES ASSUME NEW q \in refs PROVE FieldsOf(q).context = [f \in Fields |-> FieldsOf(q).context[f]]
    OBVIOUS
  <2>2. FieldsOf(q).context \in {q.given.context, q.fed.context}
    BY DEF FieldsOf
  <2>3. QED
    BY <2>2 DEF Form
<1>5. NoContext = [f \in Fields |-> NoContext[f]]
  BY DEF NoContext, Blank
<1> HIDE DEF C
<1>6. Sources(refs).context = [f \in Fields |-> Sources(refs).context[f]]
  BY <1>2, <1>4, <1>5, NoValue
<1>7. QED
  BY <1>1, <1>3, <1>6

\* The flat fields of an envelope are the sources' or their context's.
LEMMA ExpandedFields ==
    ASSUME NEW s, NEW excused, NEW flat \in Expanded(s, excused)
    PROVE  /\ flat = [f \in Fields |-> flat[f]]
           /\ \A f \in Fields :
                flat[f] = IF f \in excused THEN s.flat[f] ELSE Either(s.context[f], s.flat[f])
           /\ \A f \in Fields \ excused :
                Absent \in {s.context[f], s.flat[f]} \/ s.context[f] = s.flat[f]
<1> HIDE DEF Either
<1>1. flat = [f \in Fields |-> IF f \in excused THEN s.flat[f] ELSE Either(s.context[f], s.flat[f])]
  BY DEF Expanded
<1>2. \A f \in Fields \ excused :
        Absent \in {s.context[f], s.flat[f]} \/ s.context[f] = s.flat[f]
  BY DEF Expanded
<1>3. QED
  BY <1>1, <1>2

\* What a completion says of the fields it packs, mode by mode.
LEMMA PackingFields ==
    ASSUME NEW refs, NEW mode, NEW withReport, NEW given \in Packings(refs, mode, withReport)
    PROVE  /\ Agreeing(refs) /\ Qualified(refs)
           /\ \A f \in Fields : given.context[f] # Absent /\ given.flat[f] # Absent
                                    => given.context[f] = given.flat[f]
           /\ \E flat \in Expanded(Sources(refs), Excused(mode, Acknowledges(refs))) :
                /\ given = [flat |-> [flat EXCEPT !.report = IF withReport THEN @ ELSE Absent],
                            context |-> given.context]
                /\ given.context \in Envelope(mode, flat, Sources(refs).context, Acknowledges(refs))
<1> DEFINE s == Sources(refs)
           ack == Acknowledges(refs)
           form(flat, c) == [flat |-> [flat EXCEPT !.report = IF withReport THEN @ ELSE Absent],
                             context |-> c]
           F == UNION {{form(flat, c) : c \in Envelope(mode, flat, s.context, ack)} :
                       flat \in Expanded(s, Excused(mode, ack))}
<1>1. Agreeing(refs) /\ Qualified(refs)
  BY DEF Packings
<1>2. given \in F
  BY <1>1 DEF Packings
<1>3. \A f \in Fields : given.context[f] # Absent /\ given.flat[f] # Absent
                            => given.context[f] = given.flat[f]
  BY <1>1 DEF Packings
<1>4. PICK flat \in Expanded(s, Excused(mode, ack)) :
        \E c \in Envelope(mode, flat, s.context, ack) : given = form(flat, c)
  BY <1>2
<1>5. PICK c \in Envelope(mode, flat, s.context, ack) : given = form(flat, c)
  BY <1>4
<1>6. given.context = c
  BY <1>5
<1>7. QED
  BY <1>1, <1>3, <1>4, <1>5, <1>6

\* The context of a completion is that of its sources, but for what it excuses.
LEMMA EnvelopeOf ==
    ASSUME NEW mode \in {"preserve", "post_pr", "revalidated"}, NEW flat, NEW context, NEW ack,
           NEW c \in Envelope(mode, flat, context, ack)
    PROVE  \/ c = context
           \/ mode = "post_pr" /\ c = flat /\ (context = NoContext \/ ack)
           \/ /\ mode = "revalidated" /\ flat.target \notin {Absent, context.target}
              /\ c = [context EXCEPT !.target = flat.target]
<1>1. CASE mode = "preserve"
  BY <1>1 DEF Envelope
<1>2. CASE mode = "post_pr"
  BY <1>2 DEF Envelope
<1>3. CASE mode = "revalidated"
  BY <1>3 DEF Envelope
<1>4. QED
  BY <1>1, <1>2, <1>3

\* Whatever can be packed is honest, if the decisions among its sources are.
LEMMA PackingHonest ==
    ASSUME NEW refs, Couple(refs),
           \A q \in refs : Form(q.given) /\ Form(q.fed) /\ Acknowledged(q),
           NEW mode \in {"preserve", "post_pr", "revalidated"}, NEW withReport,
           NEW given \in Packings(refs, mode, withReport),
           NEW p, p.given = given, p.refs = refs
    PROVE  Form(given) /\ Honest(p)
<1> DEFINE s == Sources(refs)
           ack == Acknowledges(refs)
           excused == Excused(mode, ack)
<1>1. /\ Agreeing(refs) /\ Qualified(refs)
      /\ \A f \in Fields : given.context[f] # Absent /\ given.flat[f] # Absent
                               => given.context[f] = given.flat[f]
  BY PackingFields
<1>2. PICK flat \in Expanded(s, excused) :
        /\ given = [flat |-> [flat EXCEPT !.report = IF withReport THEN @ ELSE Absent],
                    context |-> given.context]
        /\ given.context \in Envelope(mode, flat, s.context, ack)
  BY PackingFields
<1>3. /\ flat = [f \in Fields |-> flat[f]]
      /\ \A f \in Fields : flat[f] = IF f \in excused THEN s.flat[f] ELSE Either(s.context[f], s.flat[f])
      /\ \A f \in Fields \ excused : Absent \in {s.context[f], s.flat[f]} \/ s.context[f] = s.flat[f]
  BY ExpandedFields
<1>4. /\ \A q \in refs, f \in Fields : FieldsOf(q).flat[f] # Absent => s.flat[f] = FieldsOf(q).flat[f]
      /\ \A q \in refs : FieldsOf(q).context # NoContext => s.context = FieldsOf(q).context
      /\ s.context = [f \in Fields |-> s.context[f]]
  <2>1. \A q \in refs : Form(q.given) /\ Form(q.fed)
    OBVIOUS
  <2> HIDE DEF s
  <2>2. QED
    BY <1>1, <2>1, SourcesOf DEF s
<1> DEFINE c == given.context
<1>5. \/ c = s.context
      \/ mode = "post_pr" /\ c = flat /\ (s.context = NoContext \/ ack)
      \/ /\ mode = "revalidated" /\ flat.target \notin {Absent, s.context.target}
         /\ c = [s.context EXCEPT !.target = flat.target]
  BY <1>2, EnvelopeOf
<1> HIDE DEF s, ack
<1>6. Fields = {"target", "cursor", "report"}
  BY DEF Fields
<1>7. given.flat = [flat EXCEPT !.report = IF withReport THEN @ ELSE Absent]
  BY <1>2
<1>8. /\ given.flat = [f \in Fields |-> given.flat[f]]
      /\ \A f \in Fields : given.flat[f] \in {flat[f], Absent}
  BY <1>3, <1>6, <1>7
<1>9. c = [f \in Fields |-> c[f]]
  BY <1>3, <1>4, <1>5
<1>10. Form(given)
  <2>1. given = [flat |-> given.flat, context |-> given.context]
    BY <1>2, <1>7
  <2>2. QED
    BY <1>8, <1>9, <2>1 DEF Form
<1>11. ASSUME NEW q \in refs, NEW f \in Fields, q.given.flat[f] # Absent
       PROVE  s.flat[f] = q.given.flat[f] /\ flat[f] = q.given.flat[f]
  <2>1. FieldsOf(q).flat[f] = q.given.flat[f]
    BY <1>11 DEF FieldsOf, Either
  <2>2. s.flat[f] = q.given.flat[f]
    BY <1>4, <1>11, <2>1
  <2>3. QED
    BY <1>3, <1>11, <2>2 DEF Either
<1>12. ASSUME NEW q \in refs, NEW f \in Fields, q.given.context[f] \notin {Absent, c[f]}
       PROVE  \/ f = "cursor" /\ q.more = "acknowledge"
                              /\ \E w \in q.refs : w.kind = "watch" /\ c[f] = w.more
              \/ f = "target" /\ c[f] = q.given.flat[f]
  <2>1. q.given.context # NoContext
    BY <1>12 DEF NoContext, Blank
  <2>2. FieldsOf(q).context = q.given.context
    BY <2>1 DEF FieldsOf
  <2>3. s.context = q.given.context
    BY <1>4, <2>1, <2>2
  <2>4. CASE mode = "post_pr" /\ c = flat /\ ack
    <3>1. excused = {"cursor"}
      BY <2>4 DEF Excused
    <3>2. f = "cursor"
      BY <1>3, <1>12, <2>3, <2>4, <3>1 DEF Either
    <3>3. PICK d \in Decisions(refs) : d.more = "acknowledge"
      BY <2>4 DEF Acknowledges, ack
    <3>4. d \in refs /\ d.kind = "decide"
      BY <3>3 DEF Decisions
    <3>5. Cardinality(refs) = 1
      BY <1>1, <3>3 DEF Qualified
    <3>6. q = d
      BY <3>4, <3>5, OnlyOne
    <3>7. PICK w \in d.refs : w.kind = "watch" /\ w.more # Absent /\ d.given.flat["cursor"] = w.more
      BY <3>3, <3>4 DEF Acknowledged
    <3>8. c[f] = w.more
      BY <1>11, <2>4, <3>2, <3>6, <3>7
    <3>9. QED
      BY <3>2, <3>3, <3>6, <3>7, <3>8
  <2>5. CASE mode = "revalidated" /\ flat.target \notin {Absent, s.context.target}
             /\ c = [s.context EXCEPT !.target = flat.target]
    <3>1. f = "target" /\ c[f] = flat["target"]
      BY <1>4, <1>12, <2>3, <2>5
    <3>2. flat["target"] = s.flat["target"]
      <4>1. "target" \in excused
        BY <2>5 DEF Excused
      <4>2. QED
        BY <1>3, <1>6, <4>1
    <3>3. q.given.flat["target"] # Absent
      <4>1. SUFFICES ASSUME q.given.flat["target"] = Absent PROVE FALSE
        OBVIOUS
      <4>2. FieldsOf(q).flat["target"] = q.given.context["target"]
        BY <1>6, <1>12, <3>1, <4>1 DEF FieldsOf, Either
      <4>3. s.flat["target"] = s.context["target"]
        BY <1>4, <1>6, <1>12, <2>3, <3>1, <4>2
      <4>4. QED
        BY <2>5, <3>2, <4>3
    <3>4. QED
      BY <1>6, <1>11, <3>1, <3>2, <3>3
  <2>6. QED
    BY <1>5, <1>12, <2>1, <2>3, <2>4, <2>5
<1>13. QED
  BY <1>1, <1>8, <1>10, <1>11, <1>12 DEF Honest

-----------------------------------------------------------------------------
(* What is published. *)

LEMMA FormOf ==
    ASSUME NEW a, NEW b, a = [f \in Fields |-> a[f]], b = [f \in Fields |-> b[f]]
    PROVE  Form([flat |-> a, context |-> b])
BY DEF Form

LEMMA BlankForms ==
    Form(NoForm) /\ Blank = [f \in Fields |-> Blank[f]]
<1>1. Blank = [f \in Fields |-> Blank[f]]
  BY DEF Blank
<1>2. QED
  BY <1>1, FormOf DEF NoForm, NoContext

LEMMA Couples ==
    \A refs \in {{p, q} : p, q \in handed} : Couple(refs) /\ refs \subseteq handed
BY DEF Couple

\* Every producer publishes a packet again, or one that may be published.
LEMMA ProducersPublish ==
    ASSUME PacketsTypeOK, DecisionsKnown,
           Observe \/ Watch \/ Decide \/ Pack \/ Again \/ Rerun
    PROVE  \E p : Publish(p) /\ (p \in produced \/ Publishable(p))
<1> USE DEF PacketsTypeOK
<1>1. \A p \in produced : Form(p.given) /\ Form(p.fed) /\ Acknowledged(p)
  BY DEF DecisionsKnown, Acknowledged
<1>2. Fed \subseteq handed /\ handed \subseteq produced
  BY DEF Fed
<1>3. CASE Observe
  <2>1. ASSUME NEW target, Publish(Opened(target))
        PROVE  \E p : Publish(p) /\ (p \in produced \/ Publishable(p))
    <3> DEFINE flat == [target |-> target, cursor |-> CHOOSE c \in Cursors : TRUE, report |-> Absent]
    <3>1. flat = [f \in Fields |-> flat[f]]
      BY DEF Fields
    <3>2. Form([flat |-> flat, context |-> NoContext])
      <4> HIDE DEF flat
      <4>1. QED
        BY <3>1, BlankForms, FormOf DEF NoContext
    <3>3. Publishable(Opened(target))
      BY <3>2, BlankForms DEF Publishable, Opened, PacketOf, Acknowledged
    <3>4. QED
      BY <2>1, <3>3
  <2>2. ASSUME NEW target, NEW q \in Fed, Publish(Retargeted(q, target))
        PROVE  \E p : Publish(p) /\ (p \in produced \/ Publishable(p))
    <3> DEFINE flat == [q.given.context EXCEPT !.target = target]
               given == [q.given EXCEPT !.flat = flat]
    <3>1. Form(q.given)
      BY <1>1, <1>2
    <3>2. flat = [f \in Fields |-> flat[f]]
      BY <3>1 DEF Form
    <3>3. given = [flat |-> flat, context |-> q.given.context]
      <4> HIDE DEF flat
      <4>1. QED
        BY <3>1 DEF Form
    <3>4. q.given.context = [f \in Fields |-> q.given.context[f]]
      BY <3>1 DEF Form
    <3>5. Form(given)
      <4> HIDE DEF flat, given
      <4>1. QED
        BY <3>2, <3>3, <3>4, FormOf
    <3>6. Retargeted(q, target) = PacketOf("observe", q.given, given, {q}, Script, "none")
      BY DEF Retargeted
    <3> HIDE DEF given, flat
    <3>7. Publishable(Retargeted(q, target))
      BY <1>2, <3>1, <3>5, <3>6 DEF Publishable, PacketOf, Acknowledged
    <3>8. QED
      BY <2>2, <3>7
  <2>3. QED
    BY <1>3, <2>1, <2>2 DEF Observe
<1>4. CASE Watch
  <2>1. PICK q \in Fed, report \in Reports, candidate \in Cursors \cup {Absent}, recovers \in BOOLEAN :
          LET fed   == q.given
              known == [target |-> fed.flat.target, cursor |-> fed.flat.cursor, report |-> report]
              given == IF recovers THEN [flat |-> [known EXCEPT !.report = Absent], context |-> known]
                       ELSE [flat |-> known, context |-> NoContext]
          IN Publish(PacketOf("watch", fed, given, {q}, Script, candidate))
    BY <1>4 DEF Watch
  <2> DEFINE known == [target |-> q.given.flat.target, cursor |-> q.given.flat.cursor, report |-> report]
             bare == [known EXCEPT !.report = Absent]
             given == IF recovers THEN [flat |-> bare, context |-> known]
                      ELSE [flat |-> known, context |-> NoContext]
  <2>2. known = [f \in Fields |-> known[f]] /\ bare = [f \in Fields |-> bare[f]]
    BY DEF Fields
  <2>3. Publish(PacketOf("watch", q.given, given, {q}, Script, candidate))
    BY <2>1
  <2> HIDE DEF known, bare
  <2>4. Form(given)
    BY <2>2, FormOf, BlankForms DEF NoContext
  <2> HIDE DEF given
  <2>5. Publishable(PacketOf("watch", q.given, given, {q}, Script, candidate))
    BY <1>1, <1>2, <2>4 DEF Publishable, PacketOf, Acknowledged
  <2>6. QED
    BY <2>3, <2>5
<1>5. CASE Decide
  <2>1. PICK q \in handed, choice \in {"acknowledge", "preserve"} :
          /\ q.kind = "watch"
          /\ choice = "acknowledge" => q.more # Absent
          /\ Publish(PacketOf("decide", NoForm,
                              IF choice = "preserve" THEN q.given ELSE [q.given EXCEPT !.flat.cursor = q.more],
                              {q}, step, choice))
    BY <1>5 DEF Decide
  <2> DEFINE flat == [q.given.flat EXCEPT !.cursor = q.more]
             acked == [q.given EXCEPT !.flat.cursor = q.more]
             given == IF choice = "preserve" THEN q.given ELSE acked
             d == PacketOf("decide", NoForm, given, {q}, step, choice)
  <2>2. Form(q.given) /\ q \in produced
    BY <1>1, <1>2
  <2>3. flat = [f \in Fields |-> flat[f]] /\ flat["cursor"] = q.more
    BY <2>2 DEF Form, Fields
  <2>4. acked = [flat |-> flat, context |-> q.given.context]
    <3>1. q.given = [flat |-> q.given.flat, context |-> q.given.context]
      BY <2>2 DEF Form
    <3>2. acked = [q.given EXCEPT !.flat = flat]
      OBVIOUS
    <3> HIDE DEF flat, acked
    <3>3. QED
      BY <3>1, <3>2
  <2>5. q.given.context = [f \in Fields |-> q.given.context[f]]
    BY <2>2 DEF Form
  <2>6. Publish(d)
    BY <2>1
  <2> HIDE DEF flat, acked
  <2>7. Form(acked) /\ acked.flat["cursor"] = q.more
    BY <2>3, <2>4, <2>5, FormOf
  <2>8. Form(given)
    BY <2>2, <2>7
  <2>9. d.refs = {q} /\ d.kind = "decide" /\ d.more = choice /\ d.given = given /\ d.fed = NoForm
    BY DEF PacketOf
  <2>10. choice = "acknowledge" => q.more # Absent /\ given.flat["cursor"] = q.more
    BY <2>1, <2>7
  <2> HIDE DEF given, d
  <2>11. Acknowledged(d)
    BY <2>1, <2>9, <2>10 DEF Acknowledged
  <2>12. Publishable(d)
    BY <2>8, <2>9, <2>11, BlankForms DEF Publishable
  <2>13. QED
    BY <2>6, <2>12
<1>6. CASE Pack
  <2>1. PICK refs \in {{p, q} : p, q \in handed} :
          \E mode \in {"preserve", "post_pr", "revalidated"}, withReport \in BOOLEAN :
            \E given \in Packings(refs, mode, withReport) :
              Publish(PacketOf("pack", NoForm, given, refs, step, "none"))
    BY <1>6 DEF Pack
  <2>2. PICK mode \in {"preserve", "post_pr", "revalidated"}, withReport \in BOOLEAN :
          \E given \in Packings(refs, mode, withReport) :
            Publish(PacketOf("pack", NoForm, given, refs, step, "none"))
    BY <2>1
  <2>3. PICK given \in Packings(refs, mode, withReport) :
          Publish(PacketOf("pack", NoForm, given, refs, step, "none"))
    BY <2>2
  <2>4. Couple(refs) /\ refs \subseteq handed
    BY Couples
  <2>5. \A q \in refs : Form(q.given) /\ Form(q.fed) /\ Acknowledged(q)
    BY <1>1, <1>2, <2>4
  <2> DEFINE p == PacketOf("pack", NoForm, given, refs, step, "none")
  <2>6. p.given = given /\ p.refs = refs /\ p.fed = NoForm /\ p.kind = "pack"
    BY DEF PacketOf
  <2>7. Publish(p)
    BY <2>3
  <2> HIDE DEF p
  <2>8. Form(given) /\ Honest(p)
    BY <2>4, <2>5, <2>6, PackingHonest
  <2>9. Publishable(p)
    BY <2>4, <2>6, <2>8, BlankForms DEF Publishable, Acknowledged
  <2>10. QED
    BY <2>7, <2>9
<1>7. CASE Again
  BY <1>7 DEF Again
<1>8. CASE Rerun
  BY <1>2, <1>8 DEF Rerun
<1>9. QED
  BY <1>3, <1>4, <1>5, <1>6, <1>7, <1>8

LEMMA PublishKeeps ==
    ASSUME PacketsInv, NEW p, Publish(p), p \in produced \/ Publishable(p)
    PROVE  PacketsInv'
<1> USE DEF PacketsInv
<1>1. /\ writer.pc = "idle" /\ writer' = [pc |-> "settle", packet |-> p, part |-> "base"]
      /\ produced' = produced \cup {p}
      /\ handed' = handed /\ final' = final /\ temporary' = temporary
      /\ refused' = refused /\ republished' = republished
  BY DEF Publish, files, history, IdleWriter
<1>2. writer'.pc = "settle" /\ writer'.packet = p /\ writer'.part = "base"
  BY <1>1
<1>3. PacketsTypeOK'
  <2>1. \A q \in produced' : Form(q.fed) /\ Form(q.given) /\ q.refs \subseteq handed'
    BY <1>1 DEF PacketsTypeOK, Publishable
  <2>2. handed' \subseteq produced'
    BY <1>1 DEF PacketsTypeOK
  <2>3. \A t \in temporary' : t = [name |-> t.name, linked |-> t.linked] /\ t.linked \in BOOLEAN
    BY <1>1 DEF PacketsTypeOK
  <2>4. writer.packet' \in produced' /\ writer.part' \in Parts
    BY <1>1 DEF Parts
  <2>5. QED
    BY <1>1, <1>2, <2>1, <2>2, <2>3, <2>4 DEF PacketsTypeOK
<1>4. FilesClear'
  BY <1>1, <1>2 DEF FilesClear, Readable
<1>5. RemainsKnown' /\ RefusedOnlyRepublished'
  BY <1>1, <1>2 DEF RemainsKnown, RefusedOnlyRepublished
<1>6. DecisionsKnown'
  BY <1>1 DEF DecisionsKnown, Publishable, Acknowledged
<1>7. PackedHonest'
  BY <1>1 DEF PackedHonest, Publishable
<1>8. QED
  BY <1>3, <1>4, <1>5, <1>6, <1>7

-----------------------------------------------------------------------------
(* Publishing, file operation by file operation. *)

\* A readable packet stays readable while nothing in place is linked again.
LEMMA StaysClear ==
    ASSUME final \subseteq final',
           \A t \in temporary' : t.linked => t \in temporary \/ t.name \notin final
    PROVE  /\ \A name : Clear(name) => Clear(name)'
           /\ \A p : Readable(p) => Readable(p)'
<1>1. \A name : Clear(name) => Clear(name)'
  BY DEF Clear
<1>2. \A p : Readable(p) => Readable(p)'
  BY DEF Readable
<1>3. QED
  BY <1>1, <1>2

LEMMA BothClear ==
    ASSUME NEW p, Clear(<<"base", p>>), Clear(<<"emitted", p>>) PROVE Readable(p)
BY DEF Clear, Readable, Names, Parts

LEMMA QuietPackets ==
    ASSUME produced' = produced, DecisionsKnown, PackedHonest
    PROVE  DecisionsKnown' /\ PackedHonest'
BY DEF DecisionsKnown, PackedHonest

LEMMA CompleteKeeps == ASSUME PacketsInv, Complete PROVE PacketsInv'
<1>1. /\ produced' = produced /\ handed' = handed /\ final' = final /\ temporary' = temporary
      /\ writer' = writer /\ refused' = refused /\ republished' = republished
  BY DEF Complete, files, history
<1>2. PacketsTypeOK' /\ FilesClear' /\ RemainsKnown' /\ RefusedOnlyRepublished'
  BY <1>1 DEF PacketsInv, PacketsTypeOK, FilesClear, RemainsKnown, RefusedOnlyRepublished,
              Readable, Clear, Left, Name
<1>3. QED
  BY <1>1, <1>2, QuietPackets DEF PacketsInv

LEMMA SettleKeeps == ASSUME PacketsInv, SettleLeft PROVE PacketsInv'
<1> USE DEF PacketsInv
<1>1. /\ produced' = produced /\ handed' = handed /\ final' = final
      /\ temporary' = temporary \ Left
      /\ writer.pc = "settle" /\ writer' = [writer EXCEPT !.pc = "create"]
      /\ refused' = refused /\ republished' = republished
  BY DEF SettleLeft, history, GoOn
<1>2. /\ writer = [pc |-> writer.pc, packet |-> writer.packet, part |-> writer.part]
      /\ writer.packet \in produced /\ writer.part \in Parts
  BY <1>1 DEF PacketsTypeOK, IdleWriter
<1>3. writer' = [pc |-> "create", packet |-> writer.packet, part |-> writer.part]
  BY <1>1, <1>2
<1>4. Name' = Name /\ Left' = {}
  BY <1>1, <1>3 DEF Name, Left
<1>5. PacketsTypeOK'
  BY <1>1, <1>2, <1>3 DEF PacketsTypeOK
<1>6. FilesClear'
  <2>1. \A t \in temporary' : t \in temporary
    BY <1>1
  <2>2. /\ \A name : Clear(name) => Clear(name)'
        /\ \A p : Readable(p) => Readable(p)'
    BY <1>1, <2>1, StaysClear
  <2>3. writer.part' = "emitted" => Clear(<<"base", writer.packet>>)'
    <3>1. writer.part = "emitted" => Clear(<<"base", writer.packet>>)
      BY <1>1 DEF FilesClear
    <3>2. QED
      BY <1>3, <2>2, <3>1
  <2>4. QED
    BY <1>1, <1>3, <1>4, <2>1, <2>2, <2>3 DEF FilesClear
<1>7. RemainsKnown' /\ RefusedOnlyRepublished'
  BY <1>1 DEF RemainsKnown, RefusedOnlyRepublished
<1>8. QED
  BY <1>1, <1>5, <1>6, <1>7, QuietPackets

LEMMA RefuseKeeps == ASSUME PacketsInv, Refuse PROVE PacketsInv'
<1> USE DEF PacketsInv
<1>1. /\ produced' = produced /\ handed' = handed /\ final' = final /\ temporary' = temporary
      /\ writer.pc = "settle" /\ writer' = IdleWriter /\ writer'.pc = "idle"
      /\ refused' = refused \cup {Name} /\ republished' = republished
  BY DEF Refuse, files, IdleWriter
<1>2. Name \in republished
  <2>1. PICK t \in Left : ~SettledFile(t)
    BY DEF Refuse
  <2>2. t \in temporary /\ t.name = Name /\ t.name \in final /\ ~t.linked
    BY <2>1 DEF Left, SettledFile
  <2>3. QED
    BY <1>1, <2>2 DEF RemainsKnown
<1>3. PacketsTypeOK' /\ FilesClear'
  BY <1>1 DEF PacketsTypeOK, FilesClear, Readable
<1>4. RemainsKnown' /\ RefusedOnlyRepublished'
  BY <1>1, <1>2 DEF RemainsKnown, RefusedOnlyRepublished
<1>5. QED
  BY <1>1, <1>3, <1>4, QuietPackets

LEMMA CreateKeeps == ASSUME PacketsInv, Create PROVE PacketsInv'
<1> USE DEF PacketsInv
<1> DEFINE new == [name |-> Name, linked |-> FALSE]
<1>1. /\ produced' = produced /\ handed' = handed /\ final' = final
      /\ temporary' = temporary \cup {new}
      /\ writer.pc = "create" /\ writer' = [writer EXCEPT !.pc = "link"]
      /\ refused' = refused /\ republished' = republished
  BY DEF Create, history, GoOn
<1>2. /\ writer = [pc |-> writer.pc, packet |-> writer.packet, part |-> writer.part]
      /\ writer.packet \in produced /\ writer.part \in Parts
  BY <1>1 DEF PacketsTypeOK, IdleWriter
<1>3. writer' = [pc |-> "link", packet |-> writer.packet, part |-> writer.part]
  BY <1>1, <1>2
<1>4. Name' = Name /\ Left = {}
  BY <1>1, <1>3 DEF Name, FilesClear
<1>5. new.name = Name /\ new.linked = FALSE /\ new = [name |-> new.name, linked |-> new.linked]
  OBVIOUS
<1> HIDE DEF new
<1>6. PacketsTypeOK'
  BY <1>1, <1>2, <1>3, <1>5 DEF PacketsTypeOK
<1>7. FilesClear'
  <2>1. \A t \in temporary' : t.linked => t \in temporary
    BY <1>1, <1>5
  <2>2. /\ \A name : Clear(name) => Clear(name)'
        /\ \A p : Readable(p) => Readable(p)'
    BY <1>1, <2>1, StaysClear
  <2>3. writer.part' = "emitted" => Clear(<<"base", writer.packet>>)'
    <3>1. writer.part = "emitted" => Clear(<<"base", writer.packet>>)
      BY <1>1 DEF FilesClear
    <3>2. QED
      BY <1>3, <2>2, <3>1
  <2>4. \A t \in Left' : ~t.linked
    BY <1>1, <1>4, <1>5 DEF Left
  <2>5. QED
    BY <1>1, <1>3, <2>1, <2>2, <2>3, <2>4 DEF FilesClear
<1>8. RemainsKnown' /\ RefusedOnlyRepublished'
  BY <1>1, <1>3, <1>4, <1>5 DEF RemainsKnown, RefusedOnlyRepublished
<1>9. QED
  BY <1>1, <1>6, <1>7, <1>8, QuietPackets

LEMMA LinkKeeps == ASSUME PacketsInv, Link PROVE PacketsInv'
<1> USE DEF PacketsInv
<1> DEFINE new == [name |-> Name, linked |-> TRUE]
<1>1. /\ produced' = produced /\ handed' = handed
      /\ writer.pc = "link" /\ writer' = [writer EXCEPT !.pc = "unlink"]
      /\ refused' = refused /\ republished' = republished
  BY DEF Link, history, GoOn
<1>2. \/ Name \in final /\ final' = final /\ temporary' = temporary
      \/ /\ Name \notin final /\ final' = final \cup {Name}
         /\ temporary' = (temporary \ Left) \cup {new}
  BY DEF Link, files
<1>3. /\ writer = [pc |-> writer.pc, packet |-> writer.packet, part |-> writer.part]
      /\ writer.packet \in produced /\ writer.part \in Parts
  BY <1>1 DEF PacketsTypeOK, IdleWriter
<1>4. writer' = [pc |-> "unlink", packet |-> writer.packet, part |-> writer.part]
  BY <1>1, <1>3
<1>5. Name' = Name
  BY <1>4 DEF Name
<1>6. new.name = Name /\ new.linked = TRUE /\ new = [name |-> new.name, linked |-> new.linked]
  OBVIOUS
<1> HIDE DEF new
<1>7. PacketsTypeOK'
  BY <1>1, <1>2, <1>3, <1>4, <1>6 DEF PacketsTypeOK
<1>8. FilesClear'
  <2>1. \A t \in temporary' : t.linked => t \in temporary \/ t.name \notin final
    BY <1>2, <1>6
  <2>2. /\ \A name : Clear(name) => Clear(name)'
        /\ \A p : Readable(p) => Readable(p)'
    BY <1>2, <2>1, StaysClear
  <2>3. writer.part' = "emitted" => Clear(<<"base", writer.packet>>)'
    <3>1. writer.part = "emitted" => Clear(<<"base", writer.packet>>)
      BY <1>1 DEF FilesClear
    <3>2. QED
      BY <1>4, <2>2, <3>1
  <2>4. \A t \in temporary' : t.linked => t.name \in final'
    BY <1>2, <1>6 DEF FilesClear
  <2>5. Name' \in final'
    BY <1>2, <1>5
  <2>6. QED
    BY <1>1, <1>4, <2>2, <2>3, <2>4, <2>5 DEF FilesClear
<1>9. RemainsKnown'
  <2>1. SUFFICES ASSUME NEW t \in temporary', t.name \in final', ~t.linked, t.name # Name
                 PROVE  t.name \in republished
    BY <1>1, <1>4, <1>5 DEF RemainsKnown
  <2>2. t \in temporary /\ t.name \in final
    BY <1>2, <1>6, <2>1
  <2>3. QED
    BY <2>1, <2>2 DEF RemainsKnown
<1>10. RefusedOnlyRepublished'
  BY <1>1 DEF RefusedOnlyRepublished
<1>11. QED
  BY <1>1, <1>7, <1>8, <1>9, <1>10, QuietPackets

LEMMA UnlinkKeeps == ASSUME PacketsInv, Unlink PROVE PacketsInv'
<1> USE DEF PacketsInv
<1>1. /\ produced' = produced /\ handed' = handed /\ final' = final
      /\ temporary' = temporary \ Left
      /\ writer.pc = "unlink"
      /\ writer' = [writer EXCEPT !.pc = After(writer.part), !.part = "emitted"]
      /\ refused' = refused /\ republished' = republished
  BY DEF Unlink, history
<1>2. /\ writer = [pc |-> writer.pc, packet |-> writer.packet, part |-> writer.part]
      /\ writer.packet \in produced /\ writer.part \in Parts
  BY <1>1 DEF PacketsTypeOK, IdleWriter
<1>3. writer' = [pc |-> After(writer.part), packet |-> writer.packet, part |-> "emitted"]
  BY <1>1, <1>2
<1>4. \/ writer.part = "base" /\ writer.pc' = "settle"
      \/ writer.part = "emitted" /\ writer.pc' = "print"
  BY <1>2, <1>3 DEF After, Parts
<1>5. PacketsTypeOK'
  BY <1>1, <1>2, <1>3, <1>4 DEF PacketsTypeOK, Parts
<1>6. FilesClear'
  <2>1. \A t \in temporary' : t \in temporary
    BY <1>1
  <2>2. /\ \A name : Clear(name) => Clear(name)'
        /\ \A p : Readable(p) => Readable(p)'
    BY <1>1, <2>1, StaysClear
  <2>3. PICK name : name = Name
    OBVIOUS
  <2>4. Clear(name)'
    BY <1>1, <2>3 DEF FilesClear, Clear, Left
  <2>5. Clear(<<"base", writer.packet>>)'
    <3>1. CASE writer.part = "base"
      BY <1>3, <2>3, <2>4, <3>1 DEF Name
    <3>2. CASE writer.part = "emitted"
      <4>1. Clear(<<"base", writer.packet>>)
        BY <1>1, <3>2 DEF FilesClear
      <4>2. QED
        BY <1>3, <2>2, <4>1
    <3>3. QED
      BY <1>4, <3>1, <3>2
  <2>6. writer.pc' = "print" => Readable(writer.packet)'
    <3>1. SUFFICES ASSUME writer.part = "emitted" PROVE Readable(writer.packet)'
      BY <1>4
    <3>2. Clear(<<"emitted", writer.packet>>)'
      BY <1>3, <2>3, <2>4, <3>1 DEF Name
    <3>3. PICK p : p = writer.packet'
      OBVIOUS
    <3>4. Clear(<<"base", p>>)' /\ Clear(<<"emitted", p>>)'
      BY <2>5, <3>2, <3>3
    <3>5. Readable(p)'
      BY <3>4 DEF Clear, Readable, Names, Parts
    <3>6. QED
      BY <3>3, <3>5
  <2>7. QED
    BY <1>1, <1>4, <2>1, <2>2, <2>5, <2>6 DEF FilesClear
<1>7. RemainsKnown' /\ RefusedOnlyRepublished'
  BY <1>1 DEF RemainsKnown, RefusedOnlyRepublished, Left
<1>8. QED
  BY <1>1, <1>5, <1>6, <1>7, QuietPackets

LEMMA AnnounceKeeps == ASSUME PacketsInv, Announce PROVE PacketsInv'
<1> USE DEF PacketsInv
<1>1. /\ produced' = produced /\ handed' = handed \cup {writer.packet}
      /\ final' = final /\ temporary' = temporary
      /\ writer.pc = "print" /\ writer' = IdleWriter /\ writer'.pc = "idle"
      /\ refused' = refused /\ republished' = republished
  BY DEF Announce, files, history, IdleWriter
<1>2. writer.packet \in produced /\ Readable(writer.packet)
  BY <1>1 DEF PacketsTypeOK, IdleWriter, FilesClear
<1>3. PacketsTypeOK'
  BY <1>1, <1>2 DEF PacketsTypeOK
<1>4. FilesClear'
  <2>1. \A p : Readable(p) => Readable(p)'
    BY <1>1 DEF Readable
  <2>2. QED
    BY <1>1, <1>2, <2>1 DEF FilesClear
<1>5. RemainsKnown' /\ RefusedOnlyRepublished'
  BY <1>1 DEF RemainsKnown, RefusedOnlyRepublished
<1>6. QED
  BY <1>1, <1>3, <1>4, <1>5, QuietPackets

LEMMA KilledKeeps == ASSUME PacketsInv, Killed PROVE PacketsInv'
<1> USE DEF PacketsInv
<1>1. /\ produced' = produced /\ handed' = handed /\ final' = final /\ temporary' = temporary
      /\ writer' = IdleWriter /\ writer'.pc = "idle"
      /\ refused' = refused
      /\ republished' = republished \cup {t.name : t \in {u \in Left : u.name \in final /\ ~u.linked}}
  BY DEF Killed, files, IdleWriter
<1>2. PacketsTypeOK' /\ FilesClear'
  BY <1>1 DEF PacketsTypeOK, FilesClear, Readable
<1>3. RefusedOnlyRepublished'
  BY <1>1 DEF RefusedOnlyRepublished
<1>4. RemainsKnown'
  BY <1>1 DEF RemainsKnown, Left
<1>5. QED
  BY <1>1, <1>2, <1>3, <1>4, QuietPackets

LEMMA StutterKeepsPackets == ASSUME PacketsInv, UNCHANGED packetVars PROVE PacketsInv'
<1>1. /\ produced' = produced /\ handed' = handed /\ final' = final /\ temporary' = temporary
      /\ writer' = writer /\ refused' = refused /\ republished' = republished
  BY DEF packetVars
<1>2. PacketsTypeOK' /\ FilesClear' /\ RemainsKnown' /\ RefusedOnlyRepublished'
  BY <1>1 DEF PacketsInv, PacketsTypeOK, FilesClear, RemainsKnown, RefusedOnlyRepublished,
              Readable, Clear, Left, Name
<1>3. QED
  BY <1>1, <1>2, QuietPackets DEF PacketsInv

\* The inductive invariant of publishing and packing: what the files of every
\* packet may look like between two file operations, and what a packet holds.
THEOREM PacketsInvCorrect == PacketsSpec => []PacketsInv
<1>1. PacketsInit => PacketsInv
  BY DEF PacketsInit, PacketsInv, PacketsTypeOK, FilesClear, RemainsKnown, RefusedOnlyRepublished,
         DecisionsKnown, PackedHonest, IdleWriter
<1>2. PacketsInv /\ [PacketsNext]_packetVars => PacketsInv'
  <2>1. SUFFICES ASSUME PacketsInv, [PacketsNext]_packetVars PROVE PacketsInv'
    OBVIOUS
  <2>2. CASE Observe \/ Watch \/ Decide \/ Pack \/ Again \/ Rerun
    <3>1. \E p : Publish(p) /\ (p \in produced \/ Publishable(p))
      BY <2>1, <2>2, ProducersPublish DEF PacketsInv
    <3>2. QED
      BY <2>1, <3>1, PublishKeeps
  <2>3. QED
    BY <2>1, <2>2, CompleteKeeps, SettleKeeps, RefuseKeeps, CreateKeeps, LinkKeeps, UnlinkKeeps,
       AnnounceKeeps, KilledKeeps, StutterKeepsPackets DEF PacketsNext
<1>3. QED
  BY <1>1, <1>2, PTL DEF PacketsSpec

\* Packets whose locators were printed stay readable, with all they build on,
\* and only a killed second publication can make a later one refused
\* (delivery.py:1049-1094).
THEOREM PublicationCorrect == PacketsSpec => []PublicationSound
<1>1. PacketsInv => PublicationSound
  BY DEF PacketsInv, PublicationSound, HandedReadable, FilesClear, PacketsTypeOK
<1>2. QED
  BY <1>1, PacketsInvCorrect, PTL

\* What an agent packs is what the producers it names gave, not what they were
\* fed (delivery.py:1900-2117).
THEOREM PackedCorrect == PacketsSpec => []PackedHonest
<1>1. PacketsInv => PackedHonest
  BY DEF PacketsInv
<1>2. QED
  BY <1>1, PacketsInvCorrect, PTL
=============================================================================
