------------------------ MODULE ResourceLockProofs -------------------------
(* Theorems about ResourceLock, for any callers, resources and TTLs. *)
EXTENDS ResourceLock, TLAPS

Basics == TypeOK /\ Custody

LEMMA Initially == Init => Basics /\ Backed /\ Pending
  <1> SUFFICES ASSUME Init PROVE Basics /\ Backed /\ Pending
    OBVIOUS
  <1>1. TypeOK
    BY DEF Init, TypeOK, Dirs, Empty, Calls, NoCall, Ops
  <1>2. Custody /\ Backed /\ Pending
    BY DEF Init, NoCall, Custody, Backed, BackedAt, Pending, PendingOf, Inside, Removing,
       Writing
  <1> QED BY <1>1, <1>2 DEF Basics

-----------------------------------------------------------------------------
(* One lemma per group of actions: types and custody. *)

LEMMA CallBasics ==
    ASSUME Basics, NEW c \in Callers, CallAcquire(c) \/ CallResume(c) \/ CallRelease(c)
    PROVE  Basics'
  <1> USE LockAssumption DEF Basics
  <1>1. PICK q \in Calls, r \in Resources, n \in Nat :
            /\ Issue(c, q, r, n) /\ minted' \in Nat
            /\ q.op = "acquire" => q.ttl \in Ttls
            /\ q.op \in {"resume", "resume-owned"} => c \in Sessions
    <2>1. know[c] \subseteq Nat /\ minted \in Nat /\ Ttls \subseteq Nat /\ Rounds \in Nat
      BY DEF TypeOK
    <2>2. CASE CallAcquire(c)
      <3>1. PICK want \in SUBSET Resources, ttl \in Ttls, r \in Resources :
                Issue(c, [op |-> "acquire", token |-> minted + 1, ttl |-> ttl,
                          want |-> want], r, Rounds)
        BY <2>2 DEF CallAcquire
      <3>2. [op |-> "acquire", token |-> minted + 1, ttl |-> ttl, want |-> want] \in Calls
        BY <2>1 DEF Calls, Ops
      <3>3. minted' \in Nat
        BY <2>1, <2>2 DEF CallAcquire
      <3> QED BY <2>1, <3>1, <3>2, <3>3
    <2>3. CASE CallResume(c)
      <3>1. PICK op \in {"resume", "resume-owned"}, t \in Nat, r \in Resources :
                Issue(c, [op |-> op, token |-> t, ttl |-> 0, want |-> {r}], r, 0)
        BY <2>1, <2>3 DEF CallResume
      <3>2. [op |-> op, token |-> t, ttl |-> 0, want |-> {r}] \in Calls
        BY DEF Calls, Ops
      <3>3. minted' \in Nat /\ c \in Sessions
        BY <2>1, <2>3 DEF CallResume
      <3> QED BY <3>1, <3>2, <3>3
    <2>4. CASE CallRelease(c)
      <3>1. PICK t \in Nat, r \in Resources :
                Issue(c, [op |-> "release", token |-> t, ttl |-> 0, want |-> {r}], r, 0)
        BY <2>1, <2>4 DEF CallRelease
      <3>2. [op |-> "release", token |-> t, ttl |-> 0, want |-> {r}] \in Calls
        BY DEF Calls, Ops
      <3>3. minted' \in Nat
        BY <2>1, <2>4 DEF CallRelease
      <3> QED BY <3>1, <3>2, <3>3
    <2> QED BY <2>2, <2>3, <2>4
  <1>2. TypeOK'
    BY <1>1 DEF Issue, TypeOK, Calls
  <1>3. Custody'
    BY <1>1 DEF Issue, TypeOK, Custody, Inside, Removing, Writing
  <1> QED BY <1>2, <1>3

LEMMA OwnerType ==
    ASSUME TypeOK, NEW c \in Callers, NEW t \in Nat
    PROVE  Owner(c, t) \in Owners /\ Owner(c, t).at = clock
  BY DEF TypeOK, Owner, Owners, Kind

LEMMA SnapshotType ==
    ASSUME TypeOK, NEW r \in Resources, Snapshot(r) \in {"session", "script"}
    PROVE  disk[r].there /\ disk[r].owner \in Owners /\ disk[r].owner.kind = Snapshot(r)
  BY DEF TypeOK, Snapshot, Torn, Dirs

LEMMA EnterBasics ==
    ASSUME Basics, NEW c \in Callers, Enter(c)
    PROVE  Basics'
  <1> USE LockAssumption DEF Basics
  <1> DEFINE r == res[c]
  <1>0. r \in Resources /\ call[c] \in Calls /\ call[c].token \in Nat
    BY DEF TypeOK, Calls
  <1>1. PICK next \in Inside :
            /\ GuardFree(c)
            /\ Take(c, next)
            /\ UNCHANGED minted
            /\ next \in Writing => call[c].op # "release"
            /\ next # "recheck" => next \in {"verify", "mkdir", "busy", "fail", "ok"}
            /\ next = "ok" => call[c].op = "release"
            /\ next \in Removing \cup Writing /\ call[c].op # "release" =>
                   \E t \in Nat : draft' = [draft EXCEPT ![c] = Owner(c, t)]
            /\ ~(next \in Removing \cup Writing /\ call[c].op # "release") => draft' = draft
    <2>1. CASE Acquire(c)
      BY <2>1, <1>0 DEF Acquire, Take, Inside, Removing, Writing
    <2>2. CASE Resume(c)
      BY <2>2, <1>0 DEF Resume, Take, Inside, Removing, Writing
    <2>3. CASE ResumeOwned(c)
      <3>1. Owned(c) => disk[res[c]].owner.token \in Nat
        BY <1>0, SnapshotType DEF Owned, Owners
      <3> QED BY <2>3, <1>0, <3>1 DEF ResumeOwned, Take, Inside, Removing, Writing
    <2>4. CASE Release(c)
      BY <2>4, <1>0 DEF Release, Take, Inside, Removing, Writing
    <2> QED BY <2>1, <2>2, <2>3, <2>4 DEF Enter
  <1>2. draft' \in [Callers -> Owners \cup {None}]
    <2>1. draft \in [Callers -> Owners \cup {None}]
      BY DEF TypeOK
    <2>2. CASE next \in Removing \cup Writing /\ call[c].op # "release"
      <3>1. PICK t \in Nat : draft' = [draft EXCEPT ![c] = Owner(c, t)]
        BY <1>1, <2>2
      <3>2. Owner(c, t) \in Owners
        BY OwnerType
      <3> QED BY <2>1, <3>1, <3>2
    <2> QED BY <1>1, <2>1, <2>2
  <1>3. claims' \in [Resources -> SUBSET Owners]
    BY <1>0 DEF Enter, Acquire, Resume, ResumeOwned, Release, TypeOK
  <1>4. seen' \in [Callers -> Owners \cup {None}]
    BY <1>0, <1>1 DEF Take, TypeOK, Dirs
  <1>5. TypeOK'
    BY <1>0, <1>1, <1>2, <1>3, <1>4 DEF Take, TypeOK, local, Inside
  <1>6. Custody'
    <2> SUFFICES ASSUME NEW d \in Callers
                 PROVE  /\ pc'[d] \in Inside => guard'[res'[d]] = d
                        /\ pc'[d] \in Writing => call'[d].op # "release"
                        /\ call'[d].op = "acquire" => call'[d].ttl \in Ttls
                        /\ call'[d].op \in {"resume", "resume-owned"} => d \in Sessions
                        /\ pc'[d] \in Removing \cup Writing \cup {"ok"}
                              /\ call'[d].op # "release" =>
                               draft'[d] \in Owners /\ draft'[d].at <= clock'
      BY DEF Custody
    <2>1. CASE d = c
      <3>1. pc'[d] = next /\ guard'[res'[d]] = d /\ call' = call /\ clock' = clock
        BY <2>1, <1>0, <1>1 DEF Take, local, TypeOK
      <3>2. next \in Removing \cup Writing /\ call[c].op # "release" =>
                draft'[c] \in Owners /\ draft'[c].at <= clock
        BY <1>1, OwnerType DEF TypeOK
      <3> QED BY <2>1, <3>1, <3>2, <1>1 DEF Custody
    <2>2. CASE d # c
      <3>1. pc'[d] = pc[d] /\ res' = res /\ call' = call /\ clock' = clock
        BY <2>2, <1>1 DEF Take, local, TypeOK
      <3>2. draft'[d] = draft[d]
        BY <2>2, <1>1 DEF TypeOK
      <3>3. pc[d] \in Inside => guard'[res[d]] = d
        BY <1>0, <1>1, <2>2 DEF Take, GuardFree, Custody, TypeOK
      <3> QED BY <3>1, <3>2, <3>3 DEF Custody
    <2> QED BY <2>1, <2>2
  <1> QED BY <1>5, <1>6

LEMMA StepBasics ==
    ASSUME Basics, NEW c \in Callers, Remove(c) \/ Write(c)
    PROVE  Basics'
  <1> USE LockAssumption DEF Basics
  <1>0. res[c] \in Resources /\ disk[res[c]] \in Dirs
    BY DEF TypeOK
  <1>1. PICK from \in Removing \cup Writing, next \in Inside :
            /\ Step(c, from, next)
            /\ next \in Writing => call[c].op # "release"
    BY DEF Remove, Write, Verify, UnlinkOwner, UnlinkStamp, Rmdir, Mkdir, Recheck,
           WriteStamp, WriteOwner, Inside, Removing, Writing, Step, Custody
  <1>2. (next = "ok" => pc[c] \in Removing \cup Writing)
    BY <1>1 DEF Step
  <1>3. \/ draft' = draft
        \/ pc[c] \in Writing /\ draft' = [draft EXCEPT ![c].at = clock]
    BY DEF Remove, Write, Verify, UnlinkOwner, UnlinkStamp, Rmdir, Mkdir, Recheck,
           WriteStamp, WriteOwner, Step, Writing
  <1>4. pc[c] \in Writing => draft[c] \in Owners
    BY DEF Custody
  <1>5. draft' \in [Callers -> Owners \cup {None}]
    <2>1. CASE draft' = draft
      BY <2>1 DEF TypeOK
    <2>2. CASE pc[c] \in Writing /\ draft' = [draft EXCEPT ![c].at = clock]
      <3>1. [draft[c] EXCEPT !.at = clock] \in Owners
        BY <1>4, <2>2 DEF TypeOK, Owners
      <3> QED BY <2>2, <3>1 DEF TypeOK
    <2> QED BY <1>3, <2>1, <2>2
  <1>6. disk' \in [Resources -> Dirs]
    <2>1. pc[c] = "stamp" => draft[c].at \in Nat
      BY <1>4 DEF Writing, Owners
    <2>2. pc[c] = "owner" => draft[c] \in Owners
      BY <1>4 DEF Writing
    <2>3. \/ disk' = disk
          \/ \E d \in Dirs : Put(c, d)
      BY <1>0, <2>1, <2>2 DEF Remove, Write, Verify, UnlinkOwner, UnlinkStamp, Rmdir,
         Mkdir, Recheck, WriteStamp, WriteOwner, Step, Dirs, Empty
    <2> QED BY <2>3 DEF Put, TypeOK
  <1>7. TypeOK'
    BY <1>1, <1>5, <1>6 DEF Step, TypeOK, local
  <1>8. Custody'
    <2>1. guard' = guard /\ res' = res /\ call' = call /\ clock' = clock
      BY <1>1 DEF Step, local
    <2>2. \A d \in Callers : d # c => pc'[d] = pc[d] /\ draft'[d] = draft[d]
      BY <1>1, <1>3 DEF Step, TypeOK
    <2>3. pc'[c] = next /\ pc[c] = from
      BY <1>1 DEF Step, TypeOK
    <2>4. guard[res[c]] = c
      BY <1>1, <2>3 DEF Custody, Inside
    <2>5. call[c].op # "release" => draft'[c] \in Owners /\ draft'[c].at <= clock
      <3>1. call[c].op # "release" => draft[c] \in Owners /\ draft[c].at <= clock
        BY <1>1, <2>3 DEF Custody
      <3> QED BY SMTT(30), <3>1, <1>3, <1>4 DEF TypeOK, Owners
    <2> QED BY <1>1, <2>1, <2>2, <2>3, <2>4, <2>5 DEF Custody
  <1> QED BY <1>7, <1>8

LEMMA DraftType ==
    ASSUME Basics, NEW c \in Callers, pc[c] = "ok", call[c].op # "release"
    PROVE  draft[c] \in Owners /\ draft[c].token \in Nat /\ draft[c].at <= clock
  BY DEF Basics, Custody, Owners

\* An operation that returns to its caller, whatever it does to the ledgers of
\* the model.
LEMMA ReturnBasics ==
    ASSUME Basics, NEW c \in Callers, Return(c),
           disk' \in [Resources -> Dirs], know' \in [Callers -> SUBSET Nat],
           claims' \in [Resources -> SUBSET Owners], inc' \in [Callers -> Nat]
    PROVE  Basics'
  <1> USE LockAssumption DEF Basics
  <1>1. TypeOK'
    BY DEF Return, Unlock, TypeOK, NoCall, Calls, Ops
  <1>2. Custody'
    <2>1. pc'[c] = "idle" /\ res' = res /\ clock' = clock /\ call'[c].op = "none"
      BY DEF Return, TypeOK, NoCall
    <2>2. \A d \in Callers : d # c =>
              pc'[d] = pc[d] /\ call'[d] = call[d] /\ draft'[d] = draft[d]
      BY DEF Return, TypeOK
    <2>3. \A d \in Callers : d # c /\ guard[res[d]] = d => guard'[res[d]] = d
      BY DEF Return, Unlock, TypeOK
    <2> QED BY <2>1, <2>2, <2>3 DEF Custody, Inside, Removing, Writing
  <1> QED BY <1>1, <1>2

LEMMA RetryBasics ==
    ASSUME Basics, NEW c \in Callers, NEW R \in SUBSET Resources, NEW n \in Nat,
           Retry(c, R, n)
    PROVE  Basics'
  <1> USE LockAssumption DEF Basics
  <1>1. TypeOK'
    BY DEF Retry, Unlock, TypeOK
  <1>2. Custody'
    <2>1. pc'[c] = "queue" /\ clock' = clock /\ call' = call /\ draft' = draft
      BY DEF Retry, TypeOK
    <2>2. \A d \in Callers : d # c => pc'[d] = pc[d] /\ res'[d] = res[d]
      BY DEF Retry, TypeOK
    <2>3. \A d \in Callers : d # c /\ guard[res[d]] = d => guard'[res[d]] = d
      BY DEF Retry, Unlock, TypeOK
    <2> QED BY <2>1, <2>2, <2>3 DEF Custody, Inside, Removing, Writing
  <1> QED BY <1>1, <1>2

LEMMA AnswerBasics ==
    ASSUME Basics, NEW c \in Callers, Answer(c)
    PROVE  Basics'
  <1> USE LockAssumption DEF Basics
  <1>0. /\ disk \in [Resources -> Dirs] /\ know \in [Callers -> SUBSET Nat]
        /\ claims \in [Resources -> SUBSET Owners] /\ inc \in [Callers -> Nat]
        /\ rest[c] \in SUBSET Resources /\ call[c].want \in SUBSET Resources
        /\ rounds[c] \in Nat /\ res[c] \in Resources
    BY DEF TypeOK, Calls
  <1>1. CASE Succeed(c)
    <2>1. know' \in [Callers -> SUBSET Nat] /\ claims' \in [Resources -> SUBSET Owners]
      <3>1. CASE call[c].op = "release"
        BY <1>0, <1>1, <3>1 DEF Succeed, Granted
      <3>2. CASE call[c].op # "release"
        <4>1. draft[c] \in Owners /\ draft[c].token \in Nat
          BY <1>1, <3>2, DraftType DEF Succeed
        <4>2. know' = [know EXCEPT ![c] = @ \cup {draft[c].token}]
          BY <1>1, <3>2 DEF Succeed, Granted
        <4>3. claims' = [claims EXCEPT ![res[c]] =
                            {p \in @ : p.token # draft[c].token} \cup {draft[c]}]
          BY <1>1, <3>2 DEF Succeed, Granted
        <4> QED BY <1>0, <4>1, <4>2, <4>3
      <3> QED BY <3>1, <3>2
    <2> QED BY <1>0, <1>1, <2>1, ReturnBasics DEF Succeed
  <1>2. CASE Busy(c)
    <2>1. CASE Return(c) /\ UNCHANGED <<disk, know, claims, inc>>
      BY <1>0, <2>1, ReturnBasics
    <2>2. CASE rest[c] # {} /\ Retry(c, rest[c], rounds[c])
      BY <1>0, <2>2, RetryBasics
    <2>3. CASE rounds[c] # 0 /\ Retry(c, call[c].want, rounds[c] - 1)
      <3>1. rounds[c] - 1 \in Nat
        BY <1>0, <2>3
      <3> QED BY <1>0, <2>3, <3>1, RetryBasics
    <2> QED BY <1>2, <2>1, <2>2, <2>3 DEF Busy
  <1>3. CASE Fail(c)
    BY <1>0, <1>3, ReturnBasics DEF Fail
  <1> QED BY <1>1, <1>2, <1>3 DEF Answer

LEMMA LitterType ==
    ASSUME TypeOK, NEW c \in Callers, Litter(c)
    PROVE  /\ disk' \in [Resources -> Dirs]
           /\ \A r \in Resources : disk'[r].there = disk[r].there
                                   /\ disk'[r].owner = disk[r].owner
  <1>0. disk \in [Resources -> Dirs] /\ res[c] \in Resources
    BY DEF TypeOK
  <1>1. CASE UNCHANGED disk
    BY <1>0, <1>1
  <1>2. CASE Put(c, [disk[res[c]] EXCEPT !.litter = TRUE])
    <2> DEFINE d == [disk[res[c]] EXCEPT !.litter = TRUE]
    <2>1. d \in Dirs /\ d.there = disk[res[c]].there /\ d.owner = disk[res[c]].owner
      BY <1>0 DEF Dirs
    <2>2. disk' = [disk EXCEPT ![res[c]] = d]
      BY <1>2 DEF Put
    <2> HIDE DEF d
    <2> QED BY <1>0, <2>1, <2>2
  <1> QED BY <1>1, <1>2 DEF Litter

LEMMA FaultBasics ==
    ASSUME Basics, NEW c \in Callers, IoError(c) \/ Crash(c)
    PROVE  Basics'
  <1> USE LockAssumption DEF Basics
  <1>0. disk' \in [Resources -> Dirs]
    BY LitterType DEF IoError, Crash
  <1>1. CASE IoError(c)
    <2>1. TypeOK'
      BY <1>0, <1>1 DEF IoError, TypeOK, local, Inside
    <2>2. Custody'
      BY <1>1 DEF IoError, TypeOK, local, Custody, Inside, Removing, Writing
    <2> QED BY <2>1, <2>2
  <1>2. CASE Crash(c)
    <2>1. inc' \in [Callers -> Nat] /\ know' = know /\ claims' = claims
      BY <1>2 DEF Crash, TypeOK
    <2> QED BY <1>0, <1>2, <2>1, ReturnBasics DEF Crash, TypeOK
  <1> QED BY <1>1, <1>2

LEMMA TickBasics == Basics /\ Tick => Basics'
  <1> SUFFICES ASSUME Basics, Tick PROVE Basics'
    OBVIOUS
  <1> USE LockAssumption DEF Basics
  <1>1. TypeOK' /\ clock' = clock + 1 /\ clock \in Nat
    BY DEF Tick, TypeOK, local
  <1>2. \A c \in Callers : draft[c] \in Owners => draft[c].at \in Nat
    BY DEF Owners
  <1>3. Custody'
    BY <1>1, <1>2 DEF Tick, local, Custody
  <1> QED BY <1>1, <1>3

LEMMA StutterBasics == Basics /\ UNCHANGED vars => Basics'
  BY DEF Basics, vars, local, TypeOK, Custody

LEMMA NextBasics == Basics /\ [Next]_vars => Basics'
  <1> SUFFICES ASSUME Basics, [Next]_vars PROVE Basics'
    OBVIOUS
  <1>1. CASE Tick
    BY <1>1, TickBasics
  <1>2. CASE UNCHANGED vars
    BY <1>2, StutterBasics
  <1>3. ASSUME NEW c \in Callers,
               \/ CallAcquire(c) \/ CallResume(c) \/ CallRelease(c)
               \/ Enter(c) \/ Remove(c) \/ Write(c) \/ Answer(c)
               \/ IoError(c) \/ Crash(c)
        PROVE  Basics'
    <2>1. CASE CallAcquire(c) \/ CallResume(c) \/ CallRelease(c)
      BY <2>1, CallBasics
    <2>2. CASE Enter(c)
      BY <2>2, EnterBasics
    <2>3. CASE Remove(c) \/ Write(c)
      BY <2>3, StepBasics
    <2>4. CASE Answer(c)
      BY <2>4, AnswerBasics
    <2>5. CASE IoError(c) \/ Crash(c)
      BY <2>5, FaultBasics
    <2> QED BY <1>3, <2>1, <2>2, <2>3, <2>4, <2>5
  <1> QED BY <1>1, <1>2, <1>3 DEF Next

\* Type correctness, for any number of callers and resources and any faults.
THEOREM TypeCorrect == Spec => []TypeOK
  <1>1. Init => Basics
    BY Initially
  <1>2. Basics => TypeOK
    BY DEF Basics
  <1> QED BY <1>1, <1>2, NextBasics, PTL DEF Spec

-----------------------------------------------------------------------------
(* Exclusive.  Backed ties every fresh claim to the one record of its        *)
(* resource, so two fresh claims are one; Pending says what the operation    *)
(* under the guard may still do to that record.                              *)

IInv == Basics /\ Backed /\ Pending

\* One caller moves: what is left to show is its own resource and its own work.
LEMMA OneMoves ==
    ASSUME IInv, NEW c \in Callers, NEW r \in Resources, r = res[c], clock' = clock,
           \A d \in Callers : d # c /\ pc[d] \in Inside => res[d] # r,
           \A q \in Resources : q # r => disk'[q] = disk[q] /\ claims'[q] = claims[q],
           \A d \in Callers : d # c =>
               /\ pc'[d] = pc[d] /\ call'[d] = call[d]
               /\ draft'[d] = draft[d] /\ res'[d] = res[d],
           BackedAt(r)', PendingOf(c)'
    PROVE  Backed' /\ Pending'
  <1>1. \A p : Fresh(p)' <=> Fresh(p)
    BY DEF Fresh
  <1>2. \A d \in Callers : res[d] \in Resources
    BY DEF IInv, Basics, TypeOK
  <1>3. ASSUME NEW d \in Callers, d # c
        PROVE  PendingOf(d)'
    <2>1. CASE pc[d] \in Inside
      <3>1. disk'[res[d]] = disk[res[d]] /\ claims'[res[d]] = claims[res[d]]
        BY <1>2, <1>3, <2>1
      <3>2. NoneFresh(res[d])' <=> NoneFresh(res[d])
        BY <1>1, <1>3, <3>1 DEF NoneFresh
      <3> QED BY <1>1, <1>3, <3>1, <3>2 DEF IInv, Pending, PendingOf
    <2>2. CASE pc[d] \notin Inside
      BY <1>3, <2>2 DEF PendingOf, Inside, Removing, Writing
    <2> QED BY <2>1, <2>2
  <1>4. ASSUME NEW q \in Resources, q # r
        PROVE  BackedAt(q)'
    BY <1>1, <1>4 DEF IInv, Backed, BackedAt
  <1> QED BY <1>3, <1>4 DEF Backed, Pending

\* Every other operation is at another resource when one is under the guard.
LEMMA Others ==
    ASSUME Basics, NEW c \in Callers, pc[c] \in Inside \/ GuardFree(c)
    PROVE  \A d \in Callers : d # c /\ pc[d] \in Inside => res[d] # res[c]
  BY LockAssumption DEF Basics, Custody, GuardFree

LEMMA CallStep ==
    ASSUME IInv, NEW c \in Callers, CallAcquire(c) \/ CallResume(c) \/ CallRelease(c)
    PROVE  Backed' /\ Pending'
  <1>1. PICK q, r, n : Issue(c, q, r, n)
    BY DEF CallAcquire, CallResume, CallRelease
  <1>2. /\ pc'[c] = "queue" /\ clock' = clock /\ disk' = disk /\ claims' = claims
        /\ draft' = draft
        /\ \A d \in Callers : d # c =>
               pc'[d] = pc[d] /\ call'[d] = call[d] /\ res'[d] = res[d]
    BY <1>1 DEF Issue, IInv, Basics, TypeOK
  <1>3. \A p : Fresh(p)' <=> Fresh(p)
    BY <1>2 DEF Fresh
  <1>4. Backed'
    BY <1>2, <1>3 DEF IInv, Backed, BackedAt
  <1>5. ASSUME NEW d \in Callers PROVE PendingOf(d)'
    <2>1. CASE d = c
      BY <1>2, <2>1 DEF PendingOf, Removing
    <2>2. CASE d # c
      BY <1>2, <1>3, <2>2 DEF IInv, Pending, PendingOf, NoneFresh
    <2> QED BY <2>1, <2>2
  <1> QED BY <1>4, <1>5 DEF Pending

\* Nobody counts on a device whose lock is absent.
LEMMA AbsentFree ==
    ASSUME IInv, NEW r \in Resources, Snapshot(r) = "Absent"
    PROVE  NoneFresh(r)
  <1>1. ~disk[r].there
    <2>1. disk[r].owner \in Owners => disk[r].owner.kind \in {"session", "script"}
      BY DEF Owners
    <2> QED BY <2>1 DEF Snapshot, Torn, IInv, Basics, TypeOK, Dirs
  <1> QED BY <1>1 DEF IInv, Backed, BackedAt, NoneFresh

\* Nobody counts on a record that the TTL of some caller has outlived.
LEMMA ReclaimableFree ==
    ASSUME IInv, NEW c \in Callers, Reclaimable(c), call[c].ttl \in Ttls
    PROVE  NoneFresh(res[c])
  <1> DEFINE o == disk[res[c]].owner
  <1>1. res[c] \in Resources /\ o \in Owners /\ o.kind = "session"
    BY SnapshotType DEF Reclaimable, IInv, Basics, TypeOK
  <1>2. SUFFICES ASSUME NEW p \in claims[res[c]], Fresh(p) PROVE FALSE
    BY DEF NoneFresh
  <1>3. Match(p, o) /\ p \in Owners
    BY <1>1, <1>2 DEF IInv, Backed, BackedAt, Basics, TypeOK
  <1>4. clock - p.at <= call[c].ttl
    BY <1>1, <1>2, <1>3 DEF Fresh, Match
  <1>5. clock - o.at > call[c].ttl
    BY DEF Reclaimable, Expired
  <1>6. p.at <= o.at /\ p.at \in Nat /\ o.at \in Nat /\ clock \in Nat
    BY <1>1, <1>3 DEF Match, Owners, IInv, Basics, TypeOK
  <1> HIDE DEF o
  <1>7. call[c].ttl \in Nat
    BY LockAssumption
  <1> QED BY <1>4, <1>5, <1>6, <1>7

LEMMA EnterStep ==
    ASSUME IInv, NEW c \in Callers, Enter(c)
    PROVE  Backed' /\ Pending'
  <1>0. PICK r \in Resources : r = res[c] /\ Basics /\ clock \in Nat
    BY DEF IInv, Basics, TypeOK
  <1>1. PICK next : GuardFree(c) /\ Take(c, next)
    BY <1>0 DEF Enter, Acquire, Resume, ResumeOwned, Release
  <1>2. /\ disk' = disk /\ clock' = clock /\ call' = call /\ res' = res
        /\ pc'[c] = next /\ \A d \in Callers : d # c => pc'[d] = pc[d]
    BY <1>0, <1>1 DEF Take, local, Basics, TypeOK
  <1>3. \A d \in Callers : d # c => draft'[d] = draft[d]
    BY <1>0 DEF Enter, Acquire, Resume, ResumeOwned, Release, IInv, Basics, TypeOK
  <1>4. \A p : Fresh(p)' <=> Fresh(p)
    BY <1>0, <1>2 DEF Fresh
  <1>5. /\ claims'[r] \subseteq claims[r]
        /\ \A q \in Resources : q # r => claims'[q] = claims[q]
    BY <1>0 DEF Enter, Acquire, Resume, ResumeOwned, Release, Basics, TypeOK
  <1>6. BackedAt(r)'
    <2>1. BackedAt(r)
      BY <1>0 DEF IInv, Backed
    <2> QED BY <1>0, <1>2, <1>4, <1>5, <2>1 DEF BackedAt
  <1>7. \A d \in Callers : d # c /\ pc[d] \in Inside => res[d] # r
    BY <1>0, <1>1, Others
  <1>8. PendingOf(c)'
    <2>1. CASE next \in {"busy", "fail", "ok"} /\ (next = "ok" => call[c].op = "release")
      BY <1>0, <1>2, <2>1 DEF PendingOf, Removing
    <2>2. CASE next \in Removing \cup {"mkdir"} /\ NoneFresh(r)
      <3>1. NoneFresh(r)'
        BY <1>0, <1>4, <1>5, <2>2 DEF NoneFresh
      <3> QED BY <1>0, <1>2, <2>2, <3>1 DEF PendingOf, Removing
    <2>3. CASE /\ next = "recheck"
               /\ \A p \in claims[r] : Fresh(p) => Match(p, draft'[c])
      BY <1>0, <1>2, <1>4, <1>5, <2>3 DEF PendingOf, Removing
    <2>4. CASE Acquire(c)
      <3>1. call[c].ttl \in Ttls
        BY <1>0, <2>4 DEF Acquire, Basics, Custody
      <3>2. Reclaimable(c) => Snapshot(r) # "Absent"
        BY <1>0 DEF Reclaimable
      <3>3. next \in {"verify", "mkdir"} => NoneFresh(r)
        BY <1>0, <1>1, <1>2, <2>4, <3>1, <3>2, AbsentFree, ReclaimableFree
           DEF Acquire, Take, Basics, TypeOK
      <3>4. next \in {"verify", "mkdir", "busy"}
        BY <1>0, <1>1, <1>2, <2>4 DEF Acquire, Take, IInv, Basics, TypeOK
      <3> QED BY <1>0, <2>1, <2>2, <3>3, <3>4 DEF Removing
    <2>5. CASE Release(c)
      <3>1. CASE Releasable(c)
        <4>1. disk[r].owner \in Owners /\ disk[r].owner.token = call[c].token
          BY <1>0, <3>1, SnapshotType DEF Releasable, Kind, Basics
        <4>2. claims'[r] = {p \in claims[r] : p.token # call[c].token}
          BY <1>0, <2>5, <3>1 DEF Release, Basics, TypeOK
        <4>3. NoneFresh(r)'
          BY <1>0, <1>4, <4>1, <4>2 DEF NoneFresh, IInv, Backed, BackedAt, Match
        <4>4. next = "verify"
          BY <1>0, <1>1, <1>2, <2>5, <3>1 DEF Release, Take, IInv, Basics, TypeOK
        <4> QED BY <1>0, <1>2, <4>3, <4>4 DEF PendingOf, Removing
      <3>2. CASE ~Releasable(c)
        <4>1. next \in {"ok", "fail"}
          BY <1>0, <1>1, <1>2, <2>5, <3>2 DEF Release, Take, IInv, Basics, TypeOK
        <4> QED BY <1>0, <2>1, <2>5, <4>1 DEF Release
      <3> QED BY <1>0, <3>1, <3>2
    <2>6. ASSUME NEW t, Owned(c), disk[r].owner.token = t,
                 draft' = [draft EXCEPT ![c] = Owner(c, t)], c \in Sessions
          PROVE  \A p \in claims[r] : Fresh(p) => Match(p, draft'[c])
      <3> DEFINE o == disk[r].owner
      <3>1. /\ o \in Owners /\ o.kind = "session" /\ o.by = TaskOf[c]
        BY <1>0, <2>6, SnapshotType DEF Owned, Basics
      <3>2. /\ draft'[c].token = t /\ draft'[c].by = TaskOf[c]
            /\ draft'[c].kind = "session" /\ draft'[c].at = clock
        BY <1>0, <2>6 DEF Owner, By, Kind, Basics, TypeOK
      <3>3. \A p \in claims[r] : p.at <= clock /\ (Fresh(p) => Match(p, o))
        BY <1>0 DEF IInv, Backed, BackedAt
      <3> HIDE DEF o
      <3> QED BY <1>0, <2>6, <3>1, <3>2, <3>3 DEF Match, o
    <2>7. CASE Resume(c) \/ ResumeOwned(c)
      <3>1. c \in Sessions
        BY <1>0, <2>7 DEF Resume, ResumeOwned, IInv, Basics, Custody
      <3>2. CASE Snapshot(r) = "Absent"
        BY <1>0, <1>1, <1>2, <2>1, <2>2, <2>7, <3>2, AbsentFree
           DEF Resume, ResumeOwned, Take, Owned, Basics, TypeOK
      <3>3. CASE Snapshot(r) # "Absent"
        <4>1. next \in {"recheck", "fail"}
          BY <1>0, <1>1, <1>2, <2>7, <3>3 DEF Resume, ResumeOwned, Take, IInv, Basics, TypeOK
        <4>2. next = "recheck" =>
                  \A p \in claims[r] : Fresh(p) => Match(p, draft'[c])
          BY <1>0, <1>1, <1>2, <2>6, <2>7, <3>1, <3>3
             DEF Resume, ResumeOwned, Take, IInv, Basics, TypeOK
        <4> QED BY <1>0, <2>1, <2>3, <4>1, <4>2
      <3> QED BY <1>0, <3>2, <3>3
    <2> QED BY <1>0, <2>4, <2>5, <2>7 DEF Enter
  <1> QED BY <1>0, <1>2, <1>3, <1>5, <1>6, <1>7, <1>8, OneMoves

LEMMA StorageStep ==
    ASSUME IInv, NEW c \in Callers, Remove(c) \/ Write(c)
    PROVE  Backed' /\ Pending'
  <1>0. PICK r \in Resources : r = res[c] /\ Basics
    BY DEF IInv, Basics, TypeOK
  <1>1. PICK from \in Removing \cup Writing, next \in Inside : Step(c, from, next)
    BY DEF Remove, Write, Verify, UnlinkOwner, UnlinkStamp, Rmdir, Mkdir, Recheck,
           WriteStamp, WriteOwner, Removing, Writing, Inside
  <1>2. /\ clock' = clock /\ call' = call /\ res' = res /\ claims' = claims
        /\ pc[c] = from /\ pc'[c] = next /\ \A d \in Callers : d # c => pc'[d] = pc[d]
    BY <1>0, <1>1 DEF Step, local, Basics, TypeOK
  <1>3. /\ \A d \in Callers : d # c => draft'[d] = draft[d]
        /\ \A q \in Resources : q # r => disk'[q] = disk[q]
    BY <1>0 DEF Remove, Write, Verify, UnlinkOwner, UnlinkStamp, Rmdir, Mkdir, Recheck,
       WriteStamp, WriteOwner, Put, Basics, TypeOK
  <1>4. \A p : Fresh(p)' <=> Fresh(p)
    BY <1>2 DEF Fresh
  <1>5. \A d \in Callers : d # c /\ pc[d] \in Inside => res[d] # r
    BY <1>0, <1>2, Others DEF Inside
  <1>6. BackedAt(r) /\ PendingOf(c) /\ disk[r] \in Dirs
    BY <1>0 DEF IInv, Backed, Pending, Basics, TypeOK
  <1>7. BackedAt(r)' /\ PendingOf(c)'
    <2>1. CASE Remove(c)
      <3>1. NoneFresh(r) /\ pc[c] \in Removing
        BY <1>0, <1>6, <2>1 DEF PendingOf, Remove, Verify, UnlinkOwner, UnlinkStamp,
           Rmdir, Step, Removing
      <3>2. NoneFresh(r)' /\ BackedAt(r)'
        BY <1>2, <1>4, <1>6, <3>1 DEF NoneFresh, BackedAt
      <3>3. \/ next \in Removing \cup {"busy", "mkdir"}
            \/ next = "ok" /\ call[c].op = "release"
        BY <1>1, <1>2, <2>1 DEF Remove, Verify, UnlinkOwner, UnlinkStamp, Rmdir, Step,
           Removing, Basics, TypeOK
      <3>4. PendingOf(c)'
        BY <1>0, <1>2, <3>2, <3>3 DEF PendingOf, Removing
      <3> QED BY <3>2, <3>4
    <2>2. CASE Mkdir(c)
      <3>1. NoneFresh(r) /\ next \in {"fail", "stamp"}
        BY <1>0, <1>1, <1>2, <1>6, <2>2 DEF PendingOf, Mkdir, Step, Basics, TypeOK
      <3>2. NoneFresh(r)' /\ BackedAt(r)'
        BY <1>2, <1>4, <1>6, <3>1 DEF NoneFresh, BackedAt
      <3>3. disk'[r].there
        BY <1>0, <1>6, <2>2 DEF Mkdir, Put, Dirs, Basics, TypeOK
      <3> QED BY <1>0, <1>2, <3>1, <3>2, <3>3 DEF PendingOf, Removing, NoneFresh
    <2>3. CASE Recheck(c)
      <3>1. next \in {"fail", "stamp"} /\ (next = "stamp" => Unchanged(c)) /\ disk' = disk
            /\ from = "recheck"
        BY <1>0, <1>1, <1>2, <2>3 DEF Recheck, Step, Basics, TypeOK
      <3>2. BackedAt(r)'
        BY <1>2, <1>4, <1>6, <3>1 DEF BackedAt
      <3>3. /\ draft[c] \in Owners /\ draft' = [draft EXCEPT ![c].at = clock]
        BY <1>0, <1>2, <2>3, <3>1 DEF Recheck, Basics, Custody, Writing
      <3>4. \A p : Match(p, draft[c]) /\ p.at <= clock => Match(p, draft'[c])
        BY <1>0, <3>3 DEF Match, Owners, Basics, TypeOK
      <3>5. \A p \in claims'[r] : Fresh(p)' => Match(p, draft'[c])
        BY <1>0, <1>2, <1>4, <1>6, <3>1, <3>4 DEF PendingOf, BackedAt
      <3>6. next = "stamp" => disk[r].there
        BY <1>0, <3>1, SnapshotType DEF Unchanged, Basics
      <3> QED BY <1>0, <1>2, <3>1, <3>2, <3>5, <3>6 DEF PendingOf, Removing
    <2>4. CASE WriteStamp(c)
      <3>1. next = "owner" /\ from = "stamp" /\ draft' = draft
        BY <1>0, <1>1, <1>2, <2>4 DEF WriteStamp, Step, Basics, TypeOK
      <3>2. disk'[r].there = disk[r].there /\ disk'[r].owner = disk[r].owner
        BY <1>0, <1>6, <2>4 DEF WriteStamp, Put, Dirs, Basics, TypeOK
      <3>3. BackedAt(r)'
        BY <1>2, <1>4, <1>6, <3>2 DEF BackedAt
      <3> QED BY <1>0, <1>2, <1>4, <1>6, <3>1, <3>2, <3>3 DEF PendingOf, Removing
    <2>5. CASE WriteOwner(c)
      <3>1. next = "ok" /\ from = "owner" /\ draft' = draft /\ draft[c] \in Owners
        BY <1>0, <1>1, <1>2, <2>5 DEF WriteOwner, Step, Basics, TypeOK, Custody, Writing
      <3>2. disk'[r].there = disk[r].there /\ disk'[r].owner = draft[c]
        BY <1>0, <1>6, <2>5 DEF WriteOwner, Put, Dirs, Basics, TypeOK
      <3>3. BackedAt(r)'
        BY <1>0, <1>2, <1>4, <1>6, <3>1, <3>2 DEF BackedAt, PendingOf
      <3> QED BY <1>0, <1>2, <1>6, <3>1, <3>2, <3>3 DEF PendingOf, Removing
    <2> QED BY <2>1, <2>2, <2>3, <2>4, <2>5, <1>0 DEF Write
  <1> QED BY <1>0, <1>2, <1>3, <1>5, <1>7, OneMoves

\* An operation that ends leaves the guard and its own work behind.
LEMMA ReturnStep ==
    ASSUME IInv, NEW c \in Callers, Return(c) \/ (\E R, n : Retry(c, R, n)),
           NEW r \in Resources, r = res[c], pc[c] \in Inside \/ claims' = claims,
           \A q \in Resources : q # r => disk'[q] = disk[q] /\ claims'[q] = claims[q],
           \A d \in Callers : d # c /\ pc[d] \in Inside /\ res[d] = r =>
               disk' = disk /\ claims' = claims,
           BackedAt(r)'
    PROVE  Backed' /\ Pending'
  <1>1. /\ clock' = clock /\ pc'[c] \in {"idle", "queue"}
        /\ \A d \in Callers : d # c =>
               /\ pc'[d] = pc[d] /\ call'[d] = call[d]
               /\ draft'[d] = draft[d] /\ res'[d] = res[d]
    BY DEF Return, Retry, IInv, Basics, TypeOK
  <1>2. \A p : Fresh(p)' <=> Fresh(p)
    BY <1>1 DEF Fresh
  <1>3. \A q \in Resources : q # r => BackedAt(q)'
    BY <1>1, <1>2 DEF IInv, Backed, BackedAt
  <1>4. ASSUME NEW d \in Callers PROVE PendingOf(d)'
    <2>1. CASE d = c
      BY <1>1, <2>1 DEF PendingOf, Removing
    <2>2. CASE d # c /\ pc[d] \in Inside
      <3>1. res[d] \in Resources /\ PendingOf(d)
        BY DEF IInv, Basics, TypeOK, Pending
      <3>2. disk'[res[d]] = disk[res[d]] /\ claims'[res[d]] = claims[res[d]]
        BY <2>2, <3>1
      <3> QED BY <1>1, <1>2, <2>2, <3>1, <3>2 DEF PendingOf, NoneFresh
    <2>3. CASE d # c /\ pc[d] \notin Inside
      BY <1>1, <2>3 DEF PendingOf, Inside, Removing, Writing
    <2> QED BY <2>1, <2>2, <2>3
  <1> QED BY <1>3, <1>4 DEF Backed, Pending

LEMMA AnswerStep ==
    ASSUME IInv, NEW c \in Callers, Answer(c)
    PROVE  Backed' /\ Pending'
  <1>0. PICK r \in Resources : r = res[c] /\ Basics /\ pc[c] \in Inside
    BY DEF IInv, Basics, TypeOK, Answer, Succeed, Busy, Fail, Inside
  <1>1. /\ Return(c) \/ (\E R, n : Retry(c, R, n))
        /\ disk' = disk /\ clock' = clock
    BY DEF Answer, Succeed, Busy, Fail, Return, Retry
  <1>2. \A p : Fresh(p)' <=> Fresh(p)
    BY <1>1 DEF Fresh
  <1>3. \A d \in Callers : d # c /\ pc[d] \in Inside => res[d] # r
    BY <1>0, Others
  <1>4. BackedAt(r)
    BY DEF IInv, Backed
  <1>5. CASE claims' = claims
    <2>1. BackedAt(r)'
      BY <1>1, <1>2, <1>4, <1>5 DEF BackedAt
    <2> QED BY <1>0, <1>1, <1>3, <1>5, <2>1, ReturnStep
  <1>6. CASE Succeed(c) /\ call[c].op # "release"
    <2>1. /\ draft[c] \in Owners /\ draft[c].at <= clock
          /\ disk[r].there /\ disk[r].owner = draft[c]
      BY <1>0, <1>6 DEF Succeed, IInv, Basics, Custody, Pending, PendingOf
    <2>2. /\ claims'[r] = {p \in claims[r] : p.token # draft[c].token} \cup {draft[c]}
          /\ \A q \in Resources : q # r => claims'[q] = claims[q]
      BY <1>0, <1>6 DEF Succeed, Granted, Basics, TypeOK
    <2>3. draft[c].at \in Nat
      BY <2>1 DEF Owners
    <2>4. BackedAt(r)'
      BY <1>1, <1>2, <1>4, <2>1, <2>2, <2>3 DEF BackedAt, Match
    <2> QED BY <1>0, <1>1, <1>3, <2>2, <2>4, ReturnStep
  <1>7. claims' = claims \/ (Succeed(c) /\ call[c].op # "release")
    BY DEF Answer, Succeed, Granted, Busy, Fail, Retry
  <1> QED BY <1>5, <1>6, <1>7

LEMMA FaultStep ==
    ASSUME IInv, NEW c \in Callers, IoError(c) \/ Crash(c)
    PROVE  Backed' /\ Pending'
  <1>0. TypeOK /\ Litter(c)
    BY DEF IInv, Basics, IoError, Crash
  <1>1. \A r \in Resources : disk'[r].there = disk[r].there /\ disk'[r].owner = disk[r].owner
    BY <1>0, LitterType
  <1>2. claims' = claims /\ clock' = clock /\ res' = res
    BY DEF IoError, Crash, Return, local
  <1>3. \A p : Fresh(p)' <=> Fresh(p)
    BY <1>2 DEF Fresh
  <1>4. Backed'
    BY <1>1, <1>2, <1>3 DEF IInv, Backed, BackedAt
  <1>5. /\ pc'[c] \in {"idle", "busy", "fail"}
        /\ \A d \in Callers : d # c =>
               pc'[d] = pc[d] /\ call'[d] = call[d] /\ draft'[d] = draft[d]
    BY <1>0 DEF IoError, Crash, Return, local, TypeOK
  <1>6. ASSUME NEW d \in Callers PROVE PendingOf(d)'
    <2>1. CASE d = c
      BY <1>5, <2>1 DEF PendingOf, Removing
    <2>2. CASE d # c
      <3>1. res[d] \in Resources /\ PendingOf(d)
        BY <1>0 DEF TypeOK, IInv, Pending
      <3> QED BY <1>1, <1>2, <1>3, <1>5, <2>2, <3>1 DEF PendingOf, NoneFresh
    <2> QED BY <2>1, <2>2
  <1> QED BY <1>4, <1>6 DEF Pending

LEMMA TickStep ==
    ASSUME IInv, Tick
    PROVE  Backed' /\ Pending'
  <1>1. /\ clock \in Nat /\ clock' = clock + 1
        /\ claims \in [Resources -> SUBSET Owners]
        /\ UNCHANGED <<disk, pc, call, res, draft, claims>>
    BY DEF IInv, Basics, TypeOK, Tick, local
  <1>2. ASSUME NEW p \in Owners, Fresh(p)' PROVE Fresh(p)
    <2>1. p.at \in Nat /\ \A ttl \in Ttls : ttl \in Nat
      BY LockAssumption DEF Owners
    <2> QED BY <1>1, <1>2, <2>1 DEF Fresh
  <1>3. \A r \in Resources : claims[r] \subseteq Owners /\ \A p \in claims[r] : p.at \in Nat
    BY <1>1 DEF Owners
  <1>4. Backed'
    BY <1>1, <1>2, <1>3 DEF IInv, Backed, BackedAt
  <1>5. Pending'
    <2>1. \A c \in Callers : res[c] \in Resources
      BY DEF IInv, Basics, TypeOK
    <2> QED BY <1>1, <1>2, <1>3, <2>1 DEF IInv, Pending, PendingOf, NoneFresh
  <1> QED BY <1>4, <1>5

LEMMA StutterStep == IInv /\ UNCHANGED vars => Backed' /\ Pending'
  BY DEF vars, local, IInv, Backed, BackedAt, Pending, PendingOf, NoneFresh, Fresh

LEMMA Inductive == IInv /\ [Next]_vars => IInv'
  <1> SUFFICES ASSUME IInv, [Next]_vars PROVE IInv'
    OBVIOUS
  <1>1. Basics'
    BY NextBasics DEF IInv
  <1>2. CASE Tick
    BY <1>1, <1>2, TickStep DEF IInv
  <1>3. CASE UNCHANGED vars
    BY <1>1, <1>3, StutterStep DEF IInv
  <1>4. ASSUME NEW c \in Callers,
               \/ CallAcquire(c) \/ CallResume(c) \/ CallRelease(c)
               \/ Enter(c) \/ Remove(c) \/ Write(c) \/ Answer(c)
               \/ IoError(c) \/ Crash(c)
        PROVE  Backed' /\ Pending'
    <2>1. CASE CallAcquire(c) \/ CallResume(c) \/ CallRelease(c)
      BY <2>1, CallStep
    <2>2. CASE Enter(c)
      BY <2>2, EnterStep
    <2>3. CASE Remove(c) \/ Write(c)
      BY <2>3, StorageStep
    <2>4. CASE Answer(c)
      BY <2>4, AnswerStep
    <2>5. CASE IoError(c) \/ Crash(c)
      BY <2>5, FaultStep
    <2> QED BY <1>4, <2>1, <2>2, <2>3, <2>4, <2>5
  <1> QED BY <1>1, <1>2, <1>3, <1>4 DEF Next, IInv

LEMMA BackedExclusive == Basics /\ Backed => Exclusive
  BY DEF Basics, TypeOK, Backed, BackedAt, Match, Exclusive

\* Mutual exclusion of locked devices (locked_try_acquire, locked_resume,
\* locked_release and their Script forms), for any number of Sessions, Scripts
\* and devices, any TTLs, and operations killed or failing at any step.
THEOREM ExclusiveCorrect == Spec => []Exclusive
  <1>1. Init => IInv
    BY Initially DEF IInv
  <1>2. IInv => Exclusive
    BY BackedExclusive DEF IInv
  <1> QED BY <1>1, <1>2, Inductive, PTL DEF Spec

\* The strengthening that makes Exclusive inductive.
THEOREM StrengtheningCorrect == Spec => []Strengthening
  <1>1. Init => IInv
    BY Initially DEF IInv
  <1>2. IInv => Strengthening
    BY DEF IInv, Basics, Strengthening
  <1> QED BY <1>1, <1>2, Inductive, PTL DEF Spec

-----------------------------------------------------------------------------
(* RecordsKept and NoOrphans.  Both are about the record under the guard:    *)
(* what an operation found there, and what it may still do to it.            *)

Moves(c) == \/ CallAcquire(c) \/ CallResume(c) \/ CallRelease(c)
            \/ Enter(c) \/ Remove(c) \/ Write(c) \/ Answer(c)
            \/ IoError(c) \/ Crash(c)

\* A caller's step leaves the other callers, and every other device, alone.
LEMMA OthersKeep ==
    ASSUME Basics, NEW c \in Callers, Moves(c)
    PROVE  /\ \A d \in Callers : d # c =>
                 /\ pc'[d] = pc[d] /\ call'[d] = call[d] /\ res'[d] = res[d]
                 /\ seen'[d] = seen[d] /\ inc'[d] = inc[d]
           /\ \A r \in Resources : r # res[c] =>
                 disk'[r] = disk[r] /\ claims'[r] = claims[r] /\ guard'[r] = guard[r]
           /\ clock' = clock
  <1> USE DEF Basics
  <1>0. disk \in [Resources -> Dirs] /\ res[c] \in Resources
    BY DEF TypeOK
  <1>1. CASE CallAcquire(c) \/ CallResume(c) \/ CallRelease(c)
    <2>1. PICK q, r, n : Issue(c, q, r, n)
      BY <1>1 DEF CallAcquire, CallResume, CallRelease
    <2> QED BY <2>1 DEF Issue, TypeOK
  <1>2. CASE Enter(c)
    <2>1. PICK next : Take(c, next)
      BY <1>2 DEF Enter, Acquire, Resume, ResumeOwned, Release
    <2>2. \A r \in Resources : r # res[c] => claims'[r] = claims[r]
      BY <1>2 DEF Enter, Acquire, Resume, ResumeOwned, Release, TypeOK
    <2> QED BY <2>1, <2>2 DEF Take, local, TypeOK
  <1>3. CASE Remove(c) \/ Write(c)
    <2>1. PICK from, next : Step(c, from, next)
      BY <1>3 DEF Remove, Write, Verify, UnlinkOwner, UnlinkStamp, Rmdir, Mkdir, Recheck,
             WriteStamp, WriteOwner
    <2>2. \A r \in Resources : r # res[c] => disk'[r] = disk[r]
      BY <1>0, <1>3 DEF Remove, Write, Verify, UnlinkOwner, UnlinkStamp, Rmdir, Mkdir,
             Recheck, WriteStamp, WriteOwner, Put
    <2> QED BY <2>1, <2>2 DEF Step, local, TypeOK
  <1>4. CASE Answer(c)
    <2>1. disk' = disk /\ inc' = inc /\ (Return(c) \/ (\E R, n : Retry(c, R, n)))
      BY <1>4 DEF Answer, Succeed, Busy, Fail, Return, Retry
    <2>2. \A r \in Resources : r # res[c] => claims'[r] = claims[r]
      BY <1>4 DEF Answer, Succeed, Busy, Fail, Granted, Retry, TypeOK
    <2> QED BY <2>1, <2>2 DEF Return, Retry, Unlock, TypeOK
  <1>5. CASE IoError(c) \/ Crash(c)
    <2>1. \A r \in Resources : r # res[c] => disk'[r] = disk[r]
      BY <1>0, <1>5 DEF IoError, Crash, Litter, Put
    <2> QED BY <1>5, <2>1 DEF IoError, Crash, Return, Unlock, local, TypeOK
  <1> QED BY <1>1, <1>2, <1>3, <1>4, <1>5 DEF Moves

\* Nor does it touch the device that another one is working on.
LEMMA Apart ==
    ASSUME Basics, NEW c \in Callers, Moves(c)
    PROVE  \A d \in Callers : d # c /\ pc[d] \in Inside =>
               disk'[res[d]] = disk[res[d]] /\ claims'[res[d]] = claims[res[d]]
  <1>0. \A d \in Callers : res[d] \in Resources
    BY DEF Basics, TypeOK
  <1>1. CASE pc[c] \in Inside \/ GuardFree(c)
    BY <1>0, <1>1, Others, OthersKeep
  <1>2. CASE ~(pc[c] \in Inside \/ GuardFree(c))
    <2>1. ~(Enter(c) \/ Remove(c) \/ Write(c) \/ Answer(c) \/ IoError(c))
      BY <1>2 DEF Enter, Acquire, Resume, ResumeOwned, Release, Remove, Verify, UnlinkOwner,
             UnlinkStamp, Rmdir, Write, Mkdir, Recheck, WriteStamp, WriteOwner, Step, Answer,
             Succeed, Busy, Fail, IoError, Inside, Removing, Writing
    <2>2. pc[c] \notin {"stamp", "owner"}
      BY <1>2 DEF Inside, Writing
    <2>3. disk' = disk /\ claims' = claims
      BY <2>1, <2>2 DEF Moves, CallAcquire, CallResume, CallRelease, Issue, Crash, Litter
    <2> QED BY <2>3
  <1> QED BY <1>1, <1>2

\* Whoever is at work on a record, tends it.
LEMMA TendedMove ==
    ASSUME IInv, Tended, NEW c \in Callers, Moves(c)
    PROVE  Tended'
  <1> DEFINE r == res[c]
  <1>0. /\ r \in Resources /\ disk \in [Resources -> Dirs] /\ disk[r] \in Dirs
        /\ pc \in [Callers -> {"idle", "queue"} \cup Inside]
        /\ ~disk[r].there => disk[r].owner = None
        /\ TendsOwn(c) /\ PendingOf(c) /\ Basics
    BY DEF IInv, Basics, TypeOK, Tended, Pending
  <1>1. ~disk'[r].there => disk'[r].owner = None
    <2>1. CASE disk' = disk
      BY <1>0, <2>1
    <2>2. CASE IoError(c) \/ Crash(c)
      BY <1>0, <2>2, LitterType DEF IoError, Crash, Basics
    <2>3. CASE WriteOwner(c)
      <3>1. disk[r].there
        BY <1>0, <2>3 DEF PendingOf, WriteOwner, Step
      <3>2. disk'[r] = [disk[r] EXCEPT !.owner = draft[c]]
        BY <1>0, <2>3 DEF WriteOwner, Put
      <3> QED BY <1>0, <3>1, <3>2 DEF Dirs
    <2>4. CASE Remove(c) \/ Mkdir(c) \/ Recheck(c) \/ WriteStamp(c)
      BY <1>0, <2>4 DEF Remove, Verify, UnlinkOwner, UnlinkStamp, Rmdir, Mkdir, Recheck,
             WriteStamp, Put, Empty, Dirs
    <2>5. \/ disk' = disk
          \/ Remove(c) \/ Write(c) \/ IoError(c) \/ Crash(c)
      BY DEF Moves, CallAcquire, CallResume, CallRelease, Issue, Enter, Acquire, Resume,
             ResumeOwned, Release, Take, Answer, Succeed, Busy, Fail, Retry
    <2> QED BY <2>1, <2>2, <2>3, <2>4, <2>5 DEF Write
  <1>2. TendsOwn(c)'
    <2>1. CASE CallAcquire(c) \/ CallResume(c) \/ CallRelease(c)
      <3>1. pc'[c] = "queue"
        BY <1>0, <2>1 DEF CallAcquire, CallResume, CallRelease, Issue
      <3> QED BY <3>1 DEF TendsOwn
    <2>2. CASE Enter(c)
      <3>1. PICK next : Take(c, next)
        BY <2>2 DEF Enter, Acquire, Resume, ResumeOwned, Release
      <3>2. /\ pc'[c] = next /\ disk' = disk /\ res' = res /\ call' = call /\ inc' = inc
        BY <1>0, <3>1 DEF Take, local
      <3>3. next = "verify" /\ Snapshot(r) = "script" =>
                call[c].op = "release" /\ disk[r].owner.by = c /\ disk[r].owner.inc = inc[c]
        BY <1>0, <2>2, <3>2
           DEF Enter, Acquire, Resume, ResumeOwned, Release, Take, Reclaimable, Releasable,
               Kind, Callers
      <3>4. next = "recheck" => disk[r].owner.kind = "session"
        BY <1>0, <2>2, <3>2, SnapshotType
           DEF Enter, Acquire, Resume, ResumeOwned, Release, Take, Owned, Basics
      <3>5. next \in {"verify", "mkdir", "recheck", "busy", "fail", "ok"}
        BY <1>0, <2>2, <3>2 DEF Enter, Acquire, Resume, ResumeOwned, Release, Take
      <3> QED BY <3>2, <3>3, <3>4, <3>5 DEF TendsOwn, Snapshot
    <2>3. CASE Verify(c) \/ Recheck(c)
      <3>1. /\ disk' = disk /\ res' = res /\ call' = call /\ inc' = inc
            /\ pc[c] = "verify" => pc'[c] \in {"unlink", "busy"}
            /\ pc[c] = "recheck" => pc'[c] \in {"stamp", "fail"}
            /\ pc[c] \in {"verify", "recheck"}
        BY <1>0, <2>3 DEF Verify, Recheck, Step, local
      <3> QED BY <1>0, <3>1 DEF TendsOwn, Snapshot
    <2>4. CASE UnlinkOwner(c) \/ UnlinkStamp(c)
      <3>1. /\ res' = res /\ pc'[c] \in {"unstamp", "rmdir"} /\ disk'[r].owner = None
        BY <1>0, <2>4 DEF UnlinkOwner, UnlinkStamp, Step, local, Put, TendsOwn, Dirs
      <3> QED BY <3>1 DEF TendsOwn
    <2>5. CASE Mkdir(c) \/ WriteStamp(c)
      <3>1. /\ res' = res /\ pc'[c] \in {"fail", "stamp", "owner"}
            /\ disk'[r].owner = disk[r].owner
            /\ pc[c] = "mkdir" /\ pc'[c] = "stamp" => disk[r].owner = None
            /\ pc[c] \in {"mkdir", "stamp"} /\ (pc[c] = "mkdir" => pc'[c] # "owner")
        BY <1>0, <2>5 DEF Mkdir, WriteStamp, Step, local, Put, Dirs
      <3> QED BY <1>0, <3>1 DEF TendsOwn
    <2>6. CASE Rmdir(c) \/ WriteOwner(c) \/ Answer(c) \/ IoError(c) \/ Crash(c)
      <3>1. pc'[c] \in {"idle", "queue", "ok", "mkdir", "busy", "fail"}
        BY <1>0, <2>6 DEF Rmdir, WriteOwner, Step, Answer, Succeed, Busy, Fail, Retry, Return,
               IoError, Crash
      <3> QED BY <3>1 DEF TendsOwn
    <2> QED BY <2>1, <2>2, <2>3, <2>4, <2>5, <2>6 DEF Moves, Remove, Write
  <1>3. ASSUME NEW d \in Callers, d # c PROVE TendsOwn(d)'
    <2>1. CASE pc[d] \in Inside
      <3>1. /\ pc'[d] = pc[d] /\ call'[d] = call[d] /\ res'[d] = res[d] /\ inc'[d] = inc[d]
            /\ disk'[res[d]] = disk[res[d]]
        BY <1>0, <1>3, <2>1, OthersKeep, Apart
      <3>2. TendsOwn(d)
        BY DEF Tended
      <3> QED BY <3>1, <3>2 DEF TendsOwn, Snapshot, Torn
    <2>2. CASE pc[d] \notin Inside
      <3>1. pc'[d] \notin Inside
        BY <1>0, <1>3, <2>2, OthersKeep
      <3> QED BY <3>1 DEF TendsOwn, Inside, Removing, Writing
    <2> QED BY <2>1, <2>2
  <1>4. ASSUME NEW q \in Resources, q # r PROVE ~disk'[q].there => disk'[q].owner = None
    BY <1>0, <1>4, OthersKeep DEF Tended
  <1> QED BY <1>1, <1>2, <1>3, <1>4 DEF Tended

LEMMA TendedTick == Tended /\ (Tick \/ UNCHANGED vars) => Tended'
  BY DEF Tended, TendsOwn, Snapshot, Torn, Tick, vars, local

LEMMA TendedCorrect == Spec => [](IInv /\ Tended)
  <1>1. Init => IInv
    BY Initially DEF IInv
  <1>2. Init => Tended
    BY DEF Init, Empty, Tended, TendsOwn
  <1>3. IInv /\ Tended /\ [Next]_vars => Tended'
    BY TendedMove, TendedTick DEF Next, Moves
  <1> QED BY <1>1, <1>2, <1>3, Inductive, PTL DEF Spec

\* No step of a caller touches an abandoned record, or starts work on it.
LEMMA UnknownMove ==
    ASSUME Basics, NEW c \in Callers, Moves(c), NEW r \in Resources, Abandoned(r)
    PROVE  disk'[r] = disk[r] /\ Abandoned(r)'
  <1> USE DEF Basics
  <1>0. pc \in [Callers -> {"idle", "queue"} \cup Inside]
    BY DEF TypeOK
  <1>1. disk'[r] = disk[r]
    <2>1. CASE r # res[c]
      BY <2>1, OthersKeep
    <2>2. CASE r = res[c]
      <3>1. pc[c] \notin Removing \cup Writing
        BY <2>2 DEF Abandoned
      <3>2. disk' = disk
        BY <3>1 DEF Moves, CallAcquire, CallResume, CallRelease, Issue, Enter, Acquire, Resume,
               ResumeOwned, Release, Take, Remove, Verify, UnlinkOwner, UnlinkStamp, Rmdir,
               Write, Mkdir, Recheck, WriteStamp, WriteOwner, Step, Answer, Succeed, Busy,
               Fail, Retry, IoError, Crash, Litter, Removing, Writing
      <3> QED BY <3>2
    <2> QED BY <2>1, <2>2
  <1>2. Snapshot(r)' = Snapshot(r)
    BY <1>1 DEF Snapshot, Torn
  <1>3. ASSUME NEW d \in Callers, pc'[d] \in Removing \cup Writing PROVE res'[d] # r
    <2>1. CASE d # c
      BY <1>3, <2>1, OthersKeep DEF Abandoned
    <2>2. CASE d = c /\ Enter(c)
      <3>1. PICK next : Take(c, next)
        BY <2>2 DEF Enter, Acquire, Resume, ResumeOwned, Release
      <3>2. pc'[c] = next /\ res' = res
        BY <1>0, <3>1 DEF Take, local
      <3>3. res[c] = r => next \in {"busy", "fail"}
        BY <1>0, <2>2, <3>2
           DEF Enter, Acquire, Resume, ResumeOwned, Release, Take, Reclaimable, Owned,
               Releasable, Kind, Abandoned
      <3> QED BY <1>3, <2>2, <3>2, <3>3 DEF Removing, Writing
    <2>3. CASE d = c /\ (Remove(c) \/ Write(c))
      <3>1. pc[c] \in Removing \cup Writing /\ res' = res
        BY <2>3 DEF Remove, Verify, UnlinkOwner, UnlinkStamp, Rmdir, Write, Mkdir, Recheck,
               WriteStamp, WriteOwner, Step, local, Removing, Writing
      <3> QED BY <2>3, <3>1 DEF Abandoned
    <2>4. CASE d = c /\ ~(Enter(c) \/ Remove(c) \/ Write(c))
      <3>1. pc'[c] \in {"idle", "queue", "busy", "fail"}
        BY <1>0, <2>4 DEF Moves, CallAcquire, CallResume, CallRelease, Issue, Answer, Succeed,
               Busy, Fail, Return, Retry, IoError, Crash
      <3> QED BY <1>3, <2>4, <3>1 DEF Removing, Writing
    <2> QED BY <2>1, <2>2, <2>3, <2>4
  <1> QED BY <1>1, <1>2, <1>3 DEF Abandoned

\* Only the release by the very process that wrote it removes a Script's record.
LEMMA ScriptMove ==
    ASSUME IInv, Tended, NEW c \in Callers, Moves(c), NEW r \in Resources,
           Snapshot(r) = "script", Snapshot(r)' # "script"
    PROVE  ReleasedByWriter(r)
  <1>0. Basics /\ TendsOwn(c) /\ disk \in [Resources -> Dirs] /\ disk[r] \in Dirs
    BY DEF IInv, Basics, TypeOK, Tended
  <1>1. disk'[r] # disk[r]
    BY DEF Snapshot, Torn
  <1>2. r = res[c]
    BY <1>0, <1>1, OthersKeep
  <1>3. disk[r].there /\ disk[r].owner # None /\ disk[r].owner.kind = "script"
    BY <1>0, SnapshotType DEF Basics, Snapshot, Torn
  <1>4. pc[c] \notin {"unstamp", "rmdir", "stamp", "owner"}
    BY <1>0, <1>2, <1>3 DEF TendsOwn
  <1>5. ~Mkdir(c)
    <2>1. disk[r].there = TRUE
      BY <1>0, <1>3, Zenon DEF Dirs
    <2>2. [disk[r] EXCEPT !.there = TRUE] = disk[r]
      BY <1>0, <2>1 DEF Dirs
    <2>3. Mkdir(c) => disk'[r] = [disk[r] EXCEPT !.there = TRUE]
      BY <1>0, <1>2 DEF Mkdir, Put
    <2> QED BY <1>1, <2>2, <2>3
  <1>6. UnlinkOwner(c)
    BY <1>0, <1>1, <1>2, <1>4, <1>5
       DEF Moves, CallAcquire, CallResume, CallRelease, Issue, Enter, Acquire, Resume,
           ResumeOwned, Release, Take, Remove, Verify, UnlinkStamp, Rmdir, Write, Recheck,
           WriteStamp, WriteOwner, Step, Answer, Succeed, Busy, Fail, Retry, IoError, Crash,
           Litter
  <1>7. pc[c] = "unlink" /\ guard[r] = c
    BY <1>0, <1>2, <1>6 DEF UnlinkOwner, Step, Basics, Custody, Inside, Removing
  <1> QED BY <1>0, <1>2, <1>7 DEF TendsOwn, ReleasedByWriter

\* Nobody's record is taken but by those who may: an incomplete one stays as it
\* is (exit 69 of the script), a Script's leaves with its own release-script
\* only, for any callers, TTLs and kills.
THEOREM RecordsCorrect == Spec => RecordsKept
  <1>1. IInv /\ [Next]_vars =>
            [\A r \in Resources :
                Abandoned(r) => disk'[r] = disk[r] /\ Abandoned(r)']_vars
    <2>1. IInv /\ Tick => \A r \in Resources :
                              Abandoned(r) => disk'[r] = disk[r] /\ Abandoned(r)'
      BY DEF Tick, local, Abandoned, Snapshot, Torn
    <2> QED BY <2>1, UnknownMove DEF Next, Moves, IInv
  <1>2. IInv /\ Tended /\ [Next]_vars =>
            [\A r \in Resources :
                Snapshot(r) = "script" /\ Snapshot(r)' # "script" =>
                    ReleasedByWriter(r)]_vars
    <2>1. Tick => \A r \in Resources : Snapshot(r)' = Snapshot(r)
      BY DEF Tick, local, Snapshot, Torn
    <2> QED BY <2>1, ScriptMove DEF Next, Moves
  <1>3. Spec => UnknownPreserved
    BY <1>1, TendedCorrect, PTL DEF Spec, UnknownPreserved
  <1>4. Spec => ScriptKept
    BY <1>2, TendedCorrect, PTL DEF Spec, ScriptKept
  <1> QED BY <1>3, <1>4 DEF RecordsKept

LEMMA AbsentThere ==
    ASSUME TypeOK, NEW r \in Resources, Snapshot(r) = "Absent"
    PROVE  ~disk[r].there
  <1>1. disk[r].owner \in Owners => disk[r].owner.kind \in {"session", "script"}
    BY DEF Owners
  <1> QED BY <1>1 DEF Snapshot, Torn, TypeOK, Dirs

\* Without faults an operation gives a device up claimed, and works on the record
\* it has read.
LEMMA KeptOwn ==
    ASSUME IInv, Kept, Faults = {}, NEW c \in Callers, Moves(c)
    PROVE  LeavesClaimed(c)'
  <1> DEFINE r == res[c]
  <1>0. /\ r \in Resources /\ disk \in [Resources -> Dirs] /\ disk[r] \in Dirs
        /\ pc \in [Callers -> {"idle", "queue"} \cup Inside]
        /\ seen \in [Callers -> Owners \cup {None}]
        /\ LeavesClaimed(c) /\ Basics /\ TypeOK
        /\ guard[r] = None => Claimed(r)
    BY DEF IInv, Basics, TypeOK, Kept
  <1>1. CASE CallAcquire(c) \/ CallResume(c) \/ CallRelease(c) \/ Answer(c)
    <2>1. pc'[c] \in {"idle", "queue"}
      BY <1>0, <1>1 DEF CallAcquire, CallResume, CallRelease, Issue, Answer, Succeed, Busy,
             Fail, Return, Retry
    <2> QED BY <2>1 DEF LeavesClaimed
  <1>2. CASE Enter(c)
    <2>1. PICK next : GuardFree(c) /\ Take(c, next)
      BY <1>2 DEF Enter, Acquire, Resume, ResumeOwned, Release
    <2>2. /\ pc'[c] = next /\ disk' = disk /\ res' = res /\ call' = call
          /\ seen'[c] = disk[r].owner
      BY <1>0, <2>1 DEF Take, local
    <2>3. next \in {"busy", "fail", "ok"} => claims' = claims
      BY <1>0, <1>2, <2>2
         DEF Enter, Acquire, Resume, ResumeOwned, Release, Take
    <2>4. next \in {"verify", "recheck"} => Snapshot(r) \in {"session", "script"}
      BY <1>0, <1>2, <2>2
         DEF Enter, Acquire, Resume, ResumeOwned, Release, Take, Reclaimable, Owned,
             Releasable, Kind
    <2>5. next = "mkdir" => ~disk[r].there
      BY <1>0, <1>2, <2>2, AbsentThere
         DEF Enter, Acquire, Resume, ResumeOwned, Release, Take
    <2>6. Claimed(r)
      BY <1>0, <2>1 DEF GuardFree
    <2> QED BY <2>2, <2>3, <2>4, <2>5, <2>6 DEF LeavesClaimed, Claimed, Unchanged, Snapshot,
         Torn
  <1>3. CASE Verify(c) \/ Recheck(c)
    <2>1. pc'[c] \in {"unlink", "stamp"}
      BY <1>0, <1>3 DEF Verify, Recheck, Step, LeavesClaimed
    <2> QED BY <2>1 DEF LeavesClaimed
  <1>4. CASE UnlinkOwner(c) \/ UnlinkStamp(c) \/ WriteStamp(c)
    <2>1. pc'[c] \in {"unstamp", "rmdir", "owner"}
      BY <1>0, <1>4 DEF UnlinkOwner, UnlinkStamp, WriteStamp, Step
    <2> QED BY <2>1 DEF LeavesClaimed
  <1>5. CASE Rmdir(c)
    <2>1. pc'[c] \in {"ok", "mkdir"} /\ ~disk'[r].there /\ res' = res
      BY <1>0, <1>5 DEF Rmdir, Step, Put, Empty, local
    <2> QED BY <2>1 DEF LeavesClaimed, Claimed
  <1>6. CASE Mkdir(c)
    <2>1. pc'[c] = "stamp"
      BY <1>0, <1>6 DEF Mkdir, Step, LeavesClaimed
    <2> QED BY <2>1 DEF LeavesClaimed
  <1>7. CASE WriteOwner(c)
    <2>1. pc'[c] = "ok" /\ call' = call /\ call[c].op # "release"
      BY <1>0, <1>7 DEF WriteOwner, Step, local, Basics, Custody, Writing
    <2> QED BY <2>1 DEF LeavesClaimed
  <1>8. ~IoError(c) /\ ~Crash(c)
    BY DEF IoError, Crash
  <1> QED BY <1>1, <1>2, <1>3, <1>4, <1>5, <1>6, <1>7, <1>8 DEF Moves, Remove, Write

\* And a device whose guard is free is claimed.
LEMMA KeptFree ==
    ASSUME IInv, Kept, Faults = {}, NEW c \in Callers, Moves(c),
           NEW r \in Resources, r = res[c], guard'[r] = None
    PROVE  Claimed(r)'
  <1>0. /\ r \in Resources /\ guard \in [Resources -> Callers \cup {None}]
        /\ claims \in [Resources -> SUBSET Owners]
        /\ LeavesClaimed(c) /\ PendingOf(c) /\ Basics
        /\ guard[r] = None => Claimed(r)
    BY DEF IInv, Basics, TypeOK, Kept, Pending
  <1>1. CASE CallAcquire(c) \/ CallResume(c) \/ CallRelease(c)
    <2>1. disk' = disk /\ claims' = claims /\ guard' = guard
      BY <1>1 DEF CallAcquire, CallResume, CallRelease, Issue
    <2> QED BY <1>0, <2>1 DEF Claimed
  <1>2. CASE Enter(c)
    <2>1. PICK next : Take(c, next)
      BY <1>2 DEF Enter, Acquire, Resume, ResumeOwned, Release
    <2>2. guard'[r] = c
      BY <1>0, <2>1 DEF Take
    <2> QED BY <2>2, LockAssumption
  <1>3. CASE Remove(c) \/ Write(c)
    <2>1. guard' = guard /\ pc[c] \in Inside
      BY <1>3 DEF Remove, Verify, UnlinkOwner, UnlinkStamp, Rmdir, Write, Mkdir, Recheck,
             WriteStamp, WriteOwner, Step, Inside, Removing, Writing
    <2>2. guard[r] = c
      BY <1>0, <2>1 DEF Basics, Custody
    <2> QED BY <2>1, <2>2, LockAssumption
  <1>4. CASE Succeed(c) /\ call[c].op # "release"
    <2>1. disk[r].owner = draft[c] /\ disk' = disk
      BY <1>0, <1>4 DEF Succeed, PendingOf
    <2>2. draft[c] \in claims'[r]
      BY <1>0, <1>4 DEF Succeed, Granted
    <2> QED BY <2>1, <2>2 DEF Claimed
  <1>5. CASE Busy(c) \/ Fail(c) \/ (Succeed(c) /\ call[c].op = "release")
    <2>1. disk' = disk /\ claims' = claims /\ Claimed(r)
      BY <1>0, <1>5 DEF Busy, Fail, Succeed, Granted, Return, Retry, LeavesClaimed
    <2> QED BY <2>1 DEF Claimed
  <1>6. ~IoError(c) /\ ~Crash(c)
    BY DEF IoError, Crash
  <1> QED BY <1>1, <1>2, <1>3, <1>4, <1>5, <1>6 DEF Moves, Answer

LEMMA KeptMove ==
    ASSUME IInv, Kept, NEW c \in Callers, Moves(c)
    PROVE  Kept'
  <1> SUFFICES ASSUME Faults = {}
               PROVE  /\ \A q \in Resources : guard'[q] = None => Claimed(q)'
                      /\ \A d \in Callers : LeavesClaimed(d)'
    BY DEF Kept
  <1>0. Basics /\ pc \in [Callers -> {"idle", "queue"} \cup Inside]
    BY DEF IInv, Basics, TypeOK
  <1>1. ASSUME NEW q \in Resources, guard'[q] = None PROVE Claimed(q)'
    <2>1. CASE q = res[c]
      BY <1>1, <2>1, KeptFree
    <2>2. CASE q # res[c]
      BY <1>0, <1>1, <2>2, OthersKeep DEF Kept, Claimed
    <2> QED BY <2>1, <2>2
  <1>2. ASSUME NEW d \in Callers PROVE LeavesClaimed(d)'
    <2>1. CASE d = c
      BY <2>1, KeptOwn
    <2>2. CASE d # c /\ pc[d] \in Inside
      <3>1. /\ pc'[d] = pc[d] /\ call'[d] = call[d] /\ res'[d] = res[d] /\ seen'[d] = seen[d]
            /\ disk'[res[d]] = disk[res[d]] /\ claims'[res[d]] = claims[res[d]]
        BY <1>0, <2>2, OthersKeep, Apart
      <3>2. LeavesClaimed(d)
        BY DEF Kept
      <3> QED BY <3>1, <3>2 DEF LeavesClaimed, Claimed, Unchanged, Snapshot, Torn
    <2>3. CASE d # c /\ pc[d] \notin Inside
      <3>1. pc'[d] \in {"idle", "queue"}
        BY <1>0, <2>3, OthersKeep
      <3> QED BY <3>1 DEF LeavesClaimed
    <2> QED BY <2>1, <2>2, <2>3
  <1> QED BY <1>1, <1>2

LEMMA KeptTick == Kept /\ (Tick \/ UNCHANGED vars) => Kept'
  BY DEF Kept, LeavesClaimed, Claimed, Unchanged, Snapshot, Torn, Tick, vars, local

\* Without kills and failing system calls no lock is lost: acquire-any and the
\* others leave no record behind that its caller was not told of.
THEOREM NoOrphansCorrect == Spec => []NoOrphans
  <1>1. Init => IInv
    BY Initially DEF IInv
  <1>2. Init => Kept
    BY DEF Init, Empty, Kept, LeavesClaimed, Claimed
  <1>3. IInv /\ Kept /\ [Next]_vars => Kept'
    BY KeptMove, KeptTick DEF Next, Moves
  <1>4. Kept => NoOrphans
    BY DEF Kept, Claimed, NoOrphans
  <1> QED BY <1>1, <1>2, <1>3, <1>4, Inductive, PTL DEF Spec
=============================================================================
