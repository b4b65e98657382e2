---------------------------- MODULE ResourceLock ----------------------------
(***************************************************************************)
(* templates/project/emulator-resource-lock.sh: exclusive use of a device  *)
(* by the Sessions and Scripts of one machine.  A lock is a directory with *)
(* two files, owner and created_at; every operation on it runs under the   *)
(* flock of a guard file.  An operation that dies releases the guard and   *)
(* leaves the directory as it is.                                          *)
(***************************************************************************)
EXTENDS Integers, FiniteSets

CONSTANTS
    Sessions, Scripts,  \* the callers
    TaskOf,             \* the Task of each Session
    Resources,
    Ttls,               \* the ttl_seconds that callers pass
    Rounds,             \* bound: rounds of acquire-any before wait_seconds is over
    MaxTime, MaxTokens, MaxRestarts,  \* bounds of the instance
    Faults,             \* "crash": an operation is killed; "io": it fails
    None

Callers == Sessions \cup Scripts

ASSUME LockAssumption ==
    /\ Sessions \cap Scripts = {}
    /\ None \notin Callers
    /\ Ttls \subseteq Nat /\ Ttls # {}
    /\ {Rounds, MaxTime, MaxTokens, MaxRestarts} \subseteq Nat
    /\ Faults \subseteq {"crash", "io"}

VARIABLES
    disk,    \* the lock directory of each resource
    guard,   \* the operation that holds the guard of each resource
    pc,      \* where each caller is
    call,    \* the command line of its operation
    res,     \* the resource that its operation is at
    rest,    \* acquire-any: the resources left in this round
    rounds,  \* acquire: the rounds left
    seen,    \* the owner record its operation read
    draft,   \* the owner record its operation writes
    know,    \* the tokens that it was given
    claims,  \* what callers were told they own, per resource
    clock, minted, inc

local == <<call, res, rest, rounds>>
vars  == <<disk, guard, pc, local, seen, draft, know, claims, clock, minted, inc>>

-----------------------------------------------------------------------------
\* Who stands behind a caller: a Session's Task, or the Script process itself.
By(c)   == IF c \in Sessions THEN TaskOf[c] ELSE c
Kind(c) == IF c \in Sessions THEN "session" ELSE "script"

Owner(c, token) ==
    [kind |-> Kind(c), token |-> token, by |-> By(c), inc |-> inc[c], at |-> clock]

Owners == [kind: {"session", "script"}, token: Nat, by: {By(c): c \in Callers},
           inc: Nat, at: Nat]
Dirs   == [there: BOOLEAN, stamp: Nat \cup {None}, owner: Owners \cup {None},
           litter: BOOLEAN]
Ops    == {"none", "acquire", "resume", "resume-owned", "release"}
Calls  == [op: Ops, token: Nat, ttl: Nat, want: SUBSET Resources]

Removing == {"verify", "unlink", "unstamp", "rmdir"}
Writing  == {"mkdir", "recheck", "stamp", "owner"}
Inside   == Removing \cup Writing \cup {"ok", "busy", "fail"}

\* Type correctness.
TypeOK ==
    /\ disk \in [Resources -> Dirs]
    /\ guard \in [Resources -> Callers \cup {None}]
    /\ pc \in [Callers -> {"idle", "queue"} \cup Inside]
    /\ call \in [Callers -> Calls]
    /\ res \in [Callers -> Resources]
    /\ rest \in [Callers -> SUBSET Resources]
    /\ rounds \in [Callers -> Nat]
    /\ seen \in [Callers -> Owners \cup {None}]
    /\ draft \in [Callers -> Owners \cup {None}]
    /\ know \in [Callers -> SUBSET Nat]
    /\ claims \in [Resources -> SUBSET Owners]
    /\ clock \in Nat /\ minted \in Nat /\ inc \in [Callers -> Nat]

Empty  == [there |-> FALSE, stamp |-> None, owner |-> None, litter |-> FALSE]
NoCall == [op |-> "none", token |-> 0, ttl |-> 0, want |-> {}]

Init ==
    /\ disk = [r \in Resources |-> Empty]
    /\ guard = [r \in Resources |-> None]
    /\ pc = [c \in Callers |-> "idle"]
    /\ call = [c \in Callers |-> NoCall]
    /\ res \in {[c \in Callers |-> r]: r \in Resources}
    /\ rest = [c \in Callers |-> {}] /\ rounds = [c \in Callers |-> 0]
    /\ seen = [c \in Callers |-> None] /\ draft = [c \in Callers |-> None]
    /\ know = [c \in Callers |-> {}] /\ claims = [r \in Resources |-> {}]
    /\ clock = 0 /\ minted = 0 /\ inc = [c \in Callers |-> 0]

\* snapshot: a directory that is not exactly a complete record is unknown.
Torn(d) == d.litter \/ d.owner = None \/ d.stamp = None \/ d.stamp # d.owner.at

Snapshot(r) ==
    IF ~disk[r].there THEN "Absent"
    ELSE IF Torn(disk[r]) THEN "UnknownOwner" ELSE disk[r].owner.kind

-----------------------------------------------------------------------------
\* The command line

Issue(c, request, r, n) ==
    /\ pc[c] = "idle"
    /\ pc' = [pc EXCEPT ![c] = "queue"]
    /\ call' = [call EXCEPT ![c] = request]
    /\ res' = [res EXCEPT ![c] = r]
    /\ rest' = [rest EXCEPT ![c] = request.want \ {r}]
    /\ rounds' = [rounds EXCEPT ![c] = n]
    /\ UNCHANGED <<disk, guard, seen, draft, know, claims, clock, inc>>

\* acquire, acquire-any, acquire-script and acquire-script-any.  The token that
\* the call may write into one record is drawn here: nobody sees it earlier.
CallAcquire(c) ==
    /\ minted < MaxTokens
    /\ minted' = minted + 1
    /\ \E want \in SUBSET Resources, ttl \in Ttls, r \in Resources :
         /\ r \in want
         /\ Issue(c, [op |-> "acquire", token |-> minted + 1, ttl |-> ttl, want |-> want],
                  r, Rounds)

\* resume <resource> <token> and resume-owned <resource>, of Sessions.
CallResume(c) ==
    /\ c \in Sessions
    /\ \E r \in Resources :
         \/ \E t \in know[c] :
              Issue(c, [op |-> "resume", token |-> t, ttl |-> 0, want |-> {r}], r, 0)
         \/ Issue(c, [op |-> "resume-owned", token |-> 0, ttl |-> 0, want |-> {r}], r, 0)
    /\ UNCHANGED minted

\* release <resource> <token> and release-script <resource>.
CallRelease(c) ==
    /\ \E r \in Resources, t \in know[c] :
         Issue(c, [op |-> "release", token |-> t, ttl |-> 0, want |-> {r}], r, 0)
    /\ UNCHANGED minted

-----------------------------------------------------------------------------
\* Under the guard: what each operation decides on the record it reads

\* flock on the guard file.  Nothing else serialises two operations.
GuardFree(c) == pc[c] = "queue" /\ guard[res[c]] = None

Take(c, next) ==
    /\ guard' = [guard EXCEPT ![res[c]] = c]
    /\ seen' = [seen EXCEPT ![c] = disk[res[c]].owner]
    /\ pc' = [pc EXCEPT ![c] = next]
    /\ UNCHANGED <<disk, local, know, clock, minted, inc>>

\* Mutant: a lease is stale as soon as it is ttl seconds old.
ExpiredEarly(c, owner) == clock - owner.at >= call[c].ttl

Expired(c, owner) == clock - owner.at > call[c].ttl

\* Mutant: a record whose created_at is in doubt is reclaimed as well.
ReclaimableUnknown(c) ==
    /\ c \in Sessions
    /\ Snapshot(res[c]) \in {"session", "UnknownOwner"}
    /\ disk[res[c]].owner # None
    /\ Expired(c, disk[res[c]].owner)

\* Only a complete Session record expires, and only for a Session.
Reclaimable(c) ==
    /\ c \in Sessions
    /\ Snapshot(res[c]) = "session"
    /\ Expired(c, disk[res[c]].owner)

\* locked_try_acquire and locked_script_acquire.
Acquire(c) ==
    /\ GuardFree(c)
    /\ call[c].op = "acquire"
    /\ IF Snapshot(res[c]) = "Absent" \/ Reclaimable(c)
       THEN /\ draft' = [draft EXCEPT ![c] = Owner(c, call[c].token)]
            /\ Take(c, IF Snapshot(res[c]) = "Absent" THEN "mkdir" ELSE "verify")
       ELSE /\ Take(c, "busy")
            /\ UNCHANGED draft
    /\ UNCHANGED claims

\* The record is a Session's, of the same Task.
Owned(c) ==
    /\ Snapshot(res[c]) = "session"
    /\ disk[res[c]].owner.by = TaskOf[c]

\* locked_resume: a lock that is gone is created again under the old token.
Resume(c) ==
    /\ GuardFree(c)
    /\ call[c].op = "resume"
    /\ IF Snapshot(res[c]) = "Absent"
          \/ (Owned(c) /\ disk[res[c]].owner.token = call[c].token)
       THEN /\ draft' = [draft EXCEPT ![c] = Owner(c, call[c].token)]
            /\ Take(c, IF Snapshot(res[c]) = "Absent" THEN "mkdir" ELSE "recheck")
       ELSE /\ Take(c, "fail")
            /\ UNCHANGED draft
    /\ UNCHANGED claims

\* locked_resume_owned: another Session of the Task is given the token.
ResumeOwned(c) ==
    /\ GuardFree(c)
    /\ call[c].op = "resume-owned"
    /\ IF Owned(c)
       THEN /\ draft' = [draft EXCEPT ![c] = Owner(c, disk[res[c]].owner.token)]
            /\ Take(c, "recheck")
       ELSE /\ Take(c, "fail")
            /\ UNCHANGED draft
    /\ UNCHANGED claims

\* The record is the caller's own: by its token and, for a Script, by the
\* identity of the process observed now.
Releasable(c) ==
    /\ Snapshot(res[c]) = Kind(c)
    /\ disk[res[c]].owner.token = call[c].token
    /\ c \in Scripts => disk[res[c]].owner.by = c /\ disk[res[c]].owner.inc = inc[c]

\* locked_release and locked_script_release.  From here on the caller does not
\* count on the lock, whatever becomes of the removal.
Release(c) ==
    /\ GuardFree(c)
    /\ call[c].op = "release"
    /\ IF Releasable(c)
       THEN /\ Take(c, "verify")
            /\ claims' = [claims EXCEPT ![res[c]] =
                             {p \in @ : p.token # call[c].token}]
       ELSE /\ Take(c, IF Snapshot(res[c]) = "Absent" /\ c \in Sessions
                       THEN "ok" ELSE "fail")
            /\ UNCHANGED claims
    /\ UNCHANGED draft

-----------------------------------------------------------------------------
\* storage_tool: remove_owner and write_owner, one system call at a time

Step(c, from, next) ==
    /\ pc[c] = from
    /\ pc' = [pc EXCEPT ![c] = next]
    /\ UNCHANGED <<guard, local, seen, know, claims, clock, minted, inc>>

Put(c, d) == disk' = [disk EXCEPT ![res[c]] = d]

\* The record is still the one that was read.
Unchanged(c) ==
    /\ Snapshot(res[c]) \in {"session", "script"}
    /\ disk[res[c]].owner = seen[c]

Verify(c) ==
    /\ Step(c, "verify", IF Unchanged(c) THEN "unlink" ELSE "busy")
    /\ UNCHANGED <<disk, draft>>

UnlinkOwner(c) ==
    /\ Step(c, "unlink", "unstamp")
    /\ Put(c, [disk[res[c]] EXCEPT !.owner = None])
    /\ UNCHANGED draft

UnlinkStamp(c) ==
    /\ Step(c, "unstamp", "rmdir")
    /\ Put(c, [disk[res[c]] EXCEPT !.stamp = None])
    /\ UNCHANGED draft

\* A release ends here, a reclaiming acquire goes on to write its own record.
Rmdir(c) ==
    /\ Step(c, "rmdir", IF call[c].op = "release" THEN "ok" ELSE "mkdir")
    /\ Put(c, Empty)
    /\ UNCHANGED draft

\* Exclusive: an existing directory fails the write.
Mkdir(c) ==
    /\ Step(c, "mkdir", IF disk[res[c]].there THEN "fail" ELSE "stamp")
    /\ Put(c, [disk[res[c]] EXCEPT !.there = TRUE])
    /\ draft' = [draft EXCEPT ![c].at = clock]

\* A rewrite verifies the record it replaces.
Recheck(c) ==
    /\ Step(c, "recheck", IF Unchanged(c) THEN "stamp" ELSE "fail")
    /\ draft' = [draft EXCEPT ![c].at = clock]
    /\ UNCHANGED disk

WriteStamp(c) ==
    /\ Step(c, "stamp", "owner")
    /\ Put(c, [disk[res[c]] EXCEPT !.stamp = draft[c].at])
    /\ UNCHANGED draft

WriteOwner(c) ==
    /\ Step(c, "owner", "ok")
    /\ Put(c, [disk[res[c]] EXCEPT !.owner = draft[c]])
    /\ UNCHANGED draft

-----------------------------------------------------------------------------
\* The end of an operation

\* The script returns to its caller and the guard is dropped.
Unlock(c) == guard' = [guard EXCEPT ![res[c]] = IF @ = c THEN None ELSE @]

Return(c) ==
    /\ Unlock(c)
    /\ pc' = [pc EXCEPT ![c] = "idle"]
    /\ call' = [call EXCEPT ![c] = NoCall]
    /\ rest' = [rest EXCEPT ![c] = {}]
    /\ rounds' = [rounds EXCEPT ![c] = 0]
    /\ seen' = [seen EXCEPT ![c] = None]
    /\ draft' = [draft EXCEPT ![c] = None]
    /\ UNCHANGED <<res, clock, minted>>

\* The next resource of this round of acquire-any, or of the next round.
Retry(c, candidates, n) ==
    \E r \in candidates :
        /\ Unlock(c)
        /\ pc' = [pc EXCEPT ![c] = "queue"]
        /\ res' = [res EXCEPT ![c] = r]
        /\ rest' = [rest EXCEPT ![c] = candidates \ {r}]
        /\ rounds' = [rounds EXCEPT ![c] = n]
        /\ UNCHANGED <<disk, call, seen, draft, know, claims, clock, minted, inc>>

\* What the caller is told when it was granted the lock.
Granted(c) ==
    IF call[c].op = "release" THEN UNCHANGED <<know, claims>>
    ELSE /\ know' = [know EXCEPT ![c] = @ \cup {draft[c].token}]
         /\ claims' = [claims EXCEPT ![res[c]] =
                           {p \in @ : p.token # draft[c].token} \cup {draft[c]}]

\* Mutant: acquire-any goes on to the next resource after a success.
SucceedGreedy(c) ==
    /\ pc[c] = "ok"
    /\ IF rest[c] # {}
       THEN Retry(c, rest[c], rounds[c])
       ELSE Return(c) /\ Granted(c) /\ UNCHANGED <<disk, inc>>

Succeed(c) ==
    /\ pc[c] = "ok"
    /\ Return(c)
    /\ Granted(c)
    /\ UNCHANGED <<disk, inc>>

\* Status 75 sends an acquire to the next resource, or round, if one is left.
Busy(c) ==
    /\ pc[c] = "busy"
    /\ IF rest[c] # {} THEN Retry(c, rest[c], rounds[c])
       ELSE IF rounds[c] # 0 THEN Retry(c, call[c].want, rounds[c] - 1)
       ELSE Return(c) /\ UNCHANGED <<disk, know, claims, inc>>

Fail(c) ==
    /\ pc[c] = "fail"
    /\ Return(c)
    /\ UNCHANGED <<disk, know, claims, inc>>

\* What a write that stops half way leaves: nothing, or its temporary file.
Litter(c) ==
    \/ UNCHANGED disk
    \/ pc[c] \in {"stamp", "owner"} /\ Put(c, [disk[res[c]] EXCEPT !.litter = TRUE])

\* The storage tool raises: 75 out of a removal, 69 out of a write.
IoError(c) ==
    /\ "io" \in Faults
    /\ pc[c] \in Removing \cup Writing
    /\ Litter(c)
    /\ pc' = [pc EXCEPT ![c] = IF @ \in Removing THEN "busy" ELSE "fail"]
    /\ UNCHANGED <<guard, local, seen, draft, know, claims, clock, minted, inc>>

\* The operation is killed, or its answer is lost.  A Session's tokens are in
\* its checkpoint; a Script comes back as another process.
Crash(c) ==
    /\ "crash" \in Faults
    /\ pc[c] # "idle"
    /\ Litter(c)
    /\ Return(c)
    /\ inc' = [inc EXCEPT ![c] = IF c \in Scripts THEN @ + 1 ELSE @]
    /\ c \in Scripts => inc[c] < MaxRestarts
    /\ UNCHANGED <<know, claims>>

Tick ==
    /\ clock < MaxTime
    /\ clock' = clock + 1
    /\ UNCHANGED <<disk, guard, pc, local, seen, draft, know, claims, minted, inc>>
Enter(c)  == Acquire(c) \/ Resume(c) \/ ResumeOwned(c) \/ Release(c)
Remove(c) == Verify(c) \/ UnlinkOwner(c) \/ UnlinkStamp(c) \/ Rmdir(c)
Write(c)  == Mkdir(c) \/ Recheck(c) \/ WriteStamp(c) \/ WriteOwner(c)
Answer(c) == Succeed(c) \/ Busy(c) \/ Fail(c)

Next ==
    \/ \E c \in Callers :
          \/ CallAcquire(c) \/ CallResume(c) \/ CallRelease(c)
          \/ Enter(c) \/ Remove(c) \/ Write(c) \/ Answer(c)
          \/ IoError(c) \/ Crash(c)
    \/ Tick

Spec == Init /\ [][Next]_vars

\* The kernel schedules every running operation and does not starve a waiter
\* of flock for ever.
FairSpec ==
    /\ Spec
    /\ \A c \in Callers :
         WF_vars(Remove(c) \/ Write(c) \/ Answer(c)) /\ SF_vars(Enter(c))

-----------------------------------------------------------------------------
\* Correctness

\* A claim that no caller's TTL has outlived; a Script's never expires.
Fresh(p) == p.kind = "script" \/ \A ttl \in Ttls : clock - p.at <= ttl

\* Mutual exclusion: two callers that were told they own a device, and that
\* were not given it back or overrun by a TTL, stand for the same Task.  No
\* crash, torn record, late reclaim or resume ever makes it two.
Exclusive ==
    \A r \in Resources : \A p, q \in claims[r] :
        Fresh(p) /\ Fresh(q) => p.by = q.by /\ p.token = q.token

\* "Unknown, partial, unsafe, or conflicting state is preserved": a record
\* that no operation is working on and that is not complete stays as it is.
Abandoned(r) ==
    /\ Snapshot(r) = "UnknownOwner"
    /\ \A c \in Callers : pc[c] \in Removing \cup Writing => res[c] # r

UnknownPreserved ==
    [][\A r \in Resources :
          Abandoned(r) => disk'[r] = disk[r] /\ Abandoned(r)']_vars

ReleasedByWriter(r) ==
    LET o == disk[r].owner IN
        guard[r] = o.by /\ call[o.by].op = "release" /\ inc[o.by] = o.inc

\* A Script's record leaves the disk only through release-script of the very
\* process that wrote it: no TTL, no other caller, no later incarnation.
ScriptKept ==
    [][\A r \in Resources :
          Snapshot(r) = "script" /\ Snapshot(r)' # "script" => ReleasedByWriter(r)]_vars

\* Both together: nobody's record is taken but by those who may.
RecordsKept == UnknownPreserved /\ ScriptKept

\* Without kills and failing system calls no lock is lost: every record that
\* nobody is working on belongs to a caller that was told so.
NoOrphans ==
    Faults = {} =>
        \A r \in Resources :
            guard[r] = None /\ disk[r].there =>
                \E p \in claims[r] : p = disk[r].owner

-----------------------------------------------------------------------------
\* The strengthening that makes Exclusive inductive

\* An operation at work holds the guard and knows what it is going to write.
Custody ==
    \A c \in Callers :
        /\ pc[c] \in Inside => guard[res[c]] = c
        /\ pc[c] \in Writing => call[c].op # "release"
        /\ call[c].op = "acquire" => call[c].ttl \in Ttls
        /\ call[c].op \in {"resume", "resume-owned"} => c \in Sessions
        /\ pc[c] \in Removing \cup Writing \cup {"ok"} /\ call[c].op # "release" =>
               draft[c] \in Owners /\ draft[c].at <= clock

Match(p, o) == p.token = o.token /\ p.by = o.by /\ p.kind = o.kind /\ p.at <= o.at

\* A fresh claim has its record on the disk, as young as the claim or younger.
BackedAt(r) ==
    \A p \in claims[r] :
        /\ p.at <= clock
        /\ Fresh(p) => /\ disk[r].there
                       /\ disk[r].owner \in Owners
                       /\ Match(p, disk[r].owner)

Backed == \A r \in Resources : BackedAt(r)

NoneFresh(r) == \A p \in claims[r] : ~Fresh(p)

\* A record is removed, or a first one written, only when nobody counts on the
\* device; it is rewritten only for those who do.
PendingOf(c) ==
    /\ pc[c] \in Removing \cup {"mkdir"} => NoneFresh(res[c])
    /\ pc[c] \in {"recheck", "stamp", "owner"} =>
           \A p \in claims[res[c]] : Fresh(p) => Match(p, draft[c])
    /\ pc[c] \in {"stamp", "owner"} => disk[res[c]].there
    /\ pc[c] = "ok" /\ call[c].op # "release" =>
           disk[res[c]].there /\ disk[res[c]].owner = draft[c]

Pending == \A c \in Callers : PendingOf(c)

Strengthening == Custody /\ Backed /\ Pending

-----------------------------------------------------------------------------
\* The strengthening that makes RecordsKept and NoOrphans inductive

\* What an operation does to a record that is there: it removes a Script's own
\* for that Script alone, has taken the owner away before it removes the rest,
\* and rewrites none but a Session's.
TendsOwn(c) ==
    LET d == disk[res[c]] IN
    /\ pc[c] \in {"verify", "unlink"} /\ Snapshot(res[c]) = "script" =>
           call[c].op = "release" /\ d.owner.by = c /\ d.owner.inc = inc[c]
    /\ pc[c] \in {"unstamp", "rmdir"} => d.owner = None
    /\ pc[c] \in {"recheck", "stamp", "owner"} => d.owner = None \/ d.owner.kind = "session"

\* A lock that is absent has no owner, and every operation keeps to that.
Tended ==
    /\ \A r \in Resources : ~disk[r].there => disk[r].owner = None
    /\ \A c \in Callers : TendsOwn(c)

\* The record belongs to somebody who was told so.
Claimed(r) == disk[r].there => disk[r].owner \in claims[r]

\* Without faults: a resource is given up with its record claimed, what is to
\* be removed or rewritten is what was read, and a first record finds no lock.
LeavesClaimed(c) ==
    /\ pc[c] \in {"busy", "fail"} => Claimed(res[c])
    /\ pc[c] = "ok" /\ call[c].op = "release" => Claimed(res[c])
    /\ pc[c] \in {"verify", "recheck"} => Unchanged(c)
    /\ pc[c] = "mkdir" => ~disk[res[c]].there

Kept ==
    Faults = {} =>
        /\ \A r \in Resources : guard[r] = None => Claimed(r)
        /\ \A c \in Callers : LeavesClaimed(c)
=============================================================================
