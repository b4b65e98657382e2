---------------------------- MODULE PlanContract ----------------------------
(***************************************************************************)
(* The plan of a Task: immutable working revisions and accepted snapshots   *)
(* under compare-and-swap heads (workflowkit/project_memory.py), and the    *)
(* deterministic graph nodes Plan Contract Accept and Plan Contract Guard   *)
(* (templates/project/workflow-plan-contract) that let a writer start or    *)
(* continue only on an accepted plan.                                       *)
(*                                                                          *)
(* Agents publish revisions while the script reads the accepted head, the   *)
(* plan, the local cache and the working head one after the other.  The     *)
(* store is locked per document, a script holds no lock between its calls,  *)
(* and every process may die at any step and be run again.                  *)
(***************************************************************************)
EXTENDS Naturals

CONSTANTS
    Operation,   \* publications; a revision token is the digest of one of them
    Guard,       \* runs of the plan contract script
    Snapshot,    \* digests of accepted snapshots (their number is a bound)
    Text,        \* contents of a plan up to operational checkbox progress
    Review,      \* acceptance metadata: work kind, authority references
    None

\* The values that documents and accepted snapshots take.
Revisions == [parent : Operation \cup {None}, text : Text]
Accepted  == [revision : Operation, parent : Snapshot \cup {None}, review : Review]

ASSUME PlanAssumption ==
    /\ None \notin Operation \cup Guard \cup Snapshot \cup Revisions \cup Accepted
    /\ Operation \cap Guard = {}

VARIABLES
    plan,      \* plan[o]: the revision that operation o publishes
    disk,      \* disk[o]: what of its directory is on disk
    head,      \* plan/head.json
    lock,      \* plan/.lock, which also guards the accepted head
    publisher, \* publisher[o]: where operation o is
    snapshot,  \* snapshot[s]: accepted/<s>.json
    accepted,  \* accepted-head.json
    cache,     \* .kent/runtime/<task>/plan-contract.json, a locator
    closed,    \* terminal preparation owns the plan
    pc,        \* pc[g]: where script run g is
    mode,      \* mode[g]: "accept" or "check"
    seen,      \* seen[g]: the accepted head as g read it
    work,      \* work[g]: the working revision as g read it
    subject,   \* subject[g]: the reviewed revision that acceptance is about
    mine,      \* mine[g]: the snapshot that g accepts or continues on
    answer,    \* answer[g]: the transition g emitted
    joint      \* history: accepted and working heads that held together

store  == <<plan, disk, head, publisher>>
known  == <<seen, work, subject, mine>>
vars   == <<store, lock, snapshot, accepted, cache, closed, pc, mode, known, answer, joint>>

Steps == {"idle", "status", "locator", "resolve", "accept", "swing", "confirm", "cache"}

\* Type correctness.
TypeOK ==
    /\ plan \in [Operation -> Revisions \cup {None}]
    /\ disk \in [Operation -> {"none", "content", "complete"}]
    /\ head \in Operation \cup {None}
    /\ lock \in Operation \cup Guard \cup {None}
    /\ publisher \in [Operation -> {"idle", "lock", "content", "metadata", "swing", "done"}]
    /\ snapshot \in [Snapshot -> Accepted \cup {None}]
    /\ accepted \in Snapshot \cup {None}
    /\ cache \in Snapshot \cup {None}
    /\ closed \in BOOLEAN
    /\ pc \in [Guard -> Steps]
    /\ mode \in [Guard -> {"accept", "check"}]
    /\ seen \in [Guard -> Snapshot \cup {None}]
    /\ work \in [Guard -> Operation \cup {None}]
    /\ subject \in [Guard -> Operation \cup {None}]
    /\ mine \in [Guard -> Snapshot \cup {None}]
    /\ answer \in [Guard -> {"none", "route", "revalidate", "error"}]
    /\ joint \subseteq (Snapshot \cup {None}) \X (Operation \cup {None})

Init ==
    /\ plan = [o \in Operation |-> None] /\ disk = [o \in Operation |-> "none"]
    /\ head = None /\ lock = None
    /\ publisher = [o \in Operation |-> "idle"]
    /\ snapshot = [s \in Snapshot |-> None]
    /\ accepted = None /\ cache = None /\ closed = FALSE
    /\ pc = [g \in Guard |-> "idle"] /\ mode = [g \in Guard |-> "accept"]
    /\ seen = [g \in Guard |-> None] /\ work = [g \in Guard |-> None]
    /\ subject = [g \in Guard |-> None] /\ mine = [g \in Guard |-> None]
    /\ answer = [g \in Guard |-> "none"]
    /\ joint = {<<None, None>>}

Unlock(x) == lock' = IF lock = x THEN None ELSE lock

-----------------------------------------------------------------------------
\* ProjectMemory.publish

AtPublish(o, from, to) == publisher[o] = from /\ publisher' = [publisher EXCEPT ![o] = to]

\* An agent read some working head and asks to publish over it.
Ask(o) ==
    /\ AtPublish(o, "idle", "lock")
    /\ \E t \in Text : plan' = [plan EXCEPT ![o] = [parent |-> head, text |-> t]]
    /\ UNCHANGED <<disk, head, lock, snapshot, accepted, cache, closed, pc, mode, known,
                   answer, joint>>

\* Mutant: the working head is not compared under the lock.
StaleNever(o) == FALSE
Stale(o) == head # plan[o].parent

\* A repeated request finds its own revision published; any other head is a
\* conflict.
PublishReturns(o) ==
    /\ AtPublish(o, "lock", "done")
    /\ lock = None
    /\ head = o \/ Stale(o)
    /\ UNCHANGED <<plan, disk, head, lock, snapshot, accepted, cache, closed, pc, mode, known,
                   answer, joint>>

PublishLocks(o) ==
    /\ AtPublish(o, "lock", "content")
    /\ lock = None
    /\ head # o /\ ~Stale(o)
    /\ lock' = o
    /\ UNCHANGED <<plan, disk, head, snapshot, accepted, cache, closed, pc, mode, known,
                   answer, joint>>

\* content.md, or the identical file of an earlier attempt.
WriteContent(o) ==
    /\ AtPublish(o, "content", "metadata")
    /\ disk' = IF disk[o] = "none" THEN [disk EXCEPT ![o] = "content"] ELSE disk
    /\ UNCHANGED <<plan, head, lock, snapshot, accepted, cache, closed, pc, mode, known,
                   answer, joint>>

\* revision.json completes the revision.
WriteMetadata(o) ==
    /\ AtPublish(o, "metadata", "swing")
    /\ disk' = [disk EXCEPT ![o] = "complete"]
    /\ UNCHANGED <<plan, head, lock, snapshot, accepted, cache, closed, pc, mode, known,
                   answer, joint>>

\* head.json is replaced and the lock released.
SwingHead(o) ==
    /\ AtPublish(o, "swing", "done")
    /\ head' = o
    /\ joint' = joint \cup {<<accepted, o>>}
    /\ Unlock(o)
    /\ UNCHANGED <<plan, disk, snapshot, accepted, cache, closed, pc, mode, known, answer>>

\* A publisher dies, or its answer is lost; the same request is repeated or
\* forgotten.
PublisherDies(o) ==
    /\ publisher[o] # "idle"
    /\ \E next \in {"lock", "done"} : publisher' = [publisher EXCEPT ![o] = next]
    /\ Unlock(o)
    /\ UNCHANGED <<plan, disk, head, snapshot, accepted, cache, closed, pc, mode, known,
                   answer, joint>>

Publish(o) ==
    Ask(o) \/ PublishReturns(o) \/ PublishLocks(o) \/ WriteContent(o) \/ WriteMetadata(o)
    \/ SwingHead(o) \/ PublisherDies(o)

-----------------------------------------------------------------------------
\* Comparison of raw revisions

\* Exact, or operational checkbox progress only.
Unchanged(a, b) == plan[a].text = plan[b].text

Complete == {o \in Operation : disk[o] = "complete"}

-----------------------------------------------------------------------------
\* The plan contract script; a run that ends can be followed by another one

Goto(g, next) == pc' = [pc EXCEPT ![g] = next]

End(g, a) ==
    /\ Goto(g, "idle")
    /\ answer' = [answer EXCEPT ![g] = a]

\* accepted-head, and the checks on a Task that has none.
Start(g) ==
    /\ pc[g] = "idle"
    /\ \E m \in {"accept", "check"} : mode' = [mode EXCEPT ![g] = m]
    /\ seen' = [seen EXCEPT ![g] = accepted]
    /\ work' = [work EXCEPT ![g] = None]
    /\ subject' = [subject EXCEPT ![g] = None]
    /\ mine' = [mine EXCEPT ![g] = None]
    /\ IF accepted # None
       THEN Goto(g, "status") /\ answer' = [answer EXCEPT ![g] = "none"]
       ELSE IF cache # None \/ mode'[g] = "check"
       THEN End(g, "error")
       ELSE Goto(g, "resolve") /\ answer' = [answer EXCEPT ![g] = "none"]
    /\ UNCHANGED <<store, lock, snapshot, accepted, cache, closed, joint>>

\* check-plan, under the lock of the plan.
Status(g) ==
    /\ pc[g] = "status"
    /\ lock = None
    /\ work' = [work EXCEPT ![g] = head]
    /\ IF accepted = seen[g]
       THEN Goto(g, "locator") /\ UNCHANGED answer
       ELSE End(g, "error")
    /\ UNCHANGED <<store, lock, snapshot, accepted, cache, closed, mode, seen, subject, mine, joint>>

\* A local cache that names another snapshot is an error.
Locator(g) ==
    /\ pc[g] = "locator"
    /\ IF cache \in {None, seen[g]}
       THEN Goto(g, "resolve") /\ UNCHANGED answer
       ELSE End(g, "error")
    /\ UNCHANGED <<store, lock, snapshot, accepted, cache, closed, mode, known, joint>>

\* Mutant: the guard does not notice that the working plan moved meanwhile.
SameWorkLax(g) == TRUE
SameWork(g) == work[g] = head

Open == ~closed

\* resolve-plan and the decision of a check guard: normalized digest and raw
\* comparison with the accepted revision.  A changed selection or writer
\* session may end in revalidation too.
Check(g) ==
    /\ pc[g] = "resolve" /\ mode[g] = "check"
    /\ LET base == snapshot[seen[g]].revision IN
       \/ ~SameWork(g) /\ End(g, "error") /\ UNCHANGED mine
       \/ SameWork(g) /\ End(g, "revalidate") /\ UNCHANGED mine
       \/ /\ SameWork(g) /\ Unchanged(base, head)
          /\ mine' = [mine EXCEPT ![g] = seen[g]]
          /\ End(g, IF Open THEN "route" ELSE "error")
    /\ work' = [work EXCEPT ![g] = head]
    /\ UNCHANGED <<store, lock, snapshot, accepted, cache, closed, mode, seen, subject, joint>>

\* resolve-plan and the decision to accept: the reviewed immutable revision
\* against the working one.  Digests that the agents carried, writer sessions
\* and missing authority references may end in revalidation too.
Resolve(g) ==
    /\ pc[g] = "resolve" /\ mode[g] = "accept"
    /\ head # None
    /\ \E o \in Complete :
          /\ subject' = [subject EXCEPT ![g] = o]
          /\ \/ End(g, "revalidate")
             \/ Unchanged(o, head) /\ closed /\ End(g, "error")
             \/ Unchanged(o, head) /\ Open /\ Goto(g, "accept") /\ UNCHANGED answer
    /\ work' = [work EXCEPT ![g] = head]
    /\ UNCHANGED <<store, lock, snapshot, accepted, cache, closed, mode, seen, mine, joint>>

\* No revision was ever published.
NothingToResolve(g) ==
    /\ pc[g] = "resolve"
    /\ head = None
    /\ End(g, "error")
    /\ UNCHANGED <<store, lock, snapshot, accepted, cache, closed, mode, known, joint>>

Proposal(g, r) == [revision |-> work[g], parent |-> seen[g], review |-> r]

\* Mutant: acceptance takes whatever the working head is by now.
WorkHeldLax(g) == TRUE
WorkHeld(g) == head = work[g]

\* accept-plan: both heads are compared under the lock, then the immutable
\* snapshot is written, or found as an earlier attempt left it.
Accept(g) ==
    /\ pc[g] = "accept"
    /\ lock = None
    /\ \E r \in Review, s \in Snapshot :
          /\ snapshot[s] \in {None, Proposal(g, r)}
          /\ (\E t \in Snapshot : snapshot[t] = Proposal(g, r)) => snapshot[s] # None
          /\ IF ~WorkHeld(g) \/ accepted \notin {seen[g], s}
             THEN End(g, "error") /\ UNCHANGED <<lock, snapshot, mine>>
             ELSE /\ mine' = [mine EXCEPT ![g] = s]
                  /\ UNCHANGED answer
                  /\ IF accepted = s
                     THEN Goto(g, "confirm") /\ UNCHANGED <<lock, snapshot>>
                     ELSE /\ snapshot' = [snapshot EXCEPT ![s] = Proposal(g, r)]
                          /\ lock' = g
                          /\ Goto(g, "swing")
    /\ UNCHANGED <<store, accepted, cache, closed, mode, seen, work, subject, joint>>

\* accepted-head.json is replaced and the lock released.
SwingAccepted(g) ==
    /\ pc[g] = "swing"
    /\ accepted' = mine[g]
    /\ joint' = joint \cup {<<mine[g], head>>}
    /\ Unlock(g)
    /\ Goto(g, "confirm")
    /\ UNCHANGED <<store, snapshot, cache, closed, mode, known, answer>>

\* check-plan again, before the cache is published.
Confirm(g) ==
    /\ pc[g] = "confirm"
    /\ lock = None
    /\ IF accepted = mine[g] /\ Unchanged(snapshot[mine[g]].revision, head)
       THEN Goto(g, "cache") /\ UNCHANGED answer
       ELSE End(g, "error")
    /\ UNCHANGED <<store, lock, snapshot, accepted, cache, closed, mode, known, joint>>

\* The locator is replaced and the route emitted.
Cache(g) ==
    /\ pc[g] = "cache"
    /\ IF Open
       THEN cache' = mine[g] /\ End(g, "route")
       ELSE End(g, "error") /\ UNCHANGED cache
    /\ UNCHANGED <<store, lock, snapshot, accepted, closed, mode, known, joint>>

\* A script run dies; its descriptors close.
GuardDies(g) ==
    /\ pc[g] # "idle"
    /\ Unlock(g)
    /\ End(g, "error")
    /\ UNCHANGED <<store, snapshot, accepted, cache, closed, mode, known, joint>>

Run(g) ==
    Start(g) \/ Status(g) \/ Locator(g) \/ Check(g) \/ Resolve(g) \/ NothingToResolve(g)
    \/ Accept(g) \/ SwingAccepted(g) \/ Confirm(g) \/ Cache(g) \/ GuardDies(g)

-----------------------------------------------------------------------------
\* Terminal preparation, in the Cleanup node of the same Task: its receipt
\* closes acceptance, then the exact cache file is retired.
Close ==
    /\ \A g \in Guard : pc[g] = "idle"
    /\ cache \in {None, accepted} /\ accepted # None
    /\ closed' = TRUE
    /\ UNCHANGED <<store, lock, snapshot, accepted, cache, pc, mode, known, answer, joint>>

Retire ==
    /\ closed
    /\ cache' = None
    /\ UNCHANGED <<store, lock, snapshot, accepted, closed, pc, mode, known, answer, joint>>

Next ==
    \/ \E o \in Operation : Publish(o)
    \/ \E g \in Guard : Run(g)
    \/ Close \/ Retire

Spec == Init /\ [][Next]_vars

-----------------------------------------------------------------------------
\* Correctness

\* Nothing dangles, wherever a process died: the heads, the parents of what is
\* published and the subjects of snapshots are complete on disk.
Resolvable ==
    /\ head # None => head \in Complete
    /\ \A o \in Complete : plan[o] # None /\ plan[o].parent \in Complete \cup {None}
    /\ accepted # None => snapshot[accepted] # None
    /\ \A s \in Snapshot : snapshot[s] # None =>
          /\ snapshot[s].revision \in Complete
          /\ snapshot[s].parent # None => snapshot[snapshot[s].parent] # None
    /\ cache # None => \E o \in Operation : <<cache, o>> \in joint

\* No update is lost and no old revision comes back, however often a request
\* is retried: a new head is the child of the old one, published for the
\* first time.
NoLostUpdate ==
    [][head' # head =>
          /\ plan[head'].parent = head
          /\ \A s \in Snapshot \cup {None} : <<s, head'>> \notin joint]_vars

\* Acceptance binds what was reviewed, never a working plan that moved
\* meanwhile: an acceptance extends the acceptance it saw, and its revision is
\* the working head and differs from the reviewed one by checkboxes only.
AcceptanceBinds ==
    [][accepted' # accepted =>
          /\ accepted' # None /\ snapshot[accepted'] # None
          /\ snapshot[accepted'].parent = accepted
          /\ snapshot[accepted'].revision = head
          /\ \E g \in Guard :
                mine[g] = accepted' /\ subject[g] # None /\ Unchanged(subject[g], head)]_vars

\* A writer is only ever routed on an accepted plan: the snapshot and the
\* working revision of an emitted route were the two heads at one instant, and
\* they agree up to checkboxes.
RouteBacked ==
    \A g \in Guard : answer[g] = "route" =>
        /\ mine[g] # None /\ work[g] # None
        /\ <<mine[g], work[g]>> \in joint
        /\ Unchanged(snapshot[mine[g]].revision, work[g])

\* Both together: a route to a writer rests on documents that are all there.
Grounded == Resolvable /\ RouteBacked

\* Once terminal preparation owns the plan, nothing is accepted and no cache
\* comes back.
ClosedStays ==
    [][closed => closed' /\ accepted' = accepted /\ cache' \in {cache, None}]_vars

\* Both together: what acceptance may do, before terminal preparation and after.
AcceptanceSound == AcceptanceBinds /\ ClosedStays
=============================================================================
