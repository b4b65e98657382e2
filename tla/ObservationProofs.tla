------------------------- MODULE ObservationProofs -------------------------
(***************************************************************************)
(* Proofs about the two readers of worlds that move while they read: the    *)
(* review of a live Workflow (LiveReview), for any Tasks, graphs, reviews   *)
(* and number of moves, and the watchers of a pull request (CiWatch).       *)
(***************************************************************************)
EXTENDS LiveReview, CiWatch, SequenceTheorems, TLAPS

-----------------------------------------------------------------------------
(* The review of a live Workflow: what each side leaves alone.              *)

\* What Kent and its users do leaves the kit alone.
LEMMA WorldFrame ==
    ASSUME Meanwhile
    PROVE  UNCHANGED <<plan, snap, phase, goal, pc, obs, then, report>>
  BY DEF Meanwhile, Advance, Raise, Answer, ScriptEnds, AppendEvent, Persist, Restart, Edit,
    Move

\* The kit changes nothing of Kent's but the graph, once it is to be applied.
LEMMA KitFrame ==
    ASSUME Kit
    PROVE  /\ UNCHANGED <<task, log, server, moves, plan>>
           /\ pc = "apply" \/ UNCHANGED graph
  BY DEF Kit, Invoke, List, Inspect, TaskList, Show, Sessions, Bind, Snapshot, Scan, Identity,
    Prepare, Stage, Fresh, PreRelease, Release, Apply, Verify, Final, Reading, kent, Goto,
    Blocked, End, Look

\* The order of a look, and what leads to the release.
LEMMA KitOrder ==
    ASSUME Kit
    PROVE  /\ pc' = "inspect"  => pc = "list"
           /\ pc' = "tasks"    => pc = "inspect"
           /\ pc' = "show"     => pc \in {"tasks", "show"}
           /\ pc' = "sessions" => pc = "show"
           /\ pc' = "bind"     => pc = "sessions"
           /\ pc' = "snapshot" => pc = "bind"
           /\ pc' = "scan"     => pc = "snapshot"
           /\ pc' = "identity" => pc = "scan"
           /\ pc' = "have"     => pc \in {"sessions", "identity"}
           /\ pc' = "release"  => pc = "have" /\ Passes /\ (plan.native => goal = "release")
           /\ pc' = "apply"    => pc = "release"
  BY DEF Kit, Invoke, List, Inspect, TaskList, Show, Sessions, Bind, Snapshot, Scan, Identity,
    Prepare, Stage, Fresh, PreRelease, Release, Apply, Verify, Final, Reading, Goto, Blocked,
    End, Look

-----------------------------------------------------------------------------
(* The review of a live Workflow: each part of the invariant is kept.       *)

\* Everything that is read is a graph with ends for its edges, up to its text.
LEMMA GraphClosed ==
    ASSUME GraphKnown
    PROVE  /\ Closed(graph)
           /\ \A n \in DOMAIN Source.kind :
                 n \in DOMAIN graph.kind /\ graph.kind[n] = Source.kind[n]
           /\ DOMAIN Source.edge \subseteq DOMAIN graph.edge
<1>1. CASE Alike(graph, Source)
  BY <1>1, ReviewAssumption DEF Alike, Closed
<1>2. CASE Alike(graph, plan.target) /\ Compatible(Source, plan.target)
  BY <1>2 DEF Alike, Closed, Compatible, Kept, Connected
<1>3. QED
  BY <1>1, <1>2 DEF GraphKnown

\* An edge that is described anew stays what it was.
LEMMA EditAlike ==
    ASSUME GraphKnown, Edit
    PROVE  WellFormed(graph') /\ Alike(graph', graph) /\ graph'.version = graph.version + 1
<1>1. PICK e \in DOMAIN graph.edge :
         graph' = [graph EXCEPT !.version = @ + 1, !.edge[e].text = 1 - @]
  BY DEF Edit
<1>2. /\ DOMAIN graph = {"version", "kind", "edge"}
      /\ \A f \in DOMAIN graph.edge : DOMAIN graph.edge[f] = {"from", "to", "gate", "text"}
  BY DEF GraphKnown, WellFormed
<1>3. /\ DOMAIN graph' = {"version", "kind", "edge"}
      /\ graph'.version = graph.version + 1 /\ graph'.kind = graph.kind
      /\ graph'.edge = [graph.edge EXCEPT ![e].text = 1 - @]
  BY <1>1, <1>2
<1>4. /\ DOMAIN graph'.edge = DOMAIN graph.edge
      /\ \A f \in DOMAIN graph.edge :
            /\ DOMAIN graph'.edge[f] = {"from", "to", "gate", "text"}
            /\ graph'.edge[f].from = graph.edge[f].from
            /\ graph'.edge[f].to = graph.edge[f].to
            /\ graph'.edge[f].gate = graph.edge[f].gate
  BY <1>2, <1>3
<1>5. QED
  BY <1>3, <1>4 DEF WellFormed, Alike

\* The Workflow stays the planned one or becomes the target, once.
LEMMA GraphKept ==
    ASSUME GraphKnown, Kit \/ Meanwhile
    PROVE  GraphKnown'
<1>1. plan' = plan
  BY WorldFrame, KitFrame
<1>2. pc' \in {"release", "apply"} => Compatible(Source, plan.target)
  BY WorldFrame, KitOrder DEF GraphKnown, Passes, Checked
<1>3. ASSUME graph' # graph
      PROVE  /\ WellFormed(graph') /\ graph'.version \in Nat
             /\ \/ Alike(graph', Source)
                \/ /\ Alike(graph', plan.target) /\ Compatible(Source, plan.target)
                   /\ graph'.version > Source.version
  <2>1. CASE Kit
    <3>1. Apply /\ graph' = plan.target
      BY <1>3, <2>1, KitFrame
      DEF Kit, Invoke, List, Inspect, TaskList, Show, Sessions, Bind, Snapshot, Scan,
        Identity, Prepare, Stage, Fresh, PreRelease, Release, Apply, Verify, Final, Reading,
        kent
    <3>2. Compatible(Source, plan.target) /\ plan.target \in Targets
      BY <3>1 DEF Apply, GraphKnown
    <3>3. QED
      BY <3>1, <3>2, ReviewAssumption DEF Alike, Compatible
  <2>2. CASE Meanwhile
    <3>1. Edit
      BY <1>3, <2>2
      DEF Meanwhile, Advance, Raise, Answer, ScriptEnds, AppendEvent, Persist, Restart
    <3>2. QED
      BY <3>1, EditAlike, ReviewAssumption DEF GraphKnown, Alike
  <2>3. QED
    BY <2>1, <2>2
<1>4. QED
  BY <1>1, <1>2, <1>3 DEF GraphKnown

\* Nothing that is there goes away or changes its kind, whoever moves; while it is
\* looked at, the Workflow keeps its shape.
LEMMA GraphGrows ==
    ASSUME GraphKnown, Kit \/ Meanwhile
    PROVE  /\ \A n \in DOMAIN graph.kind :
                 n \in DOMAIN graph'.kind /\ graph'.kind[n] = graph.kind[n]
           /\ DOMAIN graph.edge \subseteq DOMAIN graph'.edge
           /\ pc # "apply" => graph'.kind = graph.kind
<1>1. CASE graph' = graph
  BY <1>1
<1>2. CASE graph' # graph /\ Kit
  <2>1. Apply /\ graph' = plan.target /\ graph.version = Source.version /\ pc = "apply"
    BY <1>2, KitFrame
    DEF Kit, Invoke, List, Inspect, TaskList, Show, Sessions, Bind, Snapshot, Scan,
      Identity, Prepare, Stage, Fresh, PreRelease, Release, Apply, Verify, Final, Reading,
      kent
  <2>2. Compatible(Source, plan.target) /\ Alike(graph, Source)
    BY <2>1, ReviewAssumption DEF GraphKnown
  <2>3. QED
    BY <2>1, <2>2 DEF Compatible, Kept, Alike
<1>3. CASE graph' # graph /\ Meanwhile
  <2>1. Edit
    BY <1>3
    DEF Meanwhile, Advance, Raise, Answer, ScriptEnds, AppendEvent, Persist, Restart
  <2>2. QED
    BY <2>1, EditAlike DEF Alike
<1>4. QED
  BY <1>1, <1>2, <1>3

\* Where a Task arrives it has nothing pending.
LEMMA Arrived ==
    ASSUME GraphKnown, TasksKnown, NEW t \in Tasks, NEW n \in DOMAIN graph.kind, Arrive(t, n),
           graph' = graph
    PROVE  TasksKnown'
<1>1. task'[t].node = n /\ task'[t].decision = None /\ task'[t].ask = FALSE
  BY DEF Arrive, TasksKnown
<1>2. DOMAIN task'[t] = {"node", "sessions", "script", "ask", "decision"}
  BY DEF Arrive, TasksKnown
<1>3. DOMAIN task' = Tasks /\ \A u \in Tasks \ {t} : task'[u] = task[u]
  BY DEF Arrive, TasksKnown
<1>4. QED
  BY <1>1, <1>2, <1>3 DEF TasksKnown, KindOf

\* Tasks stay on the Workflow, their decisions lead somewhere, and a Task asks only
\* where an agent works.
LEMMA TasksKept ==
    ASSUME GraphKnown, TasksKnown, Kit \/ Meanwhile
    PROVE  TasksKnown'
<1>1. CASE task' = task
  BY <1>1, GraphGrows DEF TasksKnown, KindOf
<1>2. ASSUME NEW t \in Tasks, Advance(t) PROVE TasksKnown'
  <2>1. PICK e \in Out(t) : Arrive(t, graph.edge[e].to)
    BY <1>2 DEF Advance
  <2>2. graph.edge[e].to \in DOMAIN graph.kind
    BY <2>1, GraphClosed DEF Out, Closed
  <2>3. graph' = graph
    BY <1>2 DEF Advance
  <2>4. QED
    BY <2>1, <2>2, <2>3, Arrived
<1>3. ASSUME NEW t \in Tasks, Answer(t) PROVE TasksKnown'
  <2>1. task[t].decision.row.to \in DOMAIN graph.kind
    BY <1>3 DEF Answer, TasksKnown
  <2>2. QED
    BY <1>3, <2>1, Arrived DEF Answer
<1>4. ASSUME NEW t \in Tasks, Raise(t) PROVE TasksKnown'
  <2>1. PICK e \in Out(t) :
           task' = [task EXCEPT ![t].decision =
                      [id |-> moves + 10, edge |-> e, row |-> graph.edge[e],
                       session |-> task[t].sessions]]
    BY <1>4 DEF Raise
  <2>2. e \in DOMAIN graph.edge /\ graph.edge[e].to \in DOMAIN graph.kind
    BY <2>1, GraphClosed DEF Out, Closed
  <2>3. /\ DOMAIN task' = Tasks /\ \A u \in Tasks \ {t} : task'[u] = task[u]
        /\ DOMAIN task'[t] = DOMAIN task[t]
        /\ task'[t].node = task[t].node /\ task'[t].ask = task[t].ask
        /\ task'[t].decision.edge = e /\ task'[t].decision.row = graph.edge[e]
    BY <2>1 DEF TasksKnown
  <2>4. task[t].ask = FALSE /\ graph' = graph
    BY <1>4 DEF Raise, Unoccupied, TasksKnown
  <2>5. QED
    BY <2>2, <2>3, <2>4 DEF TasksKnown, KindOf
<1>5. ASSUME NEW t \in Tasks, ScriptEnds(t) PROVE TasksKnown'
  <2>1. /\ DOMAIN task' = Tasks /\ \A u \in Tasks \ {t} : task'[u] = task[u]
        /\ DOMAIN task'[t] = DOMAIN task[t]
        /\ task'[t].node = task[t].node /\ task'[t].ask = task[t].ask
        /\ task'[t].decision = task[t].decision /\ graph' = graph
    BY <1>5 DEF ScriptEnds, TasksKnown
  <2>2. QED
    BY <2>1 DEF TasksKnown, KindOf
<1>6. ASSUME NEW t \in Tasks, AppendEvent(t) PROVE TasksKnown'
  <2>1. PICK ask \in BOOLEAN : task' = [task EXCEPT ![t].ask = ask]
    BY <1>6 DEF AppendEvent
  <2>2. /\ DOMAIN task' = Tasks /\ \A u \in Tasks \ {t} : task'[u] = task[u]
        /\ DOMAIN task'[t] = DOMAIN task[t]
        /\ task'[t].node = task[t].node /\ task'[t].ask \in BOOLEAN
        /\ task'[t].decision = task[t].decision
    BY <2>1 DEF TasksKnown
  <2>3. KindOf(t) = "agent" /\ task[t].decision = None /\ graph' = graph
    BY <1>6 DEF AppendEvent
  <2>4. QED
    BY <2>2, <2>3 DEF TasksKnown, KindOf
<1>7. CASE Kit
  BY <1>1, <1>7, KitFrame
<1>8. CASE Restart \/ Edit \/ \E t \in Tasks : Persist(t)
  BY <1>1, <1>8 DEF Restart, Edit, Persist
<1>9. QED
  BY <1>2, <1>3, <1>4, <1>5, <1>6, <1>7, <1>8 DEF Meanwhile

\* Event files only grow, and a Session asks anew only by an event.
LEMMA LogsKept ==
    ASSUME TasksKnown, LogsKnown, Kit \/ Meanwhile
    PROVE  /\ LogsKnown'
           /\ \A t \in Tasks :
                 /\ log[t].file <= log'[t].file
                 /\ log'[t].file = log[t].file /\ task'[t].ask => task[t].ask
<1>1. CASE log' = log /\ task' = task
  BY <1>1 DEF LogsKnown
<1>2. ASSUME NEW t \in Tasks, Advance(t) \/ Answer(t)
      PROVE  log' = log /\ task'[t].ask = FALSE /\ \A u \in Tasks \ {t} : task'[u] = task[u]
  BY <1>2 DEF Advance, Answer, Arrive, TasksKnown
<1>3. ASSUME NEW t \in Tasks, Raise(t) \/ ScriptEnds(t)
      PROVE  log' = log /\ task'[t].ask = task[t].ask /\ \A u \in Tasks \ {t} : task'[u] = task[u]
  BY <1>3 DEF Raise, ScriptEnds, TasksKnown
<1>4. ASSUME NEW t \in Tasks, AppendEvent(t)
      PROVE  /\ LogsKnown' /\ log'[t].file = log[t].file + 1
             /\ \A u \in Tasks \ {t} : log'[u] = log[u] /\ task'[u] = task[u]
  BY <1>4 DEF AppendEvent, LogsKnown, TasksKnown
<1>5. ASSUME NEW t \in Tasks, Persist(t)
      PROVE  /\ LogsKnown' /\ log'[t].file = log[t].file /\ task' = task
             /\ \A u \in Tasks \ {t} : log'[u] = log[u]
  BY <1>5 DEF Persist, LogsKnown
<1>6. CASE Kit \/ Restart \/ Edit
  BY <1>1, <1>6, KitFrame DEF Restart, Edit
<1>7. CASE \E t \in Tasks : Advance(t) \/ Answer(t) \/ Raise(t) \/ ScriptEnds(t)
  <2>1. log' = log /\ \A u \in Tasks : task'[u].ask => task[u].ask
    BY <1>2, <1>3, <1>7
  <2>2. QED
    BY <2>1 DEF LogsKnown
<1>8. CASE \E t \in Tasks : AppendEvent(t)
  <2>1. PICK t \in Tasks : AppendEvent(t)
    BY <1>8
  <2>2. QED
    BY <1>4, <2>1 DEF LogsKnown
<1>9. CASE \E t \in Tasks : Persist(t)
  <2>1. PICK t \in Tasks : Persist(t)
    BY <1>9
  <2>2. QED
    BY <1>5, <2>1 DEF LogsKnown
<1>10. QED
  BY <1>6, <1>7, <1>8, <1>9 DEF Meanwhile

\* A look keeps what it has read.
LEMMA LookSteps ==
    ASSUME GraphKnown, LookKnown, Kit
    PROVE  LookKnown'
<1> USE DEF LookKnown, Looks, Drawn, Shown, Listed
<1>1. CASE Invoke
  BY <1>1 DEF Invoke, Look, Goto, NoObs, kent
<1>2. CASE List
  BY <1>2 DEF List, Reading, Goto, Blocked, End, NoObs, kent
<1>3. CASE Inspect
  BY <1>3 DEF Inspect, Reading, Goto, Blocked, End, NoObs, kent
<1>4. CASE TaskList
  BY <1>4 DEF TaskList, Reading, Goto, Blocked, End, NoObs, kent
<1>5. CASE Show
  <2>1. CASE Blocked
    BY <2>1, <1>5 DEF Show, Blocked, End, Reading, NoObs
  <2>2. ASSUME NEW t \in Tasks \ DOMAIN obs.show,
               obs' = [obs EXCEPT !.show = [u \in DOMAIN @ \cup {t} |->
                          IF u = t THEN View(t) ELSE obs.show[u]]],
               pc' = IF Tasks = DOMAIN obs.show \cup {t} THEN "sessions" ELSE "show"
        PROVE  LookKnown'
    <3>1. /\ pc = "show" /\ phase' = phase /\ goal' = goal /\ graph' = graph
      BY <1>5 DEF Show, Reading, kent
    <3>2. /\ obs'.show = [u \in DOMAIN obs.show \cup {t} |->
                            IF u = t THEN View(t) ELSE obs.show[u]]
          /\ obs'.graph = obs.graph /\ obs'.version = obs.version
          /\ DOMAIN obs' = DOMAIN obs
      BY <2>2 DEF LookKnown
    <3>3. /\ DOMAIN View(t) = {"node", "session", "status", "decision"}
          /\ View(t).node = task[t].node /\ View(t).status = Status(t)
      BY DEF View
    <3>4. /\ Status(t) \in {"done", "waiting_approval", "waiting_ask", "active"}
          /\ Status(t) = "done" <=> graph.kind[task[t].node] = "terminal"
      BY DEF Status, KindOf
    <3>5. /\ DOMAIN obs'.show \subseteq Tasks
          /\ \A u \in DOMAIN obs'.show :
               /\ DOMAIN obs'.show[u] = {"node", "session", "status", "decision"}
               /\ obs'.show[u].status \in {"done", "waiting_approval", "waiting_ask", "active"}
               /\ obs'.show[u].status = "done"
                    <=> obs'.graph.kind[obs'.show[u].node] = "terminal"
      BY <3>1, <3>2, <3>3, <3>4
    <3>6. pc' = "sessions" => DOMAIN obs'.show = Tasks
      BY <2>2, <3>2
    <3>7. pc' \in {"show", "sessions"}
      BY <2>2
    <3>8. QED
      BY <3>1, <3>2, <3>5, <3>6, <3>7
  <2>3. QED
    BY <1>5, <2>1, <2>2 DEF Show, Goto
<1>6. CASE Sessions
  BY <1>6 DEF Sessions, Reading, Goto, Blocked, End, NoObs, kent
<1>7. CASE Bind
  BY <1>7 DEF Bind, Reading, Goto, Blocked, End, NoObs, kent
<1>8. CASE Snapshot
  <2>1. CASE Agrees
    <3>1. /\ obs' = [obs EXCEPT !.show = [t \in Tasks |->
                        [obs.show[t] EXCEPT !.decision = task[t].decision]],
                     !.log = [t \in Detailed |-> log[t].db]]
          /\ pc = "snapshot" /\ pc' = "scan"
          /\ phase' = phase /\ goal' = goal /\ graph' = graph
      BY <1>8, <2>1 DEF Snapshot, Reading, Goto, kent
    <3>2. /\ obs'.graph = obs.graph /\ obs'.version = obs.version
          /\ DOMAIN obs' = DOMAIN obs
          /\ obs'.show = [t \in Tasks |-> [obs.show[t] EXCEPT !.decision = task[t].decision]]
      BY <3>1
    <3>3. /\ DOMAIN obs'.show = Tasks
          /\ \A t \in Tasks :
                /\ DOMAIN obs'.show[t] = {"node", "session", "status", "decision"}
                /\ obs'.show[t].status = obs.show[t].status
                /\ obs'.show[t].node = obs.show[t].node
      BY <3>1, <3>2
    <3>4. QED
      BY <3>1, <3>2, <3>3
  <2>2. CASE ~Agrees
    BY <1>8, <2>2 DEF Snapshot, Reading, Blocked, End, NoObs
  <2>3. QED
    BY <2>1, <2>2
<1>9. CASE Scan
  BY <1>9 DEF Scan, Reading, Goto, Blocked, End, NoObs, kent
<1>10. CASE Identity
  BY <1>10 DEF Identity, Reading, Goto, Blocked, End, NoObs, kent
<1>11. CASE Prepare
  BY <1>11 DEF Prepare, End, Blocked, Reading, NoObs, kent
<1>12. CASE Stage
  BY <1>12 DEF Stage, Look, Goto, Blocked, End, NoObs, kent
<1>13. CASE Fresh
  BY <1>13 DEF Fresh, Look, Goto, Blocked, End, NoObs, kent
<1>14. CASE PreRelease
  BY <1>14 DEF PreRelease, Reading, Goto, Blocked, End, NoObs, kent
<1>15. CASE Release
  BY <1>15 DEF Release, Goto, NoObs, kent
<1>16. CASE Apply
  BY <1>16 DEF Apply, Goto, NoObs, kent
<1>17. CASE Verify
  BY <1>17 DEF Verify, Look, Goto, Blocked, End, NoObs, kent
<1>18. CASE Final
  BY <1>18 DEF Final, End, Blocked, NoObs, kent
<1>19. QED
  BY <1>1, <1>2, <1>3, <1>4, <1>5, <1>6, <1>7, <1>8,
     <1>9, <1>10, <1>11, <1>12, <1>13, <1>14, <1>15, <1>16,
     <1>17, <1>18
  DEF Kit

\* What a look has read fits the Workflow, although everything moves meanwhile.
LEMMA LookKept ==
    ASSUME GraphKnown, LookKnown, Kit \/ Meanwhile
    PROVE  LookKnown'
<1>1. CASE Kit
  BY <1>1, LookSteps
<1>2. CASE Meanwhile
  <2>1. UNCHANGED <<phase, goal, pc, obs>>
    BY <1>2, WorldFrame
  <2>2. pc \in Drawn => graph'.kind = graph.kind
    BY <1>2, GraphGrows DEF Drawn, Looks
  <2>3. QED
    BY <2>1, <2>2 DEF LookKnown
<1>3. QED
  BY <1>1, <1>2

\* What the transaction shows is the case: it agrees with what the calls before it
\* said.
LEMMA SnapshotShows ==
    ASSUME GraphKnown, TasksKnown, LogsKnown, LookKnown, Snapshot, Agrees
    PROVE  MomentKnown' /\ AskedThen'
<1>1. /\ pc = "snapshot" /\ pc' = "scan" /\ UNCHANGED <<graph, task, log, phase, goal, plan>>
      /\ DOMAIN obs.show = Tasks
      /\ obs' = [obs EXCEPT !.show = [t \in Tasks |->
                    [obs.show[t] EXCEPT !.decision = task[t].decision]],
                 !.log = [t \in Detailed |-> log[t].db]]
  BY DEF Snapshot, Reading, Goto, kent, LookKnown, Listed, Shown, Drawn, Looks
<1>2. /\ then'.version = graph.version
      /\ then'.view = [t \in Tasks |-> View(t)]
      /\ then'.log = [t \in Detailed |-> log[t].db]
      /\ then'.attempted = (phase = "attempted")
  BY DEF Snapshot
<1>3. /\ obs'.version = obs.version /\ obs'.graph = obs.graph /\ obs'.sessions = obs.sessions
      /\ obs'.log = [t \in Detailed |-> log[t].db]
      /\ \A t \in Tasks :
            /\ obs'.show[t].node = obs.show[t].node
            /\ obs'.show[t].session = obs.show[t].session
            /\ obs'.show[t].status = obs.show[t].status
            /\ obs'.show[t].decision = task[t].decision
  <2>1. /\ DOMAIN obs = {"version", "graph", "list", "show", "sessions", "server", "log"}
        /\ \A t \in Tasks : DOMAIN obs.show[t] = {"node", "session", "status", "decision"}
    BY <1>1 DEF LookKnown, Shown, Drawn, Looks
  <2>2. /\ obs'.version = obs.version /\ obs'.graph = obs.graph
        /\ obs'.sessions = obs.sessions /\ obs'.log = [t \in Detailed |-> log[t].db]
        /\ obs'.show = [t \in Tasks |-> [obs.show[t] EXCEPT !.decision = task[t].decision]]
    BY <1>1, <2>1
  <2>3. QED
    BY <2>1, <2>2
<1>4. Detailed' = Detailed
  BY <1>1, <1>3 DEF Detailed
<1>5. goal = "release" => phase = "attempted"
  BY <1>1 DEF LookKnown, Looks
<1>6. \A t \in Tasks :
         /\ View(t).node = task[t].node /\ View(t).decision = task[t].decision
         /\ View(t).session = task[t].sessions /\ View(t).status = Status(t)
  BY DEF View
<1>7. ASSUME NEW t \in Tasks
      PROVE  /\ then'.view[t].node = obs'.show[t].node
             /\ then'.view[t].decision = obs'.show[t].decision
             /\ then'.view[t].session = obs'.show[t].session
             /\ t \in Detailed => then'.view[t].session = obs'.sessions[t]
  BY <1>2, <1>3, <1>6 DEF Agrees, AgreesNodes, AgreesSessions
<1>8. ASSUME NEW t \in Tasks
      PROVE  obs'.show[t].status \in {"done", "waiting_approval"} =>
                then'.view[t].status = obs'.show[t].status
  <2>1. obs.show[t].status = "done" <=> KindOf(t) = "terminal"
    BY <1>1 DEF LookKnown, Listed, Shown, Drawn, Looks, KindOf, Agrees, AgreesNodes
  <2>2. obs.show[t].status = "waiting_approval" <=> task[t].decision # None
    BY DEF Agrees, AgreesDecisions
  <2>3. QED
    BY <1>2, <1>3, <1>6, <2>1, <2>2 DEF Status
<1>9. ASSUME NEW t \in Tasks, obs'.show[t].decision # None
      PROVE  /\ obs'.show[t].decision.edge \in DOMAIN obs'.graph.edge
             /\ obs'.show[t].decision.row.gate
                  = obs'.graph.edge[obs'.show[t].decision.edge].gate
  <2>1. Representable(task[t].decision, t)
    BY <1>3, <1>9 DEF Agrees, AgreesDecisions
  <2>2. QED
    BY <1>3, <2>1 DEF Representable, Described
<1>10. ASSUME NEW t \in Detailed
       PROVE  /\ obs'.log[t] \in Nat /\ obs'.log[t] <= log[t].file
              /\ task[t].ask => then'.view[t].status = "waiting_ask"
  <2>1. t \in Tasks /\ obs'.log[t] = log[t].db
    BY <1>3 DEF Detailed
  <2>2. task[t].ask => Status(t) = "waiting_ask"
    BY <2>1 DEF TasksKnown, Status
  <2>3. QED
    BY <1>2, <1>6, <2>1, <2>2 DEF LogsKnown
<1>11. MomentKnown'
  <2>1. then'.version = obs'.version /\ then'.log = obs'.log
    BY <1>2, <1>3 DEF Agrees, AgreesWorkflow
  <2>2. goal' = "release" => then'.attempted
    <3>1. CASE phase = "attempted"
      BY <1>2, <3>1
    <3>2. CASE goal # "release"
      BY <1>1, <3>2
    <3>3. QED
      BY <1>5, <3>1, <3>2
  <2>3. pc' = "scan"
    BY <1>1
  <2>4. \A t \in Tasks : t \in Detailed' => then'.view[t].session = obs'.sessions[t]
    BY <1>4, <1>7
  <2>5. QED
    BY <1>7, <1>8, <1>9, <2>1, <2>2, <2>3, <2>4 DEF MomentKnown
<1>12. AskedThen'
  BY <1>1, <1>3, <1>4, <1>10 DEF AskedThen
<1>13. QED
  BY <1>11, <1>12

\* What a native look shows stays what was the case at its snapshot.
LEMMA MomentKept ==
    ASSUME GraphKnown, TasksKnown, LogsKnown, LookKnown, MomentKnown, AskedThen,
           Kit \/ Meanwhile
    PROVE  MomentKnown'
<1> USE DEF Held
<1>1. CASE Meanwhile
  BY <1>1, WorldFrame DEF MomentKnown, Detailed
<1>2. CASE Kit
  <2>1. CASE pc' = "scan"
    <3>1. pc = "snapshot"
      BY <1>2, <2>1, KitOrder
    <3>2. Snapshot /\ Agrees
      BY <1>2, <2>1, <3>1
      DEF Kit, Invoke, List, Inspect, TaskList, Show, Sessions, Bind, Snapshot, Scan,
        Identity, Prepare, Stage, Fresh, PreRelease, Release, Apply, Verify, Final, Reading,
        Blocked, End
    <3>3. QED
      BY <3>2, SnapshotShows
  <2>2. CASE pc' = "identity"
    <3>1. Scan /\ pc = "scan"
      BY <1>2, <2>2, KitOrder
      DEF Kit, Invoke, List, Inspect, TaskList, Show, Sessions, Bind, Snapshot, Scan,
        Identity, Prepare, Stage, Fresh, PreRelease, Release, Apply, Verify, Final, Reading
    <3>2. /\ UNCHANGED <<obs, then, plan, goal>>
          /\ \A t \in Detailed : /\ log[t].file = obs.log[t]
                                 /\ obs.show[t].status = "waiting_ask" => task[t].ask
      BY <2>2, <3>1 DEF Scan, Reading, Goto, Blocked, End, Asks
    <3>3. \A t \in Tasks : obs.show[t].status = "waiting_ask" =>
             t \in Detailed /\ then.view[t].status = "waiting_ask"
      BY <3>1, <3>2 DEF AskedThen, Detailed
    <3>4. QED
      BY <2>2, <3>1, <3>2, <3>3 DEF MomentKnown, Detailed
  <2>3. CASE pc' = "have" /\ plan'.native
    <3>1. plan' = plan
      BY <1>2, KitFrame
    <3>2. Identity /\ pc = "identity"
      BY <1>2, <2>3, <3>1, KitOrder
      DEF Kit, Invoke, List, Inspect, TaskList, Show, Sessions, Bind, Snapshot, Scan,
        Identity, Prepare, Stage, Fresh, PreRelease, Release, Apply, Verify, Final, Reading,
        Goto, Blocked, End, Look
    <3>3. UNCHANGED <<obs, then, plan, goal>>
      BY <2>3, <3>2 DEF Identity, Reading, Goto, Blocked, End
    <3>4. QED
      BY <2>3, <3>2, <3>3 DEF MomentKnown, Detailed
  <2>4. CASE pc' \notin Held /\ ~(pc' = "have" /\ plan'.native)
    BY <2>4 DEF MomentKnown
  <2>5. QED
    BY <2>1, <2>2, <2>3, <2>4
<1>3. QED
  BY <1>1, <1>2

\* A question that is asked without a new event was asked at the snapshot.
LEMMA AskedKept ==
    ASSUME GraphKnown, TasksKnown, LogsKnown, LookKnown, AskedThen, Kit \/ Meanwhile
    PROVE  AskedThen'
<1>1. CASE Meanwhile
  <2>1. UNCHANGED <<pc, obs, then, plan>>
    BY <1>1, WorldFrame
  <2>2. LogsKnown' /\ \A t \in Tasks :
           /\ log[t].file <= log'[t].file
           /\ log'[t].file = log[t].file /\ task'[t].ask => task[t].ask
    BY <1>1, LogsKept
  <2>3. Detailed' = Detailed /\ Detailed \subseteq Tasks
    BY <2>1 DEF Detailed
  <2>4. QED
    BY <2>1, <2>2, <2>3 DEF AskedThen, LogsKnown
<1>2. CASE Kit /\ pc' = "scan"
  <2>1. pc = "snapshot"
    BY <1>2, KitOrder
  <2>2. Snapshot /\ Agrees
    BY <1>2, <2>1
    DEF Kit, Invoke, List, Inspect, TaskList, Show, Sessions, Bind, Snapshot, Scan, Identity,
      Prepare, Stage, Fresh, PreRelease, Release, Apply, Verify, Final, Reading, Blocked, End
  <2>3. QED
    BY <2>2, SnapshotShows
<1>3. CASE pc' # "scan"
  BY <1>3 DEF AskedThen
<1>4. QED
  BY <1>1, <1>2, <1>3

\* What passes the last look before the release was disposed of at its snapshot.
LEMMA ReleaseKept ==
    ASSUME GraphKnown, LookKnown, MomentKnown, ReleaseKnown, Kit \/ Meanwhile
    PROVE  ReleaseKnown'
<1>1. CASE Meanwhile
  BY <1>1, WorldFrame DEF ReleaseKnown, DisposedOf, Decisions
<1>2. CASE Kit /\ pc' = "release" /\ plan'.native
  <2>1. plan' = plan /\ pc = "have" /\ goal = "release" /\ Passes
    BY <1>2, KitOrder, KitFrame
  <2>2. PreRelease
    BY <1>2, <2>1
    DEF Kit, Invoke, List, Inspect, TaskList, Show, Sessions, Bind, Snapshot, Scan, Identity,
      Prepare, Stage, Fresh, PreRelease, Release, Apply, Verify, Final, Reading
  <2>3. UNCHANGED <<then, obs, snap>>
    BY <2>1, <2>2 DEF PreRelease, Goto
  <2>4. /\ obs.graph = Source /\ obs.show = snap.show
        /\ Compatible(Source, plan.target)
        /\ Required(snap.show, obs.show, obs.graph) \subseteq plan.review
    BY <2>1 DEF Passes, Inventory, Checked
  <2>5. then.attempted /\ then.version = Source.version
    BY <1>2, <2>1, <2>4 DEF MomentKnown, LookKnown, Drawn, Looks
  <2>6. \A t \in Tasks : /\ then.view[t].node = snap.show[t].node
                         /\ then.view[t].session = snap.show[t].session
                         /\ then.view[t].decision = snap.show[t].decision
    BY <1>2, <2>1, <2>4 DEF MomentKnown
  <2>7. ASSUME NEW d \in Decisions(then.view),
               \/ d.row.gate /\ ~plan.target.edge[d.edge].gate
               \/ d.row.text # plan.target.edge[d.edge].text
        PROVE  d.id \in plan.review
    <3>1. d \in Decisions(snap.show)
      BY <2>6 DEF Decisions
    <3>2. /\ d.edge \in DOMAIN Source.edge /\ d.row.gate = Source.edge[d.edge].gate
          /\ d.edge \in DOMAIN plan.target.edge
      BY <1>2, <2>1, <2>4, <3>1 DEF MomentKnown, Decisions, Compatible, Kept
    <3>3. CASE d.row.gate /\ ~plan.target.edge[d.edge].gate
      BY <2>4, <3>1, <3>2, <3>3 DEF Required, Loosened
    <3>4. CASE d.row.text # plan.target.edge[d.edge].text
      BY <1>2, <2>1, <2>4, <3>1, <3>2, <3>4 DEF Required, Affected
    <3>5. QED
      BY <2>7, <3>3, <3>4
  <2>8. DisposedOf
    BY <2>5, <2>6, <2>7 DEF DisposedOf
  <2>9. DisposedOf'
    BY <2>1, <2>3, <2>8 DEF DisposedOf, Decisions
  <2>10. QED
    BY <2>9 DEF ReleaseKnown
<1>3. CASE ~(pc' = "release" /\ plan'.native)
  BY <1>3 DEF ReleaseKnown
<1>4. QED
  BY <1>1, <1>2, <1>3

-----------------------------------------------------------------------------
(* The review of a live Workflow: the theorems.                             *)

\* Nothing was read and nothing was applied; Tasks stand anywhere.
LEMMA ReviewInvInit == ReviewInit => ReviewInv
<1> SUFFICES ASSUME ReviewInit PROVE ReviewInv
  OBVIOUS
<1>1. PICK at \in [Tasks -> Open], d \in [Tasks -> AllPending] : Placed(at, d)
  BY DEF ReviewInit
<1>2. ASSUME NEW t \in Tasks
      PROVE  /\ at[t] \in DOMAIN Source.kind
             /\ d[t] = None \/ d[t] \in Pending(t, at[t])
             /\ DOMAIN task[t] = {"node", "sessions", "script", "ask", "decision"}
             /\ task[t].node = at[t] /\ task[t].decision = d[t] /\ task[t].ask = FALSE
  <2>1. task[t] = [node |-> at[t], sessions |-> 1, script |-> FALSE, ask |-> FALSE,
                   decision |-> d[t]]
    BY <1>1 DEF Placed
  <2>2. d[t] = None \/ d[t] \in Pending(t, at[t])
    BY <1>1 DEF Placed
  <2>3. at[t] \in Open
    BY <1>1
  <2>4. QED
    BY <2>1, <2>2, <2>3 DEF Open
<1>3. graph = Source /\ pc = "idle" /\ obs = NoObs
  BY DEF ReviewInit
<1>4. GraphKnown
  BY ReviewAssumption DEF ReviewInit, GraphKnown, Alike
<1>5. TasksKnown
  <2>1. ASSUME NEW t \in Tasks, task[t].decision # None
        PROVE  /\ task[t].decision.edge \in DOMAIN Source.edge
               /\ task[t].decision.row.to \in DOMAIN Source.kind
    <3>1. task[t].decision \in Pending(t, at[t])
      BY <1>2, <2>1
    <3>2. PICK e \in DOMAIN Source.edge, x \in {0, 1} :
             task[t].decision = [id |-> t, edge |-> e,
                                 row |-> [Source.edge[e] EXCEPT !.text = x], session |-> 1]
      BY <3>1 DEF Pending
    <3>3. /\ task[t].decision.edge = e
          /\ task[t].decision.row = [Source.edge[e] EXCEPT !.text = x]
      BY <3>2
    <3>4. task[t].decision.row.to = Source.edge[e].to
      BY <3>3, ReviewAssumption DEF WellFormed
    <3>5. QED
      BY <3>3, <3>4, ReviewAssumption DEF Closed
  <2>2. DOMAIN task = Tasks
    BY <1>1 DEF Placed
  <2>3. QED
    BY <1>2, <1>3, <2>1, <2>2 DEF TasksKnown
<1>6. LogsKnown
  BY DEF ReviewInit, LogsKnown
<1>7. LookKnown /\ MomentKnown /\ AskedThen /\ ReleaseKnown
  BY <1>3
  DEF NoObs, LookKnown, MomentKnown, AskedThen, ReleaseKnown, Looks, Drawn, Shown, Listed, Held
<1>8. QED
  BY <1>4, <1>5, <1>6, <1>7 DEF ReviewInv

\* The invariant of the review, whatever Kent and its users do meanwhile.
THEOREM ReviewInvCorrect == ReviewSpec => []ReviewInv
<1>1. ReviewInv /\ [ReviewNext]_reviewVars => ReviewInv'
  <2> SUFFICES ASSUME ReviewInv, [ReviewNext]_reviewVars PROVE ReviewInv'
    OBVIOUS
  <2>1. CASE Kit \/ Meanwhile
    BY <2>1, GraphKept, TasksKept, LogsKept, LookKept, MomentKept, AskedKept, ReleaseKept
    DEF ReviewInv
  <2>2. CASE UNCHANGED reviewVars
    BY SMTT(30), <2>2
    DEF reviewVars, kent, ReviewInv, GraphKnown, TasksKnown, KindOf, LogsKnown, LookKnown,
      MomentKnown, AskedThen, ReleaseKnown, DisposedOf, Detailed, Decisions
  <2>3. QED
    BY <2>1, <2>2 DEF ReviewNext
<1>2. QED
  BY <1>1, ReviewInvInit, PTL DEF ReviewSpec

\* A native look that is returned shows one moment (_native_observe): its calls, its
\* SQLite transaction and its scan of the event files agree on what was the case when
\* the transaction began.
THEOREM OneMomentCorrect == ReviewSpec => []OneMoment
<1>1. ReviewInv => OneMoment
  <2> SUFFICES ASSUME ReviewInv, pc = "have" /\ plan.native PROVE OneMoment
    BY DEF OneMoment
  <2>1. \A t \in Tasks : obs.show[t].status \in {"done", "waiting_approval", "waiting_ask", "active"}
    BY DEF ReviewInv, LookKnown, Listed, Shown, Drawn, Looks
  <2>2. QED
    BY <2>1 DEF ReviewInv, MomentKnown, OneMoment
<1>2. QED
  BY <1>1, ReviewInvCorrect, PTL

\* A change that Kent applied strands no Task and no pending decision, whatever moved
\* since the last look (_v2_graph_compatibility): the target keeps every node and edge,
\* and the version in the document keeps it off any other graph.
THEOREM NobodyStrandedCorrect == ReviewSpec => []NobodyStranded
<1>1. ReviewInv => NobodyStranded
  BY GraphClosed DEF ReviewInv, TasksKnown, NobodyStranded
<1>2. QED
  BY <1>1, ReviewInvCorrect, PTL

\* A native change is released only when there was a moment, after the attempt was
\* journaled, at which the review disposed of every decision that it touches
\* (process_pre_release).
THEOREM DisposedCorrect == ReviewSpec => Disposed
<1>1. ReviewInv => (Release /\ plan.native => DisposedOf)
  BY DEF ReviewInv, ReleaseKnown, Release
<1>2. ReviewInv /\ [ReviewNext]_reviewVars => [Release /\ plan.native => DisposedOf]_reviewVars
  BY <1>1
<1>3. QED
  BY <1>2, ReviewInvCorrect, PTL DEF ReviewSpec, Disposed

-----------------------------------------------------------------------------
(* The watchers of a pull request: reports and constraints.                 *)

\* Sequences of attempts are put together in any order.
LEMMA ConcatReasons ==
    /\ \A a, b, c \in Seq(Reasons) : (a \o b) \o c = a \o (b \o c)
    /\ \A a \in Seq(Reasons), x \in Reasons : a \o <<x>> = Append(a, x)
    /\ \A a \in Seq(Reasons), n \in Nat :
          n \in 1 .. Len(a) => SubSeq(a, 1, n) \o SubSeq(a, n + 1, Len(a)) = a
<1>1. ASSUME NEW a \in Seq(Reasons), NEW b \in Seq(Reasons), NEW c \in Seq(Reasons)
      PROVE  (a \o b) \o c = a \o (b \o c)
  BY ConcatAssociative
<1>2. ASSUME NEW a \in Seq(Reasons), NEW x \in Reasons PROVE a \o <<x>> = Append(a, x)
  <2>1. a \o <<x>> = Append(a, x)
    BY AppendIsConcat, Zenon
  <2>2. QED
    BY <2>1
<1>3. ASSUME NEW a \in Seq(Reasons), NEW n \in Nat, n \in 1 .. Len(a)
      PROVE  SubSeq(a, 1, n) \o SubSeq(a, n + 1, Len(a)) = a
  <2>1. 1 \in 1 .. Len(a) + 1 /\ n \in 1 - 1 .. Len(a) /\ Len(a) \in n .. Len(a)
    BY <1>3
  <2>2. SubSeq(a, 1, n) \o SubSeq(a, n + 1, Len(a)) = SubSeq(a, 1, Len(a))
    BY <2>1, ConcatAdjacentSubSeq, Zenon
  <2>3. QED
    BY <2>2, SubSeqFull, Zenon
<1>4. QED
  BY <1>1, <1>2, <1>3

\* Adding an attempt to a report makes its history one longer, however much of
\* it the bound folds into the digest.
LEMMA AppendWhole ==
    ASSUME NEW r, IsReport(r), NEW c, NEW x \in Reasons
    PROVE  LET a == Append1(r, c, x)
           IN /\ IsReport(a) /\ Whole(a) = Append(Whole(r), x) /\ a # NoReport
              /\ a.contract = IF r = NoReport THEN c ELSE r.contract
<1> DEFINE base == IF r = NoReport THEN [NoReport EXCEPT !.contract = c] ELSE r
           kept == Append(r.kept, x)
           longer == [base EXCEPT !.kept = Append(@, x)]
           n == Len(kept) - MaxAttempts
<1>1. /\ base.gone = r.gone /\ base.kept = r.kept /\ DOMAIN base = {"contract", "gone", "kept"}
      /\ base.contract = IF r = NoReport THEN c ELSE r.contract
  BY DEF IsReport, NoReport
<1>2. /\ DOMAIN longer = {"contract", "gone", "kept"} /\ longer.contract = base.contract
      /\ longer.gone = r.gone /\ longer.kept = kept
  BY <1>1
<1>3. /\ r.gone \in Seq(Reasons) /\ r.kept \in Seq(Reasons) /\ kept \in Seq(Reasons)
      /\ kept = r.kept \o <<x>> /\ <<x>> \in Seq(Reasons) /\ Len(kept) = Len(r.kept) + 1
      /\ Len(r.kept) \in Nat
  BY DEF IsReport
<1>4. r.gone \o kept = Append(r.gone \o r.kept, x)
  <2>1. (r.gone \o r.kept) \o <<x>> = r.gone \o (r.kept \o <<x>>)
    BY <1>3, ConcatReasons, Zenon
  <2>2. r.gone \o r.kept \in Seq(Reasons)
    BY <1>3, ConcatProperties
  <2>3. (r.gone \o r.kept) \o <<x>> = Append(r.gone \o r.kept, x)
    BY <2>2, ConcatReasons, Zenon
  <2>4. QED
    BY <1>3, <2>1, <2>3
<1>5. Append1(r, c, x) = Bound(longer)
  BY DEF Append1
<1> HIDE DEF kept, longer, base
<1>6. CASE n <= 0
  <2>1. Bound(longer) = longer
    BY <1>2, <1>6 DEF Bound
  <2>2. kept # <<>>
    BY <1>3
  <2>3. longer # NoReport
    BY <1>2, <2>2 DEF NoReport
  <2>4. QED
    BY <1>1, <1>2, <1>3, <1>4, <1>5, <2>1, <2>3 DEF IsReport, Whole
<1>7. CASE ~(n <= 0)
  <2> DEFINE cut == SubSeq(kept, 1, n)
             rest == SubSeq(kept, n + 1, Len(kept))
             bounded == [longer EXCEPT !.gone = @ \o cut, !.kept = rest]
  <2>1. n \in Nat /\ n \in 1 .. Len(kept)
    BY <1>3, <1>7, WatchAssumption
  <2>2. cut \in Seq(Reasons) /\ rest \in Seq(Reasons) /\ cut # <<>>
    <3>1. \A i \in 1 .. Len(kept) : kept[i] \in Reasons
      BY <1>3, ElementOfSeq
    <3>2. cut \in Seq(Reasons) /\ Len(cut) = n
      BY <1>3, <2>1, <3>1, SubSeqProperties
    <3>3. rest \in Seq(Reasons)
      BY <1>3, <2>1, <3>1, SubSeqProperties
    <3>4. QED
      BY <2>1, <3>2, <3>3
  <2>3. cut \o rest = kept
    BY <1>3, <2>1, ConcatReasons, Zenon
  <2>4. Bound(longer) = bounded
    BY <1>2, <1>7 DEF Bound
  <2> HIDE DEF cut, rest
  <2>5. /\ DOMAIN bounded = {"contract", "gone", "kept"}
        /\ bounded.contract = longer.contract
        /\ bounded.gone = r.gone \o cut /\ bounded.kept = rest
    BY <1>2
  <2> HIDE DEF bounded
  <2>6. r.gone \o cut \in Seq(Reasons) /\ r.gone \o cut # <<>>
    BY <1>3, <2>2, ConcatProperties, ConcatEqualIffEmpty
  <2>7. (r.gone \o cut) \o rest = r.gone \o kept
    <3>1. (r.gone \o cut) \o rest = r.gone \o (cut \o rest)
      BY ZenonT(40), <1>3, <2>2, ConcatReasons
    <3>2. QED
      BY <2>3, <3>1
  <2>8. bounded # NoReport
    BY <2>5, <2>6 DEF NoReport
  <2>9. QED
    BY <1>1, <1>2, <1>4, <1>5, <2>2, <2>4, <2>5, <2>6, <2>7, <2>8 DEF IsReport, Whole
<1>8. QED
  BY <1>6, <1>7

\* The greater of two constraints covers what either covers.
LEMMA MergeCovers ==
    ASSUME NEW a \in Limits, NEW b \in Limits
    PROVE  /\ Merge(a, b) \in Limits
           /\ \A l \in Limits : Covers(a, l) \/ Covers(b, l) => Covers(Merge(a, b), l)
  BY DEF Merge, Covers, Limits, Unknown, NoLimit

\* Who may ask under a constraint may ask under all that it covers.
LEMMA CoveredClear ==
    ASSUME now \in Nat, NEW a \in Limits, NEW l \in Limits, Covers(a, l), Clear(a)
    PROVE  Clear(l)
  BY DEF Covers, Clear, Limits

\* Where a judgement may leave the script, and what may become of its report.
Ends == {"emit", "archive", "sleep", "dead"}
Reported ==
    \/ run'.report = run.report /\ taken' = taken
    \/ /\ node = "ci"
       /\ \E x \in Reasons : /\ run'.report = Append1(run.report, packet.contract, x)
                             /\ taken' = Append(taken, x)
\* Only preparation finds the pull request ready, and it never polls.
Acts ==
    /\ run'.then = "ready" => run.then = "ready" \/ node = "prepare"
    /\ run'.pc = "sleep" => node # "prepare"
\* Only the judgement of an open pull request passes it.
Approves(p, view) ==
    run.then # "passed" /\ run'.then = "passed" =>
       /\ p.state = "OPEN" /\ Tip(p) = packet.contract /\ view.checks = "green" /\ ~p.conflict
       /\ ~Changed(packet.cursor, Candidate(p, view))

\* Check rows are classified as one of the reasons of an attempt.
LEMMA Reason == \A checks \in Rollups : Classified(checks) \in Reasons
  BY DEF Rollups, Classified, Reasons

\* What the CI watcher makes of a pull request: where the script goes, one
\* attempt at most for its report, and what it takes to pass.
LEMMA CiSteps ==
    ASSUME WatchTypeOK, node = "ci", NEW p, IsPull(p), NEW view, view.checks \in Rollups,
           JudgeCi(p, view)
    PROVE  /\ DOMAIN run' = DOMAIN IdleRun /\ run'.pc \in Ends /\ run'.own = run.own
           /\ run'.view = Unseen \/ run'.view = run.view
           /\ Reported /\ Acts /\ Approves(p, view)
<1> DEFINE reason == Classified(view.checks)
           recorded == Append1(run.report, packet.contract, reason)
           news == Changed(packet.cursor, Candidate(p, view))
           offer == IF news THEN Candidate(p, view) ELSE Uninitialized
<1>1. /\ DOMAIN run = DOMAIN IdleRun /\ reason \in Reasons
      /\ "no_checks" \in Reasons
  BY Reason DEF WatchTypeOK, Reasons
<1>2. ASSUME NEW route \in {"state_changed", "pr_merged", "source_changed", "conflict", "failed",
                           "passed"}, NEW known, NEW o,
             Decide(route, known, o)
      PROVE  /\ DOMAIN run' = DOMAIN IdleRun /\ run'.pc \in {"emit", "archive"} /\ run'.own = run.own
             /\ run'.view = Unseen /\ run'.report = known /\ run'.then = route
  BY <1>1, <1>2 DEF Decide, Ends, IdleRun
<1>3. CASE p.target # "main"
  <2>1. Conclude("state_changed") /\ UNCHANGED taken
    BY <1>3 DEF JudgeCi
  <2>2. QED
    BY <1>2, <2>1 DEF Conclude, Ends, Reported, Acts, Approves
<1>4. CASE p.target = "main" /\ p.state = "MERGED"
  <2>1. Conclude("pr_merged") /\ UNCHANGED taken
    BY <1>4 DEF JudgeCi
  <2>2. QED
    BY <1>2, <2>1 DEF Conclude, Ends, Reported, Acts, Approves
<1>5. CASE p.target = "main" /\ p.state = "CLOSED"
  <2>1. \/ Decide("state_changed", Append1(run.report, packet.contract, "no_checks"), Uninitialized)
           /\ Take("no_checks")
        \/ run' = [run EXCEPT !.pc = "dead"] /\ UNCHANGED taken
    BY <1>5 DEF JudgeCi
  <2>2. CASE run' = [run EXCEPT !.pc = "dead"] /\ UNCHANGED taken
    BY <1>1, <2>2 DEF Reported, Acts, Approves, Ends, IdleRun
  <2>3. QED
    BY <1>1, <1>2, <2>1, <2>2 DEF Take, Ends, Reported, Acts, Approves
<1>6. CASE p.target = "main" /\ p.state = "OPEN"
  <2>1. CASE Tip(p) # packet.contract
    <3>1. Conclude("source_changed") /\ UNCHANGED taken
      BY <1>6, <2>1 DEF JudgeCi
    <3>2. QED
      BY <1>2, <3>1 DEF Conclude, Ends, Reported, Acts, Approves
  <2>2. CASE Tip(p) = packet.contract
    <3>1. /\ Take(reason)
          /\ \/ Decide("failed", recorded, Uninitialized)
             \/ run' = [Resting EXCEPT !.report = recorded]
             \/ Decide("conflict", recorded, offer) \/ Decide("failed", recorded, offer)
             \/ /\ Decide("passed", recorded, offer)
                /\ ~p.conflict /\ ~news /\ reason = "green"
      BY <1>6, <2>2 DEF JudgeCi, Conflicting
    <3>2. reason = "green" => view.checks = "green"
      BY DEF Rollups, Classified
    <3>3. CASE run' = [Resting EXCEPT !.report = recorded]
      BY <1>1, <3>1, <3>3 DEF Resting, Take, Reported, Acts, Approves, Ends, IdleRun
    <3>4. QED
      BY <1>1, <1>2, <1>6, <2>2, <3>1, <3>2, <3>3 DEF Take, Ends, Reported, Acts, Approves
  <2>3. QED
    BY <2>1, <2>2
<1>7. QED
  BY <1>3, <1>4, <1>5, <1>6 DEF IsPull

\* The merge watcher and preparation add no attempt and pass nothing.
LEMMA OtherSteps ==
    ASSUME WatchTypeOK, NEW p, IsPull(p), NEW view,
           \/ node = "merge" /\ JudgeMerge(p, view)
           \/ node = "prepare" /\ JudgePrepare(p) /\ UNCHANGED taken
    PROVE  /\ DOMAIN run' = DOMAIN IdleRun /\ run'.pc \in Ends /\ run'.own = run.own
           /\ run'.view = Unseen \/ run'.view = run.view
           /\ run'.report = run.report /\ taken' = taken /\ Acts
           /\ run.then # "passed" => run'.then # "passed"
<1>1. DOMAIN run = DOMAIN IdleRun
  BY DEF WatchTypeOK
<1>2. ASSUME NEW route \in {"state_changed", "pr_merged", "still_waiting", "prepare_failed", "ready"},
             NEW o, Decide(route, run.report, o)
      PROVE  /\ DOMAIN run' = DOMAIN IdleRun /\ run'.pc \in {"emit", "archive"} /\ run'.own = run.own
             /\ run'.view = Unseen \/ run'.view = run.view
             /\ run'.report = run.report /\ run'.then = route
  BY <1>1, <1>2 DEF Decide, Ends, IdleRun
<1>3. CASE node = "merge" /\ JudgeMerge(p, view)
  <2>1. /\ UNCHANGED taken
        /\ \/ \E o : Decide("state_changed", run.report, o)
           \/ Conclude("pr_merged") \/ Conclude("still_waiting") \/ run' = Resting
    BY <1>3 DEF JudgeMerge, Conclude
  <2>2. CASE run' = Resting
    BY <1>1, <1>3, <2>1, <2>2 DEF Resting, Ends, IdleRun, Acts
  <2>3. QED
    BY <1>2, <1>3, <2>1, <2>2 DEF Conclude, Ends, Acts
<1>4. CASE node = "prepare" /\ JudgePrepare(p) /\ UNCHANGED taken
  <2>1. Conclude("prepare_failed") \/ Conclude("pr_merged") \/ Conclude("ready")
    BY <1>4 DEF JudgePrepare, IsPull
  <2>2. QED
    BY <1>2, <1>4, <2>1 DEF Conclude, Ends, Acts
<1>5. QED
  BY <1>3, <1>4

\* The first query of an observation: it starts one, or the state of the pull
\* request decides.
LEMMA FirstSteps ==
    ASSUME WatchTypeOK, ReportKnown, ReadFirst
    PROVE  /\ run.pc = "first" /\ Allowed
           /\ UNCHANGED <<pr, now, node, outcome, packet, held, archived, heard>>
           /\ DOMAIN run' = DOMAIN IdleRun /\ run'.own = run.own
           /\ \/ /\ run'.pc \in Between
                 /\ run'.view = [first |-> pr, checks |-> "none", items |-> {}]
                 /\ run'.report = run.report /\ run'.then = run.then /\ taken' = taken
                 /\ run'.pc # "threads" /\ (run'.pc = "last" => node = "prepare")
                 /\ run'.pc = "comments" => pr.checks = "none"
                 /\ stood' = [undisturbed |-> TRUE, items |-> pr.items]
              \/ /\ run'.pc \in Ends
                 /\ run'.view = Unseen \/ run'.view = run.view
                 /\ Reported /\ Acts
                 /\ run.then # "passed" => run'.then # "passed"
                 /\ stood' = Still
<1> DEFINE view == [first |-> pr, checks |-> "none", items |-> {}]
<1>1. /\ run.pc = "first" /\ Allowed /\ DOMAIN run = DOMAIN IdleRun /\ IsPull(pr)
      /\ UNCHANGED <<pr, now, node, outcome, packet, held, archived, heard>>
      /\ view.checks \in Rollups
      /\ stood' = IF run'.pc \in Asking THEN [undisturbed |-> TRUE, items |-> pr.items] ELSE Still
  BY DEF ReadFirst, WatchTypeOK, Rollups
<1>2. CASE node = "prepare" /\ (pr.state # "OPEN" \/ pr.target # "main")
  <2>1. JudgePrepare(pr) /\ UNCHANGED taken
    BY <1>2 DEF ReadFirst
  <2>2. QED
    BY <1>1, <1>2, <2>1, OtherSteps DEF Reported, Ends, Asking
<1>3. CASE node = "ci" /\ pr.state # "OPEN"
  <2>1. JudgeCi(pr, view)
    BY <1>3 DEF ReadFirst
  <2>2. /\ DOMAIN run' = DOMAIN IdleRun /\ run'.pc \in Ends /\ run'.own = run.own
        /\ run'.view = Unseen \/ run'.view = run.view
        /\ Reported /\ Acts /\ Approves(pr, view)
    BY <1>1, <1>3, <2>1, CiSteps
  <2>3. QED
    BY <1>1, <1>3, <2>2 DEF Approves, Ends, Asking
<1>4. CASE node = "merge" /\ pr.state # "OPEN"
  <2>1. JudgeMerge(pr, view)
    BY <1>4 DEF ReadFirst
  <2>2. QED
    BY <1>1, <1>4, <2>1, OtherSteps DEF Reported, Ends, Asking
<1>5. CASE pr.state = "OPEN" /\ ~(node = "prepare" /\ pr.target # "main")
  <2>1. /\ taken' = taken
        /\ \E at \in Between :
             /\ run' = [run EXCEPT !.view = view, !.pc = at]
             /\ at # "threads" /\ (at = "last" => node = "prepare")
             /\ at = "comments" => pr.checks = "none"
    BY <1>5 DEF ReadFirst, Between, Asking
  <2>2. QED
    BY <1>1, <2>1 DEF IdleRun, Between, Asking
<1>6. QED
  BY <1>1, <1>2, <1>3, <1>4, <1>5 DEF ReportKnown

\* The attempt at an observation failed: what the error leaves of the script.
LEMMA RetrySteps ==
    ASSUME WatchTypeOK, NEW told \in Limits, NEW delay, node # "prepare", Retry(told, delay)
    PROVE  /\ DOMAIN run' = DOMAIN IdleRun /\ run'.pc \in Ends
           /\ run'.view = Unseen /\ run'.own = Merge(run.own, told)
           /\ Reported /\ Acts
           /\ run.then # "passed" => run'.then # "passed"
<1>1. DOMAIN run = DOMAIN IdleRun /\ "query_failed" \in Reasons
  BY DEF WatchTypeOK, Reasons
<1>2. \/ run' = [[run EXCEPT !.view = Unseen, !.errors = @ + 1, !.own = Merge(@, told)]
                 EXCEPT !.pc = "sleep", !.wake = now + delay] /\ taken' = taken
      \/ /\ node = "ci"
         /\ run' = [[run EXCEPT !.view = Unseen, !.errors = @ + 1, !.own = Merge(@, told)]
                   EXCEPT !.pc = "archive", !.then = "watch_failed",
                          !.report = Append1(@, packet.contract, "query_failed")]
         /\ taken' = Append(taken, "query_failed")
      \/ run' = [[run EXCEPT !.view = Unseen, !.errors = @ + 1, !.own = Merge(@, told)]
                 EXCEPT !.pc = "emit", !.then = "query_failed"] /\ taken' = taken
  BY DEF Retry, Take
<1>3. QED
  BY <1>1, <1>2 DEF Reported, Acts, Ends, IdleRun

\* The last query of an observation: it decides, or the pull request moved.
LEMMA LastSteps ==
    ASSUME WatchTypeOK, ReportKnown, ReadLast
    PROVE  /\ run.pc = "last" /\ Allowed
           /\ UNCHANGED <<pr, now, node, outcome, packet, held, archived, heard>>
           /\ DOMAIN run' = DOMAIN IdleRun
           /\ run'.own = run.own \/ run'.own = Merge(run.own, NoLimit)
           /\ run'.pc \in Ends
           /\ run'.view = Unseen \/ run'.view = run.view
           /\ Reported /\ Acts /\ stood' = Still
           /\ run.then # "passed" /\ run'.then = "passed" =>
                 /\ node = "ci" /\ Sources(run.view.first) = Sources(pr)
                 /\ Tip(pr) = packet.contract /\ run.view.checks = "green" /\ ~pr.conflict
                 /\ ~Changed(packet.cursor, Candidate(pr, run.view))
<1>1. /\ run.pc = "last" /\ Allowed /\ IsPull(pr) /\ run.view.checks \in Rollups
      /\ UNCHANGED <<pr, now, node, outcome, packet, held, archived, heard>>
      /\ stood' = IF run'.pc \in Asking THEN stood ELSE Still
  BY DEF ReadLast, Settled, WatchTypeOK
<1>2. CASE node = "prepare"
  <2>1. JudgePrepare(pr) /\ UNCHANGED taken
    BY <1>2 DEF ReadLast
  <2>2. QED
    BY <1>1, <1>2, <2>1, OtherSteps DEF Reported, Ends, Asking
<1>3. CASE node # "prepare" /\ pr.state # "MERGED" /\ Moved(run.view.first, pr)
  <2>1. CASE node = "ci"
    <3>1. Conclude("source_changed") /\ UNCHANGED taken
      BY <1>3, <2>1 DEF ReadLast
    <3>2. QED
      BY <1>1, <2>1, <3>1 DEF Conclude, Decide, Reported, Acts, Ends, Asking, IdleRun, WatchTypeOK
  <2>2. CASE node # "ci"
    <3>1. Retry(NoLimit, Interval)
      BY <1>3, <2>2 DEF ReadLast
    <3>2. NoLimit \in Limits
      BY DEF NoLimit, Limits
    <3>3. QED
      BY <1>1, <1>3, <3>1, <3>2, RetrySteps DEF Ends, Asking
  <2>3. QED
    BY <2>1, <2>2
<1>4. CASE node = "ci" /\ (pr.state = "MERGED" \/ ~Moved(run.view.first, pr))
  <2>1. JudgeCi(pr, run.view)
    BY <1>4 DEF ReadLast
  <2>2. /\ DOMAIN run' = DOMAIN IdleRun /\ run'.pc \in Ends /\ run'.own = run.own
        /\ run'.view = Unseen \/ run'.view = run.view
        /\ Reported /\ Acts /\ Approves(pr, run.view)
    BY <1>1, <1>4, <2>1, CiSteps
  <2>3. QED
    BY <1>1, <1>4, <2>2 DEF Approves, Ends, Asking, Moved
<1>5. CASE node = "merge" /\ (pr.state = "MERGED" \/ ~Moved(run.view.first, pr))
  <2>1. JudgeMerge(pr, run.view)
    BY <1>5 DEF ReadLast
  <2>2. QED
    BY <1>1, <1>5, <2>1, OtherSteps DEF Reported, Ends, Asking
<1>6. QED
  BY <1>1, <1>2, <1>3, <1>4, <1>5 DEF ReportKnown

\* A query fails: what the script is told is heard, and its own constraint covers it.
LEMMA FailSteps ==
    ASSUME WatchTypeOK, Fails
    PROVE  /\ run.pc \in Asking /\ Allowed
           /\ UNCHANGED <<pr, now, used, node, outcome, packet, held, archived>>
           /\ DOMAIN run' = DOMAIN IdleRun /\ run'.pc \in Ends
           /\ run'.view = Unseen \/ run'.view = run.view
           /\ Reported /\ Acts /\ stood' = Still
           /\ run.then # "passed" => run'.then # "passed"
           /\ \E told, own \in Limits :
                 /\ heard' = [heard EXCEPT !.here = @ \cup ({told} \ {NoLimit})]
                 /\ Covers(own, told)
                 /\ run'.own = IF node = "prepare" THEN own ELSE Merge(run.own, own)
<1>1. PICK told \in {NoLimit, Unknown} \cup {Before(now + d) : d \in After} :
         LET wait == IF told.kind = "not_before" THEN told.at - now ELSE 0 IN
         /\ heard' = [heard EXCEPT !.here = @ \cup ({told} \ {NoLimit})]
         /\ IF node = "prepare"
            THEN /\ run' = [run EXCEPT !.pc = "emit", !.then = "prepare_query_failed", !.own = told]
                 /\ UNCHANGED taken
            ELSE Retry(IF told.kind = "not_before" THEN Before(now + Longer(Interval, wait)) ELSE told,
                       Longer(Interval, wait))
  BY DEF Fails
<1> DEFINE wait == IF told.kind = "not_before" THEN told.at - now ELSE 0
           own == IF node = "prepare" \/ told.kind # "not_before" THEN told
                  ELSE Before(now + Longer(Interval, wait))
<1>2. /\ run.pc \in Asking /\ Allowed /\ now \in Nat /\ DOMAIN run = DOMAIN IdleRun
      /\ UNCHANGED <<pr, now, used, node, outcome, packet, held, archived>>
      /\ stood' = IF run'.pc \in Asking THEN stood ELSE Still
  BY DEF Fails, Settled, WatchTypeOK
<1>3. told \in Limits /\ own \in Limits /\ Covers(own, told)
  <2>1. CASE told = NoLimit
    BY <2>1 DEF NoLimit, Limits, Covers, Unknown
  <2>2. CASE told = Unknown
    BY <2>2 DEF Limits, Covers, Unknown
  <2>3. ASSUME NEW d \in After, told = Before(now + d)
        PROVE  told \in Limits /\ own \in Limits /\ Covers(own, told)
    <3>1. /\ told.kind = "not_before" /\ told.at = now + d /\ d \in Nat /\ Interval \in Nat
          /\ told \in Limits
      BY <1>2, <2>3, WatchAssumption DEF Before, Limits
    <3>2. wait = d
      BY <1>2, <3>1
    <3>3. Longer(Interval, wait) \in Nat /\ Longer(Interval, wait) >= d
      BY <3>1, <3>2 DEF Longer
    <3>4. Before(now + Longer(Interval, wait)) \in Limits
      BY <1>2, <3>3 DEF Before, Limits
    <3>5. Covers(Before(now + Longer(Interval, wait)), told)
      BY <1>2, <3>1, <3>3 DEF Before, Covers, Unknown
    <3>6. Covers(told, told)
      BY <1>2, <3>1 DEF Covers
    <3>7. QED
      BY <3>1, <3>4, <3>5, <3>6
  <2>4. QED
    BY <2>1, <2>2, <2>3
<1>4. CASE node = "prepare"
  <2>1. /\ DOMAIN run' = DOMAIN IdleRun /\ run'.pc = "emit" /\ run'.view = run.view
        /\ run'.own = told /\ run'.report = run.report /\ taken' = taken
        /\ run'.then = "prepare_query_failed"
    BY <1>1, <1>2, <1>4 DEF IdleRun
  <2>2. stood' = Still
    BY <1>2, <2>1 DEF Asking
  <2>3. QED
    BY <1>1, <1>2, <1>3, <1>4, <2>1, <2>2 DEF Reported, Acts, Ends
<1>5. CASE node # "prepare"
  <2>1. Retry(own, Longer(Interval, wait))
    BY <1>1, <1>5
  <2> HIDE DEF own, wait
  <2>2. /\ DOMAIN run' = DOMAIN IdleRun /\ run'.pc \in Ends
        /\ run'.view = Unseen /\ run'.own = Merge(run.own, own)
        /\ Reported /\ Acts
        /\ run.then # "passed" => run'.then # "passed"
    BY <1>3, <1>5, <2>1, RetrySteps
  <2>3. stood' = Still
    BY <1>2, <2>2 DEF Ends, Asking
  <2>4. QED
    BY <1>1, <1>2, <1>3, <1>5, <2>2, <2>3
<1>6. QED
  BY <1>4, <1>5

\* The pull request moves in one direction only.
LEMMA ForgeSteps ==
    ASSUME IsPull(pr), ForgeMoves
    PROVE  /\ IsPull(pr')
           /\ pr.head <= pr'.head /\ pr.base <= pr'.base /\ pr.rollup <= pr'.rollup
           /\ pr.target = "other" => pr'.target = "other"
           /\ pr'.checks # pr.checks => pr.rollup < pr'.rollup
<1>1. /\ {"state", "head", "base", "target", "checks", "rollup", "items", "decision",
           "conflict"} \subseteq DOMAIN pr
      /\ DOMAIN pr = DOMAIN NoPull
  BY DEF IsPull, NoPull
<1>2. \/ pr' = [pr EXCEPT !.head = @ + 1, !.checks = "none", !.rollup = @ + 1]
      \/ pr' = [pr EXCEPT !.base = @ + 1] \/ pr' = [pr EXCEPT !.target = "other"]
      \/ pr' = [pr EXCEPT !.state = "MERGED"] \/ pr' = [pr EXCEPT !.state = "CLOSED"]
      \/ \E c : pr' = [pr EXCEPT !.conflict = c]
      \/ \E c \in Rollups : pr' = [pr EXCEPT !.checks = c, !.rollup = @ + 1]
      \/ \E i \in SUBSET (Comments \cup Threads) : pr' = [pr EXCEPT !.items = i]
      \/ \E d : pr' = [pr EXCEPT !.decision = d]
  <2>1. pr' \in Moves(pr)
    BY DEF ForgeMoves
  <2>2. \A i \in Comments \cup Threads : /\ pr.items \cup {i} \in SUBSET (Comments \cup Threads)
                                        /\ pr.items \ {i} \in SUBSET (Comments \cup Threads)
    BY DEF IsPull
  <2>3. QED
    BY <2>1, <2>2 DEF Moves, Rollups
<1>3. CASE pr' = [pr EXCEPT !.head = @ + 1, !.checks = "none", !.rollup = @ + 1]
  BY <1>1, <1>3 DEF IsPull, Rollups
<1>4. CASE pr' = [pr EXCEPT !.base = @ + 1]
  BY <1>1, <1>4 DEF IsPull
<1>5. CASE pr' = [pr EXCEPT !.target = "other"]
  BY <1>1, <1>5 DEF IsPull
<1>6. CASE pr' = [pr EXCEPT !.state = "MERGED"]
  BY <1>1, <1>6 DEF IsPull
<1>7. CASE pr' = [pr EXCEPT !.state = "CLOSED"]
  BY <1>1, <1>7 DEF IsPull
<1>8. CASE \E c : pr' = [pr EXCEPT !.conflict = c]
  BY <1>1, <1>8 DEF IsPull
<1>9. CASE \E c \in Rollups : pr' = [pr EXCEPT !.checks = c, !.rollup = @ + 1]
  BY <1>1, <1>9 DEF IsPull
<1>10. CASE \E i \in SUBSET (Comments \cup Threads) : pr' = [pr EXCEPT !.items = i]
  BY <1>1, <1>10 DEF IsPull
<1>11. CASE \E d : pr' = [pr EXCEPT !.decision = d]
  BY <1>1, <1>11 DEF IsPull
<1>12. QED
  BY <1>2, <1>3, <1>4, <1>5, <1>6, <1>7, <1>8, <1>9, <1>10, <1>11

\* The script may not ask and ends.
LEMMA RefusedSteps ==
    ASSUME WatchTypeOK, Refused
    PROVE  /\ run.pc \in Asking
           /\ UNCHANGED <<pr, now, node, outcome, packet, held, archived, heard, taken>>
           /\ DOMAIN run' = DOMAIN IdleRun /\ run'.pc = "emit" /\ run'.then = "blocked"
           /\ run'.view = Unseen /\ run'.own = run.own /\ run'.report = run.report
           /\ stood' = Still
<1>1. DOMAIN run = DOMAIN IdleRun
  BY DEF WatchTypeOK
<1>2. /\ run.pc \in Asking
      /\ UNCHANGED <<pr, now, node, outcome, packet, held, archived, heard, taken>>
      /\ run' = [run EXCEPT !.pc = "emit", !.then = "blocked", !.view = Unseen,
                            !.report = run.report, !.offer = Uninitialized]
      /\ stood' = IF run'.pc \in Asking THEN stood ELSE Still
  BY DEF Refused, Conclude, Decide, Settled
<1>3. QED
  BY <1>1, <1>2 DEF IdleRun, Asking

\* One query of an observation is answered.
LEMMA ReadSteps ==
    ASSUME WatchTypeOK, Read
    PROVE  /\ Allowed
           /\ UNCHANGED <<pr, now, node, outcome, packet, held, archived, heard, stood, taken>>
           /\ DOMAIN run' = DOMAIN IdleRun /\ DOMAIN run'.view = DOMAIN Unseen
           /\ run'.own = run.own /\ run'.report = run.report /\ run'.then = run.then
           /\ run'.view.first = run.view.first
           /\ \/ /\ run.pc = "checks" /\ run'.pc = "comments" /\ run'.view.checks = pr.checks
              \/ /\ run.pc = "comments" /\ run'.pc = "threads"
                 /\ run'.view.checks = run.view.checks
                 /\ run'.view.items = pr.items \cap Comments
              \/ /\ run.pc = "threads" /\ run'.pc = "last"
                 /\ run'.view.checks = run.view.checks
                 /\ run'.view.items = run.view.items \cup (pr.items \cap Threads)
<1>1. /\ DOMAIN run = DOMAIN IdleRun /\ DOMAIN run.view = DOMAIN Unseen
      /\ UNCHANGED <<pr, now, node, outcome, packet, held, archived, heard, stood, taken>>
      /\ run.pc \in {"checks", "comments", "threads"} /\ Allowed
  BY DEF WatchTypeOK, Read
<1>2. CASE run.pc = "checks"
  <2>1. run' = [run EXCEPT !.pc = "comments", !.view.checks = pr.checks]
    BY <1>2 DEF Read
  <2>2. QED
    BY <1>1, <1>2, <2>1 DEF IdleRun, Unseen
<1>3. CASE run.pc = "comments"
  <2>1. run' = [run EXCEPT !.pc = "threads", !.view.items = pr.items \cap Comments]
    BY <1>3 DEF Read
  <2>2. QED
    BY <1>1, <1>3, <2>1 DEF IdleRun, Unseen
<1>4. CASE run.pc = "threads"
  <2>1. run' = [run EXCEPT !.pc = "last", !.view.items = @ \cup (pr.items \cap Threads)]
    BY <1>4 DEF Read
  <2>2. QED
    BY <1>1, <1>4, <2>1 DEF IdleRun, Unseen
<1>5. QED
  BY <1>1, <1>2, <1>3, <1>4

\* A script hands on its packet: what becomes of the report and the constraint.
LEMMA EmitSteps ==
    ASSUME WatchTypeOK, ReportKnown, Emit
    PROVE  /\ run.pc = "emit" /\ (NeedsArchive => run.report \in archived)
           /\ UNCHANGED <<pr, now, archived, stood>>
           /\ run' = IdleRun
           /\ outcome' = Transition /\ node' = Successor(Transition)
           /\ held' = Inherited(Transition, run.report)
           /\ heard' = [here |-> {}, kept |-> heard.kept \cup heard.here]
           /\ taken' = IF packet'.report = NoReport THEN <<>> ELSE taken
           /\ DOMAIN packet' = DOMAIN packet
           /\ \/ run.then = "pr_merged" /\ packet'.report = NoReport
              \/ /\ node = "prepare" /\ run.then = "ready"
                 /\ \/ packet'.report = NoReport
                    \/ /\ packet'.report = packet.report
                       /\ packet'.report.contract = packet'.contract
              \/ /\ run.then # "pr_merged" /\ (node = "prepare" => run.then # "ready")
                 /\ packet'.contract = packet.contract
                 /\ packet'.report = IF node = "ci" THEN run.report ELSE packet.report
<1>1. /\ run.pc = "emit" /\ (NeedsArchive => run.report \in archived)
      /\ UNCHANGED <<pr, now, archived, stood>>
      /\ run' = IdleRun
      /\ outcome' = Transition /\ node' = Successor(Transition)
      /\ held' = Inherited(Transition, run.report)
      /\ heard' = [here |-> {}, kept |-> heard.kept \cup heard.here]
      /\ taken' = IF packet'.report = NoReport THEN <<>> ELSE taken
      /\ DOMAIN packet = {"contract", "report", "cursor", "offer", "tip"}
      /\ node \in {"prepare", "ci", "merge"}
  BY DEF Emit, WatchTypeOK, ReportKnown
<1>2. CASE run.then = "pr_merged"
  <2>1. packet' = [packet EXCEPT !.report = NoReport]
    BY <1>2 DEF Emit
  <2>2. QED
    BY <1>1, <1>2, <2>1
<1>3. CASE node = "prepare" /\ run.then = "ready"
  <2>1. packet' = PreparedPacket
    BY <1>3 DEF Emit
  <2>2. /\ DOMAIN packet' = DOMAIN packet
        /\ \/ packet'.report = NoReport
           \/ packet'.report = packet.report /\ packet.report.contract = packet'.contract
    BY <1>1, <2>1 DEF PreparedPacket
  <2>3. QED
    BY <1>1, <1>3, <2>2
<1>4. CASE run.then # "pr_merged" /\ (node = "prepare" => run.then # "ready")
  <2>1. CASE node = "prepare"
    <3>1. packet' = packet
      BY <1>4, <2>1 DEF Emit
    <3>2. QED
      BY <1>1, <1>4, <2>1, <3>1
  <2>2. CASE node = "ci"
    <3>1. packet' = [packet EXCEPT !.report = run.report, !.offer = run.offer]
      BY <1>4, <2>2 DEF Emit
    <3>2. QED
      BY <1>1, <1>4, <2>2, <3>1
  <2>3. CASE node = "merge"
    <3>1. packet' = [packet EXCEPT !.offer = run.offer]
      BY <1>4, <2>3 DEF Emit
    <3>2. QED
      BY <1>1, <1>4, <2>3, <3>1
  <2>4. QED
    BY <1>1, <2>1, <2>2, <2>3
<1>5. QED
  BY <1>2, <1>3, <1>4

\* The agent routes on between the scripts.
LEMMA AgentSteps ==
    ASSUME WatchTypeOK, Agent
    PROVE  /\ UNCHANGED <<pr, now, held, run, archived, heard, stood, taken>>
           /\ node = "agent" /\ node' \in {"prepare", "merge", "done"}
           /\ DOMAIN packet' = DOMAIN packet
           /\ packet'.report = packet.report /\ packet'.contract = packet.contract
  BY DEF Agent, WatchTypeOK

\* A script starts with the packet it is given.
LEMMA StartSteps ==
    ASSUME Start
    PROVE  /\ run.pc = "idle" /\ node \in {"prepare", "ci", "merge"}
           /\ node = "ci" => packet.report.contract \in {NoTip, packet.contract}
           /\ DOMAIN run' = DOMAIN IdleRun /\ run'.pc = "first" /\ run'.report = packet.report
           /\ run'.own = NoLimit /\ run'.view = Unseen /\ run'.then = "undecided"
           /\ UNCHANGED <<pr, now, used, node, outcome, packet, held, archived, heard, stood,
                          taken>>
  BY DEF Start, IdleRun

\* Sleeping and archiving leave all but the place of the script alone.
LEMMA PauseSteps ==
    ASSUME WatchTypeOK, Sleep \/ Archive
    PROVE  /\ DOMAIN run' = DOMAIN IdleRun /\ run'.own = run.own /\ run'.view = run.view
           /\ run'.report = run.report /\ run'.then = run.then
           /\ UNCHANGED <<pr, now, used, node, outcome, packet, held, heard, stood, taken>>
           /\ \/ run.pc = "sleep" /\ run'.pc = "first"
              \/ run.pc \in {"archive", "emit"} /\ run'.pc = "emit"
  BY DEF Sleep, Archive, WatchTypeOK, IdleRun

\* A script dies without a packet.
LEMMA CrashSteps ==
    ASSUME WatchTypeOK, Crash
    PROVE  /\ run.pc # "idle" /\ run' = IdleRun /\ stood' = Still
           /\ DOMAIN heard' = DOMAIN heard /\ heard'.here = {} /\ heard'.kept = heard.kept
           /\ taken' = Whole(packet.report)
           /\ UNCHANGED <<pr, now, used, node, outcome, packet, held, archived>>
  BY DEF Crash, WatchTypeOK, Settled, IdleRun, Asking

\* The merge of the constraints that a packet carries.
LEMMA InheritedCovers ==
    ASSUME held \in Limits, run.own \in Limits, NEW transition
    PROVE  /\ Inherited(transition, run.report) \in Limits
           /\ \A l \in Limits : Covers(held, l) \/ Covers(run.own, l) =>
                 Covers(Inherited(transition, run.report), l)
<1>1. /\ Merge(held, run.own) \in Limits
      /\ \A l \in Limits : Covers(held, l) \/ Covers(run.own, l) =>
            Covers(Merge(held, run.own), l)
  BY MergeCovers
<1>2. Inherited(transition, run.report) \in {Merge(held, run.own), Unknown}
  BY DEF Inherited
<1>3. Unknown \in Limits /\ \A l : Covers(Unknown, l)
  BY DEF Unknown, Limits, Covers
<1>4. QED
  BY <1>1, <1>2, <1>3

-----------------------------------------------------------------------------
(* The watchers: each part of the invariant is kept by every step.          *)

\* The first values of the watchers' state are of their types.
LEMMA BoundsKnown ==
    /\ IsReport(NoReport) /\ Whole(NoReport) = <<>> /\ NoReport.contract = NoTip
    /\ NoLimit \in Limits /\ Unknown \in Limits
    /\ DOMAIN Unseen = {"first", "checks", "items"} /\ Unseen.checks \in Rollups
    /\ IdleRun.pc = "idle" /\ IdleRun.own = NoLimit /\ IdleRun.report = NoReport
    /\ IdleRun.view = Unseen /\ IdleRun.then = "undecided"
  BY DEF IsReport, NoReport, Whole, NoLimit, Unknown, Limits, Unseen, Rollups, IdleRun

\* Types are kept.
LEMMA WatchTypeKept ==
    ASSUME WatchTypeOK, ReportKnown, [WatchNext]_watchVars
    PROVE  WatchTypeOK'
<1> USE BoundsKnown
<1>1. ASSUME Reported PROVE IsReport(run'.report) /\ taken' \in Seq(Reasons)
  <2>1. CASE run'.report = run.report /\ taken' = taken
    BY <2>1 DEF WatchTypeOK
  <2>2. ASSUME NEW x \in Reasons, run'.report = Append1(run.report, packet.contract, x),
               taken' = Append(taken, x)
        PROVE  IsReport(run'.report) /\ taken' \in Seq(Reasons)
    BY <2>2, AppendWhole DEF WatchTypeOK
  <2>3. QED
    BY <1>1, <2>1, <2>2 DEF Reported
<1>2. ASSUME UNCHANGED <<pr, now, node, packet, held>>, DOMAIN heard' = DOMAIN heard,
             heard'.here \in SUBSET Limits, heard'.kept = heard.kept,
             DOMAIN run' = DOMAIN IdleRun,
             run'.pc \in Asking \cup {"idle", "sleep", "archive", "emit", "dead"},
             run'.own \in Limits, IsReport(run'.report), taken' \in Seq(Reasons),
             DOMAIN run'.view = DOMAIN Unseen, run'.view.checks \in Rollups,
             DOMAIN stood' = {"undisturbed", "items"}
      PROVE  WatchTypeOK'
  BY <1>2 DEF WatchTypeOK, IsReport, IsPull
<1>3. /\ DOMAIN Still = {"undisturbed", "items"}
      /\ Ends \subseteq Asking \cup {"idle", "sleep", "archive", "emit", "dead"}
      /\ Between \subseteq Asking
  BY DEF Still, Ends, Between, Asking
<1>4. CASE ForgeMoves
  <2>1. IsPull(pr')
    BY <1>4, ForgeSteps DEF WatchTypeOK
  <2>2. /\ UNCHANGED <<now, node, outcome, packet, held, run, archived, heard, taken>>
        /\ DOMAIN stood' = {"undisturbed", "items"}
    BY <1>4 DEF ForgeMoves, WatchTypeOK
  <2>3. QED
    BY <2>1, <2>2 DEF WatchTypeOK, IsReport
<1>5. CASE Tick
  BY <1>5 DEF Tick, WatchTypeOK, IsReport, IsPull
<1>6. CASE Start
  BY <1>2, <1>6, StartSteps DEF WatchTypeOK, Asking
<1>7. CASE Refused
  BY <1>2, <1>3, <1>7, RefusedSteps DEF WatchTypeOK
<1>8. CASE ReadFirst
  <2>1. ASSUME run'.pc \in Between, run'.view = [first |-> pr, checks |-> "none", items |-> {}]
        PROVE  DOMAIN run'.view = DOMAIN Unseen /\ run'.view.checks \in Rollups
    BY <2>1 DEF Rollups
  <2>2. QED
    BY <1>1, <1>2, <1>3, <1>8, <2>1, FirstSteps DEF WatchTypeOK
<1>9. CASE Read
  <2>1. run'.view.checks \in Rollups /\ run'.pc \in Asking
    BY <1>9, ReadSteps DEF WatchTypeOK, IsPull, Asking
  <2>2. QED
    BY <1>2, <1>9, <2>1, ReadSteps DEF WatchTypeOK
<1>10. CASE ReadLast
  <2>1. run'.own \in Limits
    BY <1>10, LastSteps, MergeCovers DEF WatchTypeOK
  <2>2. QED
    BY <1>1, <1>2, <1>3, <1>10, <2>1, LastSteps DEF WatchTypeOK
<1>11. CASE Fails
  <2>1. run'.own \in Limits /\ heard'.here \in SUBSET Limits /\ heard'.kept = heard.kept
        /\ DOMAIN heard' = DOMAIN heard
    BY <1>11, FailSteps, MergeCovers DEF WatchTypeOK
  <2>2. QED
    BY <1>1, <1>2, <1>3, <1>11, <2>1, FailSteps DEF WatchTypeOK
<1>12. CASE Sleep \/ Archive
  BY <1>2, <1>12, PauseSteps DEF WatchTypeOK, Asking
<1>13. CASE Emit
  <2>1. /\ run' = IdleRun /\ UNCHANGED <<pr, now, stood>>
        /\ heard' = [here |-> {}, kept |-> heard.kept \cup heard.here]
        /\ DOMAIN packet' = DOMAIN packet
    BY <1>13, EmitSteps
  <2>2. IsReport(packet'.report) /\ taken' \in Seq(Reasons)
    <3>1. /\ packet'.report \in {NoReport, packet.report, run.report}
          /\ taken' = <<>> \/ taken' = taken
      BY <1>13, EmitSteps
    <3>2. IsReport(packet.report) /\ IsReport(run.report) /\ taken \in Seq(Reasons)
      BY DEF WatchTypeOK
    <3>3. <<>> \in Seq(Reasons)
      OBVIOUS
    <3>4. IsReport(packet'.report)
      BY <3>1, <3>2, BoundsKnown DEF IsReport
    <3>5. QED
      BY <3>1, <3>2, <3>3, <3>4
  <2>3. node' \in {"prepare", "ci", "merge", "agent", "done"}
    BY <1>13, EmitSteps DEF Successor
  <2>4. held' \in Limits
    BY <1>13, EmitSteps, InheritedCovers DEF WatchTypeOK
  <2>5. QED
    BY <2>1, <2>2, <2>3, <2>4 DEF WatchTypeOK
<1>14. CASE Crash
  <2>1. taken' \in Seq(Reasons)
    <3>1. packet.report.gone \in Seq(Reasons) /\ packet.report.kept \in Seq(Reasons)
      BY DEF WatchTypeOK, IsReport
    <3>2. taken' = packet.report.gone \o packet.report.kept
      BY <1>14, CrashSteps DEF Whole
    <3>3. QED
      BY <3>1, <3>2, ConcatProperties
  <2>2. QED
    BY <1>2, <1>3, <1>14, <2>1, CrashSteps DEF WatchTypeOK
<1>15. CASE Agent
  BY <1>15, AgentSteps DEF WatchTypeOK, IsReport, IsPull
<1>16. CASE UNCHANGED watchVars
  BY <1>16 DEF watchVars, WatchTypeOK, IsReport, IsPull
<1>17. QED
  BY <1>4, <1>5, <1>6, <1>7, <1>8, <1>9, <1>10, <1>11, <1>12, <1>13, <1>14, <1>15, <1>16
  DEF WatchNext

\* What is known of an observation is kept.
LEMMA ObservedKept ==
    ASSUME WatchTypeOK, ReportKnown, Observed, [WatchNext]_watchVars
    PROVE  Observed'
<1>1. ASSUME run'.pc \notin Between PROVE Observed'
  BY <1>1 DEF Observed
<1>2. Ends \cap Between = {} /\ "idle" \notin Between /\ "first" \notin Between
  BY DEF Ends, Between, Asking
<1>3. CASE ForgeMoves /\ run.pc \in Between
  <2>1. /\ IsPull(pr') /\ IsPull(pr)
        /\ pr.head <= pr'.head /\ pr.base <= pr'.base /\ pr.rollup <= pr'.rollup
        /\ pr.target = "other" => pr'.target = "other"
        /\ pr'.checks # pr.checks => pr.rollup < pr'.rollup
    BY <1>3, ForgeSteps DEF WatchTypeOK
  <2>2. /\ UNCHANGED <<node, run>>
        /\ stood'.undisturbed = (stood.undisturbed /\ Sources(pr') = Sources(pr))
        /\ stood'.items = stood.items \cap pr'.items
    BY <1>3 DEF ForgeMoves, Between
  <2>3. IsPull(run.view.first)
    BY <1>3 DEF Observed
  <2> DEFINE first == run.view.first
  <2>4. first.head <= pr'.head /\ first.base <= pr'.base /\ first.rollup <= pr'.rollup
    BY <1>3, <2>1, <2>3 DEF Observed, IsPull
  <2>5. first.target = "other" => pr'.target = "other"
    BY <1>3, <2>1 DEF Observed
  <2>6. ASSUME Sources(first) = Sources(pr')
        PROVE  Sources(first) = Sources(pr) /\ Sources(pr') = Sources(pr) /\ pr'.checks = pr.checks
    <3>1. /\ first.head = pr'.head /\ first.base = pr'.base /\ first.target = pr'.target
          /\ first.rollup = pr'.rollup
      BY <2>6 DEF Sources
    <3>2. first.head = pr.head /\ first.base = pr.base /\ first.rollup = pr.rollup
      BY <1>3, <2>1, <2>3, <3>1 DEF Observed, IsPull
    <3>3. first.target = pr.target
      BY <1>3, <2>1, <2>3, <3>1 DEF Observed, IsPull
    <3>4. pr'.rollup = pr.rollup
      BY <3>1, <3>2
    <3>5. pr'.checks = pr.checks
      BY <2>1, <3>4 DEF IsPull
    <3>6. QED
      BY <3>1, <3>2, <3>3, <3>5 DEF Sources
  <2>7. ASSUME Sources(first) = Sources(pr')
        PROVE  /\ stood'.undisturbed
               /\ run.pc # "checks" /\ node # "prepare" => run.view.checks = pr'.checks
    BY <1>3, <2>2, <2>6, <2>7 DEF Observed
  <2>8. /\ stood'.items \subseteq pr'.items
        /\ run.pc = "threads" => stood'.items \cap Comments \subseteq run.view.items
        /\ run.pc = "last" /\ node # "prepare" => stood'.items \subseteq run.view.items
    BY <1>3, <2>2 DEF Observed
  <2>9. QED
    BY <2>2, <2>3, <2>4, <2>5, <2>7, <2>8 DEF Observed
<1>4. CASE ForgeMoves /\ run.pc \notin Between
  BY <1>1, <1>4 DEF ForgeMoves
<1>5. CASE UNCHANGED <<pr, node, run, stood>>
  BY <1>5 DEF Observed, IsPull, Sources
<1>6. CASE ReadFirst
  <2>1. CASE run'.pc \in Ends
    BY <1>1, <1>2, <2>1
  <2>2. CASE run'.pc \notin Ends
    <3>1. /\ pr' = pr /\ node' = node /\ IsPull(pr) /\ run'.pc \in Between
          /\ run'.view = [first |-> pr, checks |-> "none", items |-> {}]
          /\ run'.pc # "threads" /\ (run'.pc = "last" => node = "prepare")
          /\ run'.pc = "comments" => pr.checks = "none"
          /\ stood' = [undisturbed |-> TRUE, items |-> pr.items]
      BY <1>6, <2>2, FirstSteps DEF WatchTypeOK
    <3>2. run'.view.first = pr /\ run'.view.checks = "none" /\ IsPull(run'.view.first)
          /\ stood'.undisturbed /\ stood'.items = pr.items
          /\ run'.pc \in {"checks", "comments", "last"}
      BY <3>1 DEF Between, Asking, IsPull
    <3>3. run'.pc # "checks" /\ node # "prepare" => run'.view.checks = pr.checks
      BY <3>1, <3>2
    <3>4. QED
      BY <3>1, <3>2, <3>3 DEF Observed, IsPull
  <2>3. QED
    BY <2>1, <2>2
<1>7. CASE Read
  <2>1. run.pc \in Between /\ run'.pc \in {"comments", "threads", "last"} /\ IsPull(pr)
        /\ UNCHANGED <<pr, node, stood>> /\ run'.view.first = run.view.first
        /\ run'.view.checks = IF run.pc = "checks" THEN pr.checks ELSE run.view.checks
    BY <1>7, ReadSteps DEF Between, Asking, WatchTypeOK
  <2>2. stood.items \subseteq pr.items /\ pr.items \subseteq Comments \cup Threads
    BY <2>1 DEF Observed, IsPull
  <2>3. CASE run.pc = "checks"
    <3>1. run'.pc = "comments"
      BY <1>7, <2>3, ReadSteps
    <3>2. QED
      BY <2>1, <2>2, <2>3, <3>1 DEF Observed, IsPull
  <2>4. CASE run.pc = "comments"
    <3>1. run'.pc = "threads" /\ run'.view.items = pr.items \cap Comments
      BY <1>7, <2>4, ReadSteps
    <3>2. stood.items \cap Comments \subseteq run'.view.items
      BY <2>2, <3>1
    <3>3. QED
      BY <2>1, <2>2, <2>4, <3>1, <3>2 DEF Observed, IsPull
  <2>5. CASE run.pc = "threads"
    <3>1. /\ run'.pc = "last"
          /\ run'.view.items = run.view.items \cup (pr.items \cap Threads)
      BY <1>7, <2>5, ReadSteps
    <3>2. stood.items \cap Comments \subseteq run.view.items
      BY <2>1, <2>5 DEF Observed
    <3>3. stood.items \subseteq run'.view.items
      BY <2>2, <3>1, <3>2
    <3>4. QED
      BY <2>1, <2>2, <2>5, <3>1, <3>3 DEF Observed, IsPull
  <2>6. QED
    BY <1>7, <2>3, <2>4, <2>5, ReadSteps
<1>8. CASE Agent
  BY <1>1, <1>2, <1>8, AgentSteps DEF ReportKnown
<1>9. CASE Tick \/ UNCHANGED watchVars
  BY <1>5, <1>9 DEF Tick, watchVars
<1>10. CASE Start \/ Refused \/ ReadLast \/ Fails
  <2>1. run'.pc \in Ends \cup {"first"}
    BY <1>10, StartSteps, RefusedSteps, LastSteps, FailSteps DEF Ends
  <2>2. QED
    BY <1>1, <1>2, <2>1
<1>11. CASE Sleep \/ Archive
  <2>1. run'.pc \in {"first", "emit"}
    BY <1>11, PauseSteps
  <2>2. QED
    BY <1>1, <1>2, <2>1 DEF Ends
<1>12. CASE Emit \/ Crash
  <2>1. run' = IdleRun
    BY <1>12, EmitSteps, CrashSteps
  <2>2. QED
    BY <1>1, <1>2, <2>1 DEF IdleRun
<1>13. QED
  BY <1>3, <1>4, <1>6, <1>7, <1>8, <1>9, <1>10, <1>11, <1>12 DEF WatchNext

\* Reports are what was taken down, and only the CI watcher adds to them.
LEMMA ReportsKept ==
    ASSUME WatchTypeOK, ReportKnown, HistoryWhole, [WatchNext]_watchVars
    PROVE  ReportKnown' /\ HistoryWhole'
<1> USE BoundsKnown
<1>1. /\ IsReport(packet.report) /\ IsReport(run.report)
      /\ Whole(IF run.pc = "idle" THEN packet.report ELSE run.report) = taken
      /\ node = "ci" => (IF run.pc = "idle" THEN packet.report ELSE run.report).contract
                           \in {NoTip, packet.contract}
  BY DEF WatchTypeOK, HistoryWhole
<1>2. ASSUME UNCHANGED <<node, packet>>, run.pc # "idle", run'.pc # "idle", Reported, Acts
      PROVE  ReportKnown' /\ HistoryWhole'
  <2>1. CASE run'.report = run.report /\ taken' = taken
    BY <1>1, <1>2, <2>1 DEF ReportKnown, Acts, HistoryWhole, Whole
  <2>2. ASSUME NEW x \in Reasons, node = "ci",
               run'.report = Append1(run.report, packet.contract, x), taken' = Append(taken, x)
        PROVE  ReportKnown' /\ HistoryWhole'
    <3>1. /\ Whole(run'.report) = taken' /\ run'.report # NoReport
          /\ run'.report.contract = IF run.report = NoReport THEN packet.contract
                                    ELSE run.report.contract
      BY <1>1, <1>2, <2>2, AppendWhole
    <3>2. run'.report.contract \in {NoTip, packet.contract}
      BY <1>1, <1>2, <2>2, <3>1
    <3>3. QED
      BY <1>2, <2>2, <3>1, <3>2 DEF ReportKnown, Acts, HistoryWhole, Whole
  <2>3. QED
    BY <1>2, <2>1, <2>2 DEF Reported
<1>3. Ends \cap {"idle"} = {} /\ Between \cap {"idle"} = {} /\ "idle" \notin Asking
  BY DEF Ends, Between, Asking
<1>4. CASE UNCHANGED <<node, packet, run, taken>>
  BY <1>4 DEF ReportKnown, HistoryWhole, Whole
<1>5. CASE ForgeMoves \/ Tick \/ UNCHANGED watchVars
  BY <1>4, <1>5 DEF ForgeMoves, Tick, watchVars
<1>6. CASE Start
  BY <1>1, <1>6, StartSteps DEF ReportKnown, HistoryWhole, Whole
<1>7. CASE Refused \/ Read
  <2>1. /\ UNCHANGED <<node, packet>> /\ run.pc # "idle" /\ run'.pc # "idle"
        /\ run'.report = run.report /\ taken' = taken /\ Acts
    BY <1>3, <1>7, RefusedSteps, ReadSteps DEF Acts
  <2>2. QED
    BY <1>2, <2>1 DEF Reported
<1>8. CASE ReadFirst
  <2>1. /\ UNCHANGED <<node, packet>> /\ run.pc # "idle" /\ run'.pc # "idle" /\ Reported /\ Acts
    BY <1>3, <1>8, FirstSteps DEF Reported, Acts, Between, Asking
  <2>2. QED
    BY <1>2, <2>1
<1>9. CASE ReadLast
  BY <1>2, <1>3, <1>9, LastSteps
<1>10. CASE Fails
  BY <1>2, <1>3, <1>10, FailSteps
<1>11. CASE Sleep \/ Archive
  <2>1. /\ UNCHANGED <<node, packet>> /\ run.pc # "idle" /\ run'.pc # "idle"
        /\ run'.report = run.report /\ taken' = taken /\ Acts
    BY <1>11, PauseSteps DEF Acts
  <2>2. QED
    BY <1>2, <2>1 DEF Reported
<1>12. CASE Emit
  <2>1. /\ run.pc = "emit" /\ run' = IdleRun /\ node' = Successor(Transition)
        /\ taken' = IF packet'.report = NoReport THEN <<>> ELSE taken
    BY <1>12, EmitSteps
  <2>2. Whole(run.report) = taken
    BY <1>1, <2>1
  <2>3. packet'.report \in {NoReport, run.report}
    BY <1>12, EmitSteps DEF ReportKnown
  <2>4. Whole(packet'.report) = taken'
    BY <2>1, <2>2, <2>3
  <2>5. ASSUME node' = "ci" PROVE packet'.report.contract \in {NoTip, packet'.contract}
    <3>1. Transition = "ready"
      BY <2>1, <2>5 DEF Successor
    <3>2. run.then = "ready"
      BY <3>1 DEF Transition, BlockedTransition
    <3>3. node = "prepare"
      BY <2>1, <3>2 DEF ReportKnown
    <3>4. QED
      BY <1>12, <3>2, <3>3, EmitSteps
  <2>6. QED
    BY <2>1, <2>4, <2>5 DEF ReportKnown, HistoryWhole, Whole
<1>13. CASE Crash
  BY <1>13, CrashSteps DEF ReportKnown, HistoryWhole, Whole
<1>14. CASE Agent
  <2>1. run.pc = "idle"
    BY <1>14, AgentSteps DEF ReportKnown
  <2>2. QED
    BY <1>1, <1>14, <2>1, AgentSteps DEF ReportKnown, HistoryWhole, Whole
<1>15. QED
  BY <1>5, <1>6, <1>7, <1>8, <1>9, <1>10, <1>11, <1>12, <1>13, <1>14 DEF WatchNext

\* What the scripts were told stays covered.
LEMMA LimitsStay ==
    ASSUME WatchTypeOK, ReportKnown, LimitsKept, [WatchNext]_watchVars
    PROVE  LimitsKept'
<1> USE BoundsKnown
<1>1. /\ held \in Limits /\ run.own \in Limits
      /\ heard.here \subseteq Limits /\ heard.kept \subseteq Limits
      /\ DOMAIN heard = {"here", "kept"}
  BY DEF WatchTypeOK
<1>2. ASSUME UNCHANGED <<node, held, heard>>, run.pc # "idle", run'.pc # "idle",
             node = "prepare" /\ run'.pc \in Asking => run.pc \in Asking,
             \/ run'.own = run.own \/ run'.own = Merge(run.own, NoLimit)
      PROVE  LimitsKept'
  <2>1. \A l \in heard.here : Covers(run'.own, l)
    BY <1>1, <1>2, MergeCovers DEF LimitsKept
  <2>2. QED
    BY <1>2, <2>1 DEF LimitsKept, Covers
<1>3. Ends \cap ({"idle"} \cup Asking) = {} /\ Between \subseteq Asking /\ "idle" \notin Asking
      /\ "first" \in Asking
  BY DEF Ends, Between, Asking
<1>4. CASE ForgeMoves \/ Tick \/ UNCHANGED watchVars
  BY <1>4 DEF ForgeMoves, Tick, watchVars, LimitsKept, Covers
<1>5. CASE Start
  BY <1>5, StartSteps DEF LimitsKept, Covers
<1>6. CASE Refused
  BY <1>2, <1>3, <1>6, RefusedSteps
<1>7. CASE ReadFirst
  BY <1>2, <1>3, <1>7, FirstSteps
<1>8. CASE Read
  <2>1. run.pc \in Asking /\ run'.pc \in Asking
    BY <1>8, ReadSteps DEF Asking
  <2>2. QED
    BY <1>2, <1>3, <1>8, <2>1, ReadSteps
<1>9. CASE ReadLast
  BY <1>2, <1>3, <1>9, LastSteps
<1>10. CASE Fails
  <2>1. PICK told \in Limits, own \in Limits :
           /\ heard' = [heard EXCEPT !.here = @ \cup ({told} \ {NoLimit})]
           /\ Covers(own, told)
           /\ run'.own = IF node = "prepare" THEN own ELSE Merge(run.own, own)
    BY <1>10, FailSteps
  <2>2. heard'.here = heard.here \cup ({told} \ {NoLimit}) /\ heard'.kept = heard.kept
    BY <1>1, <2>1
  <2>3. node = node' /\ held' = held /\ run'.pc \in Ends /\ run.pc \in Asking
    BY <1>10, FailSteps
  <2>4. \A l \in heard'.here : Covers(run'.own, l)
    <3>1. CASE node = "prepare"
      BY <2>1, <2>2, <2>3, <3>1 DEF LimitsKept
    <3>2. CASE node # "prepare"
      BY <1>1, <2>1, <2>2, <3>2, MergeCovers DEF LimitsKept
    <3>3. QED
      BY <3>1, <3>2
  <2>5. QED
    BY <1>3, <2>2, <2>3, <2>4 DEF LimitsKept, Covers
<1>11. CASE Sleep
  <2>1. run.pc = "sleep"
    BY <1>11 DEF Sleep
  <2>2. node # "prepare"
    BY <2>1 DEF ReportKnown
  <2>3. run'.pc = "first"
    BY <1>11, <2>1, PauseSteps
  <2>4. QED
    BY <1>2, <1>11, <2>1, <2>2, <2>3, PauseSteps
<1>12. CASE Archive
  <2>1. run'.pc = "emit" /\ run.pc # "idle"
    BY <1>12 DEF Archive, WatchTypeOK, IdleRun
  <2>2. QED
    BY <1>2, <1>3, <1>12, <2>1, PauseSteps DEF Asking
<1>13. CASE Emit
  <2>1. /\ run' = IdleRun /\ held' = Inherited(Transition, run.report)
        /\ heard'.here = {} /\ heard'.kept = heard.kept \cup heard.here
    BY <1>13, EmitSteps
  <2>2. \A l \in heard'.kept : Covers(held', l)
    BY <1>1, <2>1, InheritedCovers DEF LimitsKept
  <2>3. QED
    BY <2>1, <2>2 DEF LimitsKept
<1>14. CASE Crash
  BY <1>14, CrashSteps DEF LimitsKept, Covers
<1>15. CASE Agent
  <2>1. run.pc = "idle"
    BY <1>15, AgentSteps DEF ReportKnown
  <2>2. QED
    BY <1>15, <2>1, AgentSteps DEF LimitsKept, Covers
<1>16. QED
  BY <1>4, <1>5, <1>6, <1>7, <1>8, <1>9, <1>10, <1>11, <1>12, <1>13, <1>14, <1>15 DEF WatchNext

\* The watchers begin with nothing observed, reported or restricted.
LEMMA WatchInvInit == WatchInit => WatchInv
<1> SUFFICES ASSUME WatchInit PROVE WatchInv
  OBVIOUS
<1> USE BoundsKnown
<1>1. IsPull(pr)
  <2>1. PICK checks \in {"none", "green"}, items \in SUBSET (Comments \cup Threads) :
          pr = [NoPull EXCEPT !.head = 0, !.base = 0, !.checks = checks, !.items = items]
    BY DEF WatchInit
  <2>2. QED
    BY <2>1 DEF IsPull, NoPull, Rollups
<1>2. /\ now = 0 /\ node = "prepare" /\ held = NoLimit /\ run = IdleRun /\ stood = Still
      /\ heard = [here |-> {}, kept |-> {}] /\ taken = <<>>
      /\ packet = [contract |-> NoTip, report |-> NoReport, cursor |-> Uninitialized,
                   offer |-> Uninitialized, tip |-> NoTip]
  BY DEF WatchInit
<1>3. WatchTypeOK
  <2>1. taken \in Seq(Reasons)
    BY <1>2
  <2>2. DOMAIN stood = {"undisturbed", "items"}
    BY <1>2 DEF Still
  <2>3. DOMAIN packet = {"contract", "report", "cursor", "offer", "tip"} /\ packet.report = NoReport
    BY <1>2
  <2>4. QED
    BY <1>1, <1>2, <2>1, <2>2, <2>3 DEF WatchTypeOK
<1>4. Observed
  BY <1>2 DEF Observed, Between, Asking
<1>5. ReportKnown
  BY <1>2 DEF ReportKnown
<1>6. LimitsKept
  BY <1>2 DEF LimitsKept
<1>7. HistoryWhole
  BY <1>2 DEF HistoryWhole
<1>8. QED
  BY <1>3, <1>4, <1>5, <1>6, <1>7 DEF WatchInv

\* The watchers keep the whole invariant.
THEOREM WatchInvCorrect == WatchSpec => []WatchInv
<1>1. WatchInv /\ [WatchNext]_watchVars => WatchInv'
  BY WatchTypeKept, ObservedKept, ReportsKept, LimitsStay DEF WatchInv
<1>2. QED
  BY WatchInvInit, <1>1, PTL DEF WatchSpec

\* The report in force is the whole history of its contract, however much of it
\* the bound has folded into the digest.
THEOREM HistoryWholeCorrect == WatchSpec => []HistoryWhole
<1>1. WatchInv => HistoryWhole
  BY DEF WatchInv
<1>2. QED
  BY WatchInvCorrect, <1>1, PTL

\* CI passes in one place: at the last query, on what was seen at the first.
LEMMA PassedAtLast ==
    ASSUME WatchInv, [WatchNext]_watchVars, PassesCi
    PROVE  /\ run.pc = "last" /\ node = "ci" /\ UNCHANGED <<pr, packet>>
           /\ Sources(run.view.first) = Sources(pr)
           /\ Tip(pr) = packet.contract /\ run.view.checks = "green" /\ ~pr.conflict
           /\ ~Changed(packet.cursor, Candidate(pr, run.view))
<1>1. /\ WatchTypeOK /\ ReportKnown /\ run.then # "passed" /\ run'.then = "passed"
  BY DEF WatchInv, PassesCi
<1>2. CASE ReadLast
  BY <1>1, <1>2, LastSteps
<1>3. CASE UNCHANGED run
  BY <1>1, <1>3
<1>4. CASE ForgeMoves \/ Tick \/ Agent \/ UNCHANGED watchVars
  BY <1>3, <1>4 DEF ForgeMoves, Tick, Agent, watchVars
<1>5. CASE Start \/ Refused
  BY <1>1, <1>5, StartSteps, RefusedSteps
<1>6. CASE ReadFirst
  BY <1>1, <1>6, FirstSteps
<1>7. CASE Read
  BY <1>1, <1>7, ReadSteps
<1>8. CASE Fails
  BY <1>1, <1>8, FailSteps
<1>9. CASE Sleep \/ Archive
  BY <1>1, <1>9, PauseSteps
<1>10. CASE Emit \/ Crash
  BY <1>1, <1>10, EmitSteps, CrashSteps, BoundsKnown
<1>11. QED
  BY <1>2, <1>4, <1>5, <1>6, <1>7, <1>8, <1>9, <1>10 DEF WatchNext

\* CI passes on one state of the pull request.
THEOREM PassedOnOneStateCorrect == WatchSpec => PassedOnOneState
<1>1. ASSUME WatchInv, [WatchNext]_watchVars, PassesCi
      PROVE  /\ stood.undisturbed
             /\ Tip(pr) = packet.contract /\ pr.checks = "green" /\ ~pr.conflict
  BY <1>1, PassedAtLast DEF WatchInv, Observed, Between, Asking
<1>2. QED
  BY WatchInvCorrect, <1>1, PTL DEF WatchSpec, PassedOnOneState

\* CI never passes over feedback that nobody has acknowledged.
THEOREM FeedbackHeardCorrect == WatchSpec => FeedbackHeard
<1>1. ASSUME WatchInv, [WatchNext]_watchVars, PassesCi
      PROVE  /\ stood.items \subseteq packet.cursor.items
             /\ pr.decision = "CHANGES_REQUESTED" => packet.cursor.decision = pr.decision
  <2>1. stood.items \subseteq run.view.items
    BY <1>1, PassedAtLast DEF WatchInv, Observed, Between, Asking
  <2>2. ~Changed(packet.cursor, Candidate(pr, run.view))
    BY <1>1, PassedAtLast
  <2>3. CASE packet.cursor = Uninitialized
    <3>1. run.view.items = {} /\ pr.decision \in {"", "APPROVED"}
      BY <2>2, <2>3 DEF Changed, Candidate, Cursor
    <3>2. QED
      BY <2>1, <3>1
  <2>4. CASE packet.cursor # Uninitialized
    <3>1. packet.cursor.items = run.view.items /\ packet.cursor.decision = pr.decision
      BY <2>2, <2>4 DEF Changed, Candidate, Cursor
    <3>2. QED
      BY <2>1, <3>1
  <2>5. QED
    BY <2>3, <2>4
<1>2. QED
  BY WatchInvCorrect, <1>1, PTL DEF WatchSpec, FeedbackHeard

\* A report leaves the packets only when it is in the evidence area.
THEOREM ReportsArchivedCorrect == WatchSpec => ReportsArchived
<1>1. ASSUME WatchInv, [WatchNext]_watchVars, packet.report # packet'.report,
             packet'.report = NoReport, outcome' # "pr_merged"
      PROVE  packet.report \in archived
  <2>1. WatchTypeOK /\ ReportKnown
    BY <1>1 DEF WatchInv
  <2>2. CASE Emit
    <3>1. /\ run.pc = "emit" /\ (NeedsArchive => run.report \in archived)
          /\ outcome' = Transition
      BY <2>1, <2>2, EmitSteps
    <3>2. run.then # "pr_merged"
      BY <1>1, <3>1 DEF Transition
    <3>3. CASE node = "prepare" /\ run.then = "ready"
      <4>1. NeedsArchive /\ run.report = packet.report
        BY <1>1, <2>1, <3>1, <3>3 DEF NeedsArchive, ReportKnown
      <4>2. QED
        BY <3>1, <4>1
    <3>4. CASE ~(node = "prepare" /\ run.then = "ready")
      <4>1. packet'.report = IF node = "ci" THEN run.report ELSE packet.report
        BY <2>1, <2>2, <3>2, <3>4, EmitSteps
      <4>2. QED
        BY <1>1, <2>1, <3>1, <4>1 DEF ReportKnown
    <3>5. QED
      BY <3>3, <3>4
  <2>3. CASE Agent
    BY <1>1, <2>1, <2>3, AgentSteps
  <2>4. CASE UNCHANGED packet
    BY <1>1, <2>4
  <2>5. QED
    BY <1>1, <2>2, <2>3, <2>4
    DEF WatchNext, watchVars, ForgeMoves, Tick, Start, Refused, ReadFirst, Read, ReadLast, Fails,
        Sleep, Archive, Crash
<1>2. QED
  BY WatchInvCorrect, <1>1, PTL DEF WatchSpec, ReportsArchived

\* Nothing that people or checks said is lost on the way.
THEOREM NothingUnheardCorrect == WatchSpec => NothingUnheard
  BY FeedbackHeardCorrect, ReportsArchivedCorrect DEF NothingUnheard

\* No query is sent while a restriction stands that the forge told anybody.
THEOREM RestrainedCorrect == WatchSpec => Restrained
<1>1. ASSUME WatchInv, [WatchNext]_watchVars, Queries, run' # IdleRun,
             NEW limit \in heard.here \cup heard.kept
      PROVE  Clear(limit)
  <2>1. WatchTypeOK /\ ReportKnown /\ LimitsKept
    BY <1>1 DEF WatchInv
  <2>2. run.pc \in Asking /\ run' # run /\ run'.then # "blocked"
    BY <1>1 DEF Queries
  <2>3. run.pc \notin {"idle", "sleep", "archive", "emit"}
    BY <2>2 DEF Asking
  <2>4. Allowed
    <3>1. CASE ReadFirst \/ ReadLast \/ Read \/ Fails
      BY <3>1 DEF ReadFirst, ReadLast, Read, Fails
    <3>2. CASE ForgeMoves \/ Tick \/ Agent \/ UNCHANGED watchVars
      BY <2>2, <3>2 DEF ForgeMoves, Tick, Agent, watchVars
    <3>3. CASE Start \/ Sleep \/ Archive \/ Emit
      BY <2>3, <3>3 DEF Start, Sleep, Archive, Emit
    <3>4. CASE Refused
      BY <2>1, <2>2, <3>4, RefusedSteps
    <3>5. CASE Crash
      BY <1>1, <3>5 DEF Crash
    <3>6. QED
      BY <1>1, <3>1, <3>2, <3>3, <3>4, <3>5 DEF WatchNext
  <2>5. /\ now \in Nat /\ held \in Limits /\ run.own \in Limits /\ limit \in Limits
        /\ Clear(held) /\ Clear(run.own)
    BY <2>1, <2>4 DEF WatchTypeOK, Allowed
  <2>6. Covers(held, limit) \/ Covers(run.own, limit)
    BY <2>1 DEF LimitsKept
  <2>7. QED
    BY <2>5, <2>6, CoveredClear
<1>2. ASSUME WatchInv, [WatchNext]_watchVars
      PROVE  Queries /\ run' # IdleRun => \A limit \in heard.here \cup heard.kept : Clear(limit)
  BY <1>1, <1>2
<1>3. QED
  BY WatchInvCorrect, <1>2, PTL DEF WatchSpec, Restrained
=============================================================================
