----------------------------- MODULE LiveReview -----------------------------
(***************************************************************************)
(* How a reviewed graph change meets a Workflow that is in use              *)
(* (_canonical_v2_read, _native_observe, the gate and the plan check of      *)
(* workflowkit/operations.py).  Nothing stops the Tasks while the kit looks: *)
(* a look is a dozen calls of the kent command, one read-only SQLite         *)
(* transaction and a scan of every Session's event file, and Tasks advance,  *)
(* decisions are raised and answered, events are appended and the server     *)
(* restarts between any two of them.  The module asks what such a look is    *)
(* worth, and what a change that passed its looks does to Tasks that move    *)
(* afterwards.                                                              *)
(*                                                                         *)
(* The journal, crashes and resumed stages are WorkflowReconcile's; here a  *)
(* plan has the graph stage alone.  A Task has one current node.  A row of   *)
(* an edge keeps four fields: its ends, its approval flag, and the           *)
(* description of its parameters; the ends stand for every other field.     *)
(***************************************************************************)
EXTENDS Naturals, FiniteSets

CONSTANTS None,
          Tasks,
          Source,    \* the graph the plan was written against
          Targets,   \* the target graphs a plan may carry
          Reviews,   \* the pending decisions a review may name
          MaxMoves   \* bound: what Kent and its users do meanwhile

\* A graph document; the ends of its edges are nodes.
WellFormed(g) ==
  /\ DOMAIN g = {"version", "kind", "edge"}
  /\ \A e \in DOMAIN g.edge : DOMAIN g.edge[e] = {"from", "to", "gate", "text"}

Closed(g) == \A e \in DOMAIN g.edge : {g.edge[e].from, g.edge[e].to} \subseteq DOMAIN g.kind

ASSUME ReviewAssumption ==
  /\ Source.version \in Nat
  /\ \A g \in Targets \cup {Source} : WellFormed(g)
  /\ Closed(Source)

VARIABLES
  graph,   \* the Workflow: version, kind of each node, row of each edge
  task,    \* task -> its node, Sessions, running Script, question, decision
  log,     \* task -> events in its Session's file, whether the last of them
           \* asks a question, and last_sequence
  server,  \* the identity of the Kent process and of its database file
  moves,   \* moves made, and the identity of the next decision
  plan,    \* target graph, decisions the review disposes of, native mode
  snap,    \* the plan's compatibility snapshot
  phase,   \* none, prepared, attempted, verified, complete
  goal,    \* what the look in progress is for
  pc,      \* where it is
  obs,     \* what it has read
  then,    \* what was the case at the moment of the SQLite snapshot
  report   \* how the last invocation ended

kent == <<graph, task, log, server>>
reviewVars == <<kent, moves, plan, snap, phase, goal, pc, obs, then, report>>

-----------------------------------------------------------------------------
(* The plan *)

\* Nothing of the old graph is removed and no node changes its kind.
Kept(old, new) ==
  /\ DOMAIN old.kind \subseteq DOMAIN new.kind
  /\ DOMAIN old.edge \subseteq DOMAIN new.edge
  /\ \A n \in DOMAIN old.kind : new.kind[n] = old.kind[n]

\* What is added is a Script node with a way in and a way out, and every edge
\* joins nodes of the graph.
Connected(old, new) ==
  /\ \A n \in DOMAIN new.kind \ DOMAIN old.kind :
       /\ new.kind[n] = "script"
       /\ \E e \in DOMAIN new.edge : new.edge[e].to = n
       /\ \E e \in DOMAIN new.edge : new.edge[e].from = n
  /\ Closed(new)

\* Mutant: a target may leave nodes and edges of the live graph out.
CompatibleSubset(old, new) == new.version = old.version + 1 /\ Connected(old, new)

\* _v2_graph_compatibility.
Compatible(old, new) == new.version = old.version + 1 /\ Kept(old, new) /\ Connected(old, new)

\* _v2_required_review_paths: an edge that loses its approval concerns every
\* decision the plan knows to be pending.
Loosened == \E e \in DOMAIN Source.edge :
              Source.edge[e].gate /\ e \in DOMAIN plan.target.edge /\ ~plan.target.edge[e].gate

\* affected_decisions: the parameters a decision was frozen with are described
\* otherwise in the graph or in the target.
Affected(d, g) == \/ d.row.text # g.edge[d.edge].text
                  \/ /\ d.edge \in DOMAIN plan.target.edge
                     /\ d.row.text # plan.target.edge[d.edge].text

Decisions(view) == {view[t].decision : t \in Tasks} \ {None}

\* _v2_review: what it has to dispose of, given the plan's snapshot and what
\* a look found.  Only a native look knows what decisions were frozen with.
Required(known, found, g) ==
  {d.id : d \in {d \in Decisions(known) : Loosened}
             \cup {d \in Decisions(found) : plan.native /\ Affected(d, g)}}

-----------------------------------------------------------------------------
(* Tasks as they are shown *)

KindOf(t) == graph.kind[task[t].node]
Status(t) == IF KindOf(t) = "terminal" THEN "done"
             ELSE IF task[t].decision # None THEN "waiting_approval"
             ELSE IF task[t].ask THEN "waiting_ask" ELSE "active"

\* The facts of a Task that the plan's snapshot binds.
View(t) == [node |-> task[t].node, session |-> task[t].sessions,
            status |-> Status(t), decision |-> task[t].decision]

NoObs == [version |-> None, graph |-> None, list |-> <<>>, show |-> <<>>,
          sessions |-> <<>>, server |-> None, log |-> <<>>]

End(r) == /\ pc' = "idle" /\ report' = r
          /\ obs' = NoObs /\ then' = None

Blocked == End("blocked")

Goto(p) == pc' = p /\ UNCHANGED report

Reading(p) == pc = p /\ UNCHANGED <<kent, moves, plan, phase>>

\* A look begins with nothing in hand.
Look(for) == goal' = for /\ obs' = NoObs /\ then' = None /\ Goto("list")

-----------------------------------------------------------------------------
(* The look: _canonical_read, the rest of _canonical_v2_read *)

\* workflow list and inspect: their revisions must agree.
List == /\ Reading("list")
        /\ obs' = [obs EXCEPT !.version = graph.version]
        /\ Goto("inspect")
        /\ UNCHANGED <<snap, goal, then>>

\* The graph read back must be the revision listed.
Inspect == /\ Reading("inspect")
           /\ IF graph.version = obs.version
              THEN obs' = [obs EXCEPT !.graph = graph] /\ Goto("tasks") /\ UNCHANGED then
              ELSE Blocked
           /\ UNCHANGED <<snap, goal>>

TaskList == /\ Reading("tasks")
            /\ obs' = [obs EXCEPT !.list = [t \in Tasks |-> Status(t)]]
            /\ Goto("show")
            /\ UNCHANGED <<snap, goal, then>>

\* task show, one Task after the other: list and detail must agree and no
\* Script may run.
Show == /\ Reading("show")
        /\ \E t \in Tasks \ DOMAIN obs.show :
             /\ \A u \in Tasks \ DOMAIN obs.show : t <= u
             /\ IF Status(t) = obs.list[t] /\ ~task[t].script /\ task[t].node \in DOMAIN obs.graph.kind
                THEN /\ obs' = [obs EXCEPT !.show = [u \in DOMAIN @ \cup {t} |->
                                   IF u = t THEN View(t) ELSE obs.show[u]]]
                     /\ Goto(IF Tasks = DOMAIN obs.show \cup {t} THEN "sessions" ELSE "show")
                     /\ UNCHANGED then
                ELSE Blocked
        /\ UNCHANGED <<snap, goal>>

\* task sessions of all Tasks; a native look leaves out the finished ones.
Detailed == {t \in Tasks : ~(plan.native /\ obs.show[t].status = "done")}
Sessions == /\ Reading("sessions")
            /\ obs' = [obs EXCEPT !.sessions = [t \in Detailed |-> task[t].sessions]]
            /\ Goto(IF plan.native THEN "bind" ELSE "have")
            /\ UNCHANGED <<snap, goal, then>>

\* _native_process_evidence: the process that has this database file open and
\* listens for this project.
Served == server

\* _native_process_binding and the stat of the database: who serves it now.
Bind == /\ Reading("bind")
        /\ obs' = [obs EXCEPT !.server = Served]
        /\ Goto("snapshot")
        /\ UNCHANGED <<snap, goal, then>>

\* _native_approval_payload: a frozen decision is still one the graph can
\* carry out, up to the description of its parameters.
Described(row) == [from |-> row.from, to |-> row.to, gate |-> row.gate]
Representable(d, t) ==
  /\ d.row.from = task[t].node
  /\ d.session = task[t].sessions
  /\ d.edge \in DOMAIN obs.graph.edge
  /\ Described(d.row) = Described(obs.graph.edge[d.edge])

\* What the transaction compares with the answers the CLI gave before: the
\* Workflow, the current nodes, the pending decisions, the Sessions.
AgreesWorkflow == graph.version = obs.version
AgreesNodes == \A t \in Tasks : /\ task[t].node = obs.show[t].node
                               /\ task[t].sessions = obs.show[t].session
AgreesDecisions ==
  \A t \in Tasks :
    /\ (task[t].decision # None) <=> (obs.show[t].status = "waiting_approval")
    /\ task[t].decision # None => Representable(task[t].decision, t)
AgreesSessions == \A t \in Detailed : task[t].sessions = obs.sessions[t]

\* Mutant: the rows of task_current_nodes are not held against the CLI.
AgreesLoosely == AgreesWorkflow /\ AgreesDecisions /\ AgreesSessions

Agrees == AgreesWorkflow /\ AgreesNodes /\ AgreesDecisions /\ AgreesSessions

\* One SQLite transaction; the decisions returned are its rows.
Snapshot ==
  /\ Reading("snapshot")
  /\ IF Agrees
     THEN /\ obs' = [obs EXCEPT !.show = [t \in Tasks |->
                        [obs.show[t] EXCEPT !.decision = task[t].decision]],
                     !.log = [t \in Detailed |-> log[t].db]]
          /\ then' = [version |-> graph.version, view |-> [t \in Tasks |-> View(t)],
                      log |-> [t \in Detailed |-> log[t].db],
                      attempted |-> phase = "attempted"]
          /\ Goto("scan")
     ELSE Blocked
  /\ UNCHANGED <<snap, goal>>

\* The final event of the current Session asks what the CLI says is asked.
Asks(t) == log[t].ask /\ task[t].ask

\* _native_scan_events of the Sessions: each file ends at last_sequence, and
\* where a question is awaited it is the last event and the CLI's question.
Scan == /\ Reading("scan")
        /\ IF \A t \in Detailed :
                /\ log[t].file = obs.log[t]
                /\ obs.show[t].status = "waiting_ask" => Asks(t)
           THEN Goto("identity") /\ UNCHANGED <<obs, then>>
           ELSE Blocked
        /\ UNCHANGED <<snap, goal>>

\* The database and the process are the ones the look began with.
Identity == /\ Reading("identity")
            /\ IF Served = obs.server THEN Goto("have") /\ UNCHANGED <<obs, then>> ELSE Blocked
            /\ UNCHANGED <<snap, goal>>

-----------------------------------------------------------------------------
(* What a look is held against *)

\* _canonical_v2_inventory_matches: a native look names each awaited question by its
\* event; how far the other Sessions have got is not compared.
Inventory == [show |-> obs.show, sessions |-> obs.sessions,
              questions |-> [t \in {u \in DOMAIN obs.log : obs.show[u].status = "waiting_ask"} |->
                               obs.log[t]]]

\* _canonical_v2_plan_check; a later check reads the journaled preimage.
Checked(snapshot) ==
  /\ Compatible(Source, plan.target)
  /\ Required(snapshot.show, obs.show, obs.graph) \subseteq plan.review

\* mode 'prepare': the plan's snapshot is the inventory that was found (any
\* other is refused), and the review covers the change.
Prepare == /\ Reading("have") /\ goal = "prepare"
           /\ IF obs.graph = Source /\ Checked(Inventory)
              THEN snap' = Inventory /\ End("prepared")
              ELSE UNCHANGED snap /\ Blocked
           /\ UNCHANGED goal

Prepared == pc = "idle" /\ report = "prepared" /\ phase = "none"

\* The gate and the check of every look before the effect.
Passes == obs.graph = Source /\ Inventory = snap /\ Checked(snap)

\* A look at the live Workflow, then source admission; in native mode a fresh
\* look before the attempt is journaled.
Stage == /\ pc = "have" /\ goal = "stage"
         /\ IF Passes
            THEN IF plan.native THEN Look("fresh") /\ UNCHANGED phase
                                ELSE /\ phase' = "attempted" /\ Goto("release")
                                     /\ UNCHANGED <<goal, obs, then>>
            ELSE Blocked /\ UNCHANGED <<goal, phase>>
         /\ UNCHANGED <<kent, moves, plan, snap>>

\* The attempt is journaled; process_pre_release looks once more.
Fresh == /\ pc = "have" /\ goal = "fresh"
         /\ IF Passes THEN phase' = "attempted" /\ Look("release")
                      ELSE Blocked /\ UNCHANGED <<goal, phase>>
         /\ UNCHANGED <<kent, moves, plan, snap>>

\* Mutant: the last look before the release only asks whether it is the same
\* Workflow and the same process.
PreReleaseIdentity ==
  /\ Reading("have") /\ goal = "release"
  /\ IF obs.graph = Source THEN Goto("release") /\ UNCHANGED <<obs, then>> ELSE Blocked
  /\ UNCHANGED <<snap, goal>>

\* A refusal here leaves the attempt open; WorkflowReconcile settles it.
PreRelease == /\ Reading("have") /\ goal = "release"
              /\ IF Passes THEN Goto("release") /\ UNCHANGED <<obs, then>> ELSE Blocked
              /\ UNCHANGED <<snap, goal>>

\* The child is released to run `kent workflow graph apply`.
Release == /\ pc = "release"
           /\ Goto("apply")
           /\ UNCHANGED <<kent, moves, plan, snap, phase, goal, obs, then>>

\* Kent applies the document at its expected_version, or not at all.
Apply == /\ pc = "apply"
         /\ graph' = IF graph.version = Source.version THEN plan.target ELSE graph
         /\ Goto("verify")
         /\ UNCHANGED <<task, log, server, moves, plan, snap, phase, goal, obs, then>>

\* _canonical_v2_owned_read and the settlement: the Workflow is the target.
Verify == /\ pc = "verify"
          /\ IF graph = plan.target THEN phase' = "verified" /\ Look("final")
                                    ELSE Blocked /\ UNCHANGED <<phase, goal>>
          /\ UNCHANGED <<kent, moves, plan, snap>>

\* The last look: the target, and the inventory the plan was made for.
Final == /\ pc = "have" /\ goal = "final"
         /\ IF obs.graph = plan.target /\ Inventory = snap
            THEN phase' = "complete" /\ End("complete")
            ELSE Blocked /\ UNCHANGED phase
         /\ UNCHANGED <<kent, moves, plan, snap, goal>>

\* An invocation: prepare once, apply until the journal is complete.
Invoke == /\ pc = "idle"
          /\ \/ phase = "none" /\ snap = None /\ report = "none" /\ Look("prepare") /\ UNCHANGED phase
             \/ Prepared /\ phase' = "prepared" /\ Look("stage")
             \/ phase = "prepared" /\ Look("stage") /\ UNCHANGED phase
             \/ phase = "verified" /\ Look("final") /\ UNCHANGED phase
          /\ UNCHANGED <<kent, moves, plan, snap>>

Kit == \/ Invoke \/ List \/ Inspect \/ TaskList \/ Show \/ Sessions
       \/ Bind \/ Snapshot \/ Scan \/ Identity
       \/ Prepare \/ Stage \/ Fresh \/ PreRelease \/ Release \/ Apply
       \/ Verify \/ Final

-----------------------------------------------------------------------------
(* Kent and the people and agents that use it *)

\* Bound: before the first look and after a preparation that was refused
\* nothing moves; the initial states stand for what may have.
Watched == pc # "idle" \/ snap # None

Move == /\ Watched
        /\ moves < MaxMoves
        /\ moves' = moves + 1
        /\ UNCHANGED <<plan, snap, phase, goal, pc, obs, then, report>>

\* A Task arrives at a node: a Script runs there, an Agent gets a Session.
Arrive(t, n) ==
  task' = [task EXCEPT ![t] = [node |-> n, decision |-> None, ask |-> FALSE,
             script |-> graph.kind[n] = "script",
             sessions |-> task[t].sessions + (IF graph.kind[n] = "agent" THEN 1 ELSE 0)]]

Out(t) == {e \in DOMAIN graph.edge : graph.edge[e].from = task[t].node}

Unoccupied(t) == task[t].decision = None /\ ~task[t].script /\ ~task[t].ask

Advance(t) == /\ Move
              /\ Unoccupied(t)
              /\ \E e \in Out(t) : ~graph.edge[e].gate /\ Arrive(t, graph.edge[e].to)
              /\ UNCHANGED <<graph, log, server>>

\* A gated transition freezes the edge as it is now.
Raise(t) == /\ Move
            /\ Unoccupied(t)
            /\ \E e \in Out(t) :
                 /\ graph.edge[e].gate
                 /\ task' = [task EXCEPT ![t].decision =
                       [id |-> moves + 10, edge |-> e, row |-> graph.edge[e],
                        session |-> task[t].sessions]]
            /\ UNCHANGED <<graph, log, server>>

\* Approved: the Task goes where the decision was frozen to go.
Answer(t) == /\ Move
             /\ task[t].decision # None
             /\ Arrive(t, task[t].decision.row.to)
             /\ UNCHANGED <<graph, log, server>>

ScriptEnds(t) == /\ Move
                 /\ task[t].script
                 /\ task' = [task EXCEPT ![t].script = FALSE]
                 /\ UNCHANGED <<graph, log, server>>

\* An event is appended to the file, perhaps a question or the answer to
\* one; last_sequence follows.
AppendEvent(t) == /\ Move
             /\ log[t].file = log[t].db
             /\ KindOf(t) = "agent" /\ task[t].decision = None
             /\ \E ask \in BOOLEAN :
                  /\ log' = [log EXCEPT ![t].file = @ + 1, ![t].ask = ask]
                  /\ task' = [task EXCEPT ![t].ask = ask]
             /\ UNCHANGED <<graph, server>>
Persist(t) == /\ log[t].file # log[t].db
              /\ log' = [log EXCEPT ![t].db = log[t].file]
                    /\ UNCHANGED <<graph, task, server, moves, plan, snap, phase, goal, pc, obs, then, report>>

Restart == Move /\ server' = server + 1 /\ UNCHANGED <<graph, task, log>>

\* Somebody else describes an edge anew.
Edit == /\ Move
        /\ \E e \in DOMAIN graph.edge :
             graph' = [graph EXCEPT !.version = @ + 1, !.edge[e].text = 1 - @]
        /\ UNCHANGED <<task, log, server>>

Meanwhile == \/ \E t \in Tasks : Advance(t) \/ Raise(t) \/ Answer(t) \/ ScriptEnds(t)
                                 \/ AppendEvent(t) \/ Persist(t)
             \/ Restart \/ Edit

-----------------------------------------------------------------------------
\* Tasks at any node of the graph, a gated one perhaps with a decision pending
\* that was frozen under either description; a plan for any target with a
\* review that names any of those decisions.
Pending(t, n) == {[id |-> t, edge |-> e, row |-> [Source.edge[e] EXCEPT !.text = x], session |-> 1] :
                    e \in {e \in DOMAIN Source.edge : Source.edge[e].from = n /\ Source.edge[e].gate},
                    x \in {0, 1}}
Open == {n \in DOMAIN Source.kind : Source.kind[n] # "terminal"}
AllPending == {None} \cup UNION {Pending(t, n) : t \in Tasks, n \in Open}

\* Each Task stands at a node with work and waits for an approval there or not.
Placed(at, d) ==
  /\ \A t \in Tasks : d[t] \in Pending(t, at[t]) \cup {None}
  /\ task = [t \in Tasks |-> [node |-> at[t], sessions |-> 1, script |-> FALSE, ask |-> FALSE,
                              decision |-> d[t]]]

ReviewInit ==
        /\ graph = Source
        /\ \E at \in [Tasks -> Open] : \E d \in [Tasks -> AllPending] : Placed(at, d)
        /\ log = [t \in Tasks |-> [file |-> 1, db |-> 1, ask |-> FALSE]]
        /\ server = 0 /\ moves = 0
        /\ plan \in [target : Targets, review : Reviews, native : BOOLEAN]
        /\ snap = None /\ phase = "none" /\ goal = "none" /\ pc = "idle"
        /\ obs = NoObs /\ then = None /\ report = "none"

ReviewNext == Kit \/ Meanwhile

ReviewSpec == ReviewInit /\ [][ReviewNext]_reviewVars

-----------------------------------------------------------------------------
\* A native look that is returned shows one moment.  Its version, nodes,
\* Sessions and pending decisions come from calls made before the SQLite
\* transaction and its events from files read after it, and all of them were
\* the case together when the transaction began; so was a question a Task was
\* found waiting on.  A Task shown as merely active may have asked one since
\* (_native_observe, 4857-5371).
OneMoment ==
  pc = "have" /\ plan.native =>
    /\ then.version = obs.version
    /\ then.log = obs.log
    /\ \A t \in Tasks :
         /\ then.view[t].node = obs.show[t].node
         /\ then.view[t].decision = obs.show[t].decision
         /\ then.view[t].session = obs.show[t].session
         /\ t \in Detailed => then.view[t].session = obs.sessions[t]
         /\ obs.show[t].status # "active" => then.view[t].status = obs.show[t].status

\* There was a moment, after the attempt was journaled, at which the Tasks were
\* those the plan was reviewed for and the review disposed of every pending
\* decision whose approval the change drops or whose parameters it describes
\* otherwise.
DisposedOf ==
  /\ then.attempted
  /\ then.version = Source.version
  /\ \A t \in Tasks : /\ then.view[t].node = snap.show[t].node
                      /\ then.view[t].session = snap.show[t].session
                      /\ then.view[t].decision = snap.show[t].decision
  /\ \A d \in Decisions(then.view) :
       LET row == plan.target.edge[d.edge]
       IN (d.row.gate /\ ~row.gate) \/ d.row.text # row.text => d.id \in plan.review

\* A native change is released only when there was such a moment
\* (process_pre_release).
Disposed == [][Release /\ plan.native => DisposedOf]_reviewVars

\* The change strands nobody, whatever has moved since the last look: every
\* Task stands on a node of the Workflow of the kind it was, and every
\* pending decision leads from an edge that exists to a node that exists
\* (_v2_graph_compatibility; only the version is compared when it is applied).
NobodyStranded ==
  \A t \in Tasks :
    /\ task[t].node \in DOMAIN graph.kind
    /\ task[t].node \in DOMAIN Source.kind => graph.kind[task[t].node] = Source.kind[task[t].node]
    /\ task[t].decision # None =>
         /\ task[t].decision.edge \in DOMAIN graph.edge
         /\ task[t].decision.row.to \in DOMAIN graph.kind

\* What contracts/workflow-update-compatibility.md promises of a reviewed
\* change: a review may drop an approval while decisions are pending, and the
\* final readback compares the same frozen decisions.  So a change that was
\* applied while nothing moved is read back.
ReadBack == phase = "verified" /\ moves = 0 => report # "blocked"

-----------------------------------------------------------------------------
(* What these properties need to be inductive.                              *)

\* Two graphs that differ in their version and in descriptions only.
Alike(g, h) ==
  /\ g.kind = h.kind
  /\ DOMAIN g.edge = DOMAIN h.edge
  /\ \A e \in DOMAIN g.edge :
       /\ g.edge[e].from = h.edge[e].from /\ g.edge[e].to = h.edge[e].to
       /\ g.edge[e].gate = h.edge[e].gate

\* The Workflow is the one the plan was written for, or what an admitted plan
\* has made of it, described anew perhaps.
GraphKnown ==
  /\ plan \in [target : Targets, review : Reviews, native : BOOLEAN]
  /\ WellFormed(graph) /\ graph.version \in Nat
  /\ \/ Alike(graph, Source)
     \/ /\ Alike(graph, plan.target) /\ Compatible(Source, plan.target)
        /\ graph.version > Source.version
  /\ pc \in {"release", "apply"} => Compatible(Source, plan.target)

\* A Task stands somewhere, its decision leads somewhere, and it asks only at
\* work.
TasksKnown ==
  /\ DOMAIN task = Tasks
  /\ \A t \in Tasks :
       /\ DOMAIN task[t] = {"node", "sessions", "script", "ask", "decision"}
       /\ task[t].node \in DOMAIN graph.kind
       /\ task[t].decision # None =>
            /\ task[t].decision.edge \in DOMAIN graph.edge
            /\ task[t].decision.row.to \in DOMAIN graph.kind
       /\ task[t].ask \in BOOLEAN
       /\ task[t].ask => task[t].decision = None /\ KindOf(t) = "agent"

\* The file of a Session is never behind what the database knows of it.
LogsKnown ==
  /\ DOMAIN log = Tasks
  /\ \A t \in Tasks : /\ DOMAIN log[t] = {"file", "db", "ask"}
                      /\ log[t].file \in Nat /\ log[t].db \in Nat /\ log[t].db <= log[t].file

Looks  == {"list", "inspect", "tasks", "show", "sessions", "bind", "snapshot", "scan",
           "identity", "have"}
Drawn  == Looks \ {"list", "inspect"}
Shown  == Drawn \ {"tasks"}
Listed == Shown \ {"show"}
Held   == {"scan", "identity"}

\* What a look has read so far fits together: the Workflow does not change its
\* shape under a look, and a Task shown as done stands at its end.
LookKnown ==
  /\ DOMAIN obs = {"version", "graph", "list", "show", "sessions", "server", "log"}
  /\ pc \in Looks /\ goal = "release" => phase = "attempted"
  /\ pc \in Drawn => obs.graph.version = obs.version /\ obs.graph.kind = graph.kind
  /\ pc \in {"list", "inspect", "tasks"} => DOMAIN obs.show = {}
  /\ pc \in Shown =>
       /\ DOMAIN obs.show \subseteq Tasks
       /\ \A t \in DOMAIN obs.show :
            /\ DOMAIN obs.show[t] = {"node", "session", "status", "decision"}
            /\ obs.show[t].status \in {"done", "waiting_approval", "waiting_ask", "active"}
            /\ obs.show[t].status = "done" <=> obs.graph.kind[obs.show[t].node] = "terminal"
  /\ pc \in Listed => DOMAIN obs.show = Tasks

\* Since its SQLite snapshot a native look shows what was the case then, but for
\* a question, which the scan of the files that have not grown decides.
MomentKnown ==
  pc \in Held \/ (pc = "have" /\ plan.native) =>
    /\ then.version = obs.version
    /\ then.log = obs.log
    /\ goal = "release" => then.attempted
    /\ \A t \in Tasks :
         /\ then.view[t].node = obs.show[t].node
         /\ then.view[t].decision = obs.show[t].decision
         /\ then.view[t].session = obs.show[t].session
         /\ t \in Detailed => then.view[t].session = obs.sessions[t]
         /\ obs.show[t].status \in {"done", "waiting_approval"} =>
              then.view[t].status = obs.show[t].status
         /\ pc # "scan" /\ obs.show[t].status = "waiting_ask" =>
              then.view[t].status = "waiting_ask"
         /\ obs.show[t].decision # None =>
              /\ obs.show[t].decision.edge \in DOMAIN obs.graph.edge
              /\ obs.show[t].decision.row.gate = obs.graph.edge[obs.show[t].decision.edge].gate

\* A Session asked at that moment what it asks now, if its file has not grown.
AskedThen ==
  pc = "scan" =>
    \A t \in Detailed :
      /\ obs.log[t] \in Nat /\ obs.log[t] <= log[t].file
      /\ log[t].file = obs.log[t] /\ task[t].ask => then.view[t].status = "waiting_ask"

ReleaseKnown == pc = "release" /\ plan.native => DisposedOf

ReviewInv ==
  /\ GraphKnown /\ TasksKnown /\ LogsKnown /\ LookKnown /\ MomentKnown /\ AskedThen
  /\ ReleaseKnown
=============================================================================
