------------------------------ MODULE Delivery ------------------------------
(***************************************************************************)
(* The delivery workflow that build_delivery_workflow                       *)
(* (workflowkit/delivery.py) generates from a project profile, executed by  *)
(* the Kent workflow engine.  The graph is the program: agents and scripts  *)
(* complete a node with an outcome, the engine follows every edge of that   *)
(* outcome, parks edges that need the user's approval, and lets a join      *)
(* continue when all branches have reported.  What the generated graphs     *)
(* must guarantee does not depend on any prompt: it has to hold for every   *)
(* profile and for every choice of outcomes.                                *)
(*                                                                          *)
(* Prompts, parameters and roles are left out.  Outcome names are unique    *)
(* per source here, as qualify_transition_keys makes them.                  *)
(***************************************************************************)
EXTENDS FiniteSets, Naturals

CONSTANT Profiles   \* the project profiles whose workflows are examined

VARIABLES
    profile,     \* the profile the graph was generated from
    active,      \* nodes that run (a parked node keeps its place)
    reported,    \* branches the join has heard from
    waiting,     \* the edge, if any, that waits for the user's approval
    acceptance,  \* what the plan is to its accepted snapshot
    passed,      \* judgements made since a writer last ran
    sessions,    \* nodes that have a session to continue
    pr,          \* the pull request
    ending       \* what post-merge delivery rests on

graphVars == <<profile, active, reported, waiting, acceptance, passed, sessions, pr, ending>>

-----------------------------------------------------------------------------
\* The project profiles that a graph can be generated from: the policies that
\* shape it.
Policies == [fresh : BOOLEAN, coder : BOOLEAN, identity : BOOLEAN,
             standards : BOOLEAN, spec : BOOLEAN,
             smoke : {"disabled", "conditional", "required"},
             pulls : BOOLEAN, compliance : BOOLEAN, ci : BOOLEAN,
             sourceCi : BOOLEAN, v3 : BOOLEAN, publish : BOOLEAN,
             worktrees : BOOLEAN, reliable : BOOLEAN]

\* compliance and publish only matter to a profile with pull requests
Valid(p) ==
    /\ p.coder => ~p.fresh
    /\ p.ci \/ p.compliance \/ p.publish => p.pulls
    /\ p.sourceCi => p.ci /\ ~p.publish
    /\ p.v3 => p.sourceCi

ASSUME ProfilesAssumption == Profiles \subseteq {p \in Policies : Valid(p)}

-----------------------------------------------------------------------------
(* The generated graph: nodes and edges of a profile. *)

Edge(s, o, t)        == [source |-> s, outcome |-> o, target |-> t, approval |-> FALSE, context |-> "new"]
Continue(s, o, t, c) == [Edge(s, o, t) EXCEPT !.context = c]
Approved(s, o, t)    == [Edge(s, o, t) EXCEPT !.approval = TRUE]
Only(condition, set) == IF condition THEN set ELSE {}

\* blocked work resumes in the session of the node itself, after approval
Recovery(n) == [Approved(n, "needs_user_action", n) EXCEPT !.context = "immediate"]
Cancellation(n) == Approved(n, "wont_do", "wont_do")
Stoppable(n) == {Recovery(n), Cancellation(n)}

Branches(p) == {"deterministic_verify"} \cup Only(p.standards, {"standards_review"})
                                        \cup Only(p.spec, {"spec_review"})
Joined(p) == Cardinality(Branches(p)) > 1

Scripts == {"plan_contract", "plan_contract_continue", "plan_contract_verify",
            "plan_contract_fix_continue", "branch_identity", "verification_dispatch",
            "deterministic_verify", "ci_prepare", "ci_watch", "merge_watch", "task_janitor"}
Terminals == {"wont_do", "done"}
Writers == {"implement", "fix"}

Nodes(p) ==
    {"backlog", "plan", "plan_review", "plan_contract", "plan_contract_continue",
     "plan_contract_verify", "plan_revalidation", "implement", "verification_dispatch",
     "verification_gate", "fix", "cleanup"} \cup Terminals \cup Branches(p)
    \cup Only(p.identity, {"branch_identity", "branch_identity_resolution"})
    \cup Only(p.fresh, {"plan_contract_fix_continue"})
    \cup Only(Joined(p), {"verification_join"})
    \cup Only(p.smoke # "disabled", {"smoke"})
    \cup Only(p.pulls, {"prepare_pr", "waiting_pr", "merge_watch"})
    \cup Only(p.compliance, {"compliance", "evidence_repair"})
    \cup Only(p.publish, {"publish_package"})
    \cup Only(p.ci, {"ci_watch", "ci_monitor"})
    \cup Only(p.sourceCi, {"ci_prepare"})
    \cup Only(p.worktrees, {"task_janitor"})

MergedTarget(p) == IF p.publish THEN "publish_package" ELSE "cleanup"
PostSmokeTarget(p) == IF ~p.pulls THEN "cleanup"
                      ELSE IF p.compliance THEN "compliance" ELSE "prepare_pr"
CiTarget(p) == IF p.sourceCi THEN "ci_prepare" ELSE "ci_watch"
\* merging before a package publication needs the user
Merged(p, s) == [Edge(s, "pr_merged", MergedTarget(p)) EXCEPT !.approval = p.publish]

StartEdges(p) == {Edge("backlog", "start", "plan"), Edge("plan", "review_plan", "plan_review")}

\* Mutant: a resumed Task skips the plan contract guard.
ReviewEdgesUnguarded(p) ==
    {Edge("plan_review", "accepted", "plan_contract"),
     Continue("plan_review", "needs_changes", "plan_revalidation", "plan"),
     Edge("plan_review", "resume_continue", "implement"),
     Edge("plan_review", "resume_verify", "plan_contract_verify")} \cup Stoppable("plan_review")
ReviewEdges(p) ==
    {Edge("plan_review", "accepted", "plan_contract"),
     Continue("plan_review", "needs_changes", "plan_revalidation", "plan"),
     Edge("plan_review", "resume_continue", "plan_contract_continue"),
     Edge("plan_review", "resume_verify", "plan_contract_verify")} \cup Stoppable("plan_review")

RevalidationEdges(p) ==
    {Continue("plan_revalidation", "review_plan", "plan_review", "previous"),
     Edge("plan_revalidation", "resume_continue", "plan_contract_continue"),
     Edge("plan_revalidation", "resume_verify", "plan_contract_verify"),
     Continue("plan_contract_continue", "changed", "plan_revalidation", "plan"),
     Continue("plan_contract_verify", "changed", "plan_revalidation", "plan")}
    \cup Stoppable("plan_revalidation")

FreshEdges(p) == Only(p.fresh,
    {Edge("plan_review", "resume_fix_continue", "plan_contract_fix_continue"),
     Edge("plan_revalidation", "resume_fix_continue", "plan_contract_fix_continue"),
     Continue("plan_contract_fix_continue", "changed", "plan_revalidation", "plan")})

IdentityEdges(p) ==
    LET First(s, o) == Continue(s, o, "implement", IF p.fresh \/ p.coder THEN "new" ELSE "plan")
    IN  IF p.identity
        THEN {Edge("plan_contract", "start", "branch_identity"),
              First("branch_identity", "ready"),
              Edge("branch_identity", "blocked", "branch_identity_resolution"),
              Edge("branch_identity_resolution", "retry", "branch_identity")}
             \cup Stoppable("branch_identity_resolution")
        ELSE {First("plan_contract", "start")}

GuardEdges(p) ==
    {Edge("plan_contract", "continue", "implement"),
     Edge("plan_contract", "verify", "verification_dispatch"),
     Edge("plan_contract_continue", "stable", "implement"),
     Edge("plan_contract_verify", "stable", "verification_dispatch")}
    \cup Only(p.fresh, {Edge("plan_contract", "fix_continue", "fix"),
                        Edge("plan_contract_fix_continue", "stable", "fix")})

WriterEdges(p) ==
    {Edge("implement", "continue_implementation", "plan_contract_continue"),
     Edge("implement", "verify", "plan_contract_verify"),
     Edge("fix", "verify", "plan_contract_verify")}
    \cup Only(p.fresh, {Edge("fix", "continue_fix", "plan_contract_fix_continue")})
    \cup UNION {Stoppable(n) : n \in {"plan"} \cup Writers}

DispatchEdges(p) ==
    {Edge("verification_dispatch", "fanout_verify", b) : b \in Branches(p)}
    \cup {Edge("verification_dispatch", "invalid_workspace", "fix")}

ReportEdges(p) ==
    IF Joined(p)
    THEN {Edge(b, "reported", "verification_join") : b \in Branches(p)}
         \cup {Edge("verification_join", "evaluate", "verification_gate")}
    ELSE {Edge("deterministic_verify", "reported", "verification_gate")}

\* Mutant: the gate may deliver whatever the smoke policy says.
GateEdgesLenient(p) ==
    {Edge("verification_gate", "needs_changes", "fix"),
     Edge("verification_gate", "retry_verification", "verification_dispatch"),
     Edge("verification_gate", "delivery_ready", PostSmokeTarget(p))}
    \cup Only(p.smoke # "disabled", {Edge("verification_gate", "smoke_required", "smoke")})
GateEdges(p) ==
    {Edge("verification_gate", "needs_changes", "fix"),
     Approved("verification_gate", "needs_user_action", "verification_dispatch"),
     Edge("verification_gate", "retry_verification", "verification_dispatch"),
     Cancellation("verification_gate")}
    \cup Only(p.smoke # "disabled", {Edge("verification_gate", "smoke_required", "smoke")})
    \cup Only(p.smoke # "required", {Edge("verification_gate", "delivery_ready", PostSmokeTarget(p))})

SmokeEdges(p) == Only(p.smoke # "disabled",
    {Edge("smoke", "passed", PostSmokeTarget(p)), Edge("smoke", "needs_changes", "fix")}
    \cup Stoppable("smoke"))

ComplianceEdges(p) == Only(p.compliance,
    {Edge("compliance", "ship_pr", "prepare_pr"),
     Edge("compliance", "needs_changes", "fix"),
     Edge("compliance", "repair_evidence", "evidence_repair"),
     Continue("evidence_repair", "recheck_compliance", "compliance", "previous"),
     Edge("evidence_repair", "needs_source_fix", "fix")}
    \cup Stoppable("compliance") \cup Stoppable("evidence_repair"))

PreparePrEdges(p) == Only(p.pulls,
    {Edge("prepare_pr", "monitor_ci", IF p.ci THEN CiTarget(p) ELSE "waiting_pr"),
     Approved("prepare_pr", "no_pr", "cleanup"),
     Edge("prepare_pr", "needs_changes", "fix"),
     Recovery("prepare_pr")})

PrepareCiEdges(p) == Only(p.sourceCi,
    {Edge("ci_prepare", "ready_initial", "ci_watch"),
     Edge("ci_prepare", "ready_retry", "ci_watch"),
     Edge("ci_prepare", "failed", "ci_monitor"),
     Merged(p, "ci_prepare")})

WatchCiEdges(p) == Only(p.ci,
    {Edge("ci_watch", "passed", "waiting_pr"),
     Edge("ci_watch", "state_changed", "waiting_pr"),
     Edge("ci_watch", "failed", "ci_monitor"),
     Merged(p, "ci_watch")}
    \cup Only(p.sourceCi, {Edge("ci_watch", "source_changed", "ci_prepare")}))

MonitorCiEdges(p) == Only(p.ci,
    {Edge("ci_monitor", "watch_ci", CiTarget(p)),
     Merged(p, "ci_monitor"),
     Edge("ci_monitor", "needs_changes", "fix"),
     Recovery("ci_monitor")}
    \cup Only(p.v3, {Edge("ci_monitor", "retry_preparation", "ci_prepare"),
                     [Recovery("ci_monitor") EXCEPT !.outcome = "preparation_needs_user_action"]})
    \cup Only(~p.sourceCi, {Edge("ci_monitor", "waiting_pr", "waiting_pr")}))

WaitingEdges(p) == Only(p.pulls,
    {Merged(p, "fix"), Merged(p, "waiting_pr"), Merged(p, "merge_watch"),
     Edge("waiting_pr", "watch_merge", "merge_watch"),
     Edge("merge_watch", "still_waiting", "merge_watch"),
     Continue("merge_watch", "state_changed", "waiting_pr", "previous"),
     Recovery("waiting_pr"),
     Edge("waiting_pr", "needs_changes", "fix"),
     Approved("waiting_pr", "close_without_merge", "cleanup")}
    \cup Only(p.ci, {Edge("waiting_pr", "ci_required", CiTarget(p))}))

PublishEdges(p) == Only(p.publish,
    {Edge("publish_package", "published", "cleanup"), Recovery("publish_package")})

CleanupEdges(p) ==
    {Recovery("cleanup")} \cup
    (IF p.worktrees
     THEN {Edge("cleanup", "run_janitor", "task_janitor"),
           Edge("task_janitor", "done", "done"),
           Continue("task_janitor", "blocked", "cleanup", "previous")}
     ELSE {Edge("cleanup", "done", "done")})

ReplanEdges(p) ==
    {Continue(n, "replan", "plan_revalidation", "plan") :
        n \in {"fix"} \cup Only(p.compliance, {"compliance"}) \cup Only(p.reliable, {"implement"})}

\* Mutant: only the writer of complexity profiles can ask for revalidation.
RevalidateEdgesCoder(p) == Only(p.coder, {Continue("implement", "revalidate", "plan_revalidation", "plan")})
RevalidateEdges(p) ==
    {Continue(n, "revalidate", "plan_revalidation", "plan") :
        n \in {"plan_contract"} \cup Only(p.coder, {"implement"})
              \cup Only(p.coder /\ p.identity, {"branch_identity", "branch_identity_resolution"})}

Edges(p) ==
    UNION {StartEdges(p), ReviewEdges(p), RevalidationEdges(p), FreshEdges(p), IdentityEdges(p),
           GuardEdges(p), WriterEdges(p), DispatchEdges(p), ReportEdges(p), GateEdges(p),
           SmokeEdges(p), ComplianceEdges(p), PreparePrEdges(p), PrepareCiEdges(p),
           WatchCiEdges(p), MonitorCiEdges(p), WaitingEdges(p), PublishEdges(p),
           CleanupEdges(p), ReplanEdges(p), RevalidateEdges(p)}

\* The edges that leave each node, per profile.
Graph == [p \in Profiles |->
    LET edges == Edges(p) IN [n \in Nodes(p) |-> {e \in edges : e.source = n}]]
Out(n) == Graph[profile][n]

-----------------------------------------------------------------------------
(* Execution of a graph. *)

\* What a script can answer, whether or not the graph has an edge for it.  The
\* plan contract answers with the route it is given, and takes any of the four.
Answers(n) ==
    CASE n = "plan_contract" -> {"start", "continue", "verify", "fix_continue", "revalidate"}
      [] n \in {"plan_contract_continue", "plan_contract_verify", "plan_contract_fix_continue"} ->
            {"changed"} \cup Only(acceptance = "accepted", {"stable"})
      [] n = "branch_identity" -> {"ready", "blocked"} \cup Only(profile.coder, {"revalidate"})
      [] n = "verification_dispatch" -> {"fanout_verify", "invalid_workspace"}
      [] n = "deterministic_verify" -> {"reported"}
      [] n = "ci_prepare" -> {"ready_initial", "ready_retry", "failed"} \cup Only(pr = "merged", {"pr_merged"})
      [] n = "ci_watch" -> {"passed", "failed", "state_changed"} \cup Only(pr = "merged", {"pr_merged"})
                           \cup Only(profile.sourceCi, {"source_changed"})
      [] n = "merge_watch" -> {"still_waiting", "state_changed"} \cup Only(pr = "merged", {"pr_merged"})
      [] n = "task_janitor" -> {"done", "blocked"}

\* An agent may choose any outcome of its node, and reports a merge only of a merged pull request.
Choices(n) == {e.outcome : e \in Out(n)} \ Only(pr # "merged", {"pr_merged"})
Outcomes(n) == IF n \in Scripts THEN Answers(n) ELSE Choices(n)

GraphInit ==
    /\ profile \in Profiles
    /\ active = {"backlog"}
    /\ reported = {}
    /\ waiting = {}
    /\ acceptance = "changed"
    /\ passed = {}
    /\ sessions = {}
    /\ pr = "none"
    /\ ending = "none"

\* The sessions that some edge continues.
Retained == {"plan", "plan_review", "compliance", "waiting_pr", "cleanup"}

\* Planners and writers may leave the plan changed; acceptance binds the current one.
PlanAfter(n, o) ==
    IF n = "plan_contract" THEN {IF o = "revalidate" THEN acceptance ELSE "accepted"}
    ELSE IF n \in {"plan", "plan_revalidation"} \cup Writers THEN {acceptance, "changed"}
    ELSE {acceptance}

PassedAfter(n, o, targets) ==
    IF targets \cap Writers # {} THEN {}
    ELSE passed \cup Only("verification_gate" \in targets, {"round"})
                \cup Only(n = "smoke" /\ o = "passed", {"smoke"})
                \cup Only(n = "compliance" /\ o = "ship_pr", {"compliance"})

EndingAfter(o) ==
    CASE o = "pr_merged" -> "merged"
      [] o = "published" -> "published"
      [] o \in {"no_pr", "close_without_merge"} -> "approved"
      [] OTHER -> ending

\* The engine follows every edge of an outcome; an edge into the join is a report.
Follow(n, o, group) ==
    LET targets == {e.target : e \in group}
    IN  /\ active' = (active \ {n}) \cup (targets \ {"verification_join"})
        /\ reported' = reported \cup Only("verification_join" \in targets, {n})
        /\ acceptance' \in PlanAfter(n, o)
        /\ passed' = PassedAfter(n, o, targets)
        /\ sessions' = sessions \cup (targets \cap Retained)
        /\ pr' = IF n = "prepare_pr" /\ o = "monitor_ci" /\ pr = "none" THEN "open" ELSE pr
        /\ ending' = EndingAfter(o)
        /\ UNCHANGED profile

Pass(n, o, group) ==
    /\ group # {}
    /\ \A e \in group : ~e.approval
    /\ Follow(n, o, group)
    /\ UNCHANGED waiting

Park(group) ==
    /\ \E e \in group : e.approval
    /\ waiting' = group
    /\ UNCHANGED <<profile, active, reported, acceptance, passed, sessions, pr, ending>>

\* The graph has no edge for a script's answer: the node stays where it is, and so
\* does the acceptance, which is written before the answer is.
Refused(n, o, group) ==
    /\ group = {}
    /\ acceptance' \in PlanAfter(n, o)
    /\ UNCHANGED <<profile, active, reported, waiting, passed, sessions, pr, ending>>

Work(n) ==
    /\ waiting = {}
    /\ LET out == Out(n)
       IN  \E o \in Outcomes(n) :
               LET group == {e \in out : e.outcome = o}
               IN  Pass(n, o, group) \/ Park(group) \/ Refused(n, o, group)

Approve == \E e \in waiting :
    /\ Follow(e.source, e.outcome, waiting)
    /\ waiting' = {}

Join ==
    /\ reported # {}
    /\ reported = Branches(profile)
    /\ LET targets == {e.target : e \in Out("verification_join")}
       IN  /\ active' = active \cup targets
           /\ passed' = PassedAfter("verification_join", "evaluate", targets)
    /\ reported' = {}
    /\ UNCHANGED <<profile, waiting, acceptance, sessions, pr, ending>>

\* Somebody merges the pull request, whatever the workflow does.
Merge ==
    /\ pr = "open"
    /\ pr' = "merged"
    /\ UNCHANGED <<profile, active, reported, waiting, acceptance, passed, sessions, ending>>

Finished == active \subseteq Terminals /\ reported = {} /\ UNCHANGED graphVars

GraphNext == (\E n \in active : Work(n)) \/ Approve \/ Join \/ Merge \/ Finished

GraphSpec == GraphInit /\ [][GraphNext]_graphVars

-----------------------------------------------------------------------------
(* Properties. *)

\* Typing: only nodes of the generated graph run, the join hears branches only,
\* and at most one edge is parked.
GraphTypeOK ==
    /\ profile \in Profiles
    /\ active \subseteq Nodes(profile) \ {"verification_join"}
    /\ active # {} \/ reported # {}
    /\ reported \subseteq Branches(profile)
    /\ waiting \subseteq UNION {Out(n) : n \in active} /\ Cardinality(waiting) <= 1
    /\ acceptance \in {"changed", "accepted"}
    /\ passed \subseteq {"round", "smoke", "compliance"}
    /\ sessions \subseteq Retained
    /\ pr \in {"none", "open", "merged"}
    /\ ending \in {"none", "merged", "published", "approved"}

\* What a profile demands before delivery.
Needed == {"round"} \cup Only(profile.smoke = "required", {"smoke"})
                    \cup Only(profile.compliance, {"compliance"})
Delivery == IF profile.pulls
            THEN {"prepare_pr", "ci_prepare", "ci_watch", "ci_monitor", "waiting_pr", "merge_watch"}
            ELSE {"cleanup", "task_janitor", "done"}

\* Nothing is delivered on stale judgements: a pull request is prepared, watched or
\* waited for (without pull requests: the Task is cleaned up) only if the work has
\* been verified, and smoked and reviewed for compliance where the profile says so,
\* since a writer last ran.  The routes back into Fix from Smoke, Compliance, Evidence
\* Repair, CI and Waiting PR must not rejoin delivery past the gate.
Assured == active \cap Delivery # {} => Needed \subseteq passed

\* Implementation, Fix, verification and delivery are entered only on the accepted
\* plan: whatever revalidation, resumption and replanning do, a plan changed since
\* its acceptance passes the plan contract before anyone writes or judges on it.
PlanBound ==
    [][\A n \in Writers \cup Branches(profile) \cup
                {"verification_dispatch", "verification_gate", "smoke", "compliance", "prepare_pr"} :
            n \in active' \ active => acceptance' = "accepted"]_graphVars

\* A round is judged whole: the gate decides only when no branch of the round still
\* runs and no report is pending, and no writer works while a branch reads.
WholeRound ==
    /\ "verification_gate" \in active => reported = {} /\ active = {"verification_gate"}
    /\ active \cap (Writers \cup {"evidence_repair"}) # {} =>
            reported = {} /\ active \cap Branches(profile) = {}

\* A Task that uses pull requests is done only with a merged one, published where
\* the profile publishes a package after main, or when the user approved to end
\* without; cleaning up after a merge never skips the publication.
DoneJustified ==
    active \cap {"cleanup", "task_janitor", "done"} # {} /\ profile.pulls =>
        ending \in {"approved", IF profile.publish THEN "published" ELSE "merged"}

\* The three together: whatever is delivered or ended was judged, whole and on
\* the work as it stands.
Judged == Assured /\ WholeRound /\ DoneJustified

\* An edge that continues a session finds one: the plan's, the previous one of its
\* target, or that of the agent it leaves (a script has none).
ContextExists ==
    \A n \in active : \A e \in Out(n) :
        /\ e.context = "plan" => "plan" \in sessions
        /\ e.context = "previous" => e.target \in sessions
        /\ e.context = "immediate" => e.source \notin Scripts

\* The nodes from which Done can still be reached, in at most sixteen steps.
Back(edges, set)  == set \cup {e.source : e \in {f \in edges : f.target \in set}}
Back4(edges, set) == Back(edges, Back(edges, Back(edges, Back(edges, set))))
Alive == [p \in Profiles |->
    LET edges == Edges(p) IN Back4(edges, Back4(edges, Back4(edges, Back4(edges, {"done"}))))]

\* The answers without an edge.  An agent that routes a plan is told of all four
\* routes whatever the profile (delivery.py:2183-2186), and workflow-plan-contract
\* takes any of them (:46, :1980), but only a fresh-writer graph has the edge to
\* continue Fix (delivery.py:3174-3189).
Unserved(n) == Only(n = "plan_contract" /\ ~profile.fresh, {"fix_continue"})

\* No Task gets stuck but in that one way: a running script can give an answer the
\* graph of its profile has no edge for exactly where Unserved says so, and even
\* there Done is still reachable from every running node.
Routed ==
    \A n \in active \ Terminals :
        /\ n \in Alive[profile]
        /\ n \in Scripts => Answers(n) \ {e.outcome : e \in Out(n)} = Unserved(n)

\* Both together: every edge out of a running node can be followed, and every
\* answer but the unserved one has an edge.
Followed == ContextExists /\ Routed

-----------------------------------------------------------------------------
(* What makes them inductive: what is known wherever a node runs.           *)

\* Nodes that nothing but the accepted plan leads to.
OnPlan == {"branch_identity", "branch_identity_resolution", "verification_dispatch",
           "deterministic_verify", "standards_review", "spec_review", "verification_gate",
           "smoke", "compliance", "evidence_repair",
           "prepare_pr", "ci_prepare", "ci_watch", "ci_monitor", "waiting_pr", "merge_watch"}

SessionsAt(n) == Only(n # "backlog", {"plan"})
                 \cup Only(n \notin {"backlog", "plan", "wont_do"}, {"plan_review"})
                 \cup Only(n \in {"compliance", "evidence_repair"}, {"compliance"})
                 \cup Only(n \in {"waiting_pr", "merge_watch"}, {"waiting_pr"})
                 \cup Only(n \in {"cleanup", "task_janitor"}, {"cleanup"})

JudgedAt(n) == Only(n \in {"verification_gate", "smoke"}, {"round"})
               \cup Only(n \in {"compliance", "evidence_repair"}, Needed \ {"compliance"})
               \cup Only(n \in Delivery, Needed)

EndedAt(n) == n \in {"cleanup", "task_janitor", "done"} /\ profile.pulls =>
                  ending \in {"approved", IF profile.publish THEN "published" ELSE "merged"}

Known(n) ==
    /\ n \in OnPlan => acceptance = "accepted"
    /\ SessionsAt(n) \subseteq sessions
    /\ JudgedAt(n) \subseteq passed
    /\ EndedAt(n)

\* A node runs alone, with at most one edge of it parked, or a round is under way.
Alone(n) ==
    /\ active = {n} /\ reported = {}
    /\ n \in Nodes(profile) \ {"verification_join"}
    /\ Joined(profile) => n \notin Branches(profile)
    /\ waiting \subseteq Out(n)
    /\ \A e, f \in waiting : e.approval /\ e.outcome = f.outcome
Round ==
    /\ Joined(profile)
    /\ reported \subseteq Branches(profile) /\ active = Branches(profile) \ reported
    /\ waiting = {}

GraphInv ==
    /\ profile \in Profiles
    /\ \/ \E n \in active : Alone(n) /\ Known(n)
       \/ Round /\ Known("deterministic_verify")
=============================================================================
