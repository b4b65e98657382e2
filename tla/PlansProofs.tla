----------------------------- MODULE PlansProofs -----------------------------
(***************************************************************************)
(* Proofs about Delivery, for every profile that a graph can be generated   *)
(* from, and about PlanContract, for any number of publications, script     *)
(* runs, accepted snapshots and texts.                                      *)
(***************************************************************************)
EXTENDS Delivery, PlanContract, FiniteSetTheorems, TLAPS

-----------------------------------------------------------------------------
(* The generated graph as a table: what leaves each node, and when.         *)

Goes(e, o, t, a, c) == e.outcome = o /\ e.target = t /\ e.approval = a /\ e.context = c
Leads(e, o, t)   == Goes(e, o, t, FALSE, "new")
Returns(e, o, t, c) == Goes(e, o, t, FALSE, c)
Asks(e, o, t)    == Goes(e, o, t, TRUE, "new")
Pauses(e, o)     == Goes(e, o, e.source, TRUE, "immediate")
Resumes(e)       == Pauses(e, "needs_user_action")
Stops(e)         == Resumes(e) \/ Asks(e, "wont_do", "wont_do")
Replans(e)       == Returns(e, "replan", "plan_revalidation", "plan")
Revalidates(e)   == Returns(e, "revalidate", "plan_revalidation", "plan")
Merges(p, e)     == Goes(e, "pr_merged", MergedTarget(p), p.publish, "new")

Prepares(p, e) ==
    \/ e.source = "backlog" /\ Leads(e, "start", "plan")
    \/ e.source = "plan" /\ (Leads(e, "review_plan", "plan_review") \/ Stops(e))
    \/ e.source = "plan_review" /\
         \/ Leads(e, "accepted", "plan_contract")
         \/ Returns(e, "needs_changes", "plan_revalidation", "plan")
         \/ Leads(e, "resume_continue", "plan_contract_continue")
         \/ Leads(e, "resume_verify", "plan_contract_verify")
         \/ p.fresh /\ Leads(e, "resume_fix_continue", "plan_contract_fix_continue")
         \/ Stops(e)
    \/ e.source = "plan_revalidation" /\
         \/ Returns(e, "review_plan", "plan_review", "previous")
         \/ Leads(e, "resume_continue", "plan_contract_continue")
         \/ Leads(e, "resume_verify", "plan_contract_verify")
         \/ p.fresh /\ Leads(e, "resume_fix_continue", "plan_contract_fix_continue")
         \/ Stops(e)
    \/ e.source = "plan_contract" /\
         \/ p.identity /\ Leads(e, "start", "branch_identity")
         \/ /\ ~p.identity
            /\ \E c \in {"new", "plan"} : Returns(e, "start", "implement", c)
         \/ Leads(e, "continue", "implement")
         \/ Leads(e, "verify", "verification_dispatch")
         \/ p.fresh /\ Leads(e, "fix_continue", "fix")
         \/ Revalidates(e)
    \/ e.source = "plan_contract_continue" /\
         (Leads(e, "stable", "implement") \/ Returns(e, "changed", "plan_revalidation", "plan"))
    \/ e.source = "plan_contract_verify" /\
         (Leads(e, "stable", "verification_dispatch")
          \/ Returns(e, "changed", "plan_revalidation", "plan"))
    \/ p.fresh /\ e.source = "plan_contract_fix_continue" /\
         (Leads(e, "stable", "fix") \/ Returns(e, "changed", "plan_revalidation", "plan"))
    \/ p.identity /\ e.source = "branch_identity" /\
         \/ \E c \in {"new", "plan"} : Returns(e, "ready", "implement", c)
         \/ Leads(e, "blocked", "branch_identity_resolution")
         \/ Revalidates(e)
    \/ p.identity /\ e.source = "branch_identity_resolution" /\
         (Leads(e, "retry", "branch_identity") \/ Stops(e) \/ Revalidates(e))

Verifies(p, e) ==
    \/ e.source = "implement" /\
         \/ Leads(e, "continue_implementation", "plan_contract_continue")
         \/ Leads(e, "verify", "plan_contract_verify")
         \/ Stops(e) \/ Replans(e) \/ Revalidates(e)
    \/ e.source = "fix" /\
         \/ Leads(e, "verify", "plan_contract_verify")
         \/ p.fresh /\ Leads(e, "continue_fix", "plan_contract_fix_continue")
         \/ p.pulls /\ Merges(p, e)
         \/ Stops(e) \/ Replans(e)
    \/ e.source = "verification_dispatch" /\
         \/ \E b \in Branches(p) : Leads(e, "fanout_verify", b)
         \/ Leads(e, "invalid_workspace", "fix")
    \/ Joined(p) /\ e.source \in Branches(p) /\ Leads(e, "reported", "verification_join")
    \/ Joined(p) /\ e.source = "verification_join" /\ Leads(e, "evaluate", "verification_gate")
    \/ ~Joined(p) /\ e.source = "deterministic_verify" /\ Leads(e, "reported", "verification_gate")
    \/ e.source = "verification_gate" /\
         \/ Leads(e, "needs_changes", "fix")
         \/ Asks(e, "needs_user_action", "verification_dispatch")
         \/ Leads(e, "retry_verification", "verification_dispatch")
         \/ Asks(e, "wont_do", "wont_do")
         \/ p.smoke # "disabled" /\ Leads(e, "smoke_required", "smoke")
         \/ p.smoke # "required" /\ Leads(e, "delivery_ready", PostSmokeTarget(p))
    \/ p.smoke # "disabled" /\ e.source = "smoke" /\
         (Leads(e, "passed", PostSmokeTarget(p)) \/ Leads(e, "needs_changes", "fix") \/ Stops(e))
    \/ p.compliance /\ e.source = "compliance" /\
         \/ Leads(e, "ship_pr", "prepare_pr") \/ Leads(e, "needs_changes", "fix")
         \/ Leads(e, "repair_evidence", "evidence_repair")
         \/ Stops(e) \/ Replans(e)
    \/ p.compliance /\ e.source = "evidence_repair" /\
         \/ Returns(e, "recheck_compliance", "compliance", "previous")
         \/ Leads(e, "needs_source_fix", "fix")
         \/ Stops(e)

Delivers(p, e) ==
    \/ p.pulls /\ e.source = "prepare_pr" /\
         \/ Leads(e, "monitor_ci", IF p.ci THEN CiTarget(p) ELSE "waiting_pr")
         \/ Asks(e, "no_pr", "cleanup")
         \/ Leads(e, "needs_changes", "fix")
         \/ Resumes(e)
    \/ p.sourceCi /\ e.source = "ci_prepare" /\
         \/ Leads(e, "ready_initial", "ci_watch") \/ Leads(e, "ready_retry", "ci_watch")
         \/ Leads(e, "failed", "ci_monitor")
         \/ Merges(p, e)
    \/ p.ci /\ e.source = "ci_watch" /\
         \/ Leads(e, "passed", "waiting_pr") \/ Leads(e, "state_changed", "waiting_pr")
         \/ Leads(e, "failed", "ci_monitor")
         \/ Merges(p, e)
         \/ p.sourceCi /\ Leads(e, "source_changed", "ci_prepare")
    \/ p.ci /\ e.source = "ci_monitor" /\
         \/ Leads(e, "watch_ci", CiTarget(p))
         \/ Merges(p, e)
         \/ Leads(e, "needs_changes", "fix")
         \/ Resumes(e)
         \/ p.v3 /\ Leads(e, "retry_preparation", "ci_prepare")
         \/ p.v3 /\ Pauses(e, "preparation_needs_user_action")
         \/ ~p.sourceCi /\ Leads(e, "waiting_pr", "waiting_pr")
    \/ p.pulls /\ e.source = "waiting_pr" /\
         \/ Merges(p, e)
         \/ Leads(e, "watch_merge", "merge_watch")
         \/ Resumes(e)
         \/ Leads(e, "needs_changes", "fix")
         \/ Asks(e, "close_without_merge", "cleanup")
         \/ p.ci /\ Leads(e, "ci_required", CiTarget(p))
    \/ p.pulls /\ e.source = "merge_watch" /\
         \/ Merges(p, e)
         \/ Leads(e, "still_waiting", "merge_watch")
         \/ Returns(e, "state_changed", "waiting_pr", "previous")
    \/ p.publish /\ e.source = "publish_package" /\
         (Leads(e, "published", "cleanup") \/ Resumes(e))
    \/ e.source = "cleanup" /\
         \/ Resumes(e)
         \/ p.worktrees /\ Leads(e, "run_janitor", "task_janitor")
         \/ ~p.worktrees /\ Leads(e, "done", "done")
    \/ p.worktrees /\ e.source = "task_janitor" /\
         (Leads(e, "done", "done") \/ Returns(e, "blocked", "cleanup", "previous"))

Wired(p, e) == Prepares(p, e) \/ Verifies(p, e) \/ Delivers(p, e)

Sound(p) == p \in Policies /\ Valid(p)

\* A profile that is sound has the policies of its type, one field at a time.
LEMMA SoundIs ==
    ASSUME NEW p, Sound(p)
    PROVE  /\ p.fresh \in BOOLEAN /\ p.coder \in BOOLEAN /\ p.identity \in BOOLEAN
           /\ p.standards \in BOOLEAN /\ p.spec \in BOOLEAN
           /\ p.smoke \in {"disabled", "conditional", "required"}
           /\ p.pulls \in BOOLEAN /\ p.compliance \in BOOLEAN /\ p.ci \in BOOLEAN
           /\ p.sourceCi \in BOOLEAN /\ p.v3 \in BOOLEAN /\ p.publish \in BOOLEAN
           /\ p.worktrees \in BOOLEAN /\ p.reliable \in BOOLEAN
           /\ p.coder => ~p.fresh
           /\ p.ci \/ p.compliance \/ p.publish => p.pulls
           /\ p.sourceCi => p.ci /\ ~p.publish
           /\ p.v3 => p.sourceCi
  BY DEF Sound, Policies, Valid

\* An edge goes where the operator that made it says.
LEMMA EdgeIs ==
    /\ \A s, o, t : Edge(s, o, t).source = s /\ Leads(Edge(s, o, t), o, t)
    /\ \A s, o, t, c : Continue(s, o, t, c).source = s /\ Returns(Continue(s, o, t, c), o, t, c)
    /\ \A s, o, t : Approved(s, o, t).source = s /\ Asks(Approved(s, o, t), o, t)
  BY DEF Edge, Continue, Approved, Leads, Returns, Asks, Goes

\* A node that can be stopped resumes in its own session or ends the Task.
LEMMA StopIs == \A n, e : e \in Stoppable(n) => e.source = n /\ Stops(e)
  BY DEF Stoppable, Recovery, Cancellation, Approved, Edge, Stops, Resumes, Pauses, Asks, Goes

\* Recovery resumes in the session of the node.
LEMMA RecoveryIs == \A n : Recovery(n).source = n /\ Resumes(Recovery(n))
  BY DEF Recovery, Approved, Edge, Resumes, Pauses, Goes

\* An edge of the plan's side is in the table.
LEMMA Preparation ==
    ASSUME NEW p, Sound(p),
           NEW e \in UNION {StartEdges(p), ReviewEdges(p), RevalidationEdges(p), FreshEdges(p),
                            IdentityEdges(p), GuardEdges(p)}
    PROVE  Prepares(p, e)
<1>1. CASE e \in StartEdges(p)
  BY <1>1, EdgeIs DEF StartEdges, Prepares
<1>2. CASE e \in ReviewEdges(p)
  BY <1>2, EdgeIs, StopIs DEF ReviewEdges, Prepares
<1>3. CASE e \in RevalidationEdges(p)
  BY <1>3, EdgeIs, StopIs DEF RevalidationEdges, Prepares
<1>4. CASE e \in FreshEdges(p)
  BY <1>4, EdgeIs DEF FreshEdges, Only, Prepares
<1>5. CASE e \in IdentityEdges(p)
  BY <1>5, EdgeIs, StopIs, SoundIs DEF IdentityEdges, Prepares
<1>6. CASE e \in GuardEdges(p)
  BY <1>6, EdgeIs DEF GuardEdges, Only, Prepares
<1>7. QED
  BY <1>1, <1>2, <1>3, <1>4, <1>5, <1>6

\* So is an edge of the writers and of the verification.
LEMMA Verification ==
    ASSUME NEW p, Sound(p),
           NEW e \in UNION {WriterEdges(p), DispatchEdges(p), ReportEdges(p), GateEdges(p),
                            SmokeEdges(p), ComplianceEdges(p), ReplanEdges(p)}
    PROVE  Prepares(p, e) \/ Verifies(p, e)
<1>1. CASE e \in WriterEdges(p)
  <2>1. ASSUME NEW n \in {"plan"} \cup Writers, e \in Stoppable(n)
        PROVE  Prepares(p, e) \/ Verifies(p, e)
    BY <2>1, StopIs DEF Writers, Prepares, Verifies
  <2>2. QED
    BY <1>1, <2>1, EdgeIs DEF WriterEdges, Only, Verifies
<1>2. CASE e \in DispatchEdges(p)
  BY <1>2, EdgeIs DEF DispatchEdges, Verifies
<1>3. CASE e \in ReportEdges(p)
  BY <1>3, EdgeIs DEF ReportEdges, Verifies
<1>4. CASE e \in GateEdges(p)
  BY <1>4, EdgeIs DEF GateEdges, Cancellation, Only, Verifies
<1>5. CASE e \in SmokeEdges(p)
  BY <1>5, EdgeIs, StopIs DEF SmokeEdges, Only, Verifies
<1>6. CASE e \in ComplianceEdges(p)
  BY <1>6, EdgeIs, StopIs DEF ComplianceEdges, Only, Verifies
<1>7. CASE e \in ReplanEdges(p)
  BY <1>7, EdgeIs DEF ReplanEdges, Only, Verifies, Replans
<1>8. QED
  BY <1>1, <1>2, <1>3, <1>4, <1>5, <1>6, <1>7

\* An edge that follows a merge asks the user where a package is published.
LEMMA MergedIs ==
    ASSUME NEW p, p.publish \in BOOLEAN
    PROVE  \A s : Merged(p, s).source = s /\ Merges(p, Merged(p, s))
  BY DEF Merged, Edge, Merges, Goes

\* So is an edge of the delivery.
LEMMA Delivering ==
    ASSUME NEW p, Sound(p),
           NEW e \in UNION {PreparePrEdges(p), PrepareCiEdges(p), WatchCiEdges(p), MonitorCiEdges(p),
                            WaitingEdges(p), PublishEdges(p), CleanupEdges(p)}
    PROVE  Verifies(p, e) \/ Delivers(p, e)
<1>1. CASE e \in PreparePrEdges(p)
  BY <1>1, EdgeIs, RecoveryIs DEF PreparePrEdges, Only, Delivers
<1>2. CASE e \in PrepareCiEdges(p)
  BY <1>2, EdgeIs, MergedIs, SoundIs DEF PrepareCiEdges, Only, Delivers
<1>3. CASE e \in WatchCiEdges(p)
  BY <1>3, EdgeIs, MergedIs, SoundIs DEF WatchCiEdges, Only, Delivers
<1>4. CASE e \in MonitorCiEdges(p)
  <2>1. PICK f : f = [Recovery("ci_monitor") EXCEPT !.outcome = "preparation_needs_user_action"]
    OBVIOUS
  <2>2. f.source = "ci_monitor" /\ Pauses(f, "preparation_needs_user_action")
    BY <2>1 DEF Recovery, Approved, Edge, Pauses, Goes
  <2>3. CASE p.ci /\ p.v3 /\ e = f
    BY <2>2, <2>3 DEF Delivers
  <2>4. CASE ~(p.v3 /\ e = f)
    BY <1>4, <2>1, <2>4, EdgeIs, RecoveryIs, MergedIs, SoundIs DEF MonitorCiEdges, Only, Delivers
  <2>5. QED
    BY <1>4, <2>3, <2>4 DEF MonitorCiEdges, Only
<1>5. CASE e \in WaitingEdges(p)
  BY <1>5, EdgeIs, RecoveryIs, MergedIs, SoundIs DEF WaitingEdges, Only, Delivers, Verifies
<1>6. CASE e \in PublishEdges(p)
  BY <1>6, EdgeIs, RecoveryIs DEF PublishEdges, Only, Delivers
<1>7. CASE e \in CleanupEdges(p)
  BY <1>7, EdgeIs, RecoveryIs, SoundIs DEF CleanupEdges, Delivers
<1>8. QED
  BY <1>1, <1>2, <1>3, <1>4, <1>5, <1>6, <1>7

\* So is one that asks for revalidation.
LEMMA Revalidation ==
    ASSUME NEW p, Sound(p), NEW e \in RevalidateEdges(p)
    PROVE  Prepares(p, e) \/ Verifies(p, e)
  BY EdgeIs DEF RevalidateEdges, Only, Prepares, Verifies, Revalidates

\* Every generated edge is in the table.
LEMMA Table ==
    ASSUME NEW p, Sound(p), NEW e \in Edges(p)
    PROVE  Wired(p, e)
  BY Preparation, Verification, Delivering, Revalidation DEF Edges, Wired

\* A round is more than one branch when standards or spec are reviewed.
LEMMA JoinedIs ==
    ASSUME NEW p, Sound(p)
    PROVE  Joined(p) <=> p.standards \/ p.spec
<1>1. Branches(p) = IF p.standards /\ p.spec
                    THEN {"deterministic_verify", "standards_review", "spec_review"}
                    ELSE IF p.standards THEN {"deterministic_verify", "standards_review"}
                    ELSE IF p.spec THEN {"deterministic_verify", "spec_review"}
                    ELSE {"deterministic_verify"}
  BY SoundIs DEF Branches, Only
<1>2. /\ Cardinality({"deterministic_verify"}) = 1
      /\ IsFiniteSet({"deterministic_verify"})
  BY FS_Singleton
<1>3. /\ Cardinality({"deterministic_verify", "standards_review"}) = 2
      /\ IsFiniteSet({"deterministic_verify", "standards_review"})
  <2>1. {"deterministic_verify", "standards_review"}
            = {"deterministic_verify"} \cup {"standards_review"}
    OBVIOUS
  <2>2. QED
    BY <1>2, <2>1, FS_AddElement
<1>4. Cardinality({"deterministic_verify", "spec_review"}) = 2
  <2>1. {"deterministic_verify", "spec_review"} = {"deterministic_verify"} \cup {"spec_review"}
    OBVIOUS
  <2>2. QED
    BY <1>2, <2>1, FS_AddElement
<1>5. Cardinality({"deterministic_verify", "standards_review", "spec_review"}) = 3
  <2>1. {"deterministic_verify", "standards_review", "spec_review"}
            = {"deterministic_verify", "standards_review"} \cup {"spec_review"}
    OBVIOUS
  <2>2. QED
    BY <1>3, <2>1, FS_AddElement
<1>6. QED
  BY <1>1, <1>2, <1>3, <1>4, <1>5, SoundIs DEF Joined

LEMMA BranchesAre ==
    ASSUME NEW p, Sound(p)
    PROVE  /\ Branches(p) \subseteq {"deterministic_verify", "standards_review", "spec_review"}
           /\ "deterministic_verify" \in Branches(p)
           /\ ~Joined(p) => Branches(p) = {"deterministic_verify"}
  BY SoundIs, JoinedIs DEF Branches, Only

\* What leaves a node of the generated graph.
LEMMA OutIs ==
    ASSUME profile \in Profiles, NEW n \in Nodes(profile)
    PROVE  Out(n) = {e \in Edges(profile) : e.source = n}
  BY DEF Out, Graph

\* The profile is one that a graph can be generated from.
LEMMA ProfileSound ==
    ASSUME profile \in Profiles
    PROVE  Sound(profile)
  BY ProfilesAssumption DEF Sound

\* Edges lead to nodes of the graph; to the join from the branches, to the
\* branches from the dispatch.
LEMMA Targets ==
    ASSUME NEW p, Sound(p), NEW e \in Edges(p)
    PROVE  /\ e.target \in Nodes(p)
           /\ e.target = "verification_join" => Joined(p) /\ e.source \in Branches(p)
           /\ Joined(p) /\ e.source \in Branches(p) =>
                 /\ e.target = "verification_join" /\ ~e.approval
           /\ e.target \in Branches(p) =>
                 /\ e.source = "verification_dispatch" /\ e.outcome = "fanout_verify"
                 /\ ~e.approval
           /\ e.source \notin Terminals
           /\ e.source = "verification_join" => e.target = "verification_gate"
<1>1. Wired(p, e)
  BY Table
<1>2. PICK b : b = Branches(p)
  OBVIOUS
<1>3. /\ b \subseteq {"deterministic_verify", "standards_review", "spec_review"}
      /\ "deterministic_verify" \in b
      /\ ~Joined(p) => b = {"deterministic_verify"}
  BY <1>2, BranchesAre
<1>4. CASE Prepares(p, e)
  <2>1. e.target \in Nodes(p)
    BY <1>4 DEF Prepares, Leads, Returns, Asks, Stops, Resumes, Pauses,
       Revalidates, Goes, Nodes, Only, Terminals
  <2>2. /\ e.source \notin b \cup Terminals \cup {"verification_join"}
        /\ e.target \notin b \cup {"verification_join"}
    BY <1>3, <1>4 DEF Prepares, Leads, Returns, Asks, Stops, Resumes, Pauses,
       Revalidates, Goes, Terminals
  <2>3. QED
    BY <1>2, <2>1, <2>2
<1>5. CASE Verifies(p, e)
  BY <1>2, <1>3, <1>5, SoundIs DEF Verifies, Leads, Returns, Asks, Stops, Resumes, Pauses,
     Revalidates, Replans, Merges, MergedTarget, PostSmokeTarget, Goes, Nodes, Only, Terminals
<1>6. CASE Delivers(p, e)
  BY <1>2, <1>3, <1>6, SoundIs DEF Delivers, Leads, Returns, Asks, Resumes, Pauses,
     Merges, MergedTarget, CiTarget, Goes, Nodes, Only, Terminals
<1>7. QED
  BY <1>1, <1>4, <1>5, <1>6 DEF Wired

-----------------------------------------------------------------------------
(* One edge hands on what is known where it starts.                         *)

\* Who leaves a node with one outcome goes one way, but for the fan-out of a round.
LEMMA OneWay ==
    ASSUME NEW p, Sound(p), NEW e \in Edges(p), NEW f \in Edges(p),
           e.source = f.source, e.outcome = f.outcome, e.outcome # "fanout_verify"
    PROVE  e.target = f.target /\ e.approval = f.approval
<1>1. Wired(p, e) /\ Wired(p, f)
  BY Table
<1>2. PICK b : b = Branches(p)
  OBVIOUS
<1>3. /\ b \subseteq {"deterministic_verify", "standards_review", "spec_review"}
      /\ "deterministic_verify" \in b
      /\ ~Joined(p) => b = {"deterministic_verify"}
  BY <1>2, BranchesAre
<1>4. CASE Prepares(p, e)
  <2>1. ~Verifies(p, f) /\ ~Delivers(p, f)
    BY <1>2, <1>3, <1>4 DEF Prepares, Verifies, Delivers
  <2>2. Prepares(p, f)
    BY <1>1, <2>1 DEF Wired
  <2>3. QED
    BY <1>4, <2>2 DEF Prepares, Leads, Returns, Asks, Stops, Resumes, Pauses, Revalidates, Goes
<1>5. CASE Verifies(p, e)
  <2>1. ~Prepares(p, f) /\ ~Delivers(p, f)
    BY <1>2, <1>3, <1>5 DEF Prepares, Verifies, Delivers
  <2>2. Verifies(p, f)
    BY <1>1, <2>1 DEF Wired
  <2>3. QED
    BY <1>2, <1>3, <1>5, <2>2 DEF Verifies, Leads, Returns, Asks, Stops, Resumes, Pauses,
       Replans, Revalidates, Merges, Goes
<1>6. CASE Delivers(p, e)
  <2>1. ~Prepares(p, f) /\ ~Verifies(p, f)
    BY <1>2, <1>3, <1>6 DEF Prepares, Verifies, Delivers
  <2>2. Delivers(p, f)
    BY <1>1, <2>1 DEF Wired
  <2>3. QED
    BY <1>6, <2>2, SoundIs DEF Delivers, Leads, Returns, Asks, Resumes, Pauses, Merges, Goes
<1>7. QED
  BY <1>1, <1>4, <1>5, <1>6 DEF Wired

\* What sessions a node needs, one session at a time.
LEMMA SessionsAre ==
    \A n, s : SessionsAt(n) \subseteq s <=>
        /\ n # "backlog" => "plan" \in s
        /\ n \notin {"backlog", "plan", "wont_do"} => "plan_review" \in s
        /\ n \in {"compliance", "evidence_repair"} => "compliance" \in s
        /\ n \in {"waiting_pr", "merge_watch"} => "waiting_pr" \in s
        /\ n \in {"cleanup", "task_janitor"} => "cleanup" \in s
  BY DEF SessionsAt, Only

\* The sessions that a node needs are there when it is entered.
LEMMA CarriesSessions ==
    ASSUME NEW p, Sound(p), NEW e \in Edges(p), NEW s, SessionsAt(e.source) \subseteq s
    PROVE  SessionsAt(e.target) \subseteq s \cup ({e.target} \cap Retained)
<1>1. Wired(p, e)
  BY Table
<1>2. PICK b : b = Branches(p)
  OBVIOUS
<1>3. /\ b \subseteq {"deterministic_verify", "standards_review", "spec_review"}
      /\ "deterministic_verify" \in b
  BY <1>2, BranchesAre
<1>4. PICK t : t = s \cup ({e.target} \cap Retained)
  OBVIOUS
<1>5. /\ s \subseteq t
      /\ \A n \in {"plan", "plan_review", "compliance", "waiting_pr", "cleanup"} :
            e.target = n => n \in t
  BY <1>4 DEF Retained
<1>6. SessionsAt(e.target) \subseteq t
  <2>1. CASE Prepares(p, e)
    BY <1>5, <2>1, SessionsAre DEF Prepares, Leads, Returns, Asks, Stops, Resumes, Pauses,
       Revalidates, Goes
  <2>2. CASE Verifies(p, e)
    BY <1>2, <1>3, <1>5, <2>2, SessionsAre DEF Verifies, Leads, Returns, Asks, Stops, Resumes,
       Pauses, Replans, Revalidates, Merges, MergedTarget, PostSmokeTarget, Goes
  <2>3. CASE Delivers(p, e)
    BY <1>5, <2>3, SessionsAre DEF Delivers, Leads, Returns, Asks, Resumes, Pauses, Merges,
       MergedTarget, CiTarget, Goes
  <2>4. QED
    BY <1>1, <2>1, <2>2, <2>3 DEF Wired
<1>7. QED
  BY <1>4, <1>6

\* Nobody writes, judges or delivers but on the accepted plan.
LEMMA CarriesPlan ==
    ASSUME NEW p, Sound(p), NEW e \in Edges(p), e.source # "verification_join",
           e.source \in OnPlan => acceptance = "accepted",
           e.outcome = "stable" => acceptance = "accepted",
           NEW a \in PlanAfter(e.source, e.outcome),
           e.target \in OnPlan \/ (e.target \in Writers /\ e.target # e.source)
    PROVE  a = "accepted"
<1>1. Wired(p, e)
  BY Table
<1>2. PICK b : b = Branches(p)
  OBVIOUS
<1>3. /\ b \subseteq {"deterministic_verify", "standards_review", "spec_review"}
      /\ "deterministic_verify" \in b
  BY <1>2, BranchesAre
<1>4. CASE Prepares(p, e)
  BY <1>4 DEF Prepares, Leads, Returns, Asks, Stops, Resumes, Pauses, Revalidates, Goes,
     OnPlan, Writers, PlanAfter
<1>5. CASE Verifies(p, e)
  BY <1>2, <1>3, <1>5 DEF Verifies, Leads, Returns, Asks, Stops, Resumes, Pauses,
     Replans, Revalidates, Merges, MergedTarget, PostSmokeTarget, Goes, OnPlan, Writers, PlanAfter
<1>6. CASE Delivers(p, e)
  BY <1>6 DEF Delivers, Leads, Returns, Asks, Resumes, Pauses, Merges, MergedTarget, CiTarget, Goes,
     OnPlan, Writers, PlanAfter
<1>7. QED
  BY <1>1, <1>4, <1>5, <1>6 DEF Wired

\* What must have been judged when a node runs, one judgement at a time.
LEMMA JudgedIs ==
    ASSUME Sound(profile)
    PROVE  \A n, s : JudgedAt(n) \subseteq s <=>
             /\ n \in {"verification_gate", "smoke", "compliance", "evidence_repair"} \cup Delivery
                    => "round" \in s
             /\ n \in {"compliance", "evidence_repair"} \cup Delivery /\ profile.smoke = "required"
                    => "smoke" \in s
             /\ n \in Delivery /\ profile.compliance => "compliance" \in s
<1>1. PICK d : d = Delivery
  OBVIOUS
<1>2. \A s : /\ Needed \subseteq s <=> /\ "round" \in s
                                       /\ profile.smoke = "required" => "smoke" \in s
                                       /\ profile.compliance => "compliance" \in s
             /\ Needed \ {"compliance"} \subseteq s <=>
                    /\ "round" \in s
                    /\ profile.smoke = "required" => "smoke" \in s
  BY SoundIs DEF Needed, Only
<1>3. \A n, s : JudgedAt(n) \subseteq s <=>
             /\ n \in {"verification_gate", "smoke"} => "round" \in s
             /\ n \in {"compliance", "evidence_repair"} => Needed \ {"compliance"} \subseteq s
             /\ n \in d => Needed \subseteq s
  BY <1>1 DEF JudgedAt, Only
<1>4. QED
  BY <1>1, <1>2, <1>3

\* What a step adds to the judgements, or takes away.
LEMMA PassedIs ==
    ASSUME NEW n, NEW o, NEW t
    PROVE  /\ t \notin Writers =>
                /\ passed \subseteq PassedAfter(n, o, {t})
                /\ t = "verification_gate" => "round" \in PassedAfter(n, o, {t})
                /\ n = "smoke" /\ o = "passed" => "smoke" \in PassedAfter(n, o, {t})
                /\ n = "compliance" /\ o = "ship_pr" => "compliance" \in PassedAfter(n, o, {t})
           /\ t \in Writers => PassedAfter(n, o, {t}) = {}
  BY DEF PassedAfter, Only

\* Nobody delivers before the judgements that the profile demands.
LEMMA CarriesJudged ==
    ASSUME Sound(profile), NEW e \in Edges(profile), JudgedAt(e.source) \subseteq passed
    PROVE  JudgedAt(e.target) \subseteq PassedAfter(e.source, e.outcome, {e.target})
<1>1. Wired(profile, e)
  BY Table
<1>2. PICK b : b = Branches(profile)
  OBVIOUS
<1>3. /\ b \subseteq {"deterministic_verify", "standards_review", "spec_review"}
      /\ "deterministic_verify" \in b
  BY <1>2, BranchesAre
<1>4. PICK a : a = PassedAfter(e.source, e.outcome, {e.target})
  OBVIOUS
<1>5. /\ e.target \notin Writers =>
           /\ passed \subseteq a
           /\ e.target = "verification_gate" => "round" \in a
           /\ e.source = "smoke" /\ e.outcome = "passed" => "smoke" \in a
           /\ e.source = "compliance" /\ e.outcome = "ship_pr" => "compliance" \in a
  BY <1>4, PassedIs
<1>6. JudgedAt(e.target) \subseteq a
  <2>1. CASE Prepares(profile, e)
    BY <1>5, <2>1, JudgedIs DEF Prepares, Leads, Returns, Asks, Stops, Resumes, Pauses,
       Revalidates, Goes, Writers, Delivery
  <2>2. CASE Verifies(profile, e)
    <3>1. CASE e.source \in {"implement", "fix", "verification_dispatch"}
      <4>1. CASE e.source = "fix" /\ profile.pulls /\ Merges(profile, e)
        BY <1>5, <2>2, <4>1, JudgedIs DEF Merges, MergedTarget, Goes, Writers, Delivery
      <4>2. CASE ~(e.source = "fix" /\ profile.pulls /\ Merges(profile, e))
        <5>1. e.target \in {"plan_contract_continue", "plan_contract_verify", "implement", "wont_do",
                           "plan_revalidation", "plan_contract_fix_continue", "fix"} \cup b
          BY <1>2, <1>3, <2>2, <3>1, <4>2 DEF Verifies, Leads, Returns, Asks, Stops, Resumes,
             Pauses, Replans, Revalidates, Goes
        <5>2. QED
          BY <1>3, <5>1, JudgedIs DEF Delivery
      <4>3. QED
        BY <4>1, <4>2
    <3>2. CASE e.source \in b \cup {"verification_join"}
      BY <1>2, <1>3, <1>5, <2>2, <3>2, JudgedIs
         DEF Verifies, Leads, Goes, Writers, Delivery
    <3>3. CASE e.source \in {"verification_gate", "smoke"}
      BY <1>2, <1>3, <1>5, <2>2, <3>3, JudgedIs, SoundIs
         DEF Verifies, Leads, Returns, Asks, Stops, Resumes,
         Pauses, Replans, Revalidates, Merges, MergedTarget, PostSmokeTarget, Goes, Writers, Delivery
    <3>4. CASE e.source \in {"compliance", "evidence_repair"}
      BY <1>2, <1>3, <1>5, <2>2, <3>4, JudgedIs, SoundIs
         DEF Verifies, Leads, Returns, Asks, Stops, Resumes,
         Pauses, Replans, Revalidates, Merges, MergedTarget, PostSmokeTarget, Goes, Writers, Delivery
    <3>5. QED
      BY <1>2, <1>3, <2>2, <3>1, <3>2, <3>3, <3>4 DEF Verifies
  <2>3. CASE Delivers(profile, e)
    BY <1>5, <2>3, JudgedIs, SoundIs DEF Delivers, Leads, Returns, Asks, Resumes, Pauses, Merges,
       MergedTarget, CiTarget, Goes, Writers, Delivery
  <2>4. QED
    BY <1>1, <2>1, <2>2, <2>3 DEF Wired
<1>7. QED
  BY <1>4, <1>6

\* No Task with pull requests ends but as its profile and its user let it.
LEMMA CarriesEnded ==
    ASSUME Sound(profile), NEW e \in Edges(profile), EndedAt(e.source),
           e.target \in {"cleanup", "task_janitor", "done"}, profile.pulls
    PROVE  EndingAfter(e.outcome)
               \in {"approved", IF profile.publish THEN "published" ELSE "merged"}
<1>1. Wired(profile, e)
  BY Table
<1>2. PICK b : b = Branches(profile)
  OBVIOUS
<1>3. /\ b \subseteq {"deterministic_verify", "standards_review", "spec_review"}
      /\ "deterministic_verify" \in b
  BY <1>2, BranchesAre
<1>4. ~Prepares(profile, e)
  BY DEF Prepares, Leads, Returns, Asks, Stops, Resumes, Pauses, Revalidates, Goes
<1>5. CASE Verifies(profile, e)
  <2>1. e.source = "fix" /\ e.outcome = "pr_merged" /\ ~profile.publish
    BY <1>2, <1>3, <1>5, SoundIs DEF Verifies, Leads, Returns, Asks, Stops, Resumes,
       Pauses, Replans, Revalidates, Merges, MergedTarget, PostSmokeTarget, Goes
  <2>2. QED
    BY <2>1 DEF EndingAfter
<1>6. CASE Delivers(profile, e)
  <2>1. \/ e.outcome = "pr_merged" /\ ~profile.publish
        \/ e.outcome = "published" /\ profile.publish
        \/ e.outcome \in {"no_pr", "close_without_merge"}
        \/ e.outcome \in {"needs_user_action", "run_janitor", "done", "blocked"}
           /\ e.source \in {"cleanup", "task_janitor"}
    BY <1>6, SoundIs DEF Delivers, Leads, Returns, Asks, Resumes, Pauses, Merges,
       MergedTarget, CiTarget, Goes
  <2>2. QED
    BY <2>1 DEF EndingAfter, EndedAt
<1>7. QED
  BY <1>1, <1>4, <1>5, <1>6 DEF Wired

-----------------------------------------------------------------------------
(* A step keeps what is known.                                             *)

\* The fan-out leads to the branches, and neither it nor a guard asks anybody.
LEMMA Outright ==
    ASSUME NEW p, Sound(p), NEW e \in Edges(p)
    PROVE  /\ e.outcome = "fanout_verify" =>
                 /\ e.source = "verification_dispatch" /\ e.target \in Branches(p) /\ ~e.approval
           /\ e.outcome = "stable" =>
                 /\ e.source \in {"plan_contract_continue", "plan_contract_verify",
                                  "plan_contract_fix_continue"}
                 /\ ~e.approval
<1>1. Wired(p, e)
  BY Table
<1>2. PICK b : b = Branches(p)
  OBVIOUS
<1>3. CASE Prepares(p, e)
  BY <1>3 DEF Prepares, Leads, Returns, Asks, Stops, Resumes, Pauses, Revalidates, Goes
<1>4. CASE Verifies(p, e)
  BY <1>2, <1>4 DEF Verifies, Leads, Returns, Asks, Stops, Resumes,
     Pauses, Replans, Revalidates, Merges, Goes
<1>5. CASE Delivers(p, e)
  BY <1>5 DEF Delivers, Leads, Returns, Asks, Resumes, Pauses, Merges, Goes
<1>6. QED
  BY <1>1, <1>3, <1>4, <1>5 DEF Wired

\* What a profile's edges are made of.
LEMMA EdgesHold ==
    ASSUME NEW p
    PROVE  /\ StartEdges(p) \subseteq Edges(p) /\ ReviewEdges(p) \subseteq Edges(p)
           /\ RevalidationEdges(p) \subseteq Edges(p) /\ FreshEdges(p) \subseteq Edges(p)
           /\ IdentityEdges(p) \subseteq Edges(p) /\ GuardEdges(p) \subseteq Edges(p)
           /\ WriterEdges(p) \subseteq Edges(p) /\ DispatchEdges(p) \subseteq Edges(p)
           /\ ReportEdges(p) \subseteq Edges(p) /\ GateEdges(p) \subseteq Edges(p)
           /\ SmokeEdges(p) \subseteq Edges(p) /\ ComplianceEdges(p) \subseteq Edges(p)
           /\ PreparePrEdges(p) \subseteq Edges(p) /\ PrepareCiEdges(p) \subseteq Edges(p)
           /\ WatchCiEdges(p) \subseteq Edges(p) /\ MonitorCiEdges(p) \subseteq Edges(p)
           /\ WaitingEdges(p) \subseteq Edges(p) /\ PublishEdges(p) \subseteq Edges(p)
           /\ CleanupEdges(p) \subseteq Edges(p) /\ ReplanEdges(p) \subseteq Edges(p)
           /\ RevalidateEdges(p) \subseteq Edges(p)
  BY DEF Edges

\* Who leaves a node that is no dispatch goes to one node.
LEMMA OneTarget ==
    ASSUME profile \in Profiles, NEW n \in Nodes(profile), NEW group \in SUBSET Out(n),
           NEW o, o # "fanout_verify", \A e \in group : e.outcome = o, NEW e \in group
    PROVE  /\ {f.target : f \in group} = {e.target}
           /\ \A f \in group : f.approval = e.approval
<1>1. Sound(profile) /\ \A f \in group : f \in Edges(profile) /\ f.source = n
  BY ProfileSound, OutIs
<1>2. \A f \in group : f.target = e.target /\ f.approval = e.approval
  BY <1>1, OneWay
<1>3. QED
  BY <1>2

\* A node that runs alone is followed by one that runs alone.
LEMMA FollowOne ==
    ASSUME profile \in Profiles, NEW n, Alone(n), Known(n),
           NEW e \in Out(n), e.outcome # "fanout_verify", e.outcome = "stable" => acceptance = "accepted",
           NEW group, {f.target : f \in group} = {e.target},
           Follow(n, e.outcome, group), waiting' = {}
    PROVE  /\ profile' = profile /\ active' = {e.target}
           /\ Alone(e.target)' /\ Known(e.target)'
           /\ e.target \in Writers /\ e.target # n => acceptance' = "accepted"
<1>1. /\ Sound(profile) /\ n \in Nodes(profile) /\ n # "verification_join" /\ e \in Edges(profile)
      /\ e.source = n /\ active = {n} /\ reported = {}
      /\ Joined(profile) => n \notin Branches(profile)
  BY ProfileSound, OutIs DEF Alone
<1>2. PICK t : t = e.target
  OBVIOUS
<1>3. /\ t \in Nodes(profile) /\ t # "verification_join" /\ t \notin Branches(profile)
  BY <1>1, <1>2, Targets
<1>4. /\ active' = {t} /\ reported' = {} /\ profile' = profile
      /\ acceptance' \in PlanAfter(n, e.outcome)
      /\ passed' = PassedAfter(n, e.outcome, {t})
      /\ sessions' = sessions \cup ({t} \cap Retained)
      /\ ending' = EndingAfter(e.outcome)
  BY <1>1, <1>2, <1>3 DEF Follow, Only
<1>5. Alone(t)'
  BY <1>3, <1>4 DEF Alone
<1>6. t \in OnPlan \/ (t \in Writers /\ t # n) => acceptance' = "accepted"
  BY <1>1, <1>2, <1>4, CarriesPlan DEF Known
<1>7. SessionsAt(t) \subseteq sessions'
  BY <1>1, <1>2, <1>4, CarriesSessions DEF Known
<1>8. JudgedAt(t)' \subseteq passed'
  <2>1. JudgedAt(t)' = JudgedAt(t)
    BY <1>4 DEF JudgedAt, Needed, Delivery
  <2>2. QED
    BY <1>1, <1>2, <1>4, <2>1, CarriesJudged DEF Known
<1>9. EndedAt(t)'
  BY <1>1, <1>2, <1>4, CarriesEnded DEF Known, EndedAt
<1>10. Known(t)'
  BY <1>6, <1>7, <1>8, <1>9 DEF Known
<1>11. QED
  BY <1>2, <1>4, <1>5, <1>6, <1>10

\* Nothing is known of one branch that is not known of another.
LEMMA BranchesAlike ==
    ASSUME Sound(profile), NEW b \in Branches(profile)
    PROVE  Known(b) <=> Known("deterministic_verify")
<1>1. b \in {"deterministic_verify", "standards_review", "spec_review"}
  BY BranchesAre
<1>2. SessionsAt(b) = SessionsAt("deterministic_verify")
  BY <1>1 DEF SessionsAt
<1>3. JudgedAt(b) = JudgedAt("deterministic_verify")
  BY <1>1 DEF JudgedAt, Delivery
<1>4. EndedAt(b) /\ EndedAt("deterministic_verify")
  BY <1>1 DEF EndedAt
<1>5. b \in OnPlan /\ "deterministic_verify" \in OnPlan
  BY <1>1 DEF OnPlan
<1>6. QED
  BY <1>2, <1>3, <1>4, <1>5 DEF Known

\* What is known of a branch.
LEMMA KnownBranch ==
    ASSUME Sound(profile)
    PROVE  Known("deterministic_verify") <=>
             acceptance = "accepted" /\ "plan" \in sessions /\ "plan_review" \in sessions
<1>1. JudgedAt("deterministic_verify") = {} /\ EndedAt("deterministic_verify")
  BY DEF JudgedAt, EndedAt, Delivery, Only
<1>2. SessionsAt("deterministic_verify") \subseteq sessions
        <=> "plan" \in sessions /\ "plan_review" \in sessions
  BY SessionsAre
<1>3. QED
  BY <1>1, <1>2 DEF Known, OnPlan

\* The nodes that every graph has, or has with its join.
LEMMA Inner ==
    ASSUME NEW p, Sound(p)
    PROVE  /\ Branches(p) \subseteq Nodes(p) \ {"verification_join"}
           /\ "verification_dispatch" \in Nodes(p)
           /\ Joined(p) => "verification_join" \in Nodes(p)
           /\ "verification_gate" \in Nodes(p) \ (Branches(p) \cup {"verification_join"})
           /\ "backlog" \in Nodes(p) \ (Branches(p) \cup {"verification_join"})
<1>1. PICK b : b = Branches(p)
  OBVIOUS
<1>2. b \subseteq {"deterministic_verify", "standards_review", "spec_review"}
  BY <1>1, BranchesAre
<1>3. QED
  BY <1>1, <1>2 DEF Nodes, Only

\* The fan-out starts the branches.
LEMMA FollowFan ==
    ASSUME profile \in Profiles, NEW n, Alone(n), Known(n),
           NEW group, group = {e \in Out(n) : e.outcome = "fanout_verify"}, group # {},
           Follow(n, "fanout_verify", group), waiting' = {}
    PROVE  GraphInv' /\ acceptance' = "accepted" /\ active' \cap Writers = {}
<1>1. /\ Sound(profile) /\ n \in Nodes(profile) /\ n # "verification_join"
      /\ \A e \in group : e \in Edges(profile) /\ e.source = n /\ e.outcome = "fanout_verify"
      /\ active = {n} /\ reported = {}
      /\ group = {e \in Edges(profile) : e.source = n /\ e.outcome = "fanout_verify"}
  BY ProfileSound, OutIs DEF Alone
<1>2. n = "verification_dispatch"
  BY <1>1, Outright
<1>3. PICK b : b = Branches(profile)
  OBVIOUS
<1>4. /\ b \subseteq {"deterministic_verify", "standards_review", "spec_review"}
      /\ "deterministic_verify" \in b /\ (~Joined(profile) => b = {"deterministic_verify"})
      /\ b \subseteq Nodes(profile) \ {"verification_join"}
  BY <1>1, <1>3, BranchesAre, Inner
<1>5. {e.target : e \in group} = b
  <2>1. ASSUME NEW e \in group PROVE e.target \in b
    BY <1>1, <1>3, <2>1, Outright
  <2>2. ASSUME NEW t \in b PROVE \E e \in group : e.target = t
    <3>1. PICK e : e = Edge("verification_dispatch", "fanout_verify", t)
      OBVIOUS
    <3>2. e \in Edges(profile)
      BY <1>3, <2>2, <3>1, EdgesHold DEF DispatchEdges
    <3>3. e.source = "verification_dispatch" /\ e.outcome = "fanout_verify" /\ e.target = t
      BY <3>1 DEF Edge
    <3>4. QED
      BY <1>1, <1>2, <3>2, <3>3
  <2>3. QED
    BY <2>1, <2>2
<1>6. /\ active' = b /\ reported' = {} /\ profile' = profile
      /\ acceptance' = acceptance /\ sessions \subseteq sessions'
  BY <1>1, <1>2, <1>4, <1>5 DEF Follow, PlanAfter, Writers, Only
<1>7. Known("deterministic_verify")'
  <2>1. acceptance = "accepted"
    BY <1>2 DEF Known, OnPlan
  <2>2. "plan" \in sessions /\ "plan_review" \in sessions
    BY <1>2, SessionsAre DEF Known
  <2>3. SessionsAt("deterministic_verify") \subseteq sessions'
    BY <1>6, <2>2, SessionsAre
  <2>4. JudgedAt("deterministic_verify")' = {} /\ EndedAt("deterministic_verify")'
    BY DEF JudgedAt, EndedAt, Delivery, Only
  <2>5. QED
    BY <1>6, <2>1, <2>3, <2>4 DEF Known
<1>8. ASSUME Joined(profile) PROVE GraphInv'
  <2>1. Round'
    BY <1>3, <1>6, <1>8 DEF Round
  <2>2. QED
    BY <1>6, <1>7, <2>1 DEF GraphInv
<1>9. ASSUME ~Joined(profile) PROVE GraphInv'
  <2>1. Alone("deterministic_verify")'
    BY <1>4, <1>6, <1>9 DEF Alone
  <2>2. "deterministic_verify" \in active'
    BY <1>4, <1>6
  <2>3. QED
    BY <1>6, <1>7, <2>1, <2>2 DEF GraphInv
<1>10. acceptance' = "accepted" /\ active' \cap Writers = {}
  BY <1>2, <1>4, <1>6 DEF Known, OnPlan, Writers
<1>11. QED
  BY <1>8, <1>9, <1>10

\* A branch reports.
LEMMA FollowReport ==
    ASSUME profile \in Profiles, Round, Known("deterministic_verify"),
           NEW n \in active, NEW o, NEW group \in SUBSET Out(n), group # {},
           Follow(n, o, group), waiting' = {}
    PROVE  GraphInv' /\ active' \subseteq active
<1>1. /\ Sound(profile) /\ n \in Branches(profile) /\ n \in Nodes(profile) /\ Joined(profile)
      /\ n \in {"deterministic_verify", "standards_review", "spec_review"}
  BY ProfileSound, BranchesAre, Inner DEF Round
<1>2. \A e \in group : e.target = "verification_join"
  BY <1>1, OutIs, Targets
<1>3. {e.target : e \in group} = {"verification_join"}
  BY <1>2
<1>4. /\ active' = active \ {n} /\ reported' = reported \cup {n} /\ profile' = profile
      /\ acceptance' = acceptance /\ sessions' = sessions
  BY <1>1, <1>3 DEF Follow, PlanAfter, Writers, Only, Retained
<1>5. Round'
  BY <1>1, <1>4 DEF Round
<1>6. Known("deterministic_verify")'
  <2>1. JudgedAt("deterministic_verify")' = {} /\ EndedAt("deterministic_verify")'
    BY DEF JudgedAt, EndedAt, Delivery, Only
  <2>2. QED
    BY <1>4, <2>1 DEF Known
<1>7. QED
  BY <1>4, <1>5, <1>6 DEF GraphInv

\* The join continues with the gate.
LEMMA JoinStep ==
    ASSUME GraphInv, Join
    PROVE  GraphInv' /\ acceptance' = "accepted" /\ active' = {"verification_gate"}
<1>1. Round /\ Known("deterministic_verify") /\ profile \in Profiles
  BY DEF GraphInv, Alone, Join
<1>2. Sound(profile) /\ Joined(profile) /\ active = {} /\ "verification_join" \in Nodes(profile)
      /\ "verification_gate" \in Nodes(profile) \ (Branches(profile) \cup {"verification_join"})
  BY <1>1, ProfileSound, Inner DEF Round, Join
<1>3. {e.target : e \in Out("verification_join")} = {"verification_gate"}
  <2>1. \A e \in Out("verification_join") : e.target = "verification_gate"
    BY <1>1, <1>2, OutIs, Targets
  <2>2. PICK e : e = Edge("verification_join", "evaluate", "verification_gate")
    OBVIOUS
  <2>3. e \in Edges(profile)
    BY <1>2, <2>2, EdgesHold DEF ReportEdges
  <2>4. e.source = "verification_join"
    BY <2>2 DEF Edge
  <2>5. e \in Out("verification_join")
    BY <1>1, <1>2, <2>3, <2>4, OutIs
  <2>6. QED
    BY <2>1, <2>5
<1>4. /\ active' = {"verification_gate"} /\ reported' = {} /\ waiting' = {} /\ profile' = profile
      /\ acceptance' = acceptance /\ sessions' = sessions
      /\ passed' = PassedAfter("verification_join", "evaluate", {"verification_gate"})
  BY <1>1, <1>2, <1>3 DEF Join, Round
<1>5. Alone("verification_gate")'
  BY <1>2, <1>4 DEF Alone
<1>6. acceptance = "accepted" /\ "plan" \in sessions /\ "plan_review" \in sessions
  BY <1>1, <1>2, KnownBranch
<1>7. SessionsAt("verification_gate") \subseteq sessions'
  BY <1>4, <1>6, SessionsAre
<1>8. JudgedAt("verification_gate")' \subseteq passed'
  <2>1. JudgedAt("verification_gate")' = {"round"}
    BY DEF JudgedAt, Delivery, Only
  <2>2. "round" \in passed'
    BY <1>4, PassedIs DEF Writers
  <2>3. QED
    BY <2>1, <2>2
<1>9. Known("verification_gate")'
  BY <1>4, <1>6, <1>7, <1>8 DEF Known, EndedAt
<1>10. QED
  BY <1>1, <1>4, <1>5, <1>6, <1>9 DEF GraphInv

\* Where writing and judging begins, as PlanBound has it.
Bound == Writers \cup Branches(profile) \cup
            {"verification_dispatch", "verification_gate", "smoke", "compliance", "prepare_pr"}

\* Where writing and judging begins is where only the accepted plan leads, or a writer.
LEMMA BoundOnPlan ==
    ASSUME Sound(profile)
    PROVE  Bound \subseteq Writers \cup OnPlan
<1>1. PICK b : b = Branches(profile)
  OBVIOUS
<1>2. b \subseteq {"deterministic_verify", "standards_review", "spec_review"}
  BY <1>1, BranchesAre
<1>3. QED
  BY <1>1, <1>2 DEF Bound, OnPlan

\* A script that vouches for the plan has found it accepted.
LEMMA StableAccepted ==
    ASSUME NEW n \in {"plan_contract_continue", "plan_contract_verify", "plan_contract_fix_continue"},
           "stable" \in Outcomes(n)
    PROVE  acceptance = "accepted"
<1>1. Answers(n) = {"changed"} \cup Only(acceptance = "accepted", {"stable"})
  BY DEF Answers
<1>2. n \in Scripts
  BY DEF Scripts
<1>3. QED
  BY <1>1, <1>2 DEF Outcomes, Only

Kept == GraphInv' /\ \A n \in Bound : n \in active' \ active => acceptance' = "accepted"

\* An answer that the graph has edges for.
LEMMA FollowedStep ==
    ASSUME GraphInv, waiting = {}, NEW n \in active, NEW o \in Outcomes(n), NEW group,
           group = {e \in Out(n) : e.outcome = o}, Pass(n, o, group) \/ Park(group)
    PROVE  Kept
<1>1. profile \in Profiles /\ Sound(profile) /\ waiting = {}
  BY ProfileSound DEF GraphInv
<1>2. /\ group = {e \in Out(n) : e.outcome = o}
      /\ Pass(n, o, group) \/ Park(group)
  OBVIOUS
<1>3. group # {} /\ \A e \in group : e.outcome = o
  BY <1>2 DEF Pass, Park
<1>4. CASE Round /\ Known("deterministic_verify")
  <2>1. n \in Branches(profile) /\ n \in Nodes(profile) /\ Joined(profile)
    BY <1>1, <1>4, Inner DEF Round
  <2>2. \A e \in group : ~e.approval
    BY <1>1, <1>2, <2>1, OutIs, Targets
  <2>3. Follow(n, o, group) /\ waiting' = {}
    BY <1>1, <1>2, <2>2 DEF Pass, Park
  <2>4. GraphInv' /\ active' \subseteq active
    BY <1>1, <1>2, <1>3, <1>4, <2>3, FollowReport
  <2>5. QED
    BY <2>4 DEF Kept
<1>5. CASE Alone(n) /\ Known(n)
  <2>1. n \in Nodes(profile)
    BY <1>5 DEF Alone
  <2>2. \A e \in group : e \in Edges(profile) /\ e.source = n
    BY <1>1, <1>2, <2>1, OutIs
  <2>3. CASE o = "fanout_verify"
    <3>1. \A e \in group : ~e.approval
      BY <1>1, <1>3, <2>2, <2>3, Outright
    <3>2. Follow(n, "fanout_verify", group) /\ waiting' = {}
      BY <1>1, <1>2, <2>3, <3>1 DEF Pass, Park
    <3>3. GraphInv' /\ acceptance' = "accepted"
      BY <1>1, <1>2, <1>3, <1>5, <2>3, <3>2, FollowFan
    <3>4. QED
      BY <3>3 DEF Kept
  <2>4. CASE o # "fanout_verify"
    <3>1. PICK e \in group : TRUE
      BY <1>3
    <3>2. /\ {f.target : f \in group} = {e.target}
          /\ \A f \in group : f.approval = e.approval
      BY <1>1, <1>2, <1>3, <2>1, <2>4, <3>1, OneTarget
    <3>3. CASE Pass(n, o, group)
      <4>1. e \in Out(n) /\ e.outcome = o /\ Follow(n, e.outcome, group) /\ waiting' = {}
        BY <1>1, <1>2, <1>3, <3>1, <3>3 DEF Pass
      <4>2. e.outcome = "stable" => acceptance = "accepted"
        BY <1>1, <1>2, <2>2, <3>1, <4>1, Outright, StableAccepted
      <4>3. /\ profile' = profile /\ active' = {e.target}
            /\ Alone(e.target)' /\ Known(e.target)'
            /\ e.target \in Writers /\ e.target # n => acceptance' = "accepted"
        BY <1>1, <1>5, <2>4, <3>2, <4>1, <4>2, FollowOne
      <4>4. GraphInv'
        BY <1>1, <4>3 DEF GraphInv
      <4>5. active = {n}
        BY <1>5 DEF Alone
      <4>6. e.target \in OnPlan => acceptance' = "accepted"
        BY <4>3 DEF Known
      <4>7. QED
        BY <1>1, <4>3, <4>4, <4>5, <4>6, BoundOnPlan DEF Kept
    <3>4. CASE Park(group)
      <4>1. \A f \in group : f.approval
        BY <3>2, <3>4 DEF Park
      <4>2. Alone(n)' /\ Known(n)' /\ active' = active /\ profile' = profile
        BY <1>2, <1>3, <1>5, <3>4, <4>1
           DEF Park, Alone, Known, Out, JudgedAt, Needed, Delivery, EndedAt
      <4>3. GraphInv'
        BY <1>1, <4>2 DEF GraphInv
      <4>4. QED
        BY <4>2, <4>3 DEF Kept
    <3>5. QED
      BY <1>2, <3>3, <3>4
  <2>5. QED
    BY <2>3, <2>4
<1>6. QED
  BY <1>4, <1>5 DEF GraphInv, Alone

\* An answer that the graph has no edge for: the plan contract at most accepts.
LEMMA RefusedStep ==
    ASSUME GraphInv, waiting = {}, NEW n \in active, NEW o \in Outcomes(n), NEW group,
           group = {e \in Out(n) : e.outcome = o}, Refused(n, o, group)
    PROVE  Kept
<1>1. /\ profile' = profile /\ active' = active /\ reported' = reported /\ waiting' = waiting
      /\ passed' = passed /\ sessions' = sessions /\ ending' = ending
  BY DEF Refused
<1>2. n \in Scripts
  BY DEF Outcomes, Choices, Refused
<1>3. acceptance' \in {acceptance, "accepted"}
  <2>1. n \notin {"plan", "plan_revalidation"} \cup Writers
    BY <1>2 DEF Scripts, Writers
  <2>2. QED
    BY <2>1 DEF Refused, PlanAfter
<1>4. ASSUME NEW m, Known(m) PROVE Known(m)'
  <2>1. JudgedAt(m)' = JudgedAt(m) /\ (EndedAt(m)' <=> EndedAt(m))
    BY <1>1 DEF JudgedAt, Needed, Delivery, EndedAt
  <2>2. QED
    BY <1>1, <1>3, <1>4, <2>1 DEF Known
<1>5. ASSUME NEW m PROVE Alone(m)' <=> Alone(m)
  BY <1>1 DEF Alone, Out
<1>6. Round' <=> Round
  BY <1>1 DEF Round
<1>7. QED
  BY <1>1, <1>4, <1>5, <1>6 DEF GraphInv, Kept

\* An agent or a script answers.
LEMMA WorkStep ==
    ASSUME GraphInv, NEW n \in active, Work(n)
    PROVE  Kept
<1>1. profile \in Profiles /\ Sound(profile) /\ waiting = {}
  BY ProfileSound DEF GraphInv, Work
<1>2. PICK o \in Outcomes(n), group \in SUBSET Out(n) :
            /\ group = {e \in Out(n) : e.outcome = o}
            /\ Pass(n, o, group) \/ Park(group) \/ Refused(n, o, group)
  BY DEF Work
<1>3. \A e \in group : e.outcome = o
  BY <1>2
<1>4. CASE Refused(n, o, group)
  BY <1>1, <1>2, <1>4, RefusedStep
<1>5. CASE Pass(n, o, group) \/ Park(group)
  BY <1>1, <1>2, <1>3, <1>5, FollowedStep
<1>6. QED
  BY <1>2, <1>4, <1>5

\* The user approves what is parked.
LEMMA ApproveStep ==
    ASSUME GraphInv, Approve
    PROVE  Kept
<1>1. profile \in Profiles /\ Sound(profile)
  BY ProfileSound DEF GraphInv
<1>2. PICK e \in waiting : Follow(e.source, e.outcome, waiting)
  BY DEF Approve
<1>3. waiting' = {}
  BY DEF Approve
<1>4. PICK n \in active : Alone(n) /\ Known(n)
  BY <1>2 DEF GraphInv, Round
<1>5. /\ n \in Nodes(profile) /\ waiting \subseteq Out(n) /\ active = {n}
      /\ \A f \in waiting : f.approval /\ f.outcome = e.outcome
  BY <1>2, <1>4 DEF Alone
<1>6. e \in Edges(profile) /\ e.source = n /\ e.approval
  BY <1>1, <1>2, <1>5, OutIs
<1>7. e.outcome # "fanout_verify" /\ e.outcome # "stable"
  BY <1>1, <1>6, Outright
<1>8. {f.target : f \in waiting} = {e.target}
  BY <1>1, <1>2, <1>5, <1>7, OneTarget
<1>9. /\ profile' = profile /\ active' = {e.target}
      /\ Alone(e.target)' /\ Known(e.target)'
      /\ e.target \in Writers /\ e.target # n => acceptance' = "accepted"
  BY <1>1, <1>2, <1>3, <1>4, <1>5, <1>6, <1>7, <1>8, FollowOne
<1>10. GraphInv'
  BY <1>1, <1>9 DEF GraphInv
<1>11. e.target \in OnPlan => acceptance' = "accepted"
  BY <1>9 DEF Known
<1>12. QED
  BY <1>1, <1>5, <1>9, <1>10, <1>11, BoundOnPlan DEF Kept

\* What is known does not depend on the pull request.
LEMMA StillKnown ==
    ASSUME GraphInv,
           UNCHANGED <<profile, active, reported, waiting, acceptance, passed, sessions, ending>>
    PROVE  Kept
<1>1. /\ profile' = profile /\ active' = active /\ reported' = reported /\ waiting' = waiting
      /\ acceptance' = acceptance /\ passed' = passed /\ sessions' = sessions /\ ending' = ending
  OBVIOUS
<1>2. ASSUME NEW n PROVE Known(n)' <=> Known(n)
  <2>1. JudgedAt(n)' = JudgedAt(n) /\ (EndedAt(n)' <=> EndedAt(n))
    BY <1>1 DEF JudgedAt, Needed, Delivery, EndedAt
  <2>2. QED
    BY <1>1, <2>1 DEF Known
<1>3. ASSUME NEW n PROVE Alone(n)' <=> Alone(n)
  BY <1>1 DEF Alone, Out
<1>4. Round' <=> Round
  BY <1>1 DEF Round
<1>5. QED
  BY <1>1, <1>2, <1>3, <1>4 DEF GraphInv, Kept

\* A step of the engine, an agent, a script or the user keeps the invariant, and
\* begins to write or to judge on the accepted plan only.
LEMMA GraphStep ==
    ASSUME GraphInv, [GraphNext]_graphVars
    PROVE  Kept
<1>1. CASE \E n \in active : Work(n)
  BY <1>1, WorkStep
<1>2. CASE Approve
  BY <1>2, ApproveStep
<1>3. CASE Join
  BY <1>3, JoinStep DEF Kept
<1>4. CASE Merge
  BY <1>4, StillKnown DEF Merge
<1>5. CASE Finished \/ UNCHANGED graphVars
  BY <1>5, StillKnown DEF Finished, graphVars
<1>6. QED
  BY <1>1, <1>2, <1>3, <1>4, <1>5 DEF GraphNext

\* A Task starts with nothing known and nothing needed.
LEMMA GraphStart ==
    ASSUME GraphInit
    PROVE  GraphInv
<1>1. profile \in Profiles /\ Sound(profile) /\ active = {"backlog"} /\ reported = {} /\ waiting = {}
  BY ProfileSound DEF GraphInit
<1>2. Alone("backlog")
  BY <1>1, Inner DEF Alone
<1>3. Known("backlog")
  <2>1. SessionsAt("backlog") = {} /\ JudgedAt("backlog") = {} /\ EndedAt("backlog")
    BY DEF SessionsAt, JudgedAt, EndedAt, Delivery, Only
  <2>2. QED
    BY <2>1 DEF Known, OnPlan
<1>4. QED
  BY <1>1, <1>2, <1>3 DEF GraphInv

\* What GraphInv knows holds wherever a node runs, for every valid profile and every
\* choice of outcomes: one node runs alone, or the branches of one round.
THEOREM GraphHolds == GraphSpec => []GraphInv
<1>1. GraphInit => GraphInv
  BY GraphStart
<1>2. GraphInv /\ [GraphNext]_graphVars => GraphInv'
  BY GraphStep DEF Kept
<1>3. QED
  BY <1>1, <1>2, PTL DEF GraphSpec

\* In the generated delivery workflow of every valid profile a plan that has changed
\* since its acceptance passes the plan contract before anyone writes or judges on it.
THEOREM PlanIsBound == GraphSpec => PlanBound
<1>1. GraphInv /\ [GraphNext]_graphVars
      => [\A n \in Writers \cup Branches(profile) \cup
                {"verification_dispatch", "verification_gate", "smoke", "compliance", "prepare_pr"} :
            n \in active' \ active => acceptance' = "accepted"]_graphVars
  BY GraphStep DEF Kept, Bound
<1>2. QED
  BY <1>1, GraphHolds, PTL DEF GraphSpec, PlanBound

\* Whatever runs is a node of the graph, and what is known of it holds.
LEMMA KnownActive ==
    ASSUME GraphInv, NEW n \in active
    PROVE  /\ profile \in Profiles /\ Sound(profile)
           /\ n \in Nodes(profile) /\ n # "verification_join"
           /\ Known(n)
<1>1. profile \in Profiles /\ Sound(profile)
  BY ProfileSound DEF GraphInv
<1>2. CASE Round /\ Known("deterministic_verify")
  <2>1. n \in Branches(profile)
    BY <1>2 DEF Round
  <2>2. QED
    BY <1>1, <1>2, <2>1, Inner, BranchesAlike
<1>3. CASE Alone(n) /\ Known(n)
  BY <1>1, <1>3 DEF Alone
<1>4. QED
  BY <1>2, <1>3 DEF GraphInv, Alone

\* What is known of the running nodes implies that what they do was judged.
LEMMA JudgedHolds ==
    ASSUME GraphInv
    PROVE  Judged
<1>1. \A n \in active : n \in Nodes(profile) /\ Known(n)
  BY KnownActive
<1>2. profile \in Profiles /\ Sound(profile)
  BY ProfileSound DEF GraphInv
<1>3. Assured
  <2>1. \A n \in active : JudgedAt(n) \subseteq passed
    BY <1>1 DEF Known
  <2>2. \A n \in Delivery : Needed \subseteq JudgedAt(n)
    BY DEF JudgedAt, Only
  <2>3. QED
    BY <2>1, <2>2 DEF Assured
<1>4. WholeRound
  <2>1. PICK b : b = Branches(profile)
    OBVIOUS
  <2>2. b \subseteq {"deterministic_verify", "standards_review", "spec_review"}
    BY <1>2, <2>1, BranchesAre
  <2>3. CASE Round
    BY <2>1, <2>2, <2>3 DEF Round, WholeRound, Writers
  <2>4. ASSUME NEW m \in active, Alone(m) PROVE WholeRound
    BY <2>1, <2>2, <2>4 DEF Alone, WholeRound, Writers
  <2>5. QED
    BY <2>3, <2>4 DEF GraphInv
<1>5. DoneJustified
  BY <1>1 DEF Known, EndedAt, DoneJustified
<1>6. QED
  BY <1>3, <1>4, <1>5 DEF Judged

\* Whatever a generated workflow delivers or ends was judged, whole and on the work as
\* it stands, and ends as its profile or its user allows.
THEOREM JudgedAlways == GraphSpec => []Judged
<1>1. GraphInv => Judged
  BY JudgedHolds
<1>2. QED
  BY <1>1, GraphHolds, PTL

\* What the edges continue.
LEMMA Contexts ==
    ASSUME NEW p, Sound(p), NEW e \in Edges(p)
    PROVE  /\ e.context = "plan" => e.source \notin {"backlog", "wont_do"}
           /\ e.context = "previous" =>
                 \/ e.source = "plan_revalidation" /\ e.target = "plan_review"
                 \/ e.source = "evidence_repair" /\ e.target = "compliance"
                 \/ e.source = "merge_watch" /\ e.target = "waiting_pr"
                 \/ e.source = "task_janitor" /\ e.target = "cleanup"
           /\ e.context = "immediate" => e.source \notin Scripts
<1>1. Wired(p, e)
  BY Table
<1>2. PICK b : b = Branches(p)
  OBVIOUS
<1>3. /\ b \subseteq {"deterministic_verify", "standards_review", "spec_review"}
      /\ "deterministic_verify" \in b
  BY <1>2, BranchesAre
<1>4. CASE Prepares(p, e)
  BY <1>4 DEF Prepares, Leads, Returns, Asks, Stops, Resumes, Pauses, Revalidates, Goes, Scripts
<1>5. CASE Verifies(p, e)
  BY <1>2, <1>3, <1>5 DEF Verifies, Leads, Returns, Asks, Stops, Resumes,
     Pauses, Replans, Revalidates, Merges, Goes, Scripts
<1>6. CASE Delivers(p, e)
  BY <1>6 DEF Delivers, Leads, Returns, Asks, Resumes, Pauses, Merges, Goes, Scripts
<1>7. QED
  BY <1>1, <1>4, <1>5, <1>6 DEF Wired

\* What is known of the running nodes implies that what they continue exists.
LEMMA ContextHolds ==
    ASSUME GraphInv
    PROVE  ContextExists
<1>1. ASSUME NEW n \in active, NEW e \in Out(n)
      PROVE  /\ e.context = "plan" => "plan" \in sessions
             /\ e.context = "previous" => e.target \in sessions
             /\ e.context = "immediate" => e.source \notin Scripts
  <2>1. /\ Sound(profile) /\ SessionsAt(n) \subseteq sessions
        /\ e \in Edges(profile) /\ e.source = n
    BY <1>1, KnownActive, OutIs DEF Known
  <2>2. /\ n # "backlog" => "plan" \in sessions
        /\ n \notin {"backlog", "plan", "wont_do"} => "plan_review" \in sessions
        /\ n \in {"compliance", "evidence_repair"} => "compliance" \in sessions
        /\ n \in {"waiting_pr", "merge_watch"} => "waiting_pr" \in sessions
        /\ n \in {"cleanup", "task_janitor"} => "cleanup" \in sessions
    BY <2>1, SessionsAre
  <2>3. QED
    BY <2>1, <2>2, Contexts
<1>2. QED
  BY <1>1 DEF ContextExists

-----------------------------------------------------------------------------
(* What there is to follow: the edges that scripts need, and a way to Done. *)

Way(p, s, o, t) == \E e \in Edges(p) : e.source = s /\ e.outcome = o /\ e.target = t

\* An edge that was generated is a way.
LEMMA WayOf ==
    ASSUME NEW p, NEW s, NEW o, NEW t
    PROVE  /\ Edge(s, o, t) \in Edges(p) => Way(p, s, o, t)
           /\ Approved(s, o, t) \in Edges(p) => Way(p, s, o, t)
           /\ \A c : Continue(s, o, t, c) \in Edges(p) => Way(p, s, o, t)
<1>1. Edge(s, o, t) \in Edges(p) => Way(p, s, o, t)
  BY EdgeIs DEF Way, Leads, Goes
<1>2. Approved(s, o, t) \in Edges(p) => Way(p, s, o, t)
  BY EdgeIs DEF Way, Asks, Goes
<1>3. \A c : Continue(s, o, t, c) \in Edges(p) => Way(p, s, o, t)
  BY EdgeIs DEF Way, Returns, Goes
<1>4. QED
  BY <1>1, <1>2, <1>3

\* The ways on the plan's side, and out of its scripts.
LEMMA WaysToWriters ==
    ASSUME NEW p, Sound(p)
    PROVE  /\ Way(p, "backlog", "start", "plan")
           /\ Way(p, "plan", "review_plan", "plan_review")
           /\ Way(p, "plan_review", "accepted", "plan_contract")
           /\ Way(p, "plan_revalidation", "resume_verify", "plan_contract_verify")
           /\ \E t : Way(p, "plan_contract", "start", t)
           /\ Way(p, "plan_contract", "continue", "implement")
           /\ Way(p, "plan_contract", "verify", "verification_dispatch")
           /\ p.fresh => Way(p, "plan_contract", "fix_continue", "fix")
           /\ Way(p, "plan_contract", "revalidate", "plan_revalidation")
           /\ Way(p, "plan_contract_continue", "stable", "implement")
           /\ Way(p, "plan_contract_continue", "changed", "plan_revalidation")
           /\ Way(p, "plan_contract_verify", "stable", "verification_dispatch")
           /\ Way(p, "plan_contract_verify", "changed", "plan_revalidation")
           /\ p.fresh => /\ Way(p, "plan_contract_fix_continue", "stable", "fix")
                         /\ Way(p, "plan_contract_fix_continue", "changed", "plan_revalidation")
           /\ p.identity => /\ Way(p, "branch_identity", "ready", "implement")
                            /\ Way(p, "branch_identity", "blocked", "branch_identity_resolution")
                            /\ Way(p, "branch_identity_resolution", "retry", "branch_identity")
                            /\ p.coder => Way(p, "branch_identity", "revalidate", "plan_revalidation")
<1>1. /\ Way(p, "backlog", "start", "plan")
      /\ Way(p, "plan", "review_plan", "plan_review")
  BY WayOf, EdgesHold DEF StartEdges
<1>2. Way(p, "plan_review", "accepted", "plan_contract")
  BY WayOf, EdgesHold DEF ReviewEdges
<1>3. /\ Way(p, "plan_revalidation", "resume_verify", "plan_contract_verify")
      /\ Way(p, "plan_contract_continue", "changed", "plan_revalidation")
      /\ Way(p, "plan_contract_verify", "changed", "plan_revalidation")
  BY WayOf, EdgesHold DEF RevalidationEdges
<1>4. /\ Way(p, "plan_contract", "continue", "implement")
      /\ Way(p, "plan_contract", "verify", "verification_dispatch")
      /\ p.fresh => Way(p, "plan_contract", "fix_continue", "fix")
      /\ Way(p, "plan_contract_continue", "stable", "implement")
      /\ Way(p, "plan_contract_verify", "stable", "verification_dispatch")
      /\ p.fresh => Way(p, "plan_contract_fix_continue", "stable", "fix")
  BY WayOf, EdgesHold DEF GuardEdges, Only
<1>5. p.fresh => Way(p, "plan_contract_fix_continue", "changed", "plan_revalidation")
  BY WayOf, EdgesHold DEF FreshEdges, Only
<1>6. /\ Way(p, "plan_contract", "revalidate", "plan_revalidation")
      /\ p.identity /\ p.coder => Way(p, "branch_identity", "revalidate", "plan_revalidation")
  BY WayOf, EdgesHold DEF RevalidateEdges, Only
<1>7. /\ \E t : Way(p, "plan_contract", "start", t)
      /\ p.identity => /\ Way(p, "branch_identity", "ready", "implement")
                       /\ Way(p, "branch_identity", "blocked", "branch_identity_resolution")
                       /\ Way(p, "branch_identity_resolution", "retry", "branch_identity")
  BY WayOf, EdgesHold DEF IdentityEdges
<1>8. QED
  BY <1>1, <1>2, <1>3, <1>4, <1>5, <1>6, <1>7

\* The ways from the writers to the gate and past it.
LEMMA WaysToGate ==
    ASSUME NEW p, Sound(p)
    PROVE  /\ Way(p, "implement", "verify", "plan_contract_verify")
           /\ Way(p, "fix", "verify", "plan_contract_verify")
           /\ Way(p, "verification_dispatch", "fanout_verify", "deterministic_verify")
           /\ Way(p, "verification_dispatch", "invalid_workspace", "fix")
           /\ Joined(p) => /\ \A b \in Branches(p) : Way(p, b, "reported", "verification_join")
                           /\ Way(p, "verification_join", "evaluate", "verification_gate")
           /\ ~Joined(p) => Way(p, "deterministic_verify", "reported", "verification_gate")
           /\ p.smoke # "disabled" => /\ Way(p, "verification_gate", "smoke_required", "smoke")
                                      /\ Way(p, "smoke", "passed", PostSmokeTarget(p))
           /\ p.smoke # "required" => Way(p, "verification_gate", "delivery_ready", PostSmokeTarget(p))
<1>1. /\ Way(p, "implement", "verify", "plan_contract_verify")
      /\ Way(p, "fix", "verify", "plan_contract_verify")
  BY WayOf, EdgesHold DEF WriterEdges
<1>2. /\ Way(p, "verification_dispatch", "fanout_verify", "deterministic_verify")
      /\ Way(p, "verification_dispatch", "invalid_workspace", "fix")
  BY WayOf, EdgesHold, BranchesAre DEF DispatchEdges
<1>3. /\ Joined(p) => /\ \A b \in Branches(p) : Way(p, b, "reported", "verification_join")
                      /\ Way(p, "verification_join", "evaluate", "verification_gate")
      /\ ~Joined(p) => Way(p, "deterministic_verify", "reported", "verification_gate")
  BY WayOf, EdgesHold DEF ReportEdges
<1>4. /\ p.smoke # "disabled" => Way(p, "verification_gate", "smoke_required", "smoke")
      /\ p.smoke # "required" => Way(p, "verification_gate", "delivery_ready", PostSmokeTarget(p))
  BY WayOf, EdgesHold DEF GateEdges, Only
<1>5. p.smoke # "disabled" => Way(p, "smoke", "passed", PostSmokeTarget(p))
  BY WayOf, EdgesHold DEF SmokeEdges, Only
<1>6. QED
  BY <1>1, <1>2, <1>3, <1>4, <1>5

\* A merge has its way.
LEMMA MergedWay ==
    ASSUME NEW p, NEW s, Merged(p, s) \in Edges(p)
    PROVE  Way(p, s, "pr_merged", MergedTarget(p))
<1>1. PICK m : m = Merged(p, s)
  OBVIOUS
<1>2. m.source = s /\ m.outcome = "pr_merged" /\ m.target = MergedTarget(p)
  BY <1>1 DEF Merged, Edge
<1>3. QED
  BY <1>1, <1>2 DEF Way

\* The ways of the delivery, and to Done.
LEMMA WaysToDone ==
    ASSUME NEW p, Sound(p)
    PROVE  /\ p.compliance => /\ Way(p, "compliance", "ship_pr", "prepare_pr")
                              /\ Way(p, "evidence_repair", "recheck_compliance", "compliance")
           /\ p.pulls => /\ Way(p, "prepare_pr", "no_pr", "cleanup")
                         /\ Way(p, "waiting_pr", "close_without_merge", "cleanup")
                         /\ Way(p, "merge_watch", "still_waiting", "merge_watch")
                         /\ Way(p, "merge_watch", "state_changed", "waiting_pr")
                         /\ Way(p, "merge_watch", "pr_merged", MergedTarget(p))
           /\ p.sourceCi => /\ Way(p, "ci_prepare", "ready_initial", "ci_watch")
                            /\ Way(p, "ci_prepare", "ready_retry", "ci_watch")
                            /\ Way(p, "ci_prepare", "failed", "ci_monitor")
                            /\ Way(p, "ci_prepare", "pr_merged", MergedTarget(p))
                            /\ Way(p, "ci_watch", "source_changed", "ci_prepare")
           /\ p.ci => /\ Way(p, "ci_watch", "passed", "waiting_pr")
                      /\ Way(p, "ci_watch", "state_changed", "waiting_pr")
                      /\ Way(p, "ci_watch", "failed", "ci_monitor")
                      /\ Way(p, "ci_watch", "pr_merged", MergedTarget(p))
                      /\ Way(p, "ci_monitor", "needs_changes", "fix")
           /\ p.publish => Way(p, "publish_package", "published", "cleanup")
           /\ p.worktrees => /\ Way(p, "cleanup", "run_janitor", "task_janitor")
                             /\ Way(p, "task_janitor", "done", "done")
                             /\ Way(p, "task_janitor", "blocked", "cleanup")
           /\ ~p.worktrees => Way(p, "cleanup", "done", "done")
<1>1. p.compliance => /\ Way(p, "compliance", "ship_pr", "prepare_pr")
                      /\ Way(p, "evidence_repair", "recheck_compliance", "compliance")
  BY WayOf, EdgesHold DEF ComplianceEdges, Only
<1>2. p.pulls => Way(p, "prepare_pr", "no_pr", "cleanup")
  BY WayOf, EdgesHold DEF PreparePrEdges, Only
<1>3. p.pulls => /\ Way(p, "waiting_pr", "close_without_merge", "cleanup")
                 /\ Way(p, "merge_watch", "still_waiting", "merge_watch")
                 /\ Way(p, "merge_watch", "state_changed", "waiting_pr")
  BY WayOf, EdgesHold DEF WaitingEdges, Only
<1>4. p.pulls => Way(p, "merge_watch", "pr_merged", MergedTarget(p))
  BY MergedWay, EdgesHold DEF WaitingEdges, Only
<1>5. p.sourceCi => /\ Way(p, "ci_prepare", "ready_initial", "ci_watch")
                    /\ Way(p, "ci_prepare", "ready_retry", "ci_watch")
                    /\ Way(p, "ci_prepare", "failed", "ci_monitor")
                    /\ Way(p, "ci_prepare", "pr_merged", MergedTarget(p))
  BY WayOf, MergedWay, EdgesHold DEF PrepareCiEdges, Only
<1>6. p.ci => /\ Way(p, "ci_watch", "passed", "waiting_pr")
              /\ Way(p, "ci_watch", "state_changed", "waiting_pr")
              /\ Way(p, "ci_watch", "failed", "ci_monitor")
              /\ Way(p, "ci_watch", "pr_merged", MergedTarget(p))
              /\ p.sourceCi => Way(p, "ci_watch", "source_changed", "ci_prepare")
  BY WayOf, MergedWay, EdgesHold DEF WatchCiEdges, Only
<1>7. p.ci => Way(p, "ci_monitor", "needs_changes", "fix")
  BY WayOf, EdgesHold DEF MonitorCiEdges, Only
<1>8. p.publish => Way(p, "publish_package", "published", "cleanup")
  BY WayOf, EdgesHold DEF PublishEdges, Only
<1>9. /\ p.worktrees => /\ Way(p, "cleanup", "run_janitor", "task_janitor")
                        /\ Way(p, "task_janitor", "done", "done")
                        /\ Way(p, "task_janitor", "blocked", "cleanup")
      /\ ~p.worktrees => Way(p, "cleanup", "done", "done")
  BY WayOf, EdgesHold DEF CleanupEdges
<1>10. QED
  BY <1>1, <1>2, <1>3, <1>4, <1>5, <1>6, <1>7, <1>8, <1>9, SoundIs

\* A step back keeps what is there and adds where the edges into it come from.
LEMMA StepBack ==
    ASSUME NEW p, NEW S
    PROVE  /\ S \subseteq Back(Edges(p), S)
           /\ \A s, o, t : Way(p, s, o, t) /\ t \in S => s \in Back(Edges(p), S)
  BY DEF Back, Way

\* From a node that delivers, Done is at most five edges away.
LEMMA DoneNear ==
    ASSUME NEW p, Sound(p), NEW E, E = Edges(p)
    PROVE  /\ "cleanup" \in Back4(E, {"done"})
           /\ p.worktrees => "task_janitor" \in Back4(E, {"done"})
           /\ p.pulls => {"prepare_pr", "waiting_pr", "merge_watch"} \subseteq Back4(E, {"done"})
           /\ p.publish => "publish_package" \in Back4(E, {"done"})
           /\ p.compliance => "compliance" \in Back4(E, {"done"})
           /\ p.ci => "ci_watch" \in Back4(E, {"done"})
<1>1. PICK S1, S2, S3, S4 :
         S1 = Back(E, {"done"}) /\ S2 = Back(E, S1) /\ S3 = Back(E, S2) /\ S4 = Back(E, S3)
  OBVIOUS
<1>2. /\ S1 \subseteq S2 /\ S2 \subseteq S3 /\ S3 \subseteq S4
  BY <1>1, StepBack
<1>3. /\ p.worktrees => "task_janitor" \in S1
      /\ ~p.worktrees => "cleanup" \in S1
  BY <1>1, StepBack, WaysToDone
<1>4. "cleanup" \in S2
  BY <1>1, <1>2, <1>3, StepBack, WaysToDone
<1>5. /\ p.pulls => "prepare_pr" \in S3 /\ "waiting_pr" \in S3
      /\ p.publish => "publish_package" \in S3
  BY <1>1, <1>4, StepBack, WaysToDone
<1>6. /\ p.pulls => "merge_watch" \in S4
      /\ p.compliance => "compliance" \in S4
      /\ p.ci => "ci_watch" \in S4
  BY <1>1, <1>5, StepBack, WaysToDone, SoundIs
<1>7. S4 = Back4(E, {"done"})
  BY <1>1 DEF Back4
<1>8. QED
  BY <1>2, <1>3, <1>4, <1>5, <1>6, <1>7

\* From the work on, it is at most eight.
LEMMA VerifyNear ==
    ASSUME NEW p, Sound(p), NEW E, E = Edges(p), NEW S,
           /\ "cleanup" \in S
           /\ p.pulls => "prepare_pr" \in S
           /\ p.compliance => "compliance" \in S
           /\ p.ci => "ci_watch" \in S
    PROVE  /\ S \subseteq Back4(E, S)
           /\ p.sourceCi => "ci_prepare" \in Back4(E, S)
           /\ p.compliance => "evidence_repair" \in Back4(E, S)
           /\ p.smoke # "disabled" => "smoke" \in Back4(E, S)
           /\ "verification_gate" \in Back4(E, S)
           /\ Branches(p) \subseteq Back4(E, S)
<1>1. PICK S1, S2, S3, S4 :
         S1 = Back(E, S) /\ S2 = Back(E, S1) /\ S3 = Back(E, S2) /\ S4 = Back(E, S3)
  OBVIOUS
<1>2. /\ S \subseteq S1 /\ S1 \subseteq S2 /\ S2 \subseteq S3 /\ S3 \subseteq S4
  BY <1>1, StepBack
<1>3. /\ p.sourceCi => "ci_prepare" \in S1
      /\ p.compliance => "evidence_repair" \in S1
  BY <1>1, StepBack, WaysToDone, SoundIs
<1>4. PostSmokeTarget(p) \in S
  BY SoundIs DEF PostSmokeTarget
<1>5. p.smoke # "disabled" => "smoke" \in S1
  BY <1>1, <1>4, StepBack, WaysToGate
<1>6. "verification_gate" \in S2
  <2>1. CASE p.smoke # "disabled"
    BY <1>1, <1>5, <2>1, StepBack, WaysToGate
  <2>2. CASE p.smoke = "disabled"
    BY <1>1, <1>2, <1>4, <2>2, StepBack, WaysToGate
  <2>3. QED
    BY <2>1, <2>2
<1>7. Branches(p) \subseteq S4
  <2>1. CASE Joined(p)
    <3>1. "verification_join" \in S3
      BY <1>1, <1>6, <2>1, StepBack, WaysToGate
    <3>2. QED
      BY <1>1, <2>1, <3>1, StepBack, WaysToGate
  <2>2. CASE ~Joined(p)
    <3>1. "deterministic_verify" \in S3
      BY <1>1, <1>6, <2>2, StepBack, WaysToGate
    <3>2. QED
      BY <1>2, <2>2, <3>1, BranchesAre
  <2>3. QED
    BY <2>1, <2>2
<1>8. S4 = Back4(E, S)
  BY <1>1 DEF Back4
<1>9. QED
  BY <1>2, <1>3, <1>5, <1>6, <1>7, <1>8

\* From the plan on, it is at most twelve, and one more before it.
LEMMA WorkNear ==
    ASSUME NEW p, Sound(p), NEW E, E = Edges(p), NEW S, "deterministic_verify" \in S
    PROVE  /\ S \subseteq Back4(E, S)
           /\ {"verification_dispatch", "plan_contract", "plan_contract_verify", "implement", "fix",
               "plan_review", "plan_revalidation", "plan", "plan_contract_continue"} \subseteq Back4(E, S)
           /\ p.fresh => "plan_contract_fix_continue" \in Back4(E, S)
           /\ p.identity => "branch_identity" \in Back4(E, S)
           /\ p.ci => "ci_monitor" \in Back4(E, S)
<1>1. PICK S1, S2, S3, S4 :
         S1 = Back(E, S) /\ S2 = Back(E, S1) /\ S3 = Back(E, S2) /\ S4 = Back(E, S3)
  OBVIOUS
<1>2. /\ S \subseteq S1 /\ S1 \subseteq S2 /\ S2 \subseteq S3 /\ S3 \subseteq S4
  BY <1>1, StepBack
<1>3. "verification_dispatch" \in S1
  BY <1>1, StepBack, WaysToGate
<1>4. "plan_contract" \in S2 /\ "plan_contract_verify" \in S2
  BY <1>1, <1>3, StepBack, WaysToWriters
<1>5. "implement" \in S3 /\ "fix" \in S3
  BY <1>1, <1>4, StepBack, WaysToGate
<1>6. "plan_review" \in S3 /\ "plan_revalidation" \in S3
  BY <1>1, <1>4, StepBack, WaysToWriters
<1>7. /\ "plan" \in S4 /\ "plan_contract_continue" \in S4
      /\ p.fresh => "plan_contract_fix_continue" \in S4
      /\ p.identity => "branch_identity" \in S4
  BY <1>1, <1>5, <1>6, StepBack, WaysToWriters
<1>8. p.ci => "ci_monitor" \in S4
  BY <1>1, <1>5, StepBack, WaysToDone
<1>9. S4 = Back4(E, S)
  BY <1>1 DEF Back4
<1>10. QED
  BY <1>2, <1>3, <1>4, <1>5, <1>6, <1>7, <1>8, <1>9

\* From the beginning, at most thirteen.
LEMMA StartNear ==
    ASSUME NEW p, Sound(p), NEW E, E = Edges(p), NEW S, "plan" \in S,
           p.identity => "branch_identity" \in S
    PROVE  /\ S \subseteq Back4(E, S)
           /\ "backlog" \in Back4(E, S)
           /\ p.identity => "branch_identity_resolution" \in Back4(E, S)
<1>1. PICK S1, S2, S3, S4 :
         S1 = Back(E, S) /\ S2 = Back(E, S1) /\ S3 = Back(E, S2) /\ S4 = Back(E, S3)
  OBVIOUS
<1>2. /\ S \subseteq S1 /\ S1 \subseteq S2 /\ S2 \subseteq S3 /\ S3 \subseteq S4
  BY <1>1, StepBack
<1>3. "backlog" \in S1 /\ (p.identity => "branch_identity_resolution" \in S1)
  BY <1>1, StepBack, WaysToWriters
<1>4. S4 = Back4(E, S)
  BY <1>1 DEF Back4
<1>5. QED
  BY <1>2, <1>3, <1>4

\* Done can be reached from every node but the one that says the Task will not be done.
LEMMA Reaches ==
    ASSUME NEW p \in Profiles, NEW n \in Nodes(p), n \notin Terminals, n # "verification_join"
    PROVE  n \in Alive[p]
<1>1. Sound(p)
  BY ProfilesAssumption DEF Sound
<1>2. PICK E : E = Edges(p)
  OBVIOUS
<1>3. PICK b : b = Branches(p)
  OBVIOUS
<1>4. PICK A4, A8, A12, A16 :
         /\ A4 = Back4(E, {"done"}) /\ A8 = Back4(E, A4)
         /\ A12 = Back4(E, A8) /\ A16 = Back4(E, A12)
  OBVIOUS
<1>5. Alive[p] = A16
  BY <1>2, <1>4 DEF Alive
<1>6. /\ "cleanup" \in A4
      /\ p.worktrees => "task_janitor" \in A4
      /\ p.pulls => {"prepare_pr", "waiting_pr", "merge_watch"} \subseteq A4
      /\ p.publish => "publish_package" \in A4
      /\ p.compliance => "compliance" \in A4
      /\ p.ci => "ci_watch" \in A4
  BY <1>1, <1>2, <1>4, DoneNear
<1>7. /\ A4 \subseteq A8 /\ b \subseteq A8 /\ "verification_gate" \in A8
      /\ p.sourceCi => "ci_prepare" \in A8
      /\ p.compliance => "evidence_repair" \in A8
      /\ p.smoke # "disabled" => "smoke" \in A8
  BY <1>1, <1>2, <1>3, <1>4, <1>6, VerifyNear
<1>8. "deterministic_verify" \in A8
  BY <1>1, <1>3, <1>7, BranchesAre
<1>9. /\ A8 \subseteq A12
      /\ {"verification_dispatch", "plan_contract", "plan_contract_verify", "implement", "fix",
          "plan_review", "plan_revalidation", "plan", "plan_contract_continue"} \subseteq A12
      /\ p.fresh => "plan_contract_fix_continue" \in A12
      /\ p.identity => "branch_identity" \in A12
      /\ p.ci => "ci_monitor" \in A12
  BY <1>1, <1>2, <1>4, <1>8, WorkNear
<1>10. /\ A12 \subseteq A16 /\ "backlog" \in A16
       /\ p.identity => "branch_identity_resolution" \in A16
  BY <1>1, <1>2, <1>4, <1>9, StartNear
<1>11. n \in A16
  BY <1>3, <1>6, <1>7, <1>9, <1>10 DEF Nodes, Only, Terminals
<1>12. QED
  BY <1>5, <1>11

\* Every answer of a script has a way, but for the one that is not served.
LEMMA AnswersWays ==
    ASSUME Sound(profile), NEW n \in Nodes(profile) \cap Scripts, NEW o \in Answers(n) \ Unserved(n)
    PROVE  \E t : Way(profile, n, o, t)
<1>1. PICK b : b = Branches(profile)
  OBVIOUS
<1>2. b \subseteq {"deterministic_verify", "standards_review", "spec_review"}
  BY <1>1, BranchesAre
<1>3. /\ n = "branch_identity" => profile.identity
      /\ n = "plan_contract_fix_continue" => profile.fresh
      /\ n = "ci_prepare" => profile.sourceCi
      /\ n = "ci_watch" => profile.ci
      /\ n = "merge_watch" => profile.pulls
      /\ n = "task_janitor" => profile.worktrees
  BY <1>1, <1>2 DEF Nodes, Only, Terminals
<1>4. CASE n = "plan_contract"
  <2>1. o \in {"start", "continue", "verify", "fix_continue", "revalidate"}
    BY <1>4 DEF Answers
  <2>2. o = "fix_continue" => profile.fresh
    BY <1>4 DEF Unserved, Only
  <2>3. QED
    BY <1>4, <2>1, <2>2, WaysToWriters
<1>5. CASE n \in {"plan_contract_continue", "plan_contract_verify", "plan_contract_fix_continue"}
  <2>1. o \in {"changed", "stable"}
    BY <1>5 DEF Answers, Only
  <2>2. /\ \E t : Way(profile, "plan_contract_continue", "stable", t)
        /\ \E t : Way(profile, "plan_contract_continue", "changed", t)
        /\ \E t : Way(profile, "plan_contract_verify", "stable", t)
        /\ \E t : Way(profile, "plan_contract_verify", "changed", t)
        /\ profile.fresh => /\ \E t : Way(profile, "plan_contract_fix_continue", "stable", t)
                            /\ \E t : Way(profile, "plan_contract_fix_continue", "changed", t)
    BY WaysToWriters
  <2>3. QED
    BY <1>3, <1>5, <2>1, <2>2
<1>6. CASE n = "branch_identity"
  <2>1. Answers(n) = {"ready", "blocked"} \cup Only(profile.coder, {"revalidate"})
    BY <1>6 DEF Answers
  <2>2. o \in {"ready", "blocked"} \/ (profile.coder /\ o = "revalidate")
    BY <2>1, SoundIs DEF Only
  <2>3. QED
    BY <1>3, <1>6, <2>2, WaysToWriters
<1>7. CASE n = "verification_dispatch"
  <2>1. o \in {"fanout_verify", "invalid_workspace"}
    BY <1>7 DEF Answers
  <2>2. QED
    BY <1>7, <2>1, WaysToGate
<1>8. CASE n = "deterministic_verify"
  <2>1. o = "reported"
    BY <1>8 DEF Answers
  <2>2. QED
    BY <1>8, <2>1, WaysToGate, BranchesAre
<1>9. CASE n = "ci_prepare"
  <2>1. o \in {"ready_initial", "ready_retry", "failed", "pr_merged"}
    BY <1>9 DEF Answers, Only
  <2>2. QED
    BY <1>3, <1>9, <2>1, WaysToDone
<1>10. CASE n = "ci_watch"
  <2>1. Answers(n) = {"passed", "failed", "state_changed"} \cup Only(pr = "merged", {"pr_merged"})
                     \cup Only(profile.sourceCi, {"source_changed"})
    BY <1>10 DEF Answers
  <2>2. o \in {"passed", "failed", "state_changed", "pr_merged"}
          \/ (profile.sourceCi /\ o = "source_changed")
    BY <2>1, SoundIs DEF Only
  <2>3. QED
    BY <1>3, <1>10, <2>2, WaysToDone
<1>11. CASE n = "merge_watch"
  <2>1. o \in {"still_waiting", "state_changed", "pr_merged"}
    BY <1>11 DEF Answers, Only
  <2>2. QED
    BY <1>3, <1>11, <2>1, WaysToDone
<1>12. CASE n = "task_janitor"
  <2>1. o \in {"done", "blocked"}
    BY <1>12 DEF Answers
  <2>2. QED
    BY <1>3, <1>12, <2>1, WaysToDone
<1>13. QED
  BY <1>4, <1>5, <1>6, <1>7, <1>8, <1>9, <1>10, <1>11, <1>12 DEF Scripts

\* Only graphs with fresh writers have the edge that continues Fix.
LEMMA FixOnlyFresh ==
    ASSUME NEW p, Sound(p), ~p.fresh, NEW e \in Edges(p), e.source = "plan_contract"
    PROVE  e.outcome # "fix_continue"
<1>1. Wired(p, e)
  BY Table
<1>2. PICK b : b = Branches(p)
  OBVIOUS
<1>3. b \subseteq {"deterministic_verify", "standards_review", "spec_review"}
  BY <1>2, BranchesAre
<1>4. CASE Prepares(p, e)
  BY <1>4 DEF Prepares, Leads, Returns, Asks, Stops, Resumes, Pauses, Revalidates, Goes
<1>5. CASE Verifies(p, e)
  BY <1>2, <1>3, <1>5 DEF Verifies, Leads, Returns, Asks, Stops, Resumes,
     Pauses, Replans, Revalidates, Merges, Goes
<1>6. CASE Delivers(p, e)
  BY <1>6 DEF Delivers, Leads, Returns, Asks, Resumes, Pauses, Merges, Goes
<1>7. QED
  BY <1>1, <1>4, <1>5, <1>6 DEF Wired

\* No running node is stuck.
LEMMA RoutedHolds ==
    ASSUME GraphInv
    PROVE  Routed
<1>1. ASSUME NEW n \in active, n \notin Terminals
      PROVE  n \in Alive[profile]
  BY <1>1, KnownActive, Reaches
<1>2. ASSUME NEW n \in active, n \in Scripts, NEW o \in Answers(n) \ Unserved(n)
      PROVE  o \in {e.outcome : e \in Out(n)}
  <2>1. profile \in Profiles /\ Sound(profile) /\ n \in Nodes(profile)
    BY <1>2, KnownActive
  <2>2. PICK t : Way(profile, n, o, t)
    BY <1>2, <2>1, AnswersWays
  <2>3. PICK e \in Edges(profile) : e.source = n /\ e.outcome = o
    BY <2>2 DEF Way
  <2>4. QED
    BY <2>1, <2>3, OutIs
<1>3. ASSUME NEW n \in active, NEW o \in Unserved(n)
      PROVE  o \in Answers(n) /\ o \notin {e.outcome : e \in Out(n)}
  <2>1. profile \in Profiles /\ Sound(profile) /\ n \in Nodes(profile)
    BY <1>3, KnownActive
  <2>2. n = "plan_contract" /\ ~profile.fresh /\ o = "fix_continue"
    BY <1>3 DEF Unserved, Only
  <2>3. o \in Answers(n)
    BY <2>2 DEF Answers
  <2>4. \A e \in Edges(profile) : ~(e.source = "plan_contract" /\ e.outcome = "fix_continue")
    BY <2>1, <2>2, FixOnlyFresh
  <2>5. QED
    BY <2>1, <2>2, <2>3, <2>4, OutIs
<1>4. QED
  BY <1>1, <1>2, <1>3 DEF Routed

\* Every edge out of a running node finds the session it continues, every answer of a
\* script has an edge but for a plan contract sent to continue Fix in a graph without
\* fresh writers, and Done stays reachable, in the workflow of every valid profile.
THEOREM FollowedAlways == GraphSpec => []Followed
<1>1. GraphInv => Followed
  BY ContextHolds, RoutedHolds DEF Followed
<1>2. QED
  BY <1>1, GraphHolds, PTL

-----------------------------------------------------------------------------
(* The plan contract.                                                        *)

USE PlanAssumption

Holding == {"content", "metadata", "swing"}

\* The document lock belongs to the one process between lock and swing.
Locked ==
    /\ \A o \in Operation : publisher[o] \in Holding <=> lock = o
    /\ \A g \in Guard : pc[g] = "swing" <=> lock = g

\* A revision's parent was complete before the revision was written.
Written ==
    /\ head \in Complete \cup {None}
    /\ \A o \in Operation :
          /\ publisher[o] = "idle" <=> plan[o] = None
          /\ plan[o] = None => disk[o] = "none"
          /\ plan[o] # None => plan[o].parent \in Complete \cup {None}
          /\ publisher[o] = "swing" => o \in Complete

\* o has been the working head.
Was(o) == \E s \in Snapshot \cup {None} : <<s, o>> \in joint

\* Past heads form a chain below the head: none has the head as its parent, so
\* none can be published over it again.
Chain ==
    /\ <<accepted, head>> \in joint
    /\ head = None => \A o \in Operation : ~Was(o)
    /\ \A o \in Operation :
          /\ Was(o) => /\ plan[o] # None /\ plan[o].parent # head
                       /\ plan[o].parent # None => Was(plan[o].parent)
          /\ plan[o] # None /\ plan[o].parent # None => Was(plan[o].parent)
          /\ publisher[o] \in Holding => plan[o].parent = head /\ ~Was(o)

\* What the heads, the snapshots and the script runs name exists.
Named ==
    /\ accepted # None => snapshot[accepted] # None /\ head # None
    /\ \A s \in Snapshot : snapshot[s] # None =>
          /\ snapshot[s].revision \in Complete
          /\ snapshot[s].parent # None => snapshot[snapshot[s].parent] # None
    /\ \A s \in Snapshot, o \in Operation : <<s, o>> \in joint => snapshot[s] # None
    /\ \A g \in Guard : seen[g] # None => snapshot[seen[g]] # None

Checking(g) == pc[g] = "resolve" /\ mode[g] = "check"

\* No transition is emitted before the end of a run.
Quiet == \A g \in Guard : pc[g] # "idle" => answer[g] = "none"

\* A check follows an acceptance, and its two heads held together.
Checked ==
    \A g \in Guard :
        /\ pc[g] \in {"status", "locator"} => seen[g] # None
        /\ Checking(g) => seen[g] # None
        /\ pc[g] = "locator" \/ Checking(g) =>
              work[g] # None /\ <<seen[g], work[g]>> \in joint

\* An acceptance is about a published revision that agrees with the reviewed one.
Reviewed ==
    \A g \in Guard : pc[g] \in {"accept", "swing"} =>
        /\ work[g] # None /\ plan[work[g]] # None
        /\ subject[g] # None /\ plan[subject[g]] # None
        /\ Unchanged(subject[g], work[g])

\* The snapshot of an acceptance is written and stays the one it proposed.
Accepting ==
    \A g \in Guard :
        /\ pc[g] = "swing" => head = work[g] /\ snapshot[mine[g]].parent = accepted
        /\ pc[g] \in {"swing", "confirm", "cache"} =>
              /\ work[g] # None /\ mine[g] # None /\ snapshot[mine[g]] # None
              /\ snapshot[mine[g]].revision = work[g]
        /\ pc[g] \in {"confirm", "cache"} => <<mine[g], work[g]>> \in joint

\* A cache was once accepted, with a working head.
CacheHeld == cache # None => \E o \in Operation : <<cache, o>> \in joint

\* Terminal preparation finds every run ended, and no later one can accept.
Ended == closed => \A g \in Guard : pc[g] \notin {"accept", "swing", "confirm", "cache"}

IInv ==
    /\ TypeOK /\ Locked /\ Written /\ Chain /\ Named
    /\ Quiet /\ Checked /\ Reviewed /\ Accepting
    /\ CacheHeld /\ RouteBacked /\ Ended

\* Every step keeps the types.
LEMMA TypeStep ==
    TypeOK /\ Reviewed /\ [Next]_vars => TypeOK'
<1> SUFFICES ASSUME TypeOK, Reviewed, [Next]_vars PROVE TypeOK'
    OBVIOUS
<1> USE DEF TypeOK, store, known, AtPublish, Goto, End, Unlock, Steps, Proposal, Revisions,
     Accepted
<1>1. ASSUME NEW o \in Operation, Ask(o) PROVE TypeOK'
    BY <1>1 DEF Ask
<1>2. ASSUME NEW o \in Operation, PublishReturns(o) PROVE TypeOK'
    BY <1>2 DEF PublishReturns
<1>3. ASSUME NEW o \in Operation, PublishLocks(o) PROVE TypeOK'
    BY <1>3 DEF PublishLocks
<1>4. ASSUME NEW o \in Operation, WriteContent(o) PROVE TypeOK'
    BY <1>4 DEF WriteContent
<1>5. ASSUME NEW o \in Operation, WriteMetadata(o) PROVE TypeOK'
    BY <1>5 DEF WriteMetadata
<1>6. ASSUME NEW o \in Operation, SwingHead(o) PROVE TypeOK'
    BY <1>6 DEF SwingHead
<1>7. ASSUME NEW o \in Operation, PublisherDies(o) PROVE TypeOK'
    BY <1>7 DEF PublisherDies
<1>8. ASSUME NEW g \in Guard, Start(g) PROVE TypeOK'
    BY <1>8 DEF Start
<1>9. ASSUME NEW g \in Guard, Status(g) PROVE TypeOK'
    BY <1>9 DEF Status
<1>10. ASSUME NEW g \in Guard, Locator(g) PROVE TypeOK'
    BY <1>10 DEF Locator
<1>11. ASSUME NEW g \in Guard, Check(g) PROVE TypeOK'
    BY <1>11 DEF Check
<1>12. ASSUME NEW g \in Guard, Resolve(g) PROVE TypeOK'
    <2>1. PICK o \in Complete :
              /\ subject' = [subject EXCEPT ![g] = o]
              /\ \/ End(g, "revalidate") \/ End(g, "error")
                 \/ Goto(g, "accept") /\ UNCHANGED answer
        BY <1>12 DEF Resolve
    <2>2. /\ work' = [work EXCEPT ![g] = head]
          /\ UNCHANGED <<store, lock, snapshot, accepted, cache, closed, mode, seen, mine, joint>>
        BY <1>12 DEF Resolve
    <2>3. subject' \in [Guard -> Operation \cup {None}]
        BY <2>1 DEF Complete
    <2>4. work' \in [Guard -> Operation \cup {None}]
        BY <2>2
    <2>5. /\ pc' \in [Guard -> Steps]
          /\ answer' \in [Guard -> {"none", "route", "revalidate", "error"}]
        BY <2>1
    <2> QED BY <2>2, <2>3, <2>4, <2>5
<1>13. ASSUME NEW g \in Guard, NothingToResolve(g) PROVE TypeOK'
    BY <1>13 DEF NothingToResolve
<1>14. ASSUME NEW g \in Guard, Accept(g) PROVE TypeOK'
    <2>1. PICK r \in Review, s \in Snapshot :
              \/ End(g, "error") /\ UNCHANGED <<lock, snapshot, mine>>
              \/ /\ WorkHeld(g)
                 /\ accepted \in {seen[g], s}
                 /\ mine' = [mine EXCEPT ![g] = s]
                 /\ UNCHANGED answer
                 /\ \/ Goto(g, "confirm") /\ UNCHANGED <<lock, snapshot>>
                    \/ /\ snapshot' = [snapshot EXCEPT ![s] = Proposal(g, r)]
                       /\ lock' = g
                       /\ Goto(g, "swing")
        BY <1>14 DEF Accept
    <2>2. UNCHANGED <<store, accepted, cache, closed, mode, seen, work, subject, joint>>
        BY <1>14 DEF Accept
    <2>3. pc' \in [Guard -> Steps] /\ lock' \in Operation \cup Guard \cup {None}
        BY <2>1, <2>2
    <2>4. mine' \in [Guard -> Snapshot \cup {None}]
        BY <2>1, <2>2
    <2>5. answer' \in [Guard -> {"none", "route", "revalidate", "error"}]
        BY <2>1, <2>2
    <2>6. work[g] \in Operation
        <3>1. pc[g] = "accept"
            BY <1>14 DEF Accept
        <3> QED BY <3>1 DEF Reviewed
    <2>7. Proposal(g, r) \in Accepted
        BY <2>6
    <2>8. snapshot' \in [Snapshot -> Accepted \cup {None}]
        BY <2>1, <2>7
    <2> QED BY <2>2, <2>3, <2>4, <2>5, <2>8
<1>15. ASSUME NEW g \in Guard, SwingAccepted(g) PROVE TypeOK'
    BY <1>15 DEF SwingAccepted
<1>16. ASSUME NEW g \in Guard, Confirm(g) PROVE TypeOK'
    BY <1>16 DEF Confirm
<1>17. ASSUME NEW g \in Guard, Cache(g) PROVE TypeOK'
    BY <1>17 DEF Cache
<1>18. ASSUME NEW g \in Guard, GuardDies(g) PROVE TypeOK'
    BY <1>18 DEF GuardDies
<1>19. CASE Close
    BY <1>19 DEF Close
<1>20. CASE Retire
    BY <1>20 DEF Retire
<1>21. CASE UNCHANGED vars BY <1>21 DEF vars
<1> QED
    BY <1>1, <1>2, <1>3, <1>4, <1>5, <1>6, <1>7, <1>8, <1>9, <1>10, <1>11, <1>12,
       <1>13, <1>14, <1>15, <1>16, <1>17, <1>18, <1>19, <1>20, <1>21 DEF Next, Publish, Run

\* The lock is taken and given up with the step it protects.
LEMMA LockedStep ==
    TypeOK /\ Locked /\ TypeOK' /\ [Next]_vars => Locked'
<1> SUFFICES ASSUME TypeOK, Locked, TypeOK', [Next]_vars PROVE Locked'
    OBVIOUS
<1> USE DEF TypeOK, store, known, AtPublish, Goto, End, Unlock, Locked, Holding
<1>1. ASSUME NEW o \in Operation, Ask(o) PROVE Locked'
    BY <1>1 DEF Ask
<1>2. ASSUME NEW o \in Operation, PublishReturns(o) PROVE Locked'
    BY <1>2 DEF PublishReturns
<1>3. ASSUME NEW o \in Operation, PublishLocks(o) PROVE Locked'
    BY <1>3 DEF PublishLocks
<1>4. ASSUME NEW o \in Operation, WriteContent(o) PROVE Locked'
    BY <1>4 DEF WriteContent
<1>5. ASSUME NEW o \in Operation, WriteMetadata(o) PROVE Locked'
    BY <1>5 DEF WriteMetadata
<1>6. ASSUME NEW o \in Operation, SwingHead(o) PROVE Locked'
    BY <1>6 DEF SwingHead
<1>7. ASSUME NEW o \in Operation, PublisherDies(o) PROVE Locked'
    BY <1>7 DEF PublisherDies
<1>8. ASSUME NEW g \in Guard, Start(g) PROVE Locked'
    BY <1>8 DEF Start
<1>9. ASSUME NEW g \in Guard, Status(g) PROVE Locked'
    BY <1>9 DEF Status
<1>10. ASSUME NEW g \in Guard, Locator(g) PROVE Locked'
    BY <1>10 DEF Locator
<1>11. ASSUME NEW g \in Guard, Check(g) PROVE Locked'
    BY <1>11 DEF Check
<1>12. ASSUME NEW g \in Guard, Resolve(g) PROVE Locked'
    BY <1>12 DEF Resolve
<1>13. ASSUME NEW g \in Guard, NothingToResolve(g) PROVE Locked'
    BY <1>13 DEF NothingToResolve
<1>14. ASSUME NEW g \in Guard, Accept(g) PROVE Locked'
    BY <1>14 DEF Accept
<1>15. ASSUME NEW g \in Guard, SwingAccepted(g) PROVE Locked'
    BY <1>15 DEF SwingAccepted
<1>16. ASSUME NEW g \in Guard, Confirm(g) PROVE Locked'
    BY <1>16 DEF Confirm
<1>17. ASSUME NEW g \in Guard, Cache(g) PROVE Locked'
    BY <1>17 DEF Cache
<1>18. ASSUME NEW g \in Guard, GuardDies(g) PROVE Locked'
    BY <1>18 DEF GuardDies
<1>19. CASE Close
    BY <1>19 DEF Close
<1>20. CASE Retire
    BY <1>20 DEF Retire
<1>21. CASE UNCHANGED vars BY <1>21 DEF vars
<1> QED
    BY <1>1, <1>2, <1>3, <1>4, <1>5, <1>6, <1>7, <1>8, <1>9, <1>10, <1>11, <1>12,
       <1>13, <1>14, <1>15, <1>16, <1>17, <1>18, <1>19, <1>20, <1>21 DEF Next, Publish, Run

\* A revision is complete before a head or a child names it.
LEMMA WrittenStep ==
    TypeOK /\ Locked /\ Written /\ TypeOK' /\ [Next]_vars => Written'
<1> SUFFICES ASSUME TypeOK, Locked, Written, TypeOK', [Next]_vars PROVE Written'
    OBVIOUS
<1> USE DEF TypeOK, store, known, AtPublish, Goto, End, Unlock, Written, Complete
<1>1. ASSUME NEW o \in Operation, Ask(o) PROVE Written'
    <2>1. PICK t \in Text : plan' = [plan EXCEPT ![o] = [parent |-> head, text |-> t]]
        BY <1>1 DEF Ask
    <2>2. PICK r \in Revisions : r.parent = head /\ plan' = [plan EXCEPT ![o] = r]
        <3> DEFINE r == [parent |-> head, text |-> t]
        <3>1. r \in Revisions /\ r.parent = head
            BY DEF Revisions
        <3> QED BY <2>1, <3>1
    <2>3. r # None
        OBVIOUS
    <2> HIDE DEF Revisions
    <2> QED BY <1>1, <2>2, <2>3 DEF Ask
<1>2. ASSUME NEW o \in Operation, PublishReturns(o) PROVE Written'
    BY <1>2 DEF PublishReturns
<1>3. ASSUME NEW o \in Operation, PublishLocks(o) PROVE Written'
    BY <1>3 DEF PublishLocks
<1>4. ASSUME NEW o \in Operation, WriteContent(o) PROVE Written'
    BY <1>4 DEF WriteContent
<1>5. ASSUME NEW o \in Operation, WriteMetadata(o) PROVE Written'
    BY <1>5 DEF WriteMetadata
<1>6. ASSUME NEW o \in Operation, SwingHead(o) PROVE Written'
    BY <1>6 DEF SwingHead
<1>7. ASSUME NEW o \in Operation, PublisherDies(o) PROVE Written'
    BY <1>7 DEF PublisherDies
<1>8. ASSUME NEW g \in Guard, Start(g) PROVE Written'
    BY <1>8 DEF Start
<1>9. ASSUME NEW g \in Guard, Status(g) PROVE Written'
    BY <1>9 DEF Status
<1>10. ASSUME NEW g \in Guard, Locator(g) PROVE Written'
    BY <1>10 DEF Locator
<1>11. ASSUME NEW g \in Guard, Check(g) PROVE Written'
    BY <1>11 DEF Check
<1>12. ASSUME NEW g \in Guard, Resolve(g) PROVE Written'
    BY <1>12 DEF Resolve
<1>13. ASSUME NEW g \in Guard, NothingToResolve(g) PROVE Written'
    BY <1>13 DEF NothingToResolve
<1>14. ASSUME NEW g \in Guard, Accept(g) PROVE Written'
    BY <1>14 DEF Accept
<1>15. ASSUME NEW g \in Guard, SwingAccepted(g) PROVE Written'
    BY <1>15 DEF SwingAccepted
<1>16. ASSUME NEW g \in Guard, Confirm(g) PROVE Written'
    BY <1>16 DEF Confirm
<1>17. ASSUME NEW g \in Guard, Cache(g) PROVE Written'
    BY <1>17 DEF Cache
<1>18. ASSUME NEW g \in Guard, GuardDies(g) PROVE Written'
    BY <1>18 DEF GuardDies
<1>19. CASE Close
    BY <1>19 DEF Close
<1>20. CASE Retire
    BY <1>20 DEF Retire
<1>21. CASE UNCHANGED vars BY <1>21 DEF vars
<1> QED
    BY <1>1, <1>2, <1>3, <1>4, <1>5, <1>6, <1>7, <1>8, <1>9, <1>10, <1>11, <1>12,
       <1>13, <1>14, <1>15, <1>16, <1>17, <1>18, <1>19, <1>20, <1>21 DEF Next, Publish, Run

\* Steps that move neither head nor plan keep the chain, whoever locks.
LEMMA ChainKept ==
    ASSUME TypeOK, Written, Chain, UNCHANGED <<plan, head, accepted, joint>>,
           \A p \in Operation : publisher'[p] \in Holding =>
               publisher[p] \in Holding \/ (plan[p].parent = head /\ ~Was(p))
    PROVE  Chain'
<1>1. \A p \in Operation : Was(p)' <=> Was(p)
    BY DEF Was
<1>2. \A p \in Operation : plan[p] # None => plan[p].parent \in Operation \cup {None}
    BY DEF Written, Complete
<1> QED BY <1>1, <1>2 DEF Chain, TypeOK

\* The past heads stay a chain below the head.
LEMMA ChainStep ==
    TypeOK /\ Locked /\ Written /\ Chain /\ Accepting /\ TypeOK' /\ [Next]_vars => Chain'
<1> SUFFICES ASSUME TypeOK, Locked, Written, Chain, Accepting, TypeOK', [Next]_vars
             PROVE  Chain'
    OBVIOUS
<1> USE DEF TypeOK, store, known, AtPublish, Goto, End, Unlock, Locked, Holding, Written,
     Complete, Chain, Was
<1>1. ASSUME NEW o \in Operation, Ask(o) PROVE Chain'
    <2>1. PICK t \in Text : plan' = [plan EXCEPT ![o] = [parent |-> head, text |-> t]]
        BY <1>1 DEF Ask
    <2>2. PICK r \in Revisions : r.parent = head /\ plan' = [plan EXCEPT ![o] = r]
        <3> DEFINE r == [parent |-> head, text |-> t]
        <3>1. r \in Revisions /\ r.parent = head
            BY DEF Revisions
        <3> QED BY <2>1, <3>1
    <2>3. r # None
        OBVIOUS
    <2>4. /\ publisher[o] = "idle" /\ publisher' = [publisher EXCEPT ![o] = "lock"]
          /\ UNCHANGED <<head, accepted, joint>>
        BY <1>1 DEF Ask
    <2>5. plan[o] = None /\ ~Was(o)
        BY <2>4 DEF Written, Chain
    <2>6. \A p \in Operation : Was(p)' <=> Was(p)
        BY <2>4 DEF Was
    <2>7. head # None => Was(head)
        BY DEF Chain, Was
    <2>8. \A p \in Operation :
              plan'[p] = IF p = o THEN r ELSE plan[p]
        BY <2>2
    <2>9. \A p \in Operation : publisher'[p] \in Holding => publisher[p] \in Holding /\ p # o
        BY <2>4 DEF Holding
    <2>10. \A p \in Operation : plan[p] # None => plan[p].parent \in Operation \cup {None}
        BY DEF Written, Complete
    <2> HIDE DEF Revisions, Was
    <2> QED BY <2>2, <2>3, <2>4, <2>5, <2>6, <2>7, <2>8, <2>9, <2>10 DEF Chain
<1>2. ASSUME NEW o \in Operation, PublishReturns(o) PROVE Chain'
    <2>1. UNCHANGED <<plan, head, accepted, joint>>
        BY <1>2 DEF PublishReturns
    <2>2. \A p \in Operation : publisher'[p] \in Holding => publisher[p] \in Holding
        BY <1>2 DEF PublishReturns
    <2> QED BY <2>1, <2>2, ChainKept
<1>3. ASSUME NEW o \in Operation, PublishLocks(o) PROVE Chain'
    <2>1. /\ publisher' = [publisher EXCEPT ![o] = "content"]
          /\ publisher[o] = "lock" /\ head # o /\ head = plan[o].parent
          /\ UNCHANGED <<plan, head, accepted, joint>>
        BY <1>3 DEF PublishLocks, Stale
    <2>2. ~Was(o)
        BY <2>1 DEF Chain
    <2>3. \A p \in Operation : publisher'[p] \in Holding => publisher[p] \in Holding \/ p = o
        BY <2>1
    <2> QED BY <2>1, <2>2, <2>3, ChainKept
<1>4. ASSUME NEW o \in Operation, WriteContent(o) PROVE Chain'
    <2>1. UNCHANGED <<plan, head, accepted, joint>>
        BY <1>4 DEF WriteContent
    <2>2. \A p \in Operation : publisher'[p] \in Holding => publisher[p] \in Holding
        BY <1>4 DEF WriteContent
    <2> QED BY <2>1, <2>2, ChainKept
<1>5. ASSUME NEW o \in Operation, WriteMetadata(o) PROVE Chain'
    <2>1. UNCHANGED <<plan, head, accepted, joint>>
        BY <1>5 DEF WriteMetadata
    <2>2. \A p \in Operation : publisher'[p] \in Holding => publisher[p] \in Holding
        BY <1>5 DEF WriteMetadata
    <2> QED BY <2>1, <2>2, ChainKept
<1>6. ASSUME NEW o \in Operation, SwingHead(o) PROVE Chain'
    <2>1. /\ publisher[o] = "swing" /\ publisher' = [publisher EXCEPT ![o] = "done"]
          /\ head' = o /\ joint' = joint \cup {<<accepted, o>>}
          /\ UNCHANGED <<plan, accepted>>
        BY <1>6 DEF SwingHead
    <2>2. plan[o].parent = head /\ ~Was(o) /\ plan[o] # None /\ head # o /\ o # None
        BY <2>1 DEF Chain, Holding, Written, Was
    <2>3. \A p \in Operation : Was(p)' <=> Was(p) \/ p = o
        BY <2>1 DEF Was
    <2>4. \A p \in Operation : publisher'[p] \notin Holding
        BY <2>1 DEF Locked, Holding
    <2>5. head # None => Was(head)
        BY DEF Chain, Was
    <2>6. \A p \in Operation : plan[p] # None => plan[p].parent \in Operation \cup {None}
        BY DEF Written, Complete
    <2> HIDE DEF Was
    <2> QED BY <2>1, <2>2, <2>3, <2>4, <2>5, <2>6 DEF Chain
<1>7. ASSUME NEW o \in Operation, PublisherDies(o) PROVE Chain'
    <2>1. UNCHANGED <<plan, head, accepted, joint>>
        BY <1>7 DEF PublisherDies
    <2>2. \A p \in Operation : publisher'[p] \in Holding => publisher[p] \in Holding
        BY <1>7 DEF PublisherDies
    <2> QED BY <2>1, <2>2, ChainKept
<1>8. ASSUME NEW g \in Guard, Start(g) PROVE Chain'
    BY <1>8 DEF Start
<1>9. ASSUME NEW g \in Guard, Status(g) PROVE Chain'
    BY <1>9 DEF Status
<1>10. ASSUME NEW g \in Guard, Locator(g) PROVE Chain'
    BY <1>10 DEF Locator
<1>11. ASSUME NEW g \in Guard, Check(g) PROVE Chain'
    BY <1>11 DEF Check
<1>12. ASSUME NEW g \in Guard, Resolve(g) PROVE Chain'
    BY <1>12 DEF Resolve
<1>13. ASSUME NEW g \in Guard, NothingToResolve(g) PROVE Chain'
    BY <1>13 DEF NothingToResolve
<1>14. ASSUME NEW g \in Guard, Accept(g) PROVE Chain'
    BY <1>14 DEF Accept
<1>15. ASSUME NEW g \in Guard, SwingAccepted(g) PROVE Chain'
    <2>1. /\ joint' = joint \cup {<<mine[g], head>>} /\ accepted' = mine[g]
          /\ UNCHANGED <<plan, head, publisher>> /\ pc[g] = "swing"
        BY <1>15 DEF SwingAccepted
    <2>2. head # None /\ mine[g] \in Snapshot
        BY ZenonT(40), <2>1 DEF Accepting
    <2>3. head # None => Was(head)
        BY DEF Chain, Was
    <2>4. \A p \in Operation : Was(p)' <=> Was(p)
        BY <2>1, <2>2, <2>3 DEF Was
    <2>5. <<accepted', head'>> \in joint'
        BY <2>1
    <2>6. \A p \in Operation : plan[p] # None => plan[p].parent \in Operation \cup {None}
        BY DEF Written, Complete
    <2> HIDE DEF Was
    <2> QED BY <2>1, <2>2, <2>4, <2>5, <2>6 DEF Chain
<1>16. ASSUME NEW g \in Guard, Confirm(g) PROVE Chain'
    BY <1>16 DEF Confirm
<1>17. ASSUME NEW g \in Guard, Cache(g) PROVE Chain'
    BY <1>17 DEF Cache
<1>18. ASSUME NEW g \in Guard, GuardDies(g) PROVE Chain'
    BY <1>18 DEF GuardDies
<1>19. CASE Close
    BY <1>19 DEF Close
<1>20. CASE Retire
    BY <1>20 DEF Retire
<1>21. CASE UNCHANGED vars BY <1>21 DEF vars
<1> QED
    BY <1>1, <1>2, <1>3, <1>4, <1>5, <1>6, <1>7, <1>8, <1>9, <1>10, <1>11, <1>12,
       <1>13, <1>14, <1>15, <1>16, <1>17, <1>18, <1>19, <1>20, <1>21 DEF Next, Publish, Run

\* What is named stays on disk.
LEMMA NamedStep ==
    TypeOK /\ Locked /\ Written /\ Named /\ Reviewed /\ Accepting /\ TypeOK' /\ [Next]_vars
    => Named'
<1> SUFFICES ASSUME TypeOK, Locked, Written, Named, Reviewed, Accepting, TypeOK', [Next]_vars
             PROVE  Named'
    OBVIOUS
<1> USE DEF TypeOK, store, known, AtPublish, Goto, End, Unlock, Locked, Written, Complete,
     Named, Reviewed, Accepting, Accepted
<1>1. ASSUME NEW o \in Operation, Ask(o) PROVE Named'
    BY <1>1 DEF Ask
<1>2. ASSUME NEW o \in Operation, PublishReturns(o) PROVE Named'
    BY <1>2 DEF PublishReturns
<1>3. ASSUME NEW o \in Operation, PublishLocks(o) PROVE Named'
    BY <1>3 DEF PublishLocks
<1>4. ASSUME NEW o \in Operation, WriteContent(o) PROVE Named'
    BY <1>4 DEF WriteContent
<1>5. ASSUME NEW o \in Operation, WriteMetadata(o) PROVE Named'
    BY <1>5 DEF WriteMetadata
<1>6. ASSUME NEW o \in Operation, SwingHead(o) PROVE Named'
    BY <1>6 DEF SwingHead
<1>7. ASSUME NEW o \in Operation, PublisherDies(o) PROVE Named'
    BY <1>7 DEF PublisherDies
<1>8. ASSUME NEW g \in Guard, Start(g) PROVE Named'
    BY <1>8 DEF Start
<1>9. ASSUME NEW g \in Guard, Status(g) PROVE Named'
    BY <1>9 DEF Status
<1>10. ASSUME NEW g \in Guard, Locator(g) PROVE Named'
    BY <1>10 DEF Locator
<1>11. ASSUME NEW g \in Guard, Check(g) PROVE Named'
    BY <1>11 DEF Check
<1>12. ASSUME NEW g \in Guard, Resolve(g) PROVE Named'
    BY <1>12 DEF Resolve
<1>13. ASSUME NEW g \in Guard, NothingToResolve(g) PROVE Named'
    BY <1>13 DEF NothingToResolve
<1>14. ASSUME NEW g \in Guard, Accept(g) PROVE Named'
    <2> HIDE DEF Accepted, Reviewed, Named, Written, Locked, Accepting
    <2>1. PICK r \in Review, s \in Snapshot :
              /\ snapshot[s] \in {None, Proposal(g, r)}
              /\ \/ End(g, "error") /\ UNCHANGED <<lock, snapshot, mine>>
                 \/ /\ WorkHeld(g)
                    /\ accepted \in {seen[g], s}
                    /\ mine' = [mine EXCEPT ![g] = s]
                    /\ UNCHANGED answer
                    /\ \/ accepted = s /\ Goto(g, "confirm") /\ UNCHANGED <<lock, snapshot>>
                       \/ /\ accepted # s
                          /\ snapshot' = [snapshot EXCEPT ![s] = Proposal(g, r)]
                          /\ lock' = g
                          /\ Goto(g, "swing")
        BY <1>14 DEF Accept
    <2>2. /\ UNCHANGED <<store, accepted, cache, closed, mode, seen, work, subject, joint>>
          /\ pc[g] = "accept" /\ lock = None
        BY <1>14 DEF Accept
    <2>3. work[g] \in Operation
        BY <2>2 DEF Reviewed
    <2>4. Proposal(g, r) \in Accepted
        BY <2>3 DEF Proposal, Accepted
    <2>5. PICK p \in Accepted :
              /\ p = Proposal(g, r) /\ p # None
              /\ p.revision = work[g] /\ p.parent = seen[g]
        BY <2>4 DEF Proposal
    <2>6. CASE UNCHANGED snapshot
        BY <2>2, <2>6 DEF Named, Complete
    <2>7. CASE snapshot' = [snapshot EXCEPT ![s] = p] /\ WorkHeld(g)
        <3>1. p.revision \in Complete /\ (p.parent # None => snapshot[p.parent] # None)
            BY <2>2, <2>3, <2>5, <2>7 DEF WorkHeld, Written, Named
        <3>2. \A t \in Snapshot : snapshot'[t] = IF t = s THEN p ELSE snapshot[t]
            BY <2>7
        <3>3. UNCHANGED <<accepted, head, seen, disk, joint>>
            BY <2>2
        <3>4. \A t \in Snapshot : snapshot[t] # None => snapshot'[t] # None
            BY <2>5, <3>2
        <3>5. \A t \in Snapshot : snapshot'[t] # None =>
                  /\ snapshot'[t].revision \in Complete
                  /\ snapshot'[t].parent # None => snapshot[snapshot'[t].parent] # None
            BY <3>1, <3>2 DEF Named
        <3>6. \A t \in Snapshot : snapshot'[t] # None =>
                  snapshot'[t].parent \in Snapshot \cup {None}
            BY DEF Accepted
        <3> QED BY <3>3, <3>4, <3>5, <3>6 DEF Named, Complete
    <2> QED BY <2>1, <2>5, <2>6, <2>7
<1>15. ASSUME NEW g \in Guard, SwingAccepted(g) PROVE Named'
    <2> HIDE DEF Accepted, Reviewed, Named, Written, Locked
    <2>1. /\ accepted' = mine[g] /\ pc[g] = "swing"
          /\ joint' = joint \cup {<<mine[g], head>>}
          /\ UNCHANGED <<plan, disk, head, snapshot, seen>>
        BY <1>15 DEF SwingAccepted
    <2>2. mine[g] # None /\ snapshot[mine[g]] # None /\ head # None
        BY <2>1 DEF Accepting
    <2> QED BY <2>1, <2>2 DEF Named, Complete
<1>16. ASSUME NEW g \in Guard, Confirm(g) PROVE Named'
    BY <1>16 DEF Confirm
<1>17. ASSUME NEW g \in Guard, Cache(g) PROVE Named'
    BY <1>17 DEF Cache
<1>18. ASSUME NEW g \in Guard, GuardDies(g) PROVE Named'
    BY <1>18 DEF GuardDies
<1>19. CASE Close
    BY <1>19 DEF Close
<1>20. CASE Retire
    BY <1>20 DEF Retire
<1>21. CASE UNCHANGED vars BY <1>21 DEF vars
<1> QED
    BY <1>1, <1>2, <1>3, <1>4, <1>5, <1>6, <1>7, <1>8, <1>9, <1>10, <1>11, <1>12,
       <1>13, <1>14, <1>15, <1>16, <1>17, <1>18, <1>19, <1>20, <1>21 DEF Next, Publish, Run

\* Transitions end a run.
LEMMA QuietStep ==
    TypeOK /\ Quiet /\ TypeOK' /\ [Next]_vars => Quiet'
<1> SUFFICES ASSUME TypeOK, Quiet, TypeOK', [Next]_vars PROVE Quiet'
    OBVIOUS
<1> USE DEF TypeOK, store, known, AtPublish, Goto, End, Unlock, Quiet
<1>1. ASSUME NEW o \in Operation, Ask(o) PROVE Quiet'
    BY <1>1 DEF Ask
<1>2. ASSUME NEW o \in Operation, PublishReturns(o) PROVE Quiet'
    BY <1>2 DEF PublishReturns
<1>3. ASSUME NEW o \in Operation, PublishLocks(o) PROVE Quiet'
    BY <1>3 DEF PublishLocks
<1>4. ASSUME NEW o \in Operation, WriteContent(o) PROVE Quiet'
    BY <1>4 DEF WriteContent
<1>5. ASSUME NEW o \in Operation, WriteMetadata(o) PROVE Quiet'
    BY <1>5 DEF WriteMetadata
<1>6. ASSUME NEW o \in Operation, SwingHead(o) PROVE Quiet'
    BY <1>6 DEF SwingHead
<1>7. ASSUME NEW o \in Operation, PublisherDies(o) PROVE Quiet'
    BY <1>7 DEF PublisherDies
<1>8. ASSUME NEW g \in Guard, Start(g) PROVE Quiet'
    BY <1>8 DEF Start
<1>9. ASSUME NEW g \in Guard, Status(g) PROVE Quiet'
    BY <1>9 DEF Status
<1>10. ASSUME NEW g \in Guard, Locator(g) PROVE Quiet'
    BY <1>10 DEF Locator
<1>11. ASSUME NEW g \in Guard, Check(g) PROVE Quiet'
    BY <1>11 DEF Check
<1>12. ASSUME NEW g \in Guard, Resolve(g) PROVE Quiet'
    BY <1>12 DEF Resolve
<1>13. ASSUME NEW g \in Guard, NothingToResolve(g) PROVE Quiet'
    BY <1>13 DEF NothingToResolve
<1>14. ASSUME NEW g \in Guard, Accept(g) PROVE Quiet'
    BY <1>14 DEF Accept
<1>15. ASSUME NEW g \in Guard, SwingAccepted(g) PROVE Quiet'
    BY <1>15 DEF SwingAccepted
<1>16. ASSUME NEW g \in Guard, Confirm(g) PROVE Quiet'
    BY <1>16 DEF Confirm
<1>17. ASSUME NEW g \in Guard, Cache(g) PROVE Quiet'
    BY <1>17 DEF Cache
<1>18. ASSUME NEW g \in Guard, GuardDies(g) PROVE Quiet'
    BY <1>18 DEF GuardDies
<1>19. CASE Close
    BY <1>19 DEF Close
<1>20. CASE Retire
    BY <1>20 DEF Retire
<1>21. CASE UNCHANGED vars BY <1>21 DEF vars
<1> QED
    BY <1>1, <1>2, <1>3, <1>4, <1>5, <1>6, <1>7, <1>8, <1>9, <1>10, <1>11, <1>12,
       <1>13, <1>14, <1>15, <1>16, <1>17, <1>18, <1>19, <1>20, <1>21 DEF Next, Publish, Run

\* What a check has read held together.
LEMMA CheckedStep ==
    TypeOK /\ Chain /\ Named /\ Checked /\ TypeOK' /\ [Next]_vars => Checked'
<1> SUFFICES ASSUME TypeOK, Chain, Named, Checked, TypeOK', [Next]_vars PROVE Checked'
    OBVIOUS
<1> USE DEF TypeOK, store, known, AtPublish, Goto, End, Unlock, Steps, Checked, Checking
<1>1. ASSUME NEW o \in Operation, Ask(o) PROVE Checked'
    BY <1>1 DEF Ask
<1>2. ASSUME NEW o \in Operation, PublishReturns(o) PROVE Checked'
    BY <1>2 DEF PublishReturns
<1>3. ASSUME NEW o \in Operation, PublishLocks(o) PROVE Checked'
    BY <1>3 DEF PublishLocks
<1>4. ASSUME NEW o \in Operation, WriteContent(o) PROVE Checked'
    BY <1>4 DEF WriteContent
<1>5. ASSUME NEW o \in Operation, WriteMetadata(o) PROVE Checked'
    BY <1>5 DEF WriteMetadata
<1>6. ASSUME NEW o \in Operation, SwingHead(o) PROVE Checked'
    BY <1>6 DEF SwingHead
<1>7. ASSUME NEW o \in Operation, PublisherDies(o) PROVE Checked'
    BY <1>7 DEF PublisherDies
<1>8. ASSUME NEW g \in Guard, Start(g) PROVE Checked'
    BY <1>8 DEF Start
<1>9. ASSUME NEW g \in Guard, Status(g) PROVE Checked'
    <2>1. CASE accepted = seen[g]
        <3>1. <<seen[g], head>> \in joint /\ head # None
            BY <1>9, <2>1 DEF Chain, Named, Status, Checked
        <3>2. /\ work' = [work EXCEPT ![g] = head] /\ pc' = [pc EXCEPT ![g] = "locator"]
              /\ UNCHANGED <<seen, joint, mode>> /\ seen[g] # None
            BY <1>9, <2>1 DEF Status
        <3> QED BY <3>1, <3>2
    <2>2. CASE accepted # seen[g]
        BY <1>9, <2>2 DEF Status
    <2> QED BY <2>1, <2>2
<1>10. ASSUME NEW g \in Guard, Locator(g) PROVE Checked'
    BY <1>10 DEF Locator
<1>11. ASSUME NEW g \in Guard, Check(g) PROVE Checked'
    BY <1>11 DEF Check
<1>12. ASSUME NEW g \in Guard, Resolve(g) PROVE Checked'
    BY <1>12 DEF Resolve
<1>13. ASSUME NEW g \in Guard, NothingToResolve(g) PROVE Checked'
    BY <1>13 DEF NothingToResolve
<1>14. ASSUME NEW g \in Guard, Accept(g) PROVE Checked'
    BY <1>14 DEF Accept
<1>15. ASSUME NEW g \in Guard, SwingAccepted(g) PROVE Checked'
    BY <1>15 DEF SwingAccepted
<1>16. ASSUME NEW g \in Guard, Confirm(g) PROVE Checked'
    BY <1>16 DEF Confirm
<1>17. ASSUME NEW g \in Guard, Cache(g) PROVE Checked'
    BY <1>17 DEF Cache
<1>18. ASSUME NEW g \in Guard, GuardDies(g) PROVE Checked'
    BY <1>18 DEF GuardDies
<1>19. CASE Close
    BY <1>19 DEF Close
<1>20. CASE Retire
    BY <1>20 DEF Retire
<1>21. CASE UNCHANGED vars BY <1>21 DEF vars
<1> QED
    BY <1>1, <1>2, <1>3, <1>4, <1>5, <1>6, <1>7, <1>8, <1>9, <1>10, <1>11, <1>12,
       <1>13, <1>14, <1>15, <1>16, <1>17, <1>18, <1>19, <1>20, <1>21 DEF Next, Publish, Run

\* Published revisions never change under a run.
LEMMA ReviewedStep ==
    TypeOK /\ Written /\ Reviewed /\ TypeOK' /\ [Next]_vars => Reviewed'
<1> SUFFICES ASSUME TypeOK, Written, Reviewed, TypeOK', [Next]_vars PROVE Reviewed'
    OBVIOUS
<1> USE DEF TypeOK, store, known, AtPublish, Goto, End, Unlock, Steps, Written, Complete,
     Reviewed, Unchanged
<1>1. ASSUME NEW o \in Operation, Ask(o) PROVE Reviewed'
    BY <1>1 DEF Ask
<1>2. ASSUME NEW o \in Operation, PublishReturns(o) PROVE Reviewed'
    BY <1>2 DEF PublishReturns
<1>3. ASSUME NEW o \in Operation, PublishLocks(o) PROVE Reviewed'
    BY <1>3 DEF PublishLocks
<1>4. ASSUME NEW o \in Operation, WriteContent(o) PROVE Reviewed'
    BY <1>4 DEF WriteContent
<1>5. ASSUME NEW o \in Operation, WriteMetadata(o) PROVE Reviewed'
    BY <1>5 DEF WriteMetadata
<1>6. ASSUME NEW o \in Operation, SwingHead(o) PROVE Reviewed'
    BY <1>6 DEF SwingHead
<1>7. ASSUME NEW o \in Operation, PublisherDies(o) PROVE Reviewed'
    BY <1>7 DEF PublisherDies
<1>8. ASSUME NEW g \in Guard, Start(g) PROVE Reviewed'
    BY <1>8 DEF Start
<1>9. ASSUME NEW g \in Guard, Status(g) PROVE Reviewed'
    BY <1>9 DEF Status
<1>10. ASSUME NEW g \in Guard, Locator(g) PROVE Reviewed'
    BY <1>10 DEF Locator
<1>11. ASSUME NEW g \in Guard, Check(g) PROVE Reviewed'
    BY <1>11 DEF Check
<1>12. ASSUME NEW g \in Guard, Resolve(g) PROVE Reviewed'
    BY <1>12 DEF Resolve
<1>13. ASSUME NEW g \in Guard, NothingToResolve(g) PROVE Reviewed'
    BY <1>13 DEF NothingToResolve
<1>14. ASSUME NEW g \in Guard, Accept(g) PROVE Reviewed'
    BY <1>14 DEF Accept
<1>15. ASSUME NEW g \in Guard, SwingAccepted(g) PROVE Reviewed'
    BY <1>15 DEF SwingAccepted
<1>16. ASSUME NEW g \in Guard, Confirm(g) PROVE Reviewed'
    BY <1>16 DEF Confirm
<1>17. ASSUME NEW g \in Guard, Cache(g) PROVE Reviewed'
    BY <1>17 DEF Cache
<1>18. ASSUME NEW g \in Guard, GuardDies(g) PROVE Reviewed'
    BY <1>18 DEF GuardDies
<1>19. CASE Close
    BY <1>19 DEF Close
<1>20. CASE Retire
    BY <1>20 DEF Retire
<1>21. CASE UNCHANGED vars BY <1>21 DEF vars
<1> QED
    BY <1>1, <1>2, <1>3, <1>4, <1>5, <1>6, <1>7, <1>8, <1>9, <1>10, <1>11, <1>12,
       <1>13, <1>14, <1>15, <1>16, <1>17, <1>18, <1>19, <1>20, <1>21 DEF Next, Publish, Run

\* The lock keeps both heads until the acceptance is swung.
LEMMA AcceptingStep ==
    TypeOK /\ Locked /\ Written /\ Chain /\ Named /\ Reviewed /\ Accepting /\ TypeOK'
    /\ [Next]_vars => Accepting'
<1> SUFFICES ASSUME TypeOK, Locked, Written, Chain, Named, Reviewed, Accepting, TypeOK',
                    [Next]_vars
             PROVE  Accepting'
    OBVIOUS
<1> USE DEF TypeOK, store, known, AtPublish, Goto, End, Unlock, Steps, Locked, Holding,
     Accepting
<1>1. ASSUME NEW o \in Operation, Ask(o) PROVE Accepting'
    BY <1>1 DEF Ask
<1>2. ASSUME NEW o \in Operation, PublishReturns(o) PROVE Accepting'
    BY <1>2 DEF PublishReturns
<1>3. ASSUME NEW o \in Operation, PublishLocks(o) PROVE Accepting'
    BY <1>3 DEF PublishLocks
<1>4. ASSUME NEW o \in Operation, WriteContent(o) PROVE Accepting'
    BY <1>4 DEF WriteContent
<1>5. ASSUME NEW o \in Operation, WriteMetadata(o) PROVE Accepting'
    BY <1>5 DEF WriteMetadata
<1>6. ASSUME NEW o \in Operation, SwingHead(o) PROVE Accepting'
    BY <1>6 DEF SwingHead
<1>7. ASSUME NEW o \in Operation, PublisherDies(o) PROVE Accepting'
    BY <1>7 DEF PublisherDies
<1>8. ASSUME NEW g \in Guard, Start(g) PROVE Accepting'
    BY <1>8 DEF Start
<1>9. ASSUME NEW g \in Guard, Status(g) PROVE Accepting'
    BY <1>9 DEF Status
<1>10. ASSUME NEW g \in Guard, Locator(g) PROVE Accepting'
    BY <1>10 DEF Locator
<1>11. ASSUME NEW g \in Guard, Check(g) PROVE Accepting'
    BY <1>11 DEF Check
<1>12. ASSUME NEW g \in Guard, Resolve(g) PROVE Accepting'
    BY <1>12 DEF Resolve
<1>13. ASSUME NEW g \in Guard, NothingToResolve(g) PROVE Accepting'
    BY <1>13 DEF NothingToResolve
<1>14. ASSUME NEW g \in Guard, Accept(g) PROVE Accepting'
    <2> HIDE DEF Accepted, Reviewed, Named, Written, Locked, Accepting
    <2>1. PICK r \in Review, s \in Snapshot :
              /\ snapshot[s] \in {None, Proposal(g, r)}
              /\ \/ End(g, "error") /\ UNCHANGED <<lock, snapshot, mine>>
                 \/ /\ WorkHeld(g)
                    /\ accepted \in {seen[g], s}
                    /\ mine' = [mine EXCEPT ![g] = s]
                    /\ UNCHANGED answer
                    /\ \/ accepted = s /\ Goto(g, "confirm") /\ UNCHANGED <<lock, snapshot>>
                       \/ /\ accepted # s
                          /\ snapshot' = [snapshot EXCEPT ![s] = Proposal(g, r)]
                          /\ lock' = g
                          /\ Goto(g, "swing")
        BY <1>14 DEF Accept
    <2>2. /\ UNCHANGED <<store, accepted, cache, closed, mode, seen, work, subject, joint>>
          /\ pc[g] = "accept" /\ lock = None
        BY <1>14 DEF Accept
    <2>3. work[g] \in Operation
        BY <2>2 DEF Reviewed
    <2>4. Proposal(g, r) \in Accepted
        BY <2>3 DEF Proposal, Accepted
    <2>5. PICK p \in Accepted :
              /\ p = Proposal(g, r) /\ p # None
              /\ p.revision = work[g] /\ p.parent = seen[g]
        BY <2>4 DEF Proposal
    <2>6. CASE End(g, "error") /\ UNCHANGED <<lock, snapshot, mine>>
        BY <2>2, <2>6 DEF Accepting
    <2>7. CASE accepted = s /\ Goto(g, "confirm") /\ UNCHANGED snapshot /\ WorkHeld(g)
               /\ mine' = [mine EXCEPT ![g] = s]
        <3>1. snapshot[s] = p /\ <<s, work[g]>> \in joint
            BY <2>1, <2>5, <2>7 DEF Named, Chain, WorkHeld
        <3>2. snapshot'[mine'[g]] = p /\ mine'[g] = s /\ pc'[g] = "confirm"
            BY <2>7, <3>1
        <3> QED BY <2>2, <2>3, <2>5, <2>7, <3>1, <3>2 DEF Accepting
    <2>8. CASE /\ accepted # s /\ snapshot' = [snapshot EXCEPT ![s] = Proposal(g, r)]
               /\ Goto(g, "swing") /\ WorkHeld(g) /\ accepted \in {seen[g], s}
               /\ mine' = [mine EXCEPT ![g] = s]
        <3>1. \A t \in Snapshot :
                  /\ snapshot'[t] = IF t = s THEN p ELSE snapshot[t]
                  /\ snapshot[t] # None => snapshot'[t] = snapshot[t]
            BY <2>1, <2>5, <2>8
        <3>2. snapshot'[mine'[g]] = p /\ mine'[g] = s /\ pc'[g] = "swing"
            BY <2>8, <3>1
        <3>3. p.parent = accepted /\ head = work[g]
            BY <2>5, <2>8 DEF WorkHeld
        <3>4. \A h \in Guard : h # g => /\ pc'[h] = pc[h] /\ mine'[h] = mine[h]
                                       /\ work'[h] = work[h]
            BY <2>2, <2>8
        <3>5. \A h \in Guard : h # g => pc[h] # "swing"
            BY <2>2 DEF Locked
        <3> QED BY <2>2, <2>3, <2>5, <3>1, <3>2, <3>3, <3>4, <3>5 DEF Accepting
    <2> QED BY <2>1, <2>6, <2>7, <2>8
<1>15. ASSUME NEW g \in Guard, SwingAccepted(g) PROVE Accepting'
    BY <1>15 DEF SwingAccepted
<1>16. ASSUME NEW g \in Guard, Confirm(g) PROVE Accepting'
    BY <1>16 DEF Confirm
<1>17. ASSUME NEW g \in Guard, Cache(g) PROVE Accepting'
    BY <1>17 DEF Cache
<1>18. ASSUME NEW g \in Guard, GuardDies(g) PROVE Accepting'
    BY <1>18 DEF GuardDies
<1>19. CASE Close
    BY <1>19 DEF Close
<1>20. CASE Retire
    BY <1>20 DEF Retire
<1>21. CASE UNCHANGED vars BY <1>21 DEF vars
<1> QED
    BY <1>1, <1>2, <1>3, <1>4, <1>5, <1>6, <1>7, <1>8, <1>9, <1>10, <1>11, <1>12,
       <1>13, <1>14, <1>15, <1>16, <1>17, <1>18, <1>19, <1>20, <1>21 DEF Next, Publish, Run

\* The cache is only set to what was accepted.
LEMMA CacheStep ==
    TypeOK /\ Accepting /\ CacheHeld /\ TypeOK' /\ [Next]_vars => CacheHeld'
<1> SUFFICES ASSUME TypeOK, Accepting, CacheHeld, TypeOK', [Next]_vars PROVE CacheHeld'
    OBVIOUS
<1> USE DEF TypeOK, store, known, AtPublish, Goto, End, Unlock, CacheHeld
<1>1. ASSUME NEW o \in Operation, Ask(o) PROVE CacheHeld'
    BY <1>1 DEF Ask
<1>2. ASSUME NEW o \in Operation, PublishReturns(o) PROVE CacheHeld'
    BY <1>2 DEF PublishReturns
<1>3. ASSUME NEW o \in Operation, PublishLocks(o) PROVE CacheHeld'
    BY <1>3 DEF PublishLocks
<1>4. ASSUME NEW o \in Operation, WriteContent(o) PROVE CacheHeld'
    BY <1>4 DEF WriteContent
<1>5. ASSUME NEW o \in Operation, WriteMetadata(o) PROVE CacheHeld'
    BY <1>5 DEF WriteMetadata
<1>6. ASSUME NEW o \in Operation, SwingHead(o) PROVE CacheHeld'
    BY <1>6 DEF SwingHead
<1>7. ASSUME NEW o \in Operation, PublisherDies(o) PROVE CacheHeld'
    BY <1>7 DEF PublisherDies
<1>8. ASSUME NEW g \in Guard, Start(g) PROVE CacheHeld'
    BY <1>8 DEF Start
<1>9. ASSUME NEW g \in Guard, Status(g) PROVE CacheHeld'
    BY <1>9 DEF Status
<1>10. ASSUME NEW g \in Guard, Locator(g) PROVE CacheHeld'
    BY <1>10 DEF Locator
<1>11. ASSUME NEW g \in Guard, Check(g) PROVE CacheHeld'
    BY <1>11 DEF Check
<1>12. ASSUME NEW g \in Guard, Resolve(g) PROVE CacheHeld'
    BY <1>12 DEF Resolve
<1>13. ASSUME NEW g \in Guard, NothingToResolve(g) PROVE CacheHeld'
    BY <1>13 DEF NothingToResolve
<1>14. ASSUME NEW g \in Guard, Accept(g) PROVE CacheHeld'
    BY <1>14 DEF Accept
<1>15. ASSUME NEW g \in Guard, SwingAccepted(g) PROVE CacheHeld'
    BY <1>15 DEF SwingAccepted
<1>16. ASSUME NEW g \in Guard, Confirm(g) PROVE CacheHeld'
    BY <1>16 DEF Confirm
<1>17. ASSUME NEW g \in Guard, Cache(g) PROVE CacheHeld'
    <2>1. CASE cache' = mine[g] /\ UNCHANGED joint
        <3>1. work[g] \in Operation /\ <<mine[g], work[g]>> \in joint
            BY <1>17 DEF Accepting, Cache
        <3> QED BY <2>1, <3>1
    <2>2. CASE UNCHANGED <<cache, joint>>
        BY <2>2
    <2> QED BY <1>17, <2>1, <2>2 DEF Cache
<1>18. ASSUME NEW g \in Guard, GuardDies(g) PROVE CacheHeld'
    BY <1>18 DEF GuardDies
<1>19. CASE Close
    BY <1>19 DEF Close
<1>20. CASE Retire
    BY <1>20 DEF Retire
<1>21. CASE UNCHANGED vars BY <1>21 DEF vars
<1> QED
    BY <1>1, <1>2, <1>3, <1>4, <1>5, <1>6, <1>7, <1>8, <1>9, <1>10, <1>11, <1>12,
       <1>13, <1>14, <1>15, <1>16, <1>17, <1>18, <1>19, <1>20, <1>21 DEF Next, Publish, Run

\* What a route was emitted on is on disk.
LEMMA RouteNamed ==
    ASSUME TypeOK, Chain, Named, RouteBacked, NEW h \in Guard, answer[h] = "route"
    PROVE  snapshot[mine[h]] # None /\ plan[work[h]] # None /\ mine[h] \in Snapshot
<1>1. mine[h] \in Snapshot /\ work[h] \in Operation /\ <<mine[h], work[h]>> \in joint
    BY DEF RouteBacked, TypeOK
<1>2. snapshot[mine[h]] # None
    BY <1>1 DEF Named
<1>3. Was(work[h])
    BY <1>1 DEF Was
<1> QED BY <1>1, <1>2, <1>3 DEF Chain

\* A route is backed by both heads.
LEMMA RouteStep ==
    TypeOK /\ Written /\ Chain /\ Named /\ Quiet /\ Checked /\ Reviewed /\ Accepting
    /\ RouteBacked /\ TypeOK' /\ [Next]_vars => RouteBacked'
<1> SUFFICES ASSUME TypeOK, Written, Chain, Named, Quiet, Checked, Reviewed, Accepting,
                    RouteBacked, TypeOK', [Next]_vars
             PROVE  RouteBacked'
    OBVIOUS
<1> USE DEF TypeOK, store, known, AtPublish, Goto, End, Unlock, RouteBacked, Unchanged, Quiet
<1>1. ASSUME NEW o \in Operation, Ask(o) PROVE RouteBacked'
    <2>1. PICK t \in Text : plan' = [plan EXCEPT ![o] = [parent |-> head, text |-> t]]
        BY <1>1 DEF Ask
    <2>2. plan[o] = None /\ UNCHANGED <<answer, mine, work, snapshot, joint>>
        BY <1>1 DEF Ask, Written
    <2>3. \A p \in Operation : plan[p] # None => plan'[p] = plan[p]
        BY <2>1, <2>2
    <2>4. \A h \in Guard : answer[h] = "route" =>
              snapshot[mine[h]] # None /\ plan[work[h]] # None /\ mine[h] \in Snapshot
        BY RouteNamed
    <2>5. \A h \in Guard : answer[h] = "route" =>
              snapshot[mine[h]].revision \in Complete
        BY <2>4 DEF Named
    <2>6. \A p \in Complete : p \in Operation /\ plan[p] # None
        BY DEF Written, Complete
    <2> QED BY <2>2, <2>3, <2>4, <2>5, <2>6
<1>2. ASSUME NEW o \in Operation, PublishReturns(o) PROVE RouteBacked'
    BY <1>2 DEF PublishReturns
<1>3. ASSUME NEW o \in Operation, PublishLocks(o) PROVE RouteBacked'
    BY <1>3 DEF PublishLocks
<1>4. ASSUME NEW o \in Operation, WriteContent(o) PROVE RouteBacked'
    BY <1>4 DEF WriteContent
<1>5. ASSUME NEW o \in Operation, WriteMetadata(o) PROVE RouteBacked'
    BY <1>5 DEF WriteMetadata
<1>6. ASSUME NEW o \in Operation, SwingHead(o) PROVE RouteBacked'
    BY <1>6 DEF SwingHead
<1>7. ASSUME NEW o \in Operation, PublisherDies(o) PROVE RouteBacked'
    BY <1>7 DEF PublisherDies
<1>8. ASSUME NEW g \in Guard, Start(g) PROVE RouteBacked'
    BY <1>8 DEF Start
<1>9. ASSUME NEW g \in Guard, Status(g) PROVE RouteBacked'
    BY <1>9 DEF Status
<1>10. ASSUME NEW g \in Guard, Locator(g) PROVE RouteBacked'
    BY <1>10 DEF Locator
<1>11. ASSUME NEW g \in Guard, Check(g) PROVE RouteBacked'
    <2>1. /\ pc[g] = "resolve" /\ mode[g] = "check"
          /\ work' = [work EXCEPT ![g] = head]
          /\ UNCHANGED <<plan, snapshot, joint>>
        BY <1>11 DEF Check
    <2>2. \A h \in Guard : h # g => UNCHANGED <<answer[h], mine[h], work[h]>>
        BY <1>11 DEF Check
    <2>3. CASE answer'[g] # "route"
        BY <2>1, <2>2, <2>3
    <2>4. CASE answer'[g] = "route"
        <3>1. /\ SameWork(g) /\ Unchanged(snapshot[seen[g]].revision, head)
              /\ mine' = [mine EXCEPT ![g] = seen[g]]
            BY <1>11, <2>4 DEF Check
        <3>2. /\ mine'[g] # None /\ work'[g] # None /\ <<mine'[g], work'[g]>> \in joint
            BY <2>1, <3>1 DEF Checked, Checking, SameWork
        <3>3. mine'[g] = seen[g] /\ work'[g] = head
            BY <2>1, <3>1
        <3> QED BY <2>1, <2>2, <3>1, <3>2, <3>3
    <2> QED BY <2>3, <2>4
<1>12. ASSUME NEW g \in Guard, Resolve(g) PROVE RouteBacked'
    BY <1>12 DEF Resolve
<1>13. ASSUME NEW g \in Guard, NothingToResolve(g) PROVE RouteBacked'
    BY <1>13 DEF NothingToResolve
<1>14. ASSUME NEW g \in Guard, Accept(g) PROVE RouteBacked'
    <2> HIDE DEF RouteBacked
    <2>1. PICK r \in Review, s \in Snapshot :
              /\ snapshot[s] \in {None, Proposal(g, r)}
              /\ \/ End(g, "error") /\ UNCHANGED <<lock, snapshot, mine>>
                 \/ /\ WorkHeld(g)
                    /\ accepted \in {seen[g], s}
                    /\ mine' = [mine EXCEPT ![g] = s]
                    /\ UNCHANGED answer
                    /\ \/ accepted = s /\ Goto(g, "confirm") /\ UNCHANGED <<lock, snapshot>>
                       \/ /\ accepted # s
                          /\ snapshot' = [snapshot EXCEPT ![s] = Proposal(g, r)]
                          /\ lock' = g
                          /\ Goto(g, "swing")
        BY <1>14 DEF Accept
    <2>2. /\ UNCHANGED <<store, accepted, cache, closed, mode, seen, work, subject, joint>>
          /\ pc[g] = "accept" /\ lock = None
        BY <1>14 DEF Accept
    <2>3. work[g] \in Operation
        BY <2>2 DEF Reviewed
    <2>4. Proposal(g, r) \in Accepted
        BY <2>3 DEF Proposal, Accepted
    <2>5. PICK p \in Accepted :
              /\ p = Proposal(g, r) /\ p # None
              /\ p.revision = work[g] /\ p.parent = seen[g]
        BY <2>4 DEF Proposal
    <2>6. \A t \in Snapshot : snapshot[t] # None => snapshot'[t] = snapshot[t]
        BY <2>1, <2>5
    <2>7. \A h \in Guard : h # g => UNCHANGED <<answer[h], mine[h]>>
        BY <2>1, <2>2
    <2>8. answer'[g] # "route"
        BY <2>1, <2>2
    <2>9. \A h \in Guard : answer[h] = "route" => snapshot[mine[h]] # None
        BY RouteNamed
    <2> QED BY <2>2, <2>6, <2>7, <2>8, <2>9 DEF RouteBacked
<1>15. ASSUME NEW g \in Guard, SwingAccepted(g) PROVE RouteBacked'
    BY <1>15 DEF SwingAccepted
<1>16. ASSUME NEW g \in Guard, Confirm(g) PROVE RouteBacked'
    BY <1>16 DEF Confirm
<1>17. ASSUME NEW g \in Guard, Cache(g) PROVE RouteBacked'
    <2>1. /\ pc[g] = "cache" /\ UNCHANGED <<plan, snapshot, joint, mine, work>>
        BY <1>17 DEF Cache
    <2>2. \A h \in Guard : h # g => answer'[h] = answer[h]
        BY <1>17 DEF Cache
    <2>3. /\ mine[g] # None /\ work[g] # None /\ <<mine[g], work[g]>> \in joint
          /\ snapshot[mine[g]].revision = work[g]
        BY <2>1 DEF Accepting
    <2> QED BY <2>1, <2>2, <2>3
<1>18. ASSUME NEW g \in Guard, GuardDies(g) PROVE RouteBacked'
    BY <1>18 DEF GuardDies
<1>19. CASE Close
    BY <1>19 DEF Close
<1>20. CASE Retire
    BY <1>20 DEF Retire
<1>21. CASE UNCHANGED vars BY <1>21 DEF vars
<1> QED
    BY <1>1, <1>2, <1>3, <1>4, <1>5, <1>6, <1>7, <1>8, <1>9, <1>10, <1>11, <1>12,
       <1>13, <1>14, <1>15, <1>16, <1>17, <1>18, <1>19, <1>20, <1>21 DEF Next, Publish, Run

\* After terminal preparation no run accepts.
LEMMA EndedStep ==
    TypeOK /\ Ended /\ TypeOK' /\ [Next]_vars => Ended'
<1> SUFFICES ASSUME TypeOK, Ended, TypeOK', [Next]_vars PROVE Ended'
    OBVIOUS
<1> USE DEF TypeOK, store, known, AtPublish, Goto, End, Unlock, Ended
<1>1. ASSUME NEW o \in Operation, Ask(o) PROVE Ended'
    BY <1>1 DEF Ask
<1>2. ASSUME NEW o \in Operation, PublishReturns(o) PROVE Ended'
    BY <1>2 DEF PublishReturns
<1>3. ASSUME NEW o \in Operation, PublishLocks(o) PROVE Ended'
    BY <1>3 DEF PublishLocks
<1>4. ASSUME NEW o \in Operation, WriteContent(o) PROVE Ended'
    BY <1>4 DEF WriteContent
<1>5. ASSUME NEW o \in Operation, WriteMetadata(o) PROVE Ended'
    BY <1>5 DEF WriteMetadata
<1>6. ASSUME NEW o \in Operation, SwingHead(o) PROVE Ended'
    BY <1>6 DEF SwingHead
<1>7. ASSUME NEW o \in Operation, PublisherDies(o) PROVE Ended'
    BY <1>7 DEF PublisherDies
<1>8. ASSUME NEW g \in Guard, Start(g) PROVE Ended'
    BY <1>8 DEF Start
<1>9. ASSUME NEW g \in Guard, Status(g) PROVE Ended'
    BY <1>9 DEF Status
<1>10. ASSUME NEW g \in Guard, Locator(g) PROVE Ended'
    BY <1>10 DEF Locator
<1>11. ASSUME NEW g \in Guard, Check(g) PROVE Ended'
    BY <1>11 DEF Check
<1>12. ASSUME NEW g \in Guard, Resolve(g) PROVE Ended'
    <2>1. UNCHANGED closed
        BY <1>12 DEF Resolve
    <2>2. CASE ~Open
        <3>1. pc' = [pc EXCEPT ![g] = "idle"]
            BY <1>12, <2>2 DEF Resolve
        <3> QED BY <2>1, <3>1
    <2>3. CASE Open
        BY <2>1, <2>3, Zenon DEF Open
    <2> QED BY <2>2, <2>3
<1>13. ASSUME NEW g \in Guard, NothingToResolve(g) PROVE Ended'
    BY <1>13 DEF NothingToResolve
<1>14. ASSUME NEW g \in Guard, Accept(g) PROVE Ended'
    BY <1>14 DEF Accept
<1>15. ASSUME NEW g \in Guard, SwingAccepted(g) PROVE Ended'
    BY <1>15 DEF SwingAccepted
<1>16. ASSUME NEW g \in Guard, Confirm(g) PROVE Ended'
    BY <1>16 DEF Confirm
<1>17. ASSUME NEW g \in Guard, Cache(g) PROVE Ended'
    BY <1>17 DEF Cache
<1>18. ASSUME NEW g \in Guard, GuardDies(g) PROVE Ended'
    BY <1>18 DEF GuardDies
<1>19. CASE Close
    BY <1>19 DEF Close
<1>20. CASE Retire
    BY <1>20 DEF Retire
<1>21. CASE UNCHANGED vars BY <1>21 DEF vars
<1> QED
    BY <1>1, <1>2, <1>3, <1>4, <1>5, <1>6, <1>7, <1>8, <1>9, <1>10, <1>11, <1>12,
       <1>13, <1>14, <1>15, <1>16, <1>17, <1>18, <1>19, <1>20, <1>21 DEF Next, Publish, Run

\* Only the swing of a publication moves the working head.
LEMMA HeadMoves == [Next]_vars => UNCHANGED head \/ \E o \in Operation : SwingHead(o)
<1> SUFFICES ASSUME [Next]_vars, head' # head PROVE \E o \in Operation : SwingHead(o)
    OBVIOUS
<1> USE DEF store, known
<1>1. ASSUME NEW o \in Operation, Publish(o) PROVE SwingHead(o)
    BY <1>1 DEF Publish, Ask, PublishReturns, PublishLocks, WriteContent, WriteMetadata,
      PublisherDies
<1>2. ASSUME NEW g \in Guard, Run(g) PROVE FALSE
    BY <1>2 DEF Run, Start, Status, Locator, Check, Resolve, NothingToResolve,
            Accept, SwingAccepted, Confirm, Cache, GuardDies
<1>3. CASE Close \/ Retire
    BY <1>3 DEF Close, Retire
<1>4. CASE UNCHANGED vars
    BY <1>4 DEF vars
<1> QED BY <1>1, <1>2, <1>3, <1>4 DEF Next

\* Only the swing of an acceptance moves the accepted head.
LEMMA AcceptedMoves == [Next]_vars => UNCHANGED accepted \/ \E g \in Guard : SwingAccepted(g)
<1> SUFFICES ASSUME [Next]_vars, accepted' # accepted PROVE \E g \in Guard : SwingAccepted(g)
    OBVIOUS
<1> USE DEF store, known
<1>1. ASSUME NEW o \in Operation, Publish(o) PROVE FALSE
    BY <1>1 DEF Publish, Ask, PublishReturns, PublishLocks, WriteContent, WriteMetadata,
      SwingHead, PublisherDies
<1>2. ASSUME NEW g \in Guard, Run(g) PROVE SwingAccepted(g)
    BY <1>2 DEF Run, Start, Status, Locator, Check, Resolve, NothingToResolve,
            Accept, Confirm, Cache, GuardDies
<1>3. CASE Close \/ Retire
    BY <1>3 DEF Close, Retire
<1>4. CASE UNCHANGED vars
    BY <1>4 DEF vars
<1> QED BY <1>1, <1>2, <1>3, <1>4 DEF Next

\* The cache is set at the end of an acceptance and removed by retirement.
LEMMA CacheMoves ==
    [Next]_vars => UNCHANGED cache \/ cache' = None \/ \E g \in Guard : pc[g] = "cache"
<1> SUFFICES ASSUME [Next]_vars, cache' # cache, cache' # None
             PROVE  \E g \in Guard : pc[g] = "cache"
    OBVIOUS
<1> USE DEF store, known
<1>1. ASSUME NEW o \in Operation, Publish(o) PROVE FALSE
    BY <1>1 DEF Publish, Ask, PublishReturns, PublishLocks, WriteContent, WriteMetadata,
      SwingHead,
            PublisherDies
<1>2. ASSUME NEW g \in Guard, Run(g) PROVE pc[g] = "cache"
    BY <1>2 DEF Run, Start, Status, Locator, Check, Resolve, NothingToResolve,
            Accept, SwingAccepted, Confirm, Cache, GuardDies
<1>3. CASE Close \/ Retire
    BY <1>3 DEF Close, Retire
<1>4. CASE UNCHANGED vars
    BY <1>4 DEF vars
<1> QED BY <1>1, <1>2, <1>3, <1>4 DEF Next

\* Nothing reopens acceptance.
LEMMA ClosedMoves == [Next]_vars => UNCHANGED closed \/ Close
<1> SUFFICES ASSUME [Next]_vars, closed' # closed PROVE Close
    OBVIOUS
<1> USE DEF store, known
<1>1. ASSUME NEW o \in Operation, Publish(o) PROVE FALSE
    BY <1>1 DEF Publish, Ask, PublishReturns, PublishLocks, WriteContent, WriteMetadata,
      SwingHead,
            PublisherDies
<1>2. ASSUME NEW g \in Guard, Run(g) PROVE FALSE
    BY <1>2 DEF Run, Start, Status, Locator, Check, Resolve, NothingToResolve,
            Accept, SwingAccepted, Confirm, Cache, GuardDies
<1>3. CASE Close \/ Retire
    BY <1>3 DEF Close, Retire
<1>4. CASE UNCHANGED vars
    BY <1>4 DEF vars
<1> QED BY <1>1, <1>2, <1>3, <1>4 DEF Next

-----------------------------------------------------------------------------
LEMMA Initially == Init => IInv
<1> SUFFICES ASSUME Init PROVE IInv
    OBVIOUS
<1>1. TypeOK
    <2>1. joint \subseteq (Snapshot \cup {None}) \X (Operation \cup {None})
        BY DEF Init
    <2>2. /\ plan \in [Operation -> Revisions \cup {None}]
          /\ disk \in [Operation -> {"none", "content", "complete"}]
          /\ publisher \in [Operation -> {"idle", "lock", "content", "metadata", "swing", "done"}]
        BY DEF Init
    <2>3. /\ head \in Operation \cup {None} /\ lock \in Operation \cup Guard \cup {None}
          /\ snapshot \in [Snapshot -> Accepted \cup {None}]
          /\ accepted \in Snapshot \cup {None} /\ cache \in Snapshot \cup {None}
        BY DEF Init
    <2>4. /\ pc \in [Guard -> Steps] /\ mode \in [Guard -> {"accept", "check"}]
          /\ seen \in [Guard -> Snapshot \cup {None}] /\ work \in [Guard -> Operation \cup {None}]
          /\ subject \in [Guard -> Operation \cup {None}]
          /\ mine \in [Guard -> Snapshot \cup {None}]
          /\ answer \in [Guard -> {"none", "route", "revalidate", "error"}]
        BY DEF Init, Steps
    <2>5. closed \in BOOLEAN
        BY DEF Init
    <2> QED BY <2>1, <2>2, <2>3, <2>4, <2>5 DEF TypeOK
<1>2. Locked /\ Written
    BY DEF Init, Locked, Written, Holding, Complete
<1>3. Chain
    BY DEF Init, Chain, Was, Holding
<1>4. Named
    BY DEF Init, Named
<1>5. Quiet /\ Checked /\ Reviewed /\ Accepting
    BY DEF Init, Quiet, Checked, Checking, Reviewed, Accepting
<1>6. CacheHeld /\ RouteBacked
    BY DEF Init, CacheHeld, RouteBacked
<1>7. Ended
    BY DEF Init, Ended
<1> QED BY <1>1, <1>2, <1>3, <1>4, <1>5, <1>6, <1>7 DEF IInv

LEMMA Inductive == IInv /\ [Next]_vars => IInv'
<1> SUFFICES ASSUME IInv, [Next]_vars PROVE IInv'
    OBVIOUS
<1> USE DEF IInv
<1>1. TypeOK'
    BY TypeStep
<1>2. Locked' /\ Written' /\ Chain' /\ Named'
    BY <1>1, LockedStep, WrittenStep, ChainStep, NamedStep
<1>3. Quiet' /\ Checked' /\ Reviewed' /\ Accepting'
    BY <1>1, QuietStep, CheckedStep, ReviewedStep, AcceptingStep
<1>4. CacheHeld' /\ RouteBacked' /\ Ended'
    BY <1>1, CacheStep, RouteStep, EndedStep
<1> QED BY <1>1, <1>2, <1>3, <1>4

LEMMA Invariance == Spec => []IInv
BY Initially, Inductive, PTL DEF Spec

\* Heads, parents, subjects and the cache never dangle.
LEMMA Resolves == IInv => Resolvable
<1> SUFFICES ASSUME IInv PROVE Resolvable
    OBVIOUS
<1>1. head # None => head \in Complete
    BY DEF IInv, Written
<1>2. \A o \in Complete : plan[o] # None /\ plan[o].parent \in Complete \cup {None}
    <2>1. \A o \in Complete : o \in Operation /\ disk[o] # "none"
        BY DEF Complete
    <2> QED BY <2>1 DEF IInv, Written
<1>3. /\ accepted # None => snapshot[accepted] # None
      /\ \A s \in Snapshot : snapshot[s] # None =>
            /\ snapshot[s].revision \in Complete
            /\ snapshot[s].parent # None => snapshot[snapshot[s].parent] # None
    BY DEF IInv, Named
<1>4. cache # None => \E o \in Operation : <<cache, o>> \in joint
    BY DEF IInv, CacheHeld
<1> QED BY <1>1, <1>2, <1>3, <1>4 DEF Resolvable

\* A new working head is the child of the old one and was never head before.
LEMMA Extends ==
    ASSUME IInv, [Next]_vars, head' # head
    PROVE  /\ plan[head'].parent = head
           /\ \A s \in Snapshot \cup {None} : <<s, head'>> \notin joint
<1>1. PICK o \in Operation : SwingHead(o)
    BY HeadMoves
<1>2. head' = o /\ publisher[o] = "swing"
    BY <1>1 DEF SwingHead, AtPublish
<1>3. plan[o].parent = head /\ ~Was(o)
    BY <1>2 DEF IInv, Chain, Holding
<1> QED BY <1>2, <1>3 DEF Was

\* A new acceptance extends the one it saw and is about the reviewed plan.
LEMMA Binds ==
    ASSUME IInv, [Next]_vars, accepted' # accepted
    PROVE  /\ accepted' # None /\ snapshot[accepted'] # None
           /\ snapshot[accepted'].parent = accepted
           /\ snapshot[accepted'].revision = head
           /\ \E g \in Guard :
                 mine[g] = accepted' /\ subject[g] # None /\ Unchanged(subject[g], head)
<1>1. PICK g \in Guard : SwingAccepted(g)
    BY AcceptedMoves
<1>2. accepted' = mine[g] /\ pc[g] = "swing"
    BY <1>1 DEF SwingAccepted
<1>3. /\ mine[g] # None /\ snapshot[mine[g]] # None /\ head = work[g]
      /\ snapshot[mine[g]].parent = accepted /\ snapshot[mine[g]].revision = work[g]
    BY <1>2 DEF IInv, Accepting
<1>4. subject[g] # None /\ Unchanged(subject[g], work[g])
    BY <1>2 DEF IInv, Reviewed
<1> QED BY <1>2, <1>3, <1>4

\* Terminal preparation ends acceptance.
LEMMA Closes ==
    ASSUME IInv, [Next]_vars, closed
    PROVE  closed' /\ accepted' = accepted /\ cache' \in {cache, None}
<1>1. \A g \in Guard : pc[g] # "swing" /\ pc[g] # "cache"
    BY DEF IInv, Ended
<1>2. closed'
    <2>1. CASE UNCHANGED closed
        BY <2>1
    <2>2. CASE Close
        BY <2>2 DEF Close
    <2> QED BY <2>1, <2>2, ClosedMoves
<1>3. UNCHANGED accepted
    <2>1. \A g \in Guard : ~SwingAccepted(g)
        BY <1>1 DEF SwingAccepted
    <2> QED BY <2>1, AcceptedMoves
<1>4. UNCHANGED cache \/ cache' = None
    BY <1>1, CacheMoves
<1> QED BY <1>2, <1>3, <1>4

-----------------------------------------------------------------------------
\* Type correctness of every reachable state.
THEOREM TypeCorrect == Spec => []TypeOK
BY Invariance, PTL DEF IInv

\* Wherever processes die, nothing a head, a revision, a snapshot or the cache
\* names is missing.
THEOREM ResolvableCorrect == Spec => []Resolvable
BY Invariance, Resolves, PTL

\* A transition to a writer is backed by an accepted plan and a working
\* revision that were the two heads at one instant.
THEOREM RouteCorrect == Spec => []RouteBacked
BY Invariance, PTL DEF IInv

\* No publication is lost, and no repeated request brings a revision back.
THEOREM NoLostUpdateCorrect == Spec => NoLostUpdate
<1>1. IInv /\ [Next]_vars =>
        [head' # head =>
            /\ plan[head'].parent = head
            /\ \A s \in Snapshot \cup {None} : <<s, head'>> \notin joint]_vars
    BY Extends
<1> QED BY <1>1, Invariance, PTL DEF Spec, NoLostUpdate

\* Acceptance binds the reviewed plan under both heads it compared.
THEOREM AcceptanceCorrect == Spec => AcceptanceBinds
<1>1. IInv /\ [Next]_vars =>
        [accepted' # accepted =>
            /\ accepted' # None /\ snapshot[accepted'] # None
            /\ snapshot[accepted'].parent = accepted
            /\ snapshot[accepted'].revision = head
            /\ \E g \in Guard :
                  mine[g] = accepted' /\ subject[g] # None /\ Unchanged(subject[g], head)]_vars
    BY Binds
<1> QED BY <1>1, Invariance, PTL DEF Spec, AcceptanceBinds

\* Once terminal preparation owns the plan, nothing more is accepted or cached.
THEOREM ClosedCorrect == Spec => ClosedStays
<1>1. IInv /\ [Next]_vars =>
        [closed => closed' /\ accepted' = accepted /\ cache' \in {cache, None}]_vars
    BY Closes
<1> QED BY <1>1, Invariance, PTL DEF Spec, ClosedStays

\* A route to a writer rests on accepted documents that are all there.
THEOREM GroundedCorrect == Spec => []Grounded
<1>1. Resolvable /\ RouteBacked => Grounded
    BY DEF Grounded
<1> QED
    BY <1>1, ResolvableCorrect, RouteCorrect, PTL

\* Acceptance binds what was reviewed, and ends with terminal preparation.
THEOREM SoundCorrect == Spec => AcceptanceSound
BY AcceptanceCorrect, ClosedCorrect DEF AcceptanceSound
=============================================================================
