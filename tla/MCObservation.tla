--------------------------- MODULE MCObservation ---------------------------
(***************************************************************************)
(* Two readers of worlds that move while they read, side by side: the       *)
(* review of a live Workflow, and the watchers of a pull request.  They     *)
(* share no state, so each behaviour is about one of them.                  *)
(***************************************************************************)
EXTENDS LiveReview, CiWatch, TLC

VARIABLE reader  \* whose behaviour this is

\* A Task waits in the backlog, an agent works, and its result needs approval.
Row(a, b, g) == [from |-> a, to |-> b, gate |-> g, text |-> 0]

SourceGraph ==
    [version |-> 1,
     kind |-> ("backlog" :> "start") @@ ("work" :> "agent") @@ ("done" :> "terminal"),
     edge |-> ("begin" :> Row("backlog", "work", FALSE)) @@ ("finish" :> Row("work", "done", TRUE))]

Target == [SourceGraph EXCEPT !.version = 2]

\* Another prompt, no approval, a check instead of it, and no agent at all.
TargetGraphs ==
    {[Target EXCEPT !.edge["finish"].text = 1],
     [Target EXCEPT !.edge["finish"].gate = FALSE],
     [Target EXCEPT !.kind = @ @@ ("check" :> "script"),
                    !.edge = @ @@ ("try" :> Row("work", "check", FALSE))
                               @@ ("ok" :> Row("check", "done", FALSE))],
     [Target EXCEPT !.kind = ("backlog" :> "start") @@ ("done" :> "terminal"),
                    !.edge = ("begin" :> Row("backlog", "done", FALSE))]}

-----------------------------------------------------------------------------
First(s) == CHOOSE x \in s : TRUE

Begin ==
    /\ reader \in {"review", "watch"}
    /\ ReviewInit
    /\ reader # "review" =>
         /\ \A t \in Tasks : task[t].node = "backlog"
         /\ plan = [target |-> First(Targets), review |-> First(Reviews), native |-> FALSE]
    /\ WatchInit /\ (reader # "watch" => pr.checks = "none" /\ pr.items = {})

Changes == reader = "review" /\ ReviewNext /\ UNCHANGED <<reader, watchVars>>
Watches == reader = "watch" /\ WatchNext /\ UNCHANGED <<reader, reviewVars>>

Observation == Begin /\ [][Changes \/ Watches]_<<reader, reviewVars, watchVars>>
=============================================================================
