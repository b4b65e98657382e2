----------------------------- MODULE MCLiveReview -----------------------------
(* The review of a live Workflow, for the run about an approval that the    *)
(* reviewed change withdraws while a Task waits for it.                     *)
EXTENDS LiveReview, TLC

\* A Task waits in the backlog, an agent works, and its result needs approval.
Row(a, b, g) == [from |-> a, to |-> b, gate |-> g, text |-> 0]

Approved ==
    [version |-> 1,
     kind |-> ("backlog" :> "start") @@ ("work" :> "agent") @@ ("done" :> "terminal"),
     edge |-> ("begin" :> Row("backlog", "work", FALSE)) @@ ("finish" :> Row("work", "done", TRUE))]

Unapproved == {[Approved EXCEPT !.version = 2, !.edge["finish"].gate = FALSE]}
=============================================================================
