------------------------------ MODULE MCPlans ------------------------------
(***************************************************************************)
(* Plans and the graph that works on them, side by side: the plan contract  *)
(* with its store, and the generated delivery graph.  They share no state,  *)
(* so each behaviour is about one of them.                                  *)
(***************************************************************************)
EXTENDS PlanContract, Delivery, TLC

VARIABLE part  \* what this behaviour is about

\* Nothing tells one publication, script, snapshot or text from another.
Symmetry ==
    UNION {Permutations(Operation), Permutations(Guard), Permutations(Snapshot), Permutations(Text)}

-----------------------------------------------------------------------------
(* Policies fall into three sides, how plans reach writers, how work is     *)
(* verified, how it is delivered.  Each side is examined in full while each *)
(* of the other two asks for as little, or for as much, as it can.          *)

Preparations == [fresh : BOOLEAN, coder : BOOLEAN, identity : BOOLEAN, reliable : BOOLEAN]
Checks       == [standards : BOOLEAN, spec : BOOLEAN,
                 smoke : {"disabled", "conditional", "required"}]
Deliveries   == [pulls : BOOLEAN, compliance : BOOLEAN, ci : BOOLEAN, sourceCi : BOOLEAN,
                 v3 : BOOLEAN, publish : BOOLEAN, worktrees : BOOLEAN]

Prepared == {p \in Preparations : /\ p.identity = p.reliable
                                  /\ p.identity = (p.fresh \/ p.coder)}

Checked == {p \in Checks : /\ p.standards = p.spec
                           /\ p.smoke = IF p.spec THEN "required" ELSE "disabled"}

Delivered == {p \in Deliveries : /\ p.worktrees = p.pulls
                                 /\ p.pulls => p.compliance /\ p.ci /\ (p.v3 \/ p.publish)}

Combined(preparations, checks, deliveries) ==
    {p \in {a @@ b @@ c : a \in preparations, b \in checks, c \in deliveries} : Valid(p)}

SomeProfiles == Combined(Preparations, Checked, Delivered)
                \cup Combined(Prepared, Checks, Delivered)
                \cup Combined(Prepared, Checked, Deliveries)

-----------------------------------------------------------------------------
\* What a behaviour is not about keeps one initial value.
Begin ==
    /\ part \in {"contract", "graph"}
    /\ Init
    /\ GraphInit /\ (part # "graph" => profile = CHOOSE p \in Profiles : TRUE)

Guards == part = "contract" /\ Next /\ UNCHANGED <<part, graphVars>>
Routes == part = "graph" /\ GraphNext /\ UNCHANGED <<part, vars>>

Plans == Begin /\ [][Guards \/ Routes]_<<part, vars, graphVars>>
=============================================================================
