----------------------------- MODULE MCServices -----------------------------
(***************************************************************************)
(* Three services whose callers wait for others, side by side: journaled    *)
(* effects under every fault, MCP invocations, and acquire-any of devices.  *)
(* They share no state, so each behaviour is about one of them.             *)
(***************************************************************************)
EXTENDS McpInvocation, ResourceLock, TLC

CONSTANTS c1, c2, c3, j1, j2,
          i1, i2, NoDriver,   \* the drivers of the effect
          s1, s2              \* the Sessions that wait for a device

VARIABLES
    service,    \* what this behaviour is about
    epc, eflocked, eview, eseen, ejournal, etemp, eguardian, ereleased, echild,
    elaunched, eworld

evars == <<epc, eflocked, eview, eseen, ejournal, etemp, eguardian, ereleased, echild,
           elaunched, eworld>>

\* c2 is a retry of c1, c3 shares nothing but the schema cache with them.
IdOfThree == (c1 :> j1) @@ (c2 :> j1) @@ (c3 :> j2)

\* Two Sessions of two Tasks.
OwnTasks == [s \in {s1, s2} |-> s]

AllFaults == {"crash", "io", "drift", "interrupt", "stubborn", "guardian_kill"}

Effect == INSTANCE EffectJournal WITH
    Invocation <- {i1, i2}, NoInvocation <- NoDriver, Faults <- AllFaults,
    pc <- epc, flocked <- eflocked, view <- eview, seen <- eseen, journal <- ejournal,
    temp <- etemp, guardian <- eguardian, released <- ereleased, child <- echild,
    launched <- elaunched, world <- eworld

-----------------------------------------------------------------------------
Start ==
    /\ service \in {"effect", "mcp", "device"}
    /\ Effect!Init
    /\ InvocationInit
    /\ service # "mcp" => kind = [c \in Client |-> CHOOSE k \in Kinds : TRUE]
    /\ Init
    /\ service # "device" => res = [s \in Callers |-> CHOOSE r \in Resources : TRUE]

all == <<service, vars, evars, invocationVars>>

Effects  == service = "effect" /\ Effect!Next /\ UNCHANGED <<service, vars, invocationVars>>
Invokes  == service = "mcp" /\ InvocationNext /\ UNCHANGED <<service, vars, evars>>
Acquires == service = "device" /\ Next /\ UNCHANGED <<service, evars, invocationVars>>

Services == Start /\ [][Effects \/ Invokes \/ Acquires]_all

\* The fairness of EffectJournal, McpInvocation and ResourceLock, each in its
\* behaviours: one formula for a driver, a client and a Session together.
Works(i, c, s) ==
    \/ /\ service = "effect" /\ (Effect!Driver(i) \/ Effect!Raises(i))
       /\ UNCHANGED <<service, vars, invocationVars>>
    \/ service = "mcp" /\ Request(c) /\ UNCHANGED <<service, vars, evars>>
    \/ /\ service = "device"
       /\ (Remove(s) \/ Write(s) \/ Answer(s))
       /\ UNCHANGED <<service, evars, invocationVars>>

Enters(s) == service = "device" /\ Enter(s) /\ UNCHANGED <<service, evars, invocationVars>>

FairServices ==
    /\ Services
    /\ WF_all(Works(i1, c1, s1)) /\ WF_all(Works(i2, c2, s2)) /\ WF_all(Works(i2, c3, s2))
    /\ SF_all(Enters(s1)) /\ SF_all(Enters(s2))

-----------------------------------------------------------------------------
\* The first driver of the effect, or client, or Session, at its call.
AtWork == \/ service = "effect" /\ Effect!Active(i1)
          \/ service = "mcp" /\ where[c1] = "begin"
          \/ service = "device" /\ pc[s1] # "idle"

\* Every call returns: a driver whatever guardians and children do (run_effect),
\* a client at the invocation store (begin), a Session from acquire-any, resume
\* or release.  Drivers, Sessions and the two processes of one invocation are
\* each other's mirror image and c3 contends with nobody, so that what holds of
\* the first caller of a service holds of all.
CallsReturn == AtWork ~> ~AtWork
=============================================================================
