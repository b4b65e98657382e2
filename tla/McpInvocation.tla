---------------------------- MODULE McpInvocation ----------------------------
(***************************************************************************)
(* MCP calls with receipts: kent-mcp-list and kent-mcp-call (adapters/mcp)  *)
(* over the invocation, artifact and cache records of ProjectMemory         *)
(* (workflowkit/project_memory.py).                                         *)
(*                                                                          *)
(* A client process runs one request under an invocation id that its caller *)
(* chose; a caller that got no answer may start another process with the    *)
(* same id.  Every store request is served by an adapter process under the  *)
(* lock of the invocation.  What the MCP server does is not undone by a     *)
(* crash, so a started invocation must never be called a second time.       *)
(***************************************************************************)
EXTENDS Naturals

CONSTANTS
    Client,       \* processes of kent-mcp-list and kent-mcp-call
    Invocation,   \* invocation ids
    InvOf,        \* InvOf[c]: the id that the caller gave to process c
    Content,      \* digests of what the MCP server answers
    Nothing       \* no receipt, no object, no holder

\* "schema": list --schema.      "refresh": the same with --refresh.
\* "raw": call with --save-raw.  "plain": any other list or call.
Kinds       == {"schema", "refresh", "raw", "plain"}
SchemaKinds == {"schema", "refresh"}

Starts   == [owner : Client, request : Kinds]
Outcomes == [ok : BOOLEAN, object : Content \cup {Nothing}]
NoResult == [ok |-> FALSE, object |-> Nothing]

ASSUME InvocationAssumption ==
    /\ Nothing \notin Client \cup Content \cup Starts \cup Outcomes
    /\ InvOf \in [Client -> Invocation]

VARIABLES
    kind,      \* kind[c]: the request of c, fixed
    where,     \* where[c]: where client c is
    lock,      \* lock[i]: who holds the .lock of the invocation directory
    started,   \* started[i]: started.json, with its owner and request
    finished,  \* finished[i]: finished.json, with its exit and object
    objects,   \* the immutable objects stored
    cache,     \* the object of the one schema cache head
    called,    \* called[c]: c has dispatched its request to the server
    result,    \* result[c]: the outcome as c holds it in memory
    told       \* told[c]: what c told its caller

invocationVars ==
    <<kind, where, lock, started, finished, objects, cache, called, result, told>>
store == <<lock, started, finished, objects, cache>>

-----------------------------------------------------------------------------
\* Type correctness.
InvocationTypeOK ==
    /\ kind \in [Client -> Kinds]
    /\ where \in [Client -> {"begin", "starting", "lookup", "call", "put",
                          "publish", "finish", "report", "done"}]
    /\ lock \in [Invocation -> Client \cup {Nothing}]
    /\ started \in [Invocation -> Starts \cup {Nothing}]
    /\ finished \in [Invocation -> Outcomes \cup {Nothing}]
    /\ objects \subseteq Content
    /\ cache \in Content \cup {Nothing}
    /\ called \in [Client -> BOOLEAN]
    /\ result \in [Client -> Outcomes]
    /\ told \in [Client -> {"nothing", "unknown", "finished", "conflict", "output"}]

InvocationInit ==
    /\ kind \in [Client -> Kinds]
    /\ where = [c \in Client |-> "begin"]
    /\ lock = [i \in Invocation |-> Nothing]
    /\ started = [i \in Invocation |-> Nothing]
    /\ finished = [i \in Invocation |-> Nothing]
    /\ objects = {} /\ cache = Nothing
    /\ called = [c \in Client |-> FALSE]
    /\ result = [c \in Client |-> NoResult]
    /\ told = [c \in Client |-> "nothing"]

Goto(c, p) == where' = [where EXCEPT ![c] = p]

\* The requests of a client queue for the lock of its invocation.
Free(c) == lock[InvOf[c]] = Nothing

-----------------------------------------------------------------------------
\* begin_invocation

\* What an existing start answers; neither answer carries the owner token.
State(c) ==
    LET s == started[InvOf[c]] IN
    IF s.request # kind[c] THEN "conflict"
    ELSE IF finished[InvOf[c]] # Nothing THEN "finished" ELSE "unknown"

\* Mutant: the same request is resumed instead of reported as unknown.
BeginResumes(c) ==
    /\ where[c] = "begin"
    /\ Free(c)
    /\ IF started[InvOf[c]] = Nothing \/ State(c) = "unknown"
       THEN /\ lock' = [lock EXCEPT ![InvOf[c]] = c]
            /\ Goto(c, "starting")
            /\ UNCHANGED told
       ELSE /\ told' = [told EXCEPT ![c] = State(c)]
            /\ Goto(c, "done")
            /\ UNCHANGED lock
    /\ UNCHANGED <<kind, started, finished, objects, cache, called, result>>

\* Only an invocation that was never started gets an owner; exit 4 or 5
\* otherwise.
Begin(c) ==
    /\ where[c] = "begin"
    /\ Free(c)
    /\ IF started[InvOf[c]] = Nothing
       THEN /\ lock' = [lock EXCEPT ![InvOf[c]] = c]
            /\ Goto(c, "starting")
            /\ UNCHANGED told
       ELSE /\ told' = [told EXCEPT ![c] = State(c)]
            /\ Goto(c, "done")
            /\ UNCHANGED lock
    /\ UNCHANGED <<kind, started, finished, objects, cache, called, result>>

UnlockInvocation(c) == lock' = [lock EXCEPT ![InvOf[c]] = IF @ = c THEN Nothing ELSE @]

\* Mutant: the answer leaves the lock behind.
WriteStartedLocked(c) ==
    /\ where[c] = "starting"
    /\ started' = [started EXCEPT ![InvOf[c]] = [owner |-> c, request |-> kind[c]]]
    /\ Goto(c, IF kind[c] = "schema" THEN "lookup" ELSE "call")
    /\ UNCHANGED <<kind, lock, finished, objects, cache, called, result, told>>

\* os.replace of started.json, with a fresh owner token, and the answer.
WriteStarted(c) ==
    /\ where[c] = "starting"
    /\ started' = [started EXCEPT ![InvOf[c]] = [owner |-> c, request |-> kind[c]]]
    /\ UnlockInvocation(c)
    /\ Goto(c, IF kind[c] = "schema" THEN "lookup" ELSE "call")
    /\ UNCHANGED <<kind, finished, objects, cache, called, result, told>>

-----------------------------------------------------------------------------
\* The request itself

\* read_cache, without a lock: a hit is the result, and nothing is called.
Lookup(c) ==
    /\ where[c] = "lookup"
    /\ IF cache = Nothing
       THEN Goto(c, "call") /\ UNCHANGED result
       ELSE /\ result' = [result EXCEPT ![c] = [ok |-> TRUE, object |-> cache]]
            /\ Goto(c, "finish")
    /\ UNCHANGED <<kind, store, called, told>>

\* A schema that is no bounded JSON object is not stored, a raw answer is
\* stored even when the call failed.
AfterCall(c, r) == IF r.object = Nothing THEN "finish" ELSE "put"

\* mcporter runs; its answer and its exit code are the server's.
Call(c) ==
    /\ where[c] = "call"
    /\ called' = [called EXCEPT ![c] = TRUE]
    /\ \E r \in Outcomes :
          /\ kind[c] = "plain" => r.object = Nothing
          /\ kind[c] \in SchemaKinds /\ ~r.ok => r.object = Nothing
          /\ kind[c] = "raw" => r.object # Nothing
          /\ result' = [result EXCEPT ![c] = r]
          /\ Goto(c, AfterCall(c, r))
    /\ UNCHANGED <<kind, store, told>>

-----------------------------------------------------------------------------
\* Publication, by the active owner of an unfinished invocation only

ActiveOwner(c) ==
    /\ Free(c)
    /\ started[InvOf[c]] # Nothing
    /\ started[InvOf[c]].owner = c
    /\ finished[InvOf[c]] = Nothing

\* put-artifact: an existing object is compared, never rewritten.
PutObject(c) ==
    /\ where[c] = "put"
    /\ ActiveOwner(c)
    /\ objects' = objects \cup {result[c].object}
    /\ Goto(c, IF kind[c] \in SchemaKinds THEN "publish" ELSE "finish")
    /\ UNCHANGED <<kind, lock, started, finished, cache, called, result, told>>

\* publish-cache: the head is replaced; its object was read back before.
Publish(c) ==
    /\ where[c] = "publish"
    /\ ActiveOwner(c)
    /\ cache' = result[c].object
    /\ Goto(c, "finish")
    /\ UNCHANGED <<kind, lock, started, finished, objects, called, result, told>>

\* finish_invocation: the terminal receipt.
Finish(c) ==
    /\ where[c] = "finish"
    /\ ActiveOwner(c)
    /\ finished' = [finished EXCEPT ![InvOf[c]] = result[c]]
    /\ Goto(c, "report")
    /\ UNCHANGED <<kind, lock, started, objects, cache, called, result, told>>

\* The output is shown only after the receipt.
Report(c) ==
    /\ where[c] = "report"
    /\ told' = [told EXCEPT ![c] = "output"]
    /\ Goto(c, "done")
    /\ UNCHANGED <<kind, store, called, result>>

-----------------------------------------------------------------------------
\* Killed, refused or failing anywhere: every step is `|| exit`.
Stop(c) ==
    /\ where[c] # "done"
    /\ UnlockInvocation(c)
    /\ Goto(c, "done")
    /\ UNCHANGED <<kind, started, finished, objects, cache, called, result, told>>

Request(c) ==
    Begin(c) \/ WriteStarted(c) \/ Lookup(c) \/ PutObject(c) \/ Publish(c) \/ Finish(c) \/ Report(c)

InvocationNext == \E c \in Client : Request(c) \/ Call(c) \/ Stop(c)

InvocationSpec == InvocationInit /\ [][InvocationNext]_invocationVars

\* The store requests are finite; nothing bounds the MCP server.
FairInvocationSpec == InvocationSpec /\ \A c \in Client : WF_invocationVars(Request(c))

-----------------------------------------------------------------------------
\* Correctness

\* "do not replay": however often its caller retries and wherever processes
\* die, an invocation id reaches the server at most once.
AtMostOnce ==
    \A c, d \in Client : called[c] /\ called[d] /\ InvOf[c] = InvOf[d] => c = d

\* Nothing dangles: the cache and every receipt name stored objects, and what
\* a caller was shown is on record, failures included.
ReceiptBacked ==
    /\ cache # Nothing => cache \in objects
    /\ \A i \in Invocation :
          finished[i] # Nothing =>
              started[i] # Nothing /\ finished[i].object \in objects \cup {Nothing}
    /\ \A c \in Client : told[c] = "output" => finished[InvOf[c]] = result[c]

\* An unknown outcome stays unknown: once the owner of a start is gone, nobody
\* else closes its receipt.
UnknownStays ==
    [][\A i \in Invocation :
          started[i] # Nothing /\ finished[i] = Nothing /\ where[started[i].owner] = "done" =>
              started'[i] = started[i] /\ finished'[i] = Nothing]_invocationVars

-----------------------------------------------------------------------------
\* The strengthening that makes AtMostOnce and ReceiptBacked inductive

Working == {"lookup", "call", "put", "publish", "finish", "report"}

\* The lock goes to one starter; whoever got past it is the recorded owner.
Ownership ==
    \A c \in Client :
        /\ where[c] = "starting" => lock[InvOf[c]] = c /\ started[InvOf[c]] = Nothing
        /\ where[c] \in Working \/ called[c] =>
               started[InvOf[c]] # Nothing /\ started[InvOf[c]].owner = c
        /\ lock[InvOf[c]] = c => where[c] = "starting"

\* What a client is about to record has been stored.
Stored ==
    \A c \in Client :
        /\ where[c] \in {"put", "publish"} => result[c].object # Nothing
        /\ where[c] = "publish" => result[c].object \in objects
        /\ where[c] = "finish" => result[c].object \in objects \cup {Nothing}
        /\ where[c] = "report" => finished[InvOf[c]] = result[c]
        /\ where[c] \in Working \ {"report"} => finished[InvOf[c]] = Nothing
        /\ where[c] = "starting" => finished[InvOf[c]] = Nothing

\* Only a started invocation has a receipt.
Receipts == \A i \in Invocation : finished[i] # Nothing => started[i] # Nothing

\* A caller that was shown an output is the owner.
Shown ==
    \A c \in Client : told[c] = "output" =>
        where[c] = "done" /\ started[InvOf[c]] # Nothing /\ started[InvOf[c]].owner = c

ReceiptInv == Ownership /\ Stored /\ Receipts /\ Shown
=============================================================================
