-------------------------- MODULE SourceAdmission --------------------------
(***************************************************************************)
(* How a delivery learns which source it may run (workflowkit/operations.py *)
(* and scripts/inspect-delivery-source).  A producer PREPARES a publication *)
(* receipt: it lists, for every root, the published files it has read.  A   *)
(* reviewed plan INSTALLS an admission frame naming that receipt in the      *)
(* Workflow.  Every later run is ADMITTED anew: it reads the frame, the      *)
(* installation binding, the receipt, and inspects all roots against it.     *)
(*                                                                         *)
(* None of this holds a lock.  The roots are checkouts other people edit,   *)
(* commit to and push, the installation may be rebound and the Workflow      *)
(* replaced between any two looks.  The code therefore looks twice, and the *)
(* module asks what two looks are worth.                                    *)
(*                                                                         *)
(* Source content is a version number that only grows: a file edited and    *)
(* restored between two looks is outside the contract (the inspector's own  *)
(* comment).  A commit is the version it publishes; commits of a product    *)
(* root that leave its infrastructure alone are one version.                *)
(***************************************************************************)
EXTENDS Naturals, Sequences, FiniteSets

CONSTANTS None,
          Producers,    \* processes preparing a publication
          Paths,        \* private candidate files a receipt can be written to
          Extras,       \* published project paths beyond the infrastructure
          Tree,         \* Tree[v]: the extras the project publishes at version v
          MaxVersion,   \* bound: versions of each root
          MaxMoves,     \* bound: edits and pushes of all roots
          MaxGraph,     \* bound: revisions of the Workflow
          MaxBinding    \* bound: installations rebound

Roots == {"project", "kit"}
First == "first"        \* the receipt installed before the behaviour begins
Zero == [r \in Roots |-> 0]

\* Source-only receipts come in two versions, both of which are still admitted:
\* the older one lists files, the newer one is under the content policy and has a
\* producer.  An installation has runtime receipts.
SourceSchemas == {"source-v1", "source-v2"}

\* What a receipt says, and whether it did when it was written.
Receipts == [schema : SourceSchemas \cup {"runtime"},
             pin : [Roots -> Nat], extras : SUBSET Extras, true : BOOLEAN]

ASSUME SourceAssumption == None # "admitted" /\ None \notin Receipts

VARIABLES
  disk,      \* the version in each checkout
  head,      \* the commit each checkout stands on
  tip,       \* the commit each publication ref names
  receipts,  \* path -> receipt or None
  packets,   \* the provenance packets on disk
  binding,   \* the native installation binding: receipt and serial
  graph,     \* the Workflow: revision, admission frame, a stray carrier
  prod,      \* the producers
  adm,       \* the admission in progress
  whole      \* has everything adm relies on held at one moment of it

env == <<disk, head, tip>>
sourceVars == <<env, receipts, packets, binding, graph, prod, adm, whole>>

-----------------------------------------------------------------------------
(* Records *)

\* A checkout is qualified at a version: it stands on that commit and its
\* files, index and modes are the commit's.
At(root, v) == disk[root] = v /\ head[root] = v

\* A receipt names the commit of every root and the extras it covers.
Receipt(schema, pin, extras) ==
  [schema |-> schema, pin |-> pin, extras |-> extras, true |-> \A r \in Roots : At(r, pin[r])]

\* Records are private files read without following links and compared with
\* themselves before and after: a read returns one whole record.
Record(path) == receipts[path]

\* Which mode an admission frame is in: the source-only kind binds the plan,
\* the R2 kind binds the installation by its digest (here its serial).
SourceOnly(frame) == frame.serial = 0

Frame(path, serial) == [receipt |-> path, serial |-> serial]

\* Coverage against the predecessor: every added path is new, and the candidate
\* covers the old extras and the added ones, no fewer and no others.
Coverage(prior, candidate, added) ==
  /\ added \cap prior.extras = {}
  /\ candidate.extras = prior.extras \cup added

-----------------------------------------------------------------------------
(* Preparing a publication *)

\* What a producer looks at in one pass over its inputs, in order.
Looks == <<"predecessor", "project", "kit", "refs">>

Idle == [pc |-> "idle", at |-> 0, path |-> None, pin |-> Zero, tips |-> Zero,
         added |-> {}, extras |-> {}, capture |-> None, binding |-> None]

Begun(path, added, capture) ==
  [Idle EXCEPT !.pc = "collect", !.at = 1, !.path = path, !.added = added, !.pin = head,
               !.capture = capture, !.binding = binding]

Busy == \E p \in Producers : prod[p].pc \notin {"idle", "prepared"}

\* The arguments name the commits to publish and the paths to add; the HEADs
\* are remembered.  The predecessor of a source-only receipt is a capture of the
\* Workflow, perhaps an old one, whose one frame is source-only; that of a runtime
\* receipt is the installation binding, whatever frame the Workflow has.  A
\* preparation and an admission share nothing but files created once, so they take
\* turns here (bound).
Begin(p) ==
  /\ ~Busy /\ adm.at = 0
  /\ \E path \in Paths :
       \/ \E added \in SUBSET Extras, capture \in {graph} \cup {k.capture : k \in packets} :
            /\ ~capture.stray /\ SourceOnly(capture.frame)
            /\ prod' = [prod EXCEPT ![p] = Begun(path, added, capture)]
       \/ binding.serial > 0 /\ prod' = [prod EXCEPT ![p] = Begun(path, {}, None)]
  /\ UNCHANGED <<env, receipts, packets, binding, graph, adm>>

\* Without a capture it is a runtime receipt that is prepared.
Runtime(q) == q.capture = None

Prior(q) == Record(IF Runtime(q) THEN q.binding.receipt ELSE q.capture.frame.receipt)

\* The predecessor is unchanged: the capture is an immutable document, the
\* installation binding is not.
PredecessorHolds(q) == Runtime(q) => binding = q.binding

LookHolds(q, look) ==
  CASE look = "predecessor" -> PredecessorHolds(q)
    [] look = "refs" -> tip = q.tips /\ head = q.pin
    [] OTHER -> At(look, q.pin[look])

\* What the predecessor step of the first pass settles: the extras to carry on,
\* all of which must be published at the commit named, and the refs' tips, which
\* must contain the commits.
Settle(q) ==
  [q EXCEPT !.tips = tip,
            !.extras = IF Runtime(q) THEN {} ELSE Prior(q).extras \cup q.added]

Settleable(q) ==
  /\ \A r \in Roots : q.pin[r] <= tip[r]
  /\ ~Runtime(q) => /\ Prior(q).schema \in SourceSchemas
                    /\ q.added \cap Prior(q).extras = {}
                    /\ Prior(q).extras \cup q.added \subseteq Tree[q.pin["project"]]

\* One look of a pass; a difference ends the preparation and leaves whatever it
\* has written where it is.  The collecting pass is followed by the freshness
\* looks, these by the writing, and the freshness looks after it by the answer.
Look(p) ==
  LET q == prod[p]
      look == Looks[q.at]
      settling == q.pc = "collect" /\ look = "predecessor"
      good == LookHolds(q, look) /\ (settling => Settleable(q))
      settled == IF settling THEN Settle(q) ELSE q IN
  /\ q.pc \in {"collect", "before", "after"}
  /\ prod' = [prod EXCEPT ![p] =
                IF ~good THEN Idle
                ELSE IF q.at < Len(Looks) THEN [settled EXCEPT !.at = @ + 1]
                ELSE IF q.pc = "after" THEN [Idle EXCEPT !.pc = "prepared", !.path = q.path]
                ELSE [settled EXCEPT !.at = 1, !.pc = IF q.pc = "collect" THEN "before" ELSE "write"]]
  /\ UNCHANGED <<env, receipts, packets, binding, graph, adm>>

\* What a preparation writes.
Candidate(q) == Receipt(IF Runtime(q) THEN "runtime" ELSE "source-v2", q.pin, q.extras)

\* The receipt is created exclusively, read back and synchronised; runtime
\* candidates have no provenance packet.
Write(p) ==
  LET q == prod[p] IN
  /\ q.pc = "write"
  /\ IF receipts[q.path] = None
     THEN /\ receipts' = [receipts EXCEPT ![q.path] = Candidate(q)]
          /\ prod' = [prod EXCEPT ![p].pc = IF Runtime(q) THEN "after" ELSE "packet"]
     ELSE prod' = [prod EXCEPT ![p] = Idle] /\ UNCHANGED receipts
  /\ UNCHANGED <<env, packets, binding, graph, adm>>

Packet(q) == [capture |-> q.capture, candidate |-> q.path, added |-> q.added]

\* A fault: the candidate is answered for without another look.
WritePacketAnswers(p) ==
  /\ prod[p].pc = "packet"
  /\ packets' = packets \cup {Packet(prod[p])}
  /\ prod' = [prod EXCEPT ![p] = [Idle EXCEPT !.pc = "prepared", !.path = prod[p].path]]
  /\ UNCHANGED <<env, receipts, binding, graph, adm>>

WritePacket(p) ==
  /\ prod[p].pc = "packet"
  /\ packets' = packets \cup {Packet(prod[p])}
  /\ prod' = [prod EXCEPT ![p].pc = "after"]
  /\ UNCHANGED <<env, receipts, binding, graph, adm>>

\* The producer dies: nothing it wrote is removed.
Die(p) ==
  /\ prod[p].pc \in {"collect", "before", "write", "packet", "after"}
  /\ prod' = [prod EXCEPT ![p] = Idle]
  /\ UNCHANGED <<env, receipts, packets, binding, graph, adm>>

-----------------------------------------------------------------------------
(* Admitting a source *)

\* The looks of one admission, in order: the carrier in the Workflow (a reader
\* resolves it once before), the installation binding and the receipt, the HEADs
\* and publication tips, two passes over the roots, the refs again, and the
\* records again.
Steps == <<"resolve", "carrier", "records", "start", "project", "kit", "project", "kit", "refs", "again">>

NoAdmission == [at |-> 0, frame |-> None, binding |-> None, pin |-> Zero, tips |-> Zero,
                role |-> "gate", verdict |-> None]

\* An admission is asked for by a plan's gate, which carries the frame to admit (of
\* either kind: a reviewed plan may change the kind), by the Script on the ingress
\* edge, or by a reader elsewhere in the Workflow.
Ask ==
  /\ adm.at = 0 /\ ~Busy
  /\ \/ \E path \in Paths \cup {First}, serial \in {0, binding.serial} :
          /\ receipts[path] # None
          /\ adm' = [NoAdmission EXCEPT !.at = 3, !.frame = Frame(path, serial)]
     \/ adm' = [NoAdmission EXCEPT !.at = 2, !.role = "script"]
     \/ adm' = [NoAdmission EXCEPT !.at = 1, !.role = "reader"]
  /\ UNCHANGED <<env, receipts, packets, binding, graph, prod>>

\* The one carrier of the Workflow's frame; two, or a second prompt with its
\* markers, are ambiguous.  A reader that resolved the frame before the Script's
\* admission read it again must find the same one.
CarrierRead(a) == ~graph.stray /\ (a.role = "reader" => graph.frame = a.frame)

\* A reader also qualifies the Kit the receipt pins.
Resolved == ~graph.stray /\ At("kit", Record(graph.frame.receipt).pin["kit"])

\* The installation must name the receipt the frame names, by the digest the
\* frame carries; a source-only frame names its receipt itself.
RecordsRead(a) ==
  IF SourceOnly(a.frame)
  THEN Record(a.frame.receipt).schema \in SourceSchemas
  ELSE binding = [receipt |-> a.frame.receipt, serial |-> a.frame.serial]
       /\ Record(a.frame.receipt).schema = "runtime"

\* The inspection starts: every root stands on the receipt's commit, which the
\* publication ref contains.  The policies of the schemas differ in how a root is
\* compared with its commit, which At leaves out.
StartRead(a) == \A r \in Roots : head[r] = a.pin[r] /\ a.pin[r] <= tip[r]

\* The records are read again after the inspection.
Unchanged(a) == SourceOnly(a.frame) \/ binding = a.binding

Passed(a, step) ==
  CASE step = "resolve" -> Resolved
    [] step = "carrier" -> CarrierRead(a)
    [] step = "records" -> RecordsRead(a)
    [] step = "start" -> StartRead(a)
    [] step = "refs" -> tip = a.tips /\ head = a.pin
    [] step = "again" -> Unchanged(a)
    [] OTHER -> At(step, a.pin[step])

Learn(a, step) ==
  CASE step \in {"resolve", "carrier"} -> [a EXCEPT !.frame = graph.frame]
    [] step = "records" -> [a EXCEPT !.binding = binding, !.pin = Record(a.frame.receipt).pin]
    [] step = "start" -> [a EXCEPT !.tips = tip]
    [] OTHER -> a

\* One step of the admission; any difference refuses it, and the last step that
\* passes is the verdict.
Admit ==
  LET step == Steps[adm.at] IN
  /\ adm.at > 0 /\ adm.verdict = None
  /\ adm' = IF ~Passed(adm, step) THEN NoAdmission
            ELSE IF adm.at < Len(Steps) THEN [Learn(adm, step) EXCEPT !.at = @ + 1]
            ELSE [adm EXCEPT !.verdict = "admitted"]
  /\ UNCHANGED <<env, receipts, packets, binding, graph, prod>>

\* The caller has what it asked for.
Forget ==
  /\ adm.verdict # None /\ adm' = NoAdmission
  /\ UNCHANGED <<env, receipts, packets, binding, graph, prod>>

-----------------------------------------------------------------------------
(* Installing a frame *)

\* Only source-only receipts of the newer version are under the content policy:
\* any other frame is installed without a look at what it covers.
Governed(frame) == SourceOnly(frame) /\ Record(frame.receipt).schema = "source-v2"

\* A packet vouches for a candidate: what it was prepared from has a source-only
\* frame, and the candidate covers what that frame did.
Vouches(k, frame) ==
  /\ k.candidate = frame.receipt /\ SourceOnly(k.capture.frame)
  /\ Coverage(Record(k.capture.frame.receipt), Record(frame.receipt), k.added)

\* A fault: any capture of this Workflow will do.
IntroducedFromAny(frame) ==
  Governed(frame) =>
    /\ ~graph.stray
    /\ frame = graph.frame \/ \E k \in packets : Vouches(k, frame)

\* A new frame under the policy needs a packet that vouches for it and whose capture
\* is the plan's own preimage; a frame already carried is reused without one.  A
\* preimage whose carrier cannot be read is refused.
Introduced(frame) ==
  Governed(frame) =>
    /\ ~graph.stray
    /\ frame = graph.frame \/ \E k \in packets : k.capture = graph /\ Vouches(k, frame)

\* The target graph carries the one frame, on the sole edge out of its entry.
Rendered(frame) == [revision |-> graph.revision + 1, frame |-> frame, stray |-> FALSE]

\* The source of the plan, admitted anew at its last gate.
Admitted(a) == a.role = "gate" /\ a.verdict = "admitted"

\* The plan's effect: its source was just admitted, and the Workflow is still the
\* preimage it was reviewed against.
Install ==
  /\ Admitted(adm)
  /\ graph.revision < MaxGraph
  /\ Introduced(adm.frame)
  /\ graph' = Rendered(adm.frame)
  /\ adm' = NoAdmission
  /\ UNCHANGED <<env, receipts, packets, binding, prod>>

-----------------------------------------------------------------------------
(* The world outside *)

Moves == LET of(r) == disk[r] + tip[r] IN of("project") + of("kit")

Outside ==
  /\ \/ /\ \E r \in Roots :
             \/ /\ Moves < MaxMoves /\ disk[r] < MaxVersion
                /\ disk' = [disk EXCEPT ![r] = @ + 1] /\ UNCHANGED <<head, tip>>
             \/ head[r] < disk[r] /\ head' = [head EXCEPT ![r] = disk[r]] /\ UNCHANGED <<disk, tip>>
             \/ /\ Moves < MaxMoves /\ tip[r] < MaxVersion
                /\ tip' = [tip EXCEPT ![r] = @ + 1] /\ UNCHANGED <<disk, head>>
        /\ UNCHANGED <<binding, graph>>
     \/ /\ binding.serial < MaxBinding
        /\ \E path \in {x \in Paths : receipts[x] # None /\ receipts[x].schema = "runtime"} :
             binding' = [receipt |-> path, serial |-> binding.serial + 1]
        /\ UNCHANGED <<env, graph>>
     \/ /\ graph.revision < MaxGraph
        /\ \E stray \in BOOLEAN : graph' = [graph EXCEPT !.revision = @ + 1, !.stray = stray]
        /\ UNCHANGED <<env, binding>>
  /\ UNCHANGED <<receipts, packets, prod, adm>>

\* Receipts come from elsewhere too: the older source-only ones have no producer,
\* and the first installation writes what it was given as its receipt.  They list
\* published commits, and wait their turn like the others (bound).
Provide ==
  /\ ~Busy /\ adm.at = 0
  /\ \A r \in Roots : At(r, head[r]) /\ head[r] <= tip[r]
  /\ \E path \in Paths, extras \in SUBSET (Extras \cap Tree[head["project"]]), schema \in {"source-v1", "runtime"} :
       /\ receipts[path] = None /\ (schema = "runtime" => extras = {})
       /\ receipts' = [receipts EXCEPT ![path] = Receipt(schema, head, extras)]
  /\ UNCHANGED <<env, packets, binding, graph, prod, adm>>

-----------------------------------------------------------------------------
\* Everything the admission relies on, at one moment.
Together(a) ==
  /\ \A r \in Roots : At(r, a.pin[r])
  /\ tip = a.tips
  /\ SourceOnly(a.frame) \/ binding = a.binding

\* From the moment the tips are captured.
Noted == whole' = (adm'.at > 4 /\ ((adm.at > 4 /\ whole) \/ Together(adm)'))

SourceInit ==
  /\ disk = [r \in Roots |-> 0] /\ head = disk /\ tip = disk
  /\ packets = {}
  /\ \E serial \in {0, 1}, schema \in SourceSchemas \cup {"runtime"}, extras \in SUBSET (Extras \cap Tree[0]) :
       /\ IF serial = 0 THEN schema \in SourceSchemas ELSE schema = "runtime" /\ extras = {}
       /\ receipts = [x \in Paths \cup {First} |->
                        IF x = First THEN Receipt(schema, Zero, extras) ELSE None]
       /\ binding = [receipt |-> First, serial |-> serial]
       /\ graph = [revision |-> 0, frame |-> Frame(First, serial), stray |-> FALSE]
  /\ prod = [p \in Producers |-> Idle]
  /\ adm = NoAdmission
  /\ whole = FALSE

SourceNext ==
  /\ \/ \E p \in Producers : Begin(p) \/ Look(p) \/ Write(p) \/ WritePacket(p) \/ Die(p)
     \/ Ask \/ Admit \/ Forget \/ Install \/ Outside \/ Provide
  /\ Noted

SourceSpec == SourceInit /\ [][SourceNext]_sourceVars

-----------------------------------------------------------------------------
\* A receipt the producer answered for was true when it was written: at that
\* moment every root stood on the commit listed, with that commit's files
\* (operations.py:2169-2201 and :2631-2652, the freshness looks on both sides
\* of the exclusive write).
PublishedWhole ==
  \A p \in Producers : prod[p].pc = "prepared" => receipts[prod[p].path].true

\* An admission was true at one moment: while it ran there was a state in which
\* both roots, the publication tips and the installation were at once what the
\* verdict says, although each was looked at in a step of its own
\* (operations.py:3163-3186, inspect-delivery-source:715-760).
AdmittedWhole == adm.verdict = "admitted" => whole

\* Both together: producer and admission vouch only for what was the case.
VouchedWhole == PublishedWhole /\ AdmittedWhole

\* A frame under the content policy is introduced only on top of a source-only one,
\* of either version, and covers all that one covered, however many producers
\* prepared from the same predecessor (operations.py:2457-2485, :6430-6455).  A plan
\* that leaves the policy, for an older receipt or an installation, is not looked at
\* (:6371-6387) and may cover less.
CoverageGrows ==
  [][graph'.frame # graph.frame /\ Governed(graph.frame)' =>
       /\ SourceOnly(graph.frame)
       /\ receipts[graph.frame.receipt].extras \subseteq receipts'[graph'.frame.receipt].extras]_sourceVars

-----------------------------------------------------------------------------
(* What makes the two of them inductive *)

Frames   == [receipt : Paths \cup {First}, serial : Nat]
Graphs   == [revision : Nat, frame : Frames, stray : BOOLEAN]
Bindings == [receipt : Paths \cup {First}, serial : Nat]

Preparing == {"collect", "before", "write", "packet", "after"}

PreparationOK(q) ==
  /\ DOMAIN q = DOMAIN Idle
  /\ q.pc \in Preparing \cup {"idle", "prepared"} /\ q.at \in 0 .. 4
  /\ q.pin \in [Roots -> Nat] /\ q.extras \in SUBSET Extras
  /\ q.pc \in {"write", "packet"} => q.at = 1
  /\ q.pc \in Preparing =>
       /\ q.at > 0 /\ q.path \in Paths /\ q.added \in SUBSET Extras
       /\ q.capture \in Graphs \cup {None} /\ q.binding \in Bindings
  /\ q.pc = "packet" => ~Runtime(q)

AdmissionOK(a) ==
  /\ DOMAIN a = DOMAIN NoAdmission
  /\ a.at \in 0 .. 10 /\ a.verdict \in {None, "admitted"}
  /\ a.role \in {"gate", "script", "reader"}
  /\ a.pin \in [Roots -> Nat] /\ a.tips \in [Roots -> Nat]
  /\ a.at > 2 => a.frame \in Frames
  /\ a.at > 3 => a.binding \in Bindings

SourceTypeOK ==
  /\ disk \in [Roots -> Nat] /\ head \in [Roots -> Nat] /\ tip \in [Roots -> Nat]
  /\ receipts \in [Paths \cup {First} -> Receipts \cup {None}]
  /\ binding \in Bindings /\ graph \in Graphs
  /\ DOMAIN prod = Producers /\ \A p \in Producers : PreparationOK(prod[p])
  /\ AdmissionOK(adm)
  /\ whole \in BOOLEAN

\* Whatever is named is there: receipts are never removed.
NamesBacked ==
  /\ \A x \in {First, graph.frame.receipt, binding.receipt} : receipts[x] # None
  /\ \A k \in packets :
       /\ k.capture \in Graphs /\ receipts[k.capture.frame.receipt] # None
       /\ k.candidate \in Paths /\ receipts[k.candidate] # None
  /\ \A p \in Producers : prod[p].pc \in Preparing =>
       /\ ~Runtime(prod[p]) => receipts[prod[p].capture.frame.receipt] # None
       /\ receipts[prod[p].binding.receipt] # None
  /\ adm.at > 2 => receipts[adm.frame.receipt] # None

\* A root that was qualified at a version has it, or has moved beyond it.
Reached(r, v) == v <= disk[r] /\ v <= head[r]
Beyond(r, v)  == v < disk[r] \/ v < head[r]

\* The roots that the looks after the writing have still to visit.
Unvisited(q) == IF q.at <= 2 THEN Roots ELSE IF q.at = 3 THEN {"kit"} ELSE {}

\* What a producer has written was true, or a root was beyond it that it will
\* yet look at.
Written(q) ==
  /\ q.pc = "collect" /\ q.at > 2 => Reached("project", q.pin["project"])
  /\ q.pc = "collect" /\ q.at > 3 => Reached("kit", q.pin["kit"])
  /\ q.pc \in Preparing \ {"collect"} => \A r \in Roots : Reached(r, q.pin[r])
  /\ q.pc \in {"packet", "after"} =>
       /\ receipts[q.path] # None
       /\ receipts[q.path].true \/ \E r \in Unvisited(q) : Beyond(r, q.pin[r])
  /\ q.pc = "prepared" =>
       q.path \in Paths /\ receipts[q.path] # None /\ receipts[q.path].true

WrittenTrue == \A p \in Producers : Written(prod[p])

\* Something that the admission relies on has moved, and it will yet look there.
Overtaken(a) ==
  \/ a.at <= 7 /\ Beyond("project", a.pin["project"])
  \/ a.at <= 9 /\ \E r \in Roots : a.tips[r] < tip[r]
  \/ ~SourceOnly(a.frame) /\ a.binding.serial < binding.serial

\* Between its two passes an admission saw all that it relies on at once, or else
\* it is going to find out.
SeenWhole ==
  /\ adm.at > 3 => /\ adm.binding.serial <= binding.serial
                   /\ adm.binding.serial = binding.serial => adm.binding = binding
  /\ adm.at > 4 => \A r \in Roots : adm.tips[r] <= tip[r]
  /\ adm.at > 5 => Reached("project", adm.pin["project"])
  /\ adm.at > 6 => whole \/ Overtaken(adm)
  /\ adm.verdict = "admitted" => adm.at = 10 /\ whole

SourceInv == SourceTypeOK /\ NamesBacked /\ WrittenTrue /\ SeenWhole
=============================================================================
