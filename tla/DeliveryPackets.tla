--------------------------- MODULE DeliveryPackets ---------------------------
(***************************************************************************)
(* Producer packets (workflowkit/delivery.py): what the scripts and agents   *)
(* of a delivery workflow hand to one another.  A packet is published as two *)
(* immutable files, the base and the emitted bytes, each through a private   *)
(* temporary file that is linked into place, under the lock of the packet    *)
(* directory; its locator is printed only when both have been read back.     *)
(* pack_delivery builds the next completion from the packets an agent names, *)
(* and carries the delivery context of an open pull request through it.      *)
(*                                                                          *)
(* A file is named by the digest of its content, so a packet stands for its  *)
(* content and a name is a part of a packet.  A process may be killed        *)
(* between any two file operations; a node that runs again may produce the   *)
(* same packet again.  The lock leaves one publication at a time, so one     *)
(* writer stands for whichever process holds it.  Of the context and the     *)
(* flat fields beside it, the base branch, the feedback cursor and the CI    *)
(* report are kept.                                                          *)
(***************************************************************************)
EXTENDS Integers, FiniteSets

CONSTANTS Bases,         \* base branches of the pull request
          Cursors,       \* acknowledged feedback cursors
          Reports,       \* CI reports
          MaxAncestry,   \* packets a retention closure may hold
          MaxPackets,    \* bound: packets ever produced
          MaxCrashes,    \* bound: processes killed
          MaxAtRisk      \* bound: packets produced by then

VARIABLES
    produced,    \* packets whose publication was ever begun
    handed,      \* packets whose locator was printed
    final,       \* names in place
    temporary,   \* temporaries: [name, linked]
    writer,      \* what the holder of the lock is publishing
    step,        \* the agent step that is running
    crashes,     \* processes killed
    refused,     \* history: names whose publication was refused
    republished  \* history: names a killed process was publishing again

packetVars == <<produced, handed, final, temporary, writer, step, crashes, refused, republished>>

Absent == "absent"
Fields == {"target", "cursor", "report"}
Blank == [f \in Fields |-> Absent]
NoContext == Blank
NoForm == [flat |-> Blank, context |-> NoContext]
Script == -1  \* a script is no agent step

Parts == {"base", "emitted"}
Names(p) == {<<part, p>> : part \in Parts}

\* given (the result) and fed (the inputs) of one invocation
PacketOf(kind, fed, given, refs, owner, more) ==
    [kind |-> kind, fed |-> fed, given |-> given, refs |-> refs, owner |-> owner, more |-> more]

\* The packets that these and their references build on. Every round finds one
\* more or there are none, so a closure within the limit is complete; one beyond
\* it is seen to be.
Ancestry(refs) ==
    LET found[n \in 0 .. MaxAncestry] ==
            IF n = 0 THEN refs ELSE found[n - 1] \cup UNION {p.refs : p \in found[n - 1]}
    IN found[MaxAncestry]

IdleWriter == [pc |-> "idle", packet |-> NoForm, part |-> "base"]

\* a file with two links is not read
Readable(p) == \A name \in Names(p) :
                   name \in final /\ \A t \in temporary : t.name = name => ~t.linked

\* reconstruction takes the lock, and every ancestor within the limit
Reconstructed(refs) ==
    /\ writer = IdleWriter
    /\ Cardinality(Ancestry(refs)) <= MaxAncestry
    /\ \A p \in Ancestry(refs) : Readable(p)

-----------------------------------------------------------------------------
(* Packing. *)

Either(a, b) == IF a # Absent THEN a ELSE b

\* Mutant: what a producer was fed overrides what it gave.
FieldsOfSwapped(p) ==
    [flat |-> [f \in Fields |->
         Either(p.fed.flat[f], Either(p.given.flat[f], p.given.context[f]))],
     context |-> IF p.fed.context # NoContext THEN p.fed.context ELSE p.given.context]
\* outputs override inputs, and a produced context stands for the outputs it holds
FieldsOf(p) ==
    [flat |-> [f \in Fields |->
         Either(p.given.flat[f], Either(p.given.context[f], p.fed.flat[f]))],
     context |-> IF p.given.context # NoContext THEN p.given.context ELSE p.fed.context]

\* no precedence between producers: they agree on what they own
Agreeing(refs) ==
    /\ \A f \in Fields :
         Cardinality({FieldsOf(p).flat[f] : p \in refs} \ {Absent}) <= 1
    /\ Cardinality({FieldsOf(p).context : p \in refs} \ {NoContext}) <= 1
TheOne(values, none) == IF values \subseteq {none} THEN none ELSE CHOOSE v \in values : v # none
Sources(refs) ==
    [flat |-> [f \in Fields |-> TheOne({FieldsOf(p).flat[f] : p \in refs}, Absent)],
     context |-> TheOne({FieldsOf(p).context : p \in refs}, NoContext)]

\* a decision is packed alone, by the agent step that made it, about the
\* state change that a watcher reported
Decisions(refs) == {p \in refs : p.kind = "decide"}
Qualified(refs) ==
    Decisions(refs) # {} => /\ Cardinality(refs) = 1
                            /\ \A d \in refs : d.owner = step /\ \A w \in d.refs : w.kind = "watch"
Acknowledges(refs) == \E d \in Decisions(refs) : d.more = "acknowledge"

\* the fields an envelope may differ in from the context it was built on
Excused(mode, ack) == (IF mode = "revalidated" THEN {"target"} ELSE {})
                      \cup (IF ack THEN {"cursor"} ELSE {})

\* the flat fields, with those the context owns; none when they disagree
Expanded(s, excused) ==
    {[f \in Fields |-> IF f \in excused THEN s.flat[f] ELSE Either(s.context[f], s.flat[f])] :
        agree \in {b \in {TRUE} : \A f \in Fields \ excused :
                       Absent \in {s.context[f], s.flat[f]} \/ s.context[f] = s.flat[f]}}

\* the context of the completion, one of at most one
Envelope(mode, flat, context, ack) ==
    CASE mode = "preserve" ->
           {c \in {context} : c # NoContext /\ (ack => c.cursor = flat.cursor)}
      [] mode = "post_pr" ->
           IF context = NoContext \/ ack
           THEN {c \in {flat} : Absent \notin {c.target, c.cursor}}
           ELSE {c \in {context} : \A f \in Fields : flat[f] \in {Absent, c[f]}}
      [] mode = "revalidated" ->
           {[c EXCEPT !.target = flat.target] :
               c \in {d \in {context} : /\ d # NoContext
                                        /\ flat.target \notin {Absent, d.target}
                                        /\ flat.cursor = d.cursor /\ flat.report = d.report}}

\* the completions pack_delivery may produce from these packets
Packings(refs, mode, withReport) ==
    LET s   == Sources(refs)
        ack == Acknowledges(refs)
    IN IF ~Agreeing(refs) \/ ~Qualified(refs) \/ (Decisions(refs) # {} /\ mode = "revalidated")
       THEN {}
       ELSE {form \in UNION {{[flat |-> [flat EXCEPT !.report = IF withReport THEN @ ELSE Absent],
                               context |-> c] : c \in Envelope(mode, flat, s.context, ack)} :
                             flat \in Expanded(s, Excused(mode, ack))} :
               /\ Absent \notin {form.flat.target, form.flat.cursor}
               /\ withReport => form.flat.report # Absent
               /\ \A f \in Fields : form.context[f] # Absent /\ form.flat[f] # Absent
                                      => form.context[f] = form.flat[f]}

-----------------------------------------------------------------------------
PacketsInit ==
    /\ produced = {} /\ handed = {} /\ final = {} /\ temporary = {}
    /\ writer = IdleWriter
    /\ step = 0 /\ crashes = 0
    /\ refused = {} /\ republished = {}

files == <<final, temporary>>
history == <<refused, republished>>

Publish(p) ==
    /\ writer = IdleWriter
    /\ Cardinality(produced \cup {p}) <= MaxPackets
    /\ produced' = produced \cup {p}
    /\ writer' = [pc |-> "settle", packet |-> p, part |-> "base"]
    /\ UNCHANGED <<handed, files, step, history>>

\* an agent packs one completion per step; scripts are fed the last one
Completions(n) == {p \in produced : p.kind = "pack" /\ p.owner = n}
Fed == Completions(step - 1) \cap handed

\* the pull request is opened, or found to have been given another base branch
Opened(target) ==
    PacketOf("observe", NoForm,
           [flat |-> [target |-> target, cursor |-> CHOOSE c \in Cursors : TRUE, report |-> Absent],
            context |-> NoContext], {}, Script, "none")
Retargeted(p, target) ==
    PacketOf("observe", p.given,
           [p.given EXCEPT !.flat = [p.given.context EXCEPT !.target = target]], {p}, Script, "none")

Observe ==
    /\ writer = IdleWriter
    /\ UNCHANGED crashes
    /\ \E target \in Bases :
      \/ produced = {} /\ Publish(Opened(target))
      \/ \E p \in Fed : /\ target # p.given.context.target
                        /\ Reconstructed({p}) /\ Publish(Retargeted(p, target))

\* a watcher is fed a completion; a recovery result carries the newest context,
\* any other result its report beside the context that was fed
Watch ==
    /\ writer = IdleWriter
    /\ \E p \in Fed, report \in Reports, candidate \in Cursors \cup {Absent},
          recovers \in BOOLEAN :
         LET fed   == p.given
             known == [target |-> fed.flat.target, cursor |-> fed.flat.cursor, report |-> report]
             given == IF recovers THEN [flat |-> [known EXCEPT !.report = Absent], context |-> known]
                      ELSE [flat |-> known, context |-> NoContext]
         IN /\ Reconstructed({p})
            /\ candidate # fed.flat.cursor /\ (candidate # Absent => recovers)
            /\ Publish(PacketOf("watch", fed, given, {p}, Script, candidate)) /\ UNCHANGED crashes

\* the agent acknowledges the feedback the watcher reported, or does not
Decide ==
    /\ writer = IdleWriter
    /\ \E p \in {q \in handed : q.kind = "watch" /\ q.given.context # NoContext},
          choice \in {"acknowledge", "preserve"} :
         /\ Reconstructed({p})
         /\ choice = "acknowledge" => p.more # Absent
         /\ Publish(PacketOf("decide", NoForm,
                            IF choice = "preserve" THEN p.given ELSE [p.given EXCEPT !.flat.cursor = p.more],
                            {p}, step, choice))
         /\ UNCHANGED crashes

Pack ==
    /\ writer = IdleWriter /\ Completions(step) = {}
    /\ \E refs \in {{p, q} : p, q \in handed} :
         /\ Reconstructed(refs) /\ Cardinality(Ancestry(refs)) < MaxAncestry
         /\ \E mode \in {"preserve", "post_pr", "revalidated"}, withReport \in BOOLEAN :
            \E given \in Packings(refs, mode, withReport) :
              Publish(PacketOf("pack", NoForm, given, refs, step, "none")) /\ UNCHANGED crashes

AtRisk == crashes < MaxCrashes /\ Cardinality(produced) <= MaxAtRisk

\* a node runs again with the inputs it had, when its packet was not printed
Again == writer = IdleWriter /\ \E p \in produced \ handed : Publish(p) /\ UNCHANGED crashes
\* or when it was, and the node was killed before its transition was taken
Rerun ==
    /\ AtRisk
    /\ \E p \in handed : Publish(p)
    /\ crashes' = crashes + 1

\* the agent completes: the next step is another one
Complete ==
    /\ Completions(step) \cap handed # {}
    /\ step' = step + 1
    /\ UNCHANGED <<produced, handed, files, writer, crashes, history>>

-----------------------------------------------------------------------------
(* _publish_producer_artifacts, file operation by file operation. *)

Name == <<writer.part, writer.packet>>
GoOn(pc) == writer' = [writer EXCEPT !.pc = pc]
Left == {t \in temporary : t.name = Name}

\* what an interrupted publication left may be removed: the same file as the
\* one in place, or a file that never was linked
SettledFile(t) == t.name \in final => t.linked

SettleLeft ==
    /\ writer.pc = "settle" /\ \A t \in Left : SettledFile(t)
    /\ temporary' = temporary \ Left
    /\ GoOn("create")
    /\ UNCHANGED <<produced, handed, final, step, crashes, history>>

Refuse ==
    /\ writer.pc = "settle" /\ \E t \in Left : ~SettledFile(t)
    /\ refused' = refused \cup {Name}
    /\ writer' = IdleWriter
    /\ UNCHANGED <<produced, handed, files, step, crashes, republished>>

\* the whole content is written and synced before anything is linked to it
Create ==
    /\ writer.pc = "create"
    /\ temporary' = temporary \cup {[name |-> Name, linked |-> FALSE]}
    /\ GoOn("link")
    /\ UNCHANGED <<produced, handed, final, step, crashes, history>>

\* a file that is in place already is compared, and is the same
Link ==
    /\ writer.pc = "link"
    /\ IF Name \in final THEN UNCHANGED files
       ELSE /\ final' = final \cup {Name}
            /\ temporary' = (temporary \ Left) \cup {[name |-> Name, linked |-> TRUE]}
    /\ GoOn("unlink")
    /\ UNCHANGED <<produced, handed, step, crashes, history>>

\* Mutant: the locator is printed once the base is in place.
AfterBase(part) == "print"
After(part) == IF part = "base" THEN "settle" ELSE "print"

Unlink ==
    /\ writer.pc = "unlink"
    /\ temporary' = temporary \ Left
    /\ writer' = [writer EXCEPT !.pc = After(writer.part), !.part = "emitted"]
    /\ UNCHANGED <<produced, handed, final, step, crashes, history>>

Announce ==
    /\ writer.pc = "print"
    /\ handed' = handed \cup {writer.packet}
    /\ writer' = IdleWriter
    /\ UNCHANGED <<produced, files, step, crashes, history>>

\* a killed process gives its lock back and leaves its files
Killed ==
    /\ writer # IdleWriter /\ AtRisk
    /\ crashes' = crashes + 1
    /\ writer' = IdleWriter
    /\ republished' = republished \cup {t.name : t \in {u \in Left : u.name \in final /\ ~u.linked}}
    /\ UNCHANGED <<produced, handed, files, step, refused>>

PacketsNext ==
    \/ Observe \/ Watch \/ Decide \/ Pack \/ Again \/ Rerun \/ Complete
    \/ SettleLeft \/ Refuse \/ Create \/ Link \/ Unlink \/ Announce \/ Killed

PacketsSpec == PacketsInit /\ [][PacketsNext]_packetVars

-----------------------------------------------------------------------------
(* Properties. *)

\* Whatever locator was printed, the packet and every packet it builds on can be
\* read, at any later moment and whoever was killed since.
HandedReadable == \A p \in handed : Readable(p) /\ p.refs \subseteq handed

\* A publication is refused for good only after a process was killed while it
\* was publishing a packet that was in place already; death during a first
\* publication is always settled by running again.
RefusedOnlyRepublished == refused \subseteq republished

\* Both together: what death during publication may cost.
PublicationSound == HandedReadable /\ RefusedOnlyRepublished

\* A completion against the packets it names.
Honest(p) ==
    /\ \A f \in Fields : \/ Absent \in {p.given.flat[f], p.given.context[f]}
                         \/ p.given.flat[f] = p.given.context[f]
    /\ \A q \in p.refs, f \in Fields :
         /\ q.given.flat[f] # Absent => p.given.flat[f] \in {Absent, q.given.flat[f]}
         /\ q.given.context[f] \notin {Absent, p.given.context[f]} =>
              \/ f = "cursor" /\ q.more = "acknowledge"
                              /\ \E w \in q.refs : w.kind = "watch" /\ p.given.context[f] = w.more
              \/ f = "target" /\ p.given.context[f] = q.given.flat[f]

\* What an agent packs is what the producers it names gave, not what they were
\* fed: every field they own is kept, the context does not contradict the fields
\* beside it, and it differs from the context they gave only in the cursor, by an
\* acknowledgement of what the watcher saw, or in the base branch, as observed.
PackedHonest == \A p \in {q \in produced : q.kind = "pack"} : Honest(p)

\* The death of a process during the publication of a packet can be retried:
\* no publication is ever refused.
DeathRetryable == refused = {}
-----------------------------------------------------------------------------
(* What makes them inductive. *)

Form(g) ==
    /\ g = [flat |-> g.flat, context |-> g.context]
    /\ g.flat = [f \in Fields |-> g.flat[f]] /\ g.context = [f \in Fields |-> g.context[f]]

\* A packet is built on printed ones; the writer has one that is produced.
PacketsTypeOK ==
    /\ \A p \in produced : Form(p.fed) /\ Form(p.given) /\ p.refs \subseteq handed
    /\ handed \subseteq produced
    /\ \A t \in temporary : t = [name |-> t.name, linked |-> t.linked] /\ t.linked \in BOOLEAN
    /\ \/ writer = IdleWriter
       \/ /\ writer = [pc |-> writer.pc, packet |-> writer.packet, part |-> writer.part]
          /\ writer.pc \in {"settle", "create", "link", "unlink", "print"}
          /\ writer.packet \in produced /\ writer.part \in Parts

\* A file in place that no temporary is linked to.
Clear(name) == name \in final /\ \A t \in temporary : t.name = name => ~t.linked

\* A file is in place before a temporary is linked to it, and what has been
\* unlinked is clear; a printed packet has been.
FilesClear ==
    /\ \A t \in temporary : t.linked => t.name \in final
    /\ \A p \in handed : Readable(p)
    /\ writer.pc = "create" => Left = {}
    /\ writer.pc = "link" => \A t \in Left : ~t.linked
    /\ writer.pc = "unlink" => Name \in final
    /\ writer.pc # "idle" /\ writer.part = "emitted" => Clear(<<"base", writer.packet>>)
    /\ writer.pc = "print" => Readable(writer.packet)

\* A temporary beside a file in place, and not linked to it, is the writer's or
\* was left by one that was killed while it published again.
RemainsKnown ==
    \A t \in temporary : t.name \in final /\ ~t.linked =>
        t.name \in republished \/ (writer.pc \in {"link", "unlink"} /\ t.name = Name)

\* An acknowledgement is of what the one watcher it is about reported.
DecisionsKnown ==
    \A d \in produced : d.kind = "decide" /\ d.more = "acknowledge" =>
        \E w \in d.refs : /\ d.refs = {w} /\ w.kind = "watch" /\ w.more # Absent
                          /\ d.given.flat["cursor"] = w.more

PacketsInv ==
    PacketsTypeOK /\ FilesClear /\ RemainsKnown /\ RefusedOnlyRepublished
        /\ DecisionsKnown /\ PackedHonest
=============================================================================
