------------------------- MODULE PrimaryActivation -------------------------
(***************************************************************************)
(* activate_primary_checkout of workflowkit/operations.py: the primary     *)
(* checkout is fast-forwarded by one journaled effect, then the release    *)
(* prompt is replaced by a link to the Kit's own file, in phases that a    *)
(* later invocation of the same plan resumes after a crash.                *)
(*                                                                         *)
(* One invocation runs at a time and none starts while the executor of an  *)
(* earlier one still runs: that is what EffectJournal establishes for the  *)
(* operation lock, and the merge is used here through EffectContract.      *)
(***************************************************************************)
EXTENDS Naturals

CONSTANTS
    Prestates,  \* the values of plan.prompt_prestate.kind to consider
    Faults      \* the environment faults this instance admits

\* "crash": the invocation stops anywhere.  "torn": the merge dies half way.
\* "drift": somebody else edits the prompt, the bound files or the checkout.
ASSUME ActivationAssumption ==
    /\ Prestates \subseteq {"absent", "file", "symlink"}
    /\ Faults \subseteq {"crash", "torn", "drift"}

VARIABLES
    phase,      \* journal phase, "none" before the journal exists
    bound,      \* the bound files (links, role config) of the journaled preflight
    ledger,     \* the journaled effect 'primary-merge'
    live,       \* its executor is running
    head,       \* HEAD, main and work tree: baseline, dirty, target, other
    authority,  \* the bound files as they are now
    prompt,     \* what is at role.prompt_path
    backup,     \* what is at backups.path
    pc,         \* where the invocation is
    mode,       \* its mode
    prestate,   \* plan.prompt_prestate.kind, fixed
    drifted     \* somebody else has interfered (a history variable)

durable == <<phase, bound, ledger>>
files   == <<prompt, backup>>
fixed   == <<prestate, drifted>>
vars    == <<phase, bound, ledger, live, head, authority, prompt, backup, pc,
             mode, prestate, drifted>>

-----------------------------------------------------------------------------
Phases == {"none", "prepared", "activation_committed", "primary_promoted",
           "role_adopted", "verified", "rolled_back"}
Prompts == {"absent", "file", "link", "other"}
Checks  == {"prepare", "dispatch", "merge", "promote", "adopt", "link",
            "unlink", "relink", "close"}
Writes  == {"write_prepared", "write_rolled_back", "write_committed",
            "write_promoted", "write_adopted", "write_verified"}

\* Type correctness.
TypeOK ==
    /\ phase \in Phases
    /\ bound \in 0 .. 1
    /\ ledger \in {"none", "open", "ambiguous", "preimage", "postimage"}
    /\ live \in BOOLEAN
    /\ head \in {"pre", "mid", "post", "other"}
    /\ authority \in 0 .. 1
    /\ prompt \in Prompts
    /\ backup \in Prompts
    /\ pc \in {"idle", "setup", "waiting"} \cup Checks \cup Writes
    /\ mode \in {"apply", "rollback"}
    /\ prestate \in {"absent", "file", "symlink"}
    /\ drifted \in BOOLEAN

\* _validate_activation_plan: a regular prompt has the expected bytes, a
\* symlink is already the Kit's own, and the backup starts absent.
InitialPrompt == IF prestate = "symlink" THEN "link" ELSE prestate
FinalBackup   == IF prestate = "file" THEN "file" ELSE "absent"

Init ==
    /\ phase = "none" /\ bound = 0 /\ ledger = "none"
    /\ live = FALSE /\ head = "pre" /\ authority = 0
    /\ prestate \in Prestates
    /\ prompt = InitialPrompt /\ backup = "absent"
    /\ pc = "idle" /\ mode = "apply" /\ drifted = FALSE

Effect == INSTANCE EffectContract WITH target <- head

-----------------------------------------------------------------------------
\* The preflight

\* Mutant: after the promotion only the two ends of the adoption are admitted.
PairsCoarse(filePhase) ==
    IF filePhase = "baseline"
    THEN {<<InitialPrompt, "absent">>}
    ELSE {<<InitialPrompt, "absent">>, <<"link", FinalBackup>>}

\* _activation_file_snapshot: the (prompt, backup) pairs a file phase admits.
Pairs(filePhase) ==
    CASE filePhase = "baseline" -> {<<InitialPrompt, "absent">>}
      [] filePhase = "promoted" ->
            {<<InitialPrompt, "absent">>, <<"link", FinalBackup>>}
            \cup (IF prestate = "file"
                  THEN {<<"file", "file">>, <<"absent", "file">>} ELSE {})
      [] filePhase = "final"    -> {<<"link", FinalBackup>>}

FilesIn(filePhase) == <<prompt, backup>> \in Pairs(filePhase)

Preflight(expectedHead, filePhase) ==
    /\ head = expectedHead
    /\ FilesIn(filePhase)

\* The preflight that is compared with the journaled one.
Prepared(expectedHead, filePhase) ==
    Preflight(expectedHead, filePhase) /\ authority = bound

Goto(p) == pc' = p

\* What the code tests at each of its checks; a failing test raises.
Passes(p) ==
    CASE p = "prepare"  -> Preflight("pre", "baseline")
      [] p = "dispatch" /\ mode = "rollback" ->
            phase = "prepared" /\ Prepared("pre", "baseline")
      [] p = "dispatch" /\ mode = "apply" ->
            CASE phase = "prepared"         -> Prepared("pre", "baseline")
              [] phase = "primary_promoted" -> Prepared("post", "promoted")
              [] phase \in {"role_adopted", "verified"} -> Prepared("post", "final")
              [] OTHER                      -> phase = "activation_committed"
      [] p = "merge"    ->
            CASE ledger \in {"none", "preimage"} -> Prepared("pre", "baseline")
              [] ledger = "postimage"            -> head = "post"
              [] OTHER                           -> head \in {"pre", "post"}
      [] p = "promote"  -> Prepared("post", "promoted")
      [] p = "adopt"    -> FilesIn("promoted")
      [] p = "link"     -> backup = "absent" /\ prompt # "absent"
      [] p = "unlink"   -> backup = "file" /\ prompt # "absent"
      [] p = "relink"   -> prompt = "absent"
      [] p = "close"    -> Prepared("post", "final")

At(p) == pc = p /\ Passes(p)

-----------------------------------------------------------------------------
\* The invocation

\* `with OperationJournal(...)`: free lock, hence no executor.
Enter ==
    /\ pc = "idle"
    /\ ~live
    /\ mode' \in {"apply", "rollback"}
    /\ Goto(IF phase = "none" THEN "prepare" ELSE "dispatch")
    /\ UNCHANGED <<durable, live, head, authority, files, fixed>>

\* A check that does not hold raises out of the `with` block.
Refuse ==
    /\ pc \in Checks
    /\ ~Passes(pc)
    /\ Goto("idle")
    /\ UNCHANGED <<durable, live, head, authority, files, mode, fixed>>

Prepare ==
    /\ At("prepare")
    /\ bound' = authority
    /\ Goto("write_prepared")
    /\ UNCHANGED <<phase, ledger, live, head, authority, files, mode, fixed>>

\* The chain of `if` on the journal's phase.
Dispatch ==
    /\ At("dispatch")
    /\ Goto(IF mode = "rollback" THEN "write_rolled_back" ELSE
            CASE phase = "prepared"             -> "write_committed"
              [] phase = "activation_committed" -> "merge"
              [] phase = "primary_promoted"     -> "adopt"
              [] OTHER                          -> "write_verified")
    /\ UNCHANGED <<durable, live, head, authority, files, mode, fixed>>

\* journal.persist of the next phase.
Write(p, next, continue) ==
    /\ pc = p
    /\ phase' = next
    /\ Goto(continue)
    /\ UNCHANGED <<bound, ledger, live, head, authority, files, mode, fixed>>

Persist ==
    \/ Write("write_prepared", "prepared", "dispatch")
    \/ Write("write_rolled_back", "rolled_back", "idle")
    \/ Write("write_committed", "activation_committed", "dispatch")
    \/ Write("write_promoted", "primary_promoted", "dispatch")
    \/ Write("write_adopted", "role_adopted", "dispatch")
    \/ Write("write_verified", "verified", "idle")

-----------------------------------------------------------------------------
\* The merge effect

\* A new attempt starts from the exact prepared baseline only.
MergeAttempt ==
    /\ At("merge")
    /\ Effect!Attempt
    /\ Goto("setup")
    /\ UNCHANGED <<phase, bound, authority, files, mode, fixed>>

MergeLaunch ==
    /\ pc = "setup"
    /\ Effect!Launch
    /\ Goto("waiting")
    /\ UNCHANGED <<phase, bound, authority, files, mode, fixed>>

\* An entry that was never settled is read back, not replayed.
MergeRecover ==
    /\ At("merge")
    /\ ledger \in {"open", "ambiguous"}
    /\ Goto("waiting")
    /\ UNCHANGED <<durable, live, head, authority, files, mode, fixed>>

\* A setup failure, or a readback that raises (on a dirty tree it always
\* does): the entry stays open.
MergeRaises ==
    /\ pc \in {"setup", "waiting"}
    /\ ~live
    /\ Goto("idle")
    /\ UNCHANGED <<durable, live, head, authority, files, mode, fixed>>

\* `git merge --ff-only`: killed, it leaves the tree where it stands.
MergeBegins == Effect!Begin /\ UNCHANGED <<phase, bound, authority, files, pc, mode, fixed>>

MergeEnds ==
    /\ Effect!Finish \/ (Effect!Abort /\ (head = "mid" => "torn" \in Faults))
    /\ UNCHANGED <<phase, bound, authority, files, pc, mode, fixed>>

\* Mutant: the returned settlement is not looked at.
MergeSettleBlind ==
    /\ pc = "waiting"
    /\ head # "mid"
    /\ Effect!Settle
    /\ Goto("write_promoted")
    /\ UNCHANGED <<phase, bound, authority, files, mode, fixed>>

\* The exact readback.  A preimage ends the invocation, an image that is
\* neither raises; both leave it to a later one.
MergeSettle ==
    /\ pc = "waiting"
    /\ head # "mid"
    /\ Effect!Settle
    /\ Goto(IF head = "post" THEN "promote" ELSE "idle")
    /\ UNCHANGED <<phase, bound, authority, files, mode, fixed>>

\* A verified effect is only compared with the checkout.
MergeVerified ==
    /\ At("merge")
    /\ ledger = "postimage"
    /\ Goto("promote")
    /\ UNCHANGED <<durable, live, head, authority, files, mode, fixed>>

Promote ==
    /\ At("promote")
    /\ Goto("write_promoted")
    /\ UNCHANGED <<durable, live, head, authority, files, mode, fixed>>

-----------------------------------------------------------------------------
\* _adopt_release_prompt

Adopt ==
    /\ At("adopt")
    /\ Goto(CASE prestate = "file" /\ prompt = "file" ->
                    IF backup = "absent" THEN "link" ELSE "unlink"
              [] prompt = "absent" -> "relink"
              [] OTHER             -> "close")
    /\ UNCHANGED <<durable, live, head, authority, files, mode, fixed>>

\* Mutant: the prompt is renamed away instead of linked to the backup.
LinkMoves ==
    /\ At("link")
    /\ prompt' = "absent"
    /\ Goto("unlink")
    /\ UNCHANGED <<durable, live, head, authority, backup, mode, fixed>>

\* os.link(prompt, backup): whatever is at the prompt now.
LinkBackup ==
    /\ At("link")
    /\ backup' = prompt
    /\ Goto("unlink")
    /\ UNCHANGED <<durable, live, head, authority, prompt, mode, fixed>>

\* The backup is exact, so the prompt may go.
UnlinkPrompt ==
    /\ At("unlink")
    /\ prompt' = "absent"
    /\ Goto("relink")
    /\ UNCHANGED <<durable, live, head, authority, backup, mode, fixed>>

LinkPrompt ==
    /\ At("relink")
    /\ prompt' = "link"
    /\ Goto("close")
    /\ UNCHANGED <<durable, live, head, authority, backup, mode, fixed>>

Close ==
    /\ At("close")
    /\ Goto("write_adopted")
    /\ UNCHANGED <<durable, live, head, authority, files, mode, fixed>>

-----------------------------------------------------------------------------
\* The environment

Crash ==
    /\ "crash" \in Faults
    /\ pc # "idle"
    /\ Goto("idle")
    /\ UNCHANGED <<durable, live, head, authority, files, mode, fixed>>

Drift ==
    /\ "drift" \in Faults
    /\ drifted' = TRUE
    /\ \/ prompt' \in Prompts \ {"link"} /\ UNCHANGED <<head, authority>>
       \/ authority' = 1 - authority /\ UNCHANGED <<head, prompt>>
       \/ head' \in {"pre", "post", "other"} /\ ~live /\ UNCHANGED <<authority, prompt>>
    /\ UNCHANGED <<durable, live, backup, pc, mode, prestate>>

Driver ==
    \/ Refuse \/ Prepare \/ Dispatch \/ Persist
    \/ MergeAttempt \/ MergeLaunch \/ MergeRecover \/ MergeSettle
    \/ MergeVerified \/ Promote
    \/ Adopt \/ LinkBackup \/ UnlinkPrompt \/ LinkPrompt \/ Close

Next ==
    Enter \/ Driver \/ MergeRaises \/ MergeBegins \/ MergeEnds \/ Crash \/ Drift

Spec == Init /\ [][Next]_vars

-----------------------------------------------------------------------------
\* Correctness

\* The journal's phase never runs ahead of the checkout and of the files: what
\* a resumed invocation assumes of an earlier one that crashed is there.
PhaseHonest ==
    ~drifted =>
        CASE phase \in {"none", "prepared", "rolled_back"} ->
                 head = "pre" /\ FilesIn("baseline")
          [] phase = "activation_committed" -> FilesIn("baseline")
          [] phase = "primary_promoted"     -> head = "post" /\ FilesIn("promoted")
          [] OTHER                          -> head = "post" /\ FilesIn("final")

\* The operator's own prompt is never the only copy that is unlinked: at every
\* instant, crashes included, its bytes are at one of the two names.
PromptPreserved ==
    ~drifted /\ prestate = "file" => "file" \in {prompt, backup}

\* A rollback is a decision taken before any effect, and it is final: nothing
\* was attempted, nothing runs and no backup exists, whoever drifts.
RolledBackUntouched ==
    phase = "rolled_back" => ledger = "none" /\ ~live /\ backup = "absent"

\* Whoever edits the prompt meanwhile, an adoption is only recorded over an
\* exact backup of the prompt that the plan reviewed.
AdoptedHasBackup ==
    phase \in {"role_adopted", "verified"} => backup = FinalBackup

\* The three together: what a resumed invocation concludes from phase and files.
RecordHonest == PhaseHonest /\ RolledBackUntouched /\ AdoptedHasBackup

\* The activation can always be resumed: there is no crash window, between
\* any two system calls, that a later apply cannot read back and continue,
\* unless somebody interferes or a torn merge has left the tree dirty.
Completes ==
    []~drifted /\ []<>(head # "mid") => <>(phase \in {"verified", "rolled_back"})

-----------------------------------------------------------------------------
\* The strengthening that makes the safety properties inductive

\* Where an invocation stands agrees with the durable phase, and the effect
\* and the backup exist only in the phases that own them.
Custody ==
    /\ phase \in {"none", "prepared", "rolled_back"} => ledger = "none"
    /\ live => ledger = "open"
    /\ pc \in {"prepare", "write_prepared"} => phase = "none"
    /\ pc \in {"write_committed", "write_rolled_back"} => phase = "prepared"
    /\ pc \in {"merge", "setup", "waiting", "promote", "write_promoted"} =>
           phase = "activation_committed"
    /\ pc \in {"adopt", "link", "unlink", "relink", "close", "write_adopted"} =>
           phase = "primary_promoted"
    /\ pc = "write_verified" => phase \in {"role_adopted", "verified"}
    /\ backup # "absent" => phase \in {"primary_promoted", "role_adopted", "verified"}
    /\ pc = "write_adopted" => backup = FinalBackup

\* Without drift the files move along the adoption, one system call at a time.
Progress ==
    ~drifted =>
        /\ head # "other"
        /\ ledger \in {"none", "preimage"} => head = "pre"
        /\ ledger = "postimage" => head = "post"
        /\ pc \in {"promote", "write_promoted"} => ledger = "postimage"
        /\ phase \in {"primary_promoted", "role_adopted", "verified"} => ledger = "postimage"
        /\ pc = "link"   => prestate = "file" /\ prompt = "file" /\ backup = "absent"
        /\ pc = "unlink" => prestate = "file" /\ prompt = "file" /\ backup = "file"
        /\ pc = "relink" => prestate # "symlink" /\ prompt = "absent" /\ backup = FinalBackup
        /\ pc \in {"close", "write_adopted"} => FilesIn("final")
=============================================================================
