------------------------------ MODULE CiWatch ------------------------------
(***************************************************************************)
(* A pull request is watched by three scripts that the delivery workflow    *)
(* runs in turn: CI preparation (workflowkit/ci_contract.py) freezes the    *)
(* head and base under test, the CI watcher                                 *)
(* (templates/project/workflow-wait-github-ci) polls checks and feedback,   *)
(* and the merge watcher (workflow-wait-github-pr) waits for the merge.     *)
(* Between them an agent decides.  The forge moves on while a script reads  *)
(* it, one query after the other (workflowkit/github_observation.py), and   *)
(* may refuse a query with a time before which nobody may ask again.        *)
(*                                                                          *)
(* What outlives a script is its packet: the CI contract, the report of     *)
(* attempts made under it, the acknowledged feedback cursor, and the retry  *)
(* constraint bound to the producer packets (workflowkit/delivery.py).      *)
(* This is the current protocol, with a delivery context and native         *)
(* identity.  Commits and check rows are numbered: none comes back.         *)
(***************************************************************************)
EXTENDS Integers, Sequences, SequencesExt

CONSTANTS Comments, Threads,  \* feedback items, by the query that returns them
          MaxForge,           \* bound: changes of the pull request
          MaxTime,            \* bound: the clock
          MaxPolls,           \* bound: observations started
          Interval,           \* seconds between two polls
          After,              \* delays the forge asks for
          MaxErrors,          \* KENT_CI_WATCH_MAX_ERRORS
          MaxAttempts         \* MAX_DYNAMIC_CI_ATTEMPTS

ASSUME WatchAssumption == Interval \in Nat /\ After \subseteq Nat /\ MaxAttempts \in Nat

VARIABLES
    pr,        \* the pull request at the forge
    now,       \* the clock
    used,      \* [moves, polls]: how much of the bounds is spent
    node,      \* whose turn it is
    outcome,   \* the transition taken last
    packet,    \* what the scripts hand on: contract, report, cursor, offer, tip
    held,      \* the retry constraint the producer packets carry
    run,       \* the running script
    archived,  \* reports in the evidence area of the Task
    heard,     \* history: restrictions [here, kept] told to this script, to earlier ones
    stood,     \* history: what has not changed since the observation began
    taken      \* history: outcomes observed under the contract, in order

watchVars == <<pr, now, used, node, outcome, packet, held, run, archived, heard, stood, taken>>

-----------------------------------------------------------------------------
(* Retry constraints. *)

NoLimit   == [kind |-> "none", at |-> 0]
Unknown   == [kind |-> "unknown", at |-> 0]
Before(t) == [kind |-> "not_before", at |-> t]

\* the greatest deadline; unknown absorbs all constraints
Merge(earlier, later) ==
    IF Unknown \in {earlier, later} THEN Unknown
    ELSE IF later.at >= earlier.at /\ later # NoLimit THEN later ELSE earlier

Clear(limit) == limit # Unknown /\ now >= limit.at

\* a terminal failure whose packet carries no constraint says nothing of
\* timing: it counts as unknown
TimelessFailure(transition, report) ==
    \/ transition = "prepare_query_failed"
    \/ transition = "watch_failed" /\ report.kept # <<>>
                                   /\ Last(report.kept) \in {"query_failed", "invalid"}
    \/ transition = "query_failed"

\* what the ancestry of the packet just emitted restricts
Inherited(transition, report) ==
    LET bound == Merge(held, run.own)
    IN IF bound = NoLimit /\ TimelessFailure(transition, report) THEN Unknown ELSE bound

-----------------------------------------------------------------------------
(* Contract, report and cursor. *)

NoTip == [head |-> -1, base |-> -1]
Tip(p) == [head |-> p.head, base |-> p.base]
NoReport == [contract |-> NoTip, gone |-> <<>>, kept |-> <<>>]

\* Mutant: what no longer fits is dropped instead of chained.
BoundForgets(report) ==
    LET excess == Len(report.kept) - MaxAttempts
    IN IF excess <= 0 THEN report
       ELSE [report EXCEPT !.gone = SubSeq(report.kept, 1, excess),
                           !.kept = SubSeq(@, excess + 1, Len(@))]
\* gone stands for the chained digest of the attempts that no longer fit
Bound(report) ==
    LET excess == Len(report.kept) - MaxAttempts
    IN IF excess <= 0 THEN report
       ELSE [report EXCEPT !.gone = @ \o SubSeq(report.kept, 1, excess),
                           !.kept = SubSeq(@, excess + 1, Len(@))]
Append1(report, contract, reason) ==
    Bound([IF report = NoReport THEN [NoReport EXCEPT !.contract = contract] ELSE report
           EXCEPT !.kept = Append(@, reason)])
Whole(report) == report.gone \o report.kept

\* a cursor of many items keeps their digest only, which compares as they do
Uninitialized == [known |-> FALSE, items |-> {}, decision |-> ""]
Cursor(items, decision) == [known |-> TRUE, items |-> items, decision |-> decision]
\* Mutant: the first observation sets the baseline, whatever it shows.
ChangedSinceBaseline(acknowledged, current) ==
    /\ acknowledged # Uninitialized
    /\ <<acknowledged.items, acknowledged.decision>> # <<current.items, current.decision>>
Changed(acknowledged, current) ==
    IF acknowledged = Uninitialized
    THEN current.items # {} \/ current.decision \notin {"", "APPROVED"}
    ELSE <<acknowledged.items, acknowledged.decision>> # <<current.items, current.decision>>

Classified(checks) ==
    CASE checks = "odd" -> "invalid"
      [] checks = "none" -> "no_checks"
      [] OTHER -> checks

-----------------------------------------------------------------------------
NoPull == [state |-> "OPEN", head |-> -1, base |-> -1, target |-> "main", checks |-> "none",
           rollup |-> 0, items |-> {}, decision |-> "", conflict |-> FALSE]
\* view: what this observation has read; then: the transition decided on
Unseen == [first |-> NoPull, checks |-> "none", items |-> {}]
IdleRun == [pc |-> "idle", view |-> Unseen, own |-> NoLimit, report |-> NoReport, offer |-> Uninitialized,
         errors |-> 0, wake |-> 0, then |-> "undecided"]
Still == [undisturbed |-> TRUE, items |-> {}]

WatchInit ==
    /\ \E checks \in {"none", "green"}, items \in SUBSET (Comments \cup Threads) :
         pr = [NoPull EXCEPT !.head = 0, !.base = 0, !.checks = checks, !.items = items]
    /\ now = 0
    /\ used = [moves |-> 0, polls |-> 0]
    /\ node = "prepare"
    /\ outcome = "monitor_ci"
    /\ packet = [contract |-> NoTip, report |-> NoReport, cursor |-> Uninitialized,
                 offer |-> Uninitialized, tip |-> NoTip]
    /\ held = NoLimit
    /\ run = IdleRun
    /\ archived = {}
    /\ heard = [here |-> {}, kept |-> {}]
    /\ stood = Still
    /\ taken = <<>>

-----------------------------------------------------------------------------
(* The forge and the clock. *)

Moves(p) ==
    {[p EXCEPT !.head = @ + 1, !.checks = "none", !.rollup = @ + 1],
     [p EXCEPT !.base = @ + 1], [p EXCEPT !.target = "other"],
     [p EXCEPT !.state = "MERGED"], [p EXCEPT !.state = "CLOSED"],
     [p EXCEPT !.conflict = ~@]}
    \cup {[p EXCEPT !.checks = c, !.rollup = @ + 1] : c \in {"pending", "green", "failed", "odd"}}
    \cup {[p EXCEPT !.items = @ \cup {i}] : i \in Comments \cup Threads}
    \cup {[p EXCEPT !.items = @ \ {i}] : i \in Comments \cup Threads}
    \cup {[p EXCEPT !.decision = d] : d \in {"APPROVED", "CHANGES_REQUESTED"}}

Asking == {"first", "checks", "comments", "threads", "last"}
Sources(p) == <<p.head, p.base, p.target, p.rollup>>

ForgeMoves ==
    /\ used.moves < MaxForge /\ pr.state = "OPEN"
    /\ pr' \in Moves(pr) \ {pr}
    /\ used' = [used EXCEPT !.moves = @ + 1]
    /\ stood' = IF run.pc \in Asking
                THEN [undisturbed |-> stood.undisturbed /\ Sources(pr') = Sources(pr),
                      items |-> stood.items \cap pr'.items]
                ELSE stood
    /\ UNCHANGED <<now, node, outcome, packet, held, run, archived, heard, taken>>

Tick ==
    /\ now < MaxTime
    /\ now' = now + 1
    /\ UNCHANGED <<pr, used, node, outcome, packet, held, run, archived, heard, stood, taken>>

-----------------------------------------------------------------------------
(* A script and its queries.  Every query asks the guard first, just before  *)
(* the child process is started.                                            *)

Settled == stood' = IF run'.pc \in Asking THEN stood ELSE Still

\* a history variable follows the reports of the running watcher
Take(reason) == taken' = Append(taken, reason)

Start ==
    /\ run.pc = "idle" /\ node \in {"prepare", "ci", "merge"}
    /\ node = "ci" => packet.report.contract \in {NoTip, packet.contract}
    /\ run' = [IdleRun EXCEPT !.pc = "first", !.report = packet.report]
    /\ UNCHANGED <<pr, now, used, node, outcome, packet, held, archived, heard, stood, taken>>

\* Mutant: the guard knows the failures of this script only.
AllowedByOwn == Clear(run.own)
Allowed == Clear(held) /\ Clear(run.own)

Decide(then, report, offer) ==
    run' = [run EXCEPT !.pc = IF then \in {"passed", "conflict", "failed"} THEN "archive" ELSE "emit",
                       !.then = then, !.view = IF then = "ready" THEN @ ELSE Unseen, !.report = report, !.offer = offer]
Conclude(then) == Decide(then, run.report, Uninitialized)

\* no query, no attempt: the incoming report is preserved
Refused ==
    /\ run.pc \in Asking /\ ~Allowed
    /\ Conclude("blocked")
    /\ Settled /\ UNCHANGED <<pr, now, used, node, outcome, packet, held, archived, heard, taken>>

\* what the error of an attempt at observing costs: another poll after a delay,
\* or the end of the watch, and at once when nothing is known of the delay
Retry(told, delay) ==
    LET failed == [run EXCEPT !.view = Unseen, !.errors = @ + 1, !.own = Merge(@, told)]
    IN IF failed.errors < MaxErrors /\ told # Unknown
       THEN /\ run' = [failed EXCEPT !.pc = "sleep", !.wake = now + delay]
            /\ UNCHANGED taken
       ELSE IF node = "ci"
       THEN /\ run' = [failed EXCEPT !.pc = "archive", !.then = "watch_failed",
                           !.report = Append1(@, packet.contract, "query_failed")]
            /\ Take("query_failed")
       ELSE /\ run' = [failed EXCEPT !.pc = "emit", !.then = "query_failed"]
            /\ UNCHANGED taken

Longer(a, b) == IF a > b THEN a ELSE b

\* the query fails, with or without a word on when to come back
Fails ==
    /\ run.pc \in Asking /\ Allowed
    /\ \E told \in {NoLimit, Unknown} \cup {Before(now + d) : d \in After} :
         LET wait == IF told.kind = "not_before" THEN told.at - now ELSE 0 IN
         /\ heard' = [heard EXCEPT !.here = @ \cup ({told} \ {NoLimit})]
         /\ IF node = "prepare"
            THEN /\ run' = [run EXCEPT !.pc = "emit", !.then = "prepare_query_failed", !.own = told]
                 /\ UNCHANGED taken
            ELSE Retry(IF told.kind = "not_before" THEN Before(now + Longer(Interval, wait)) ELSE told,
                       Longer(Interval, wait))
    /\ Settled /\ UNCHANGED <<pr, now, used, node, outcome, packet, held, archived>>

Sleep ==
    /\ run.pc = "sleep" /\ now >= run.wake
    /\ run' = [run EXCEPT !.pc = "first"]
    /\ UNCHANGED <<pr, now, used, node, outcome, packet, held, archived, heard, stood, taken>>

Resting == [run EXCEPT !.pc = "sleep", !.view = Unseen, !.errors = 0, !.wake = now + Interval]

-----------------------------------------------------------------------------
(* What a watcher makes of the pull request p as it was read last. *)

Candidate(p, view) == Cursor(view.items, p.decision)
Conflicting(p) == p.conflict

JudgeCi(p, view) ==
    LET reason    == Classified(view.checks)
        recorded  == Append1(run.report, packet.contract, reason)
        news      == Changed(packet.cursor, Candidate(p, view))
        offer     == IF news THEN Candidate(p, view) ELSE Uninitialized
        then      == IF Conflicting(p) \/ news THEN "conflict"
                     ELSE IF reason = "failed" THEN "failed"
                     ELSE IF reason = "green" THEN "passed" ELSE "undecided"
    IN CASE p.target # "main" -> Conclude("state_changed") /\ UNCHANGED taken
         [] p.target = "main" /\ p.state = "MERGED" -> Conclude("pr_merged") /\ UNCHANGED taken
         [] p.target = "main" /\ p.state = "CLOSED" ->
              IF Tip(p) = packet.contract
              THEN /\ Decide("state_changed", Append1(run.report, packet.contract, "no_checks"),
                             Uninitialized)
                   /\ Take("no_checks")
              ELSE run' = [run EXCEPT !.pc = "dead"] /\ UNCHANGED taken  \* no transition fits
         [] p.target = "main" /\ p.state = "OPEN" ->
              IF Tip(p) # packet.contract THEN Conclude("source_changed") /\ UNCHANGED taken
              ELSE /\ Take(reason)
                   /\ IF reason = "invalid" THEN Decide("failed", recorded, Uninitialized)
                      ELSE IF then = "undecided" THEN run' = [Resting EXCEPT !.report = recorded]
                      ELSE Decide(then, recorded, offer)

JudgeMerge(p, view) ==
    LET reason == Classified(view.checks)
        news   == Changed(packet.cursor, Candidate(p, view))
        offer  == IF news THEN Candidate(p, view) ELSE Uninitialized
    IN /\ UNCHANGED taken
       /\ CASE p.target # "main" -> Conclude("state_changed")
            [] p.target = "main" /\ p.state = "MERGED" -> Conclude("pr_merged")
            [] p.target = "main" /\ p.state # "MERGED" ->
                 IF reason = "invalid" THEN Conclude("state_changed")
                 ELSE IF \/ p.state = "CLOSED" \/ Tip(p) # packet.tip
                         \/ Conflicting(p) \/ news \/ reason = "failed"
                 THEN Decide("state_changed", run.report, offer)
                 ELSE run' = Resting \/ Conclude("still_waiting")

\* the frozen contract, unless the pull request moved between the two reads
JudgePrepare(p) ==
    LET first == run.view.first
    IN CASE p.target # "main" \/ p.state = "CLOSED" -> Conclude("prepare_failed")
         [] p.target = "main" /\ p.state = "MERGED" -> Conclude("pr_merged")
         [] p.target = "main" /\ p.state = "OPEN" ->
              IF Tip(p) # Tip(first) THEN Conclude("prepare_failed") ELSE Conclude("ready")

\* Mutant: the two reads of the pull request are not compared by their checks.
MovedBySource(first, p) == Tip(first) # Tip(p) \/ first.target # p.target
Moved(first, p) == Sources(first) # Sources(p)

ReadFirst ==
    /\ run.pc = "first" /\ Allowed /\ used.polls < MaxPolls
    /\ used' = [used EXCEPT !.polls = @ + 1]
    /\ LET view == [first |-> pr, checks |-> "none", items |-> {}]
       IN CASE node = "prepare" /\ (pr.state # "OPEN" \/ pr.target # "main") ->
                 JudgePrepare(pr) /\ UNCHANGED taken
            [] node = "ci" /\ pr.state # "OPEN" -> JudgeCi(pr, view)
            [] node = "merge" /\ pr.state # "OPEN" -> JudgeMerge(pr, view)
            [] pr.state = "OPEN" /\ ~(node = "prepare" /\ pr.target # "main") ->
                 /\ run' = [run EXCEPT !.view = view,
                                       !.pc = CASE node = "prepare" -> "last"
                                                [] node # "prepare" /\ pr.checks = "none" -> "comments"
                                                [] OTHER -> "checks"]
                 /\ UNCHANGED taken
    /\ stood' = IF run'.pc \in Asking THEN [undisturbed |-> TRUE, items |-> pr.items] ELSE Still
    /\ UNCHANGED <<pr, now, node, outcome, packet, held, archived, heard>>

Read ==
    /\ run.pc \in {"checks", "comments", "threads"} /\ Allowed
    /\ run' = CASE run.pc = "checks" -> [run EXCEPT !.pc = "comments", !.view.checks = pr.checks]
                [] run.pc = "comments" ->
                     [run EXCEPT !.pc = "threads", !.view.items = pr.items \cap Comments]
                [] run.pc = "threads" ->
                     [run EXCEPT !.pc = "last", !.view.items = @ \cup (pr.items \cap Threads)]
    /\ UNCHANGED <<pr, now, used, node, outcome, packet, held, archived, heard, stood, taken>>

ReadLast ==
    /\ run.pc = "last" /\ Allowed
    /\ CASE node = "prepare" -> JudgePrepare(pr) /\ UNCHANGED taken
         [] node # "prepare" /\ pr.state # "MERGED" /\ Moved(run.view.first, pr) ->
              IF node = "ci" THEN Conclude("source_changed") /\ UNCHANGED taken
              ELSE Retry(NoLimit, Interval)
         [] node = "ci" /\ (pr.state = "MERGED" \/ ~Moved(run.view.first, pr)) ->
              JudgeCi(pr, run.view)
         [] node = "merge" /\ (pr.state = "MERGED" \/ ~Moved(run.view.first, pr)) ->
              JudgeMerge(pr, run.view)
    /\ Settled /\ UNCHANGED <<pr, now, used, node, outcome, packet, held, archived, heard>>

-----------------------------------------------------------------------------
(* The evidence area and the producer packet. *)

\* preparation archives the report it was given, once it knows its outcome
NeedsArchive == node = "prepare" /\ packet.report # NoReport /\ run.then \in {"ready", "pr_merged"}

Archive ==
    /\ \/ run.pc = "archive"
       \/ run.pc = "emit" /\ NeedsArchive /\ run.report \notin archived
    /\ archived' = archived \cup {run.report}
    /\ run' = [run EXCEPT !.pc = "emit"]
    /\ UNCHANGED <<pr, now, used, node, outcome, packet, held, heard, stood, taken>>

BlockedTransition == IF node = "prepare" THEN "prepare_query_failed"
           ELSE IF node = "ci" THEN "watch_failed" ELSE "query_failed"
Transition ==
    CASE run.then \in {"conflict", "state_changed"} -> "state_changed"
      [] run.then \in {"failed", "watch_failed"} -> "watch_failed"
      [] run.then = "blocked" -> BlockedTransition
      [] OTHER -> run.then

Successor(transition) ==
    CASE transition = "ready" -> "ci"
      [] transition = "source_changed" -> "prepare"
      [] transition = "still_waiting" -> "merge"
      [] transition = "pr_merged" -> "done"
      [] OTHER -> "agent"

\* the next cycle keeps the report of the same contract only
PreparedPacket ==
    LET contract == Tip(run.view.first)
        same     == /\ packet.contract \in {NoTip, contract}
                    /\ packet.report # NoReport /\ packet.report.contract = contract
    IN [packet EXCEPT !.contract = contract, !.report = IF same THEN @ ELSE NoReport]

Emit ==
    /\ run.pc = "emit" /\ (NeedsArchive => run.report \in archived)
    /\ outcome' = Transition
    /\ node' = Successor(Transition)
    /\ held' = Inherited(Transition, run.report)
    /\ packet' = CASE run.then = "pr_merged" -> [packet EXCEPT !.report = NoReport]
                   [] node = "prepare" /\ run.then # "pr_merged" -> IF run.then = "ready" THEN PreparedPacket ELSE packet
                   [] node = "ci" /\ run.then # "pr_merged" -> [packet EXCEPT !.report = run.report, !.offer = run.offer]
                   [] node = "merge" /\ run.then # "pr_merged" -> [packet EXCEPT !.offer = run.offer]
    /\ taken' = IF packet'.report = NoReport THEN <<>> ELSE taken
    /\ heard' = [here |-> {}, kept |-> heard.kept \cup heard.here]
    /\ run' = IdleRun
    /\ UNCHANGED <<pr, now, used, archived, stood>>

\* the script ends without a packet (a failed archive or capture, a kill): the
\* engine runs the node again with the packet it had
Crash ==
    /\ run.pc # "idle"
    /\ run' = IdleRun
    /\ heard' = [heard EXCEPT !.here = {}]
    /\ taken' = Whole(packet.report)
    /\ Settled /\ UNCHANGED <<pr, now, used, node, outcome, packet, held, archived>>

\* the agent considers what was reported, acknowledging it or not, and routes on
Agent ==
    /\ node = "agent"
    /\ \E acknowledge \in BOOLEAN :
         /\ acknowledge => packet.offer # Uninitialized
         /\ packet' = [packet EXCEPT !.cursor = IF acknowledge THEN packet.offer ELSE @,
                                     !.offer = Uninitialized, !.tip = Tip(pr)]
    /\ \/ node' = "prepare" /\ outcome' = "watch_ci"
       \/ node' = "merge" /\ outcome' = "watch_merge"
       \/ node' = "done" /\ outcome' = "close_without_merge"
    /\ UNCHANGED <<pr, now, used, held, run, archived, heard, stood, taken>>

WatchNext == \/ ForgeMoves \/ Tick \/ Start \/ Refused \/ ReadFirst \/ Read \/ ReadLast
        \/ Fails \/ Sleep \/ Archive \/ Emit \/ Crash \/ Agent

WatchSpec == WatchInit /\ [][WatchNext]_watchVars

-----------------------------------------------------------------------------
(* Properties. *)

PassesCi == run.then # "passed" /\ run'.then = "passed"

\* CI passes on one state of the pull request: between the first and the last
\* query of the observation neither its commits nor its checks moved, and they
\* are the commits of the contract with green checks.
PassedOnOneState ==
    [][PassesCi => /\ stood.undisturbed
                   /\ Tip(pr) = packet.contract /\ pr.checks = "green" /\ ~pr.conflict]_watchVars

\* CI never passes over feedback that nobody has acknowledged: whatever stood
\* throughout the observation is in the acknowledged cursor.
FeedbackHeard ==
    [][PassesCi => /\ stood.items \subseteq packet.cursor.items
                   /\ pr.decision = "CHANGES_REQUESTED" => packet.cursor.decision = pr.decision]_watchVars

Queries == run.pc \in Asking /\ run' # run /\ run'.then # "blocked"

\* No query is sent while a restriction stands that the forge told this script
\* or any script that handed on a packet, whatever happened to the pull request.
Restrained ==
    [][Queries /\ run' # IdleRun => \A limit \in heard.here \cup heard.kept : Clear(limit)]_watchVars

\* The report in force is the whole history of its contract, in order and with
\* nothing invented, however much of it the bound has folded into the digest.
HistoryWhole ==
    LET report == IF run.pc = "idle" THEN packet.report ELSE run.report
    IN /\ Whole(report) = taken
       /\ node = "ci" => report.contract \in {NoTip, packet.contract}

\* A report leaves the packets only when it is in the evidence area, or the
\* pull request has merged under the watcher.
ReportsArchived ==
    [][packet.report # packet'.report /\ packet'.report = NoReport /\ outcome' # "pr_merged"
         => packet.report \in archived]_watchVars

\* Both together: nothing that people or checks said is lost on the way.
NothingUnheard == FeedbackHeard /\ ReportsArchived

-----------------------------------------------------------------------------
(* The strengthening that makes them inductive. *)

Limits  == [kind : {"none", "unknown", "not_before"}, at : Nat]
Reasons == {"no_checks", "invalid", "pending", "green", "failed", "query_failed"}
IsReport(r) == /\ DOMAIN r = {"contract", "gone", "kept"}
               /\ r.gone \in Seq(Reasons) /\ r.kept \in Seq(Reasons)
Rollups == {"none", "pending", "green", "failed", "odd"}
IsPull(p) == /\ DOMAIN p = DOMAIN NoPull
             /\ p.head \in Int /\ p.base \in Int /\ p.rollup \in Int
             /\ p.state \in {"OPEN", "MERGED", "CLOSED"} /\ p.target \in {"main", "other"}
             /\ p.checks \in Rollups
             /\ p.items \subseteq Comments \cup Threads

WatchTypeOK ==
    /\ IsPull(pr)
    /\ now \in Nat
    /\ node \in {"prepare", "ci", "merge", "agent", "done"}
    /\ DOMAIN packet = {"contract", "report", "cursor", "offer", "tip"}
    /\ IsReport(packet.report)
    /\ held \in Limits
    /\ DOMAIN run = DOMAIN IdleRun
    /\ run.pc \in Asking \cup {"idle", "sleep", "archive", "emit", "dead"}
    /\ run.own \in Limits /\ IsReport(run.report)
    /\ DOMAIN run.view = DOMAIN Unseen /\ run.view.checks \in Rollups
    /\ DOMAIN heard = {"here", "kept"}
    /\ heard.here \in SUBSET Limits /\ heard.kept \in SUBSET Limits
    /\ DOMAIN stood = {"undisturbed", "items"}
    /\ taken \in Seq(Reasons)

Between == Asking \ {"first"}

\* The pull request never goes back to what it was at the first query: a commit,
\* a check row or a retarget since then shows at the last one.
Observed ==
    run.pc \in Between =>
      /\ IsPull(run.view.first)
      /\ run.view.first.head <= pr.head /\ run.view.first.base <= pr.base
      /\ run.view.first.rollup <= pr.rollup
      /\ run.view.first.target = "other" => pr.target = "other"
      /\ Sources(run.view.first) = Sources(pr) =>
            /\ stood.undisturbed
            /\ run.pc # "checks" /\ node # "prepare" => run.view.checks = pr.checks
      /\ stood.items \subseteq pr.items
      /\ run.pc = "threads" => stood.items \cap Comments \subseteq run.view.items
      /\ run.pc = "last" /\ node # "prepare" => stood.items \subseteq run.view.items

\* Only the CI watcher adds to a report, and it takes nothing away; only
\* preparation hands on a contract, and it never polls.
ReportKnown ==
    /\ run.pc # "idle" => node \in {"prepare", "ci", "merge"}
    /\ run.pc # "idle" /\ node # "ci" => run.report = packet.report
    /\ run.pc # "idle" /\ node = "ci" /\ packet.report # NoReport => run.report # NoReport
    /\ node = "ci" => packet.report.contract \in {NoTip, packet.contract}
    /\ run.pc # "idle" /\ run.then = "ready" => node = "prepare"
    /\ run.pc = "sleep" => node # "prepare"

\* A restriction is covered by a constraint that is no weaker.
Covers(bound, limit) == bound = Unknown \/ (limit # Unknown /\ limit.at <= bound.at)

LimitsKept ==
    /\ \A limit \in heard.kept : Covers(held, limit)
    /\ \A limit \in heard.here : Covers(run.own, limit)
    /\ run.pc = "idle" \/ (node = "prepare" /\ run.pc \in Asking) => heard.here = {}

WatchInv ==
    WatchTypeOK /\ Observed /\ ReportKnown /\ LimitsKept /\ HistoryWhole
=============================================================================
