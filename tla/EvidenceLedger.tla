--------------------------- MODULE EvidenceLedger ---------------------------
(***************************************************************************)
(* The evidence of one Task: its hash-chained ledger, the one recovery of a *)
(* damaged ledger, the archive of CI reports, the terminal seal and the     *)
(* bundle retained outside the root that goes away                          *)
(* (templates/project/workflow-evidence-ledger, workflowkit/runtime.py).    *)
(*                                                                          *)
(* Every operation runs under the exclusive lock of the Task, so a process  *)
(* that dies leaves a prefix of what it meant to write and nobody sees it   *)
(* writing: an action is an operation that was answered, or one that was    *)
(* cut off anywhere.  What a file holds survives a process; only what was   *)
(* fsynced survives a loss of power.                                        *)
(***************************************************************************)
EXTENDS Integers, Sequences, SequencesExt

CONSTANTS
    Owners,         \* Session and Step of those who append
    Reports,        \* CI reports
    Seals,          \* terminal seal requests
    MaxFaults,      \* deaths of processes and losses of power, at most
    PowerAnywhere,  \* may power be lost after unsynced bytes were relied on?
    Missing

VARIABLES
    ledger,         \* evidence-ledger.jsonl
    continuation,   \* evidence-continuation.jsonl
    stage,          \* the manifest before its rename
    manifest,       \* evidence-recovery.json
    report,         \* ci-report-<digest>.json of every report
    bundle,         \* the retained bundle
    requests,       \* recovery requests that a preview has printed
    answered,       \* chains whose last hash a caller has been given
    relied,         \* has anyone relied on bytes that were not synced?
    faults          \* deaths and losses of power so far

ledgerVars == <<ledger, continuation, stage, manifest, report, bundle, requests, answered,
          relied, faults>>

files == <<ledger, continuation, stage, manifest, report, bundle>>

-----------------------------------------------------------------------------
(* What the files hold. *)

Row(kind, by) == [kind |-> kind, by |-> by]

\* Rows of the ledger; of the chain and beside it; of the receipt of a bundle.
Evidence == [kind : {"entry", "archive", "seal"}, by : Owners \cup Reports \cup Seals]
Request  == [owner : Owners, rows : Seq(Evidence), end : Nat]
ChainRow == Evidence \cup [kind : {"boundary", "manifest", "report"}, by : Request \cup Reports]
FileOf(rows) == [rows : Seq(rows), end : Nat, safe : Nat]
File     == FileOf(ChainRow)
Receipt  == [kind : {"receipt"}, by : Seq(File)]
Copy     == FileOf(ChainRow \cup Receipt)
Bundle   == [published : BOOLEAN, copies : Seq(Copy)]

ASSUME LedgerAssumption == Missing \notin File \cup Copy \cup Bundle

-----------------------------------------------------------------------------
(***************************************************************************)
(* A file: its rows, how far they are written, how far they are durable.    *)
(* Row i ends at 3i; one byte less and it lacks its newline, and at 3i - 2  *)
(* it is torn.                                                              *)
(***************************************************************************)
Empty == [rows |-> <<>>, end |-> 0, safe |-> 0]

Torn(f)     == f.end % 3 = 1
Whole(f)    == f.end % 3 = 0
Unsynced(f) == f # Missing /\ f.safe < f.end

\* The rows of a file that parse.
Complete(f) == SubSeq(f.rows, 1, (f.end + 1) \div 3)

\* A file cut off at a position.
Cut(f, end) == [rows |-> SubSeq(f.rows, 1, (end + 2) \div 3), end |-> end,
                safe |-> IF f.safe < end THEN f.safe ELSE end]

Synced(f) == [f EXCEPT !.safe = f.end]

\* The file with a row more, after the separator it may need.
With(f, row) == [rows |-> Append(Complete(f), row),
                 end |-> 3 * (Len(Complete(f)) + 1), safe |-> f.safe]

\* What a process leaves that dies while it writes g over f.
Partial(f, g) == {Cut(g, end) : end \in f.end .. g.end}

\* A published file of one row, and whether a file is exactly that.
Single(row)   == [rows |-> <<row>>, end |-> 3, safe |-> 3]
Is(f, row)    == f # Missing /\ f.rows = <<row>> /\ f.end = 3
Publishing(row) == Partial(Empty, [Single(row) EXCEPT !.safe = 0])

\* The same bytes.
SameBytes(f, g) == f.rows = g.rows /\ f.end = g.end

-----------------------------------------------------------------------------
(* The validated view *)

Settling == {"boundary", "seal"}    \* rows that are not ordinary

\* What a recovery request says of the original.
RequestOf(owner) == [owner |-> owner, rows |-> ledger.rows, end |-> ledger.end]

\* A nonempty prefix that was neither sealed nor recovered, and a damaged suffix.
Damaged ==
    /\ ledger # Missing /\ Torn(ledger) /\ Complete(ledger) # <<>>
    /\ \A i \in DOMAIN Complete(ledger) : Complete(ledger)[i].kind \notin Settling

Pins(request) == Damaged /\ request = RequestOf(request.owner)

Boundary(request)    == Row("boundary", request)
ManifestRow(request) == Row("manifest", request)

Spliced ==
    \E request \in requests :
        /\ Is(manifest, ManifestRow(request)) /\ Pins(request)
        /\ continuation # Missing /\ Whole(continuation) /\ continuation.rows # <<>>
        /\ continuation.rows[1] = Boundary(request)

Valid == IF manifest = Missing
         THEN ledger # Missing /\ continuation = Missing /\ ~Torn(ledger)
         ELSE Spliced

Records ==
    (IF ledger = Missing THEN <<>> ELSE Complete(ledger)) \o
    (IF manifest = Missing \/ continuation = Missing THEN <<>> ELSE Complete(continuation))

Sealed(chain) == chain # <<>> /\ Last(chain).kind = "seal"

\* The file that rows are appended to.
Active == IF manifest = Missing THEN ledger ELSE continuation

Put(f) == IF manifest = Missing
          THEN ledger' = f /\ UNCHANGED continuation
          ELSE continuation' = f /\ UNCHANGED ledger

Where(row) == CHOOSE i \in DOMAIN Records : Records[i] = row
Listed(row) == \E i \in DOMAIN Records : Records[i] = row

Fault == faults < MaxFaults /\ faults' = faults + 1

\* The answer with a row of the chain names all that precedes it.
Answer(chain) == answered' = answered \cup {chain} /\ UNCHANGED faults

Dies == Fault /\ UNCHANGED answered

\* A row is written and fsynced, and its hash answered; or the process dies.
Commit(f, row) ==
    \/ Put(Synced(With(f, row))) /\ Answer(Append(Records, row))
    \/ \E g \in Partial(f, With(f, row)) : Put(g) /\ Dies

-----------------------------------------------------------------------------
(* Evidence of Agents and of CI *)

\* Mutant: whatever is not recovered yet can be appended to.
OpenableDamaged == Valid \/ manifest = Missing

\* append_entry creates the ledger unless there is anything of a recovery.
Openable == Valid \/ (ledger = Missing /\ continuation = Missing /\ manifest = Missing)

AppendEntry(owner) ==
    LET row == Row("entry", owner)
    IN  /\ Openable /\ ~Sealed(Records)
        /\ ~Listed(row)
        /\ Commit(IF ledger = Missing THEN Empty ELSE Active, row)
        /\ UNCHANGED <<stage, manifest, report, bundle, requests, relied>>

\* Mutant: a retry answers with what it finds.
AppendRepeatsAsFound(owner) ==
    LET row == Row("entry", owner)
    IN  /\ Valid /\ ~Sealed(Records)
        /\ Listed(row)
        /\ Answer(SubSeq(Records, 1, Where(row)))
        /\ UNCHANGED <<files, requests, relied>>

\* A retry finds the entry of its Step and makes sure that it is durable.
AppendRepeats(owner) ==
    LET row == Row("entry", owner)
    IN  /\ Valid /\ ~Sealed(Records)
        /\ Listed(row)
        /\ Put(Synced(Active)) /\ Answer(SubSeq(Records, 1, Where(row)))
        /\ UNCHANGED <<stage, manifest, report, bundle, requests, relied>>

\* Every report that is there is whole, and every report of a row is there.
InventoryWhole ==
    \A r \in Reports : /\ report[r] # Missing => Is(report[r], Row("report", r))
                       /\ Listed(Row("archive", r)) => report[r] # Missing

\* The report is published and fsynced before the row that names it.
ArchiveReport(r) ==
    LET row == Row("archive", r)
    IN  /\ Valid /\ ~Sealed(Records) /\ InventoryWhole
        /\ ~Listed(row)
        /\ \/ /\ report[r] = Missing
              /\ \E f \in Publishing(Row("report", r)) :
                     report' = [report EXCEPT ![r] = f]
              /\ Dies /\ UNCHANGED <<ledger, continuation>>
           \/ /\ report' = [report EXCEPT ![r] = Single(Row("report", r))]
              /\ Commit(Active, row)
        /\ UNCHANGED <<stage, manifest, bundle, requests, relied>>

ArchiveRepeats(r) ==
    LET row == Row("archive", r)
    IN  /\ Valid /\ ~Sealed(Records) /\ InventoryWhole
        /\ Listed(row)
        /\ report' = [report EXCEPT ![r] = Synced(@)]
        /\ Put(Synced(Active)) /\ Answer(SubSeq(Records, 1, Where(row)))
        /\ UNCHANGED <<stage, manifest, bundle, requests, relied>>

-----------------------------------------------------------------------------
(* The seal *)

\* seal_terminal; a write that fails is cut off again.
SealTerminal(q) ==
    /\ Valid /\ Records # <<>> /\ Last(Records).kind = "entry"
    /\ \/ Commit(Active, Row("seal", q))
       \/ Put(Synced(Active)) /\ Dies
    /\ UNCHANGED <<stage, manifest, report, bundle, requests, relied>>

\* A retry answers with the seal it finds, durable or not.
SealRepeats(q) ==
    /\ Valid /\ Records # <<>> /\ Last(Records) = Row("seal", q)
    /\ Answer(Records)
    /\ relied' = (relied \/ Unsynced(Active))
    /\ UNCHANGED <<files, requests>>

-----------------------------------------------------------------------------
(* Recovery *)

RecoveryPreview(owner) ==
    /\ continuation = Missing /\ manifest = Missing
    /\ Damaged
    /\ requests' = requests \cup {RequestOf(owner)}
    /\ UNCHANGED <<files, answered, relied, faults>>

\* What recover_evidence admits of a request that it was not the first to serve.
Prepared(request) == Is(continuation, Boundary(request))

\* The continuation is published, then the manifest staged and renamed; what an
\* earlier attempt has published exactly is taken as it is.
RecoverEvidence(request, owner) ==
    LET kept == IF continuation = Missing THEN Single(Boundary(request)) ELSE continuation
        staged == IF stage = Missing THEN Single(ManifestRow(request)) ELSE stage
    IN  /\ Pins(request) /\ manifest = Missing
        /\ IF continuation = Missing THEN owner = request.owner ELSE Prepared(request)
        /\ \/ /\ continuation = Missing
              /\ continuation' \in Publishing(Boundary(request))
              /\ Dies /\ UNCHANGED <<stage, manifest>>
           \/ /\ continuation' = kept /\ stage = Missing
              /\ stage' \in Publishing(ManifestRow(request))
              /\ Dies /\ UNCHANGED manifest
           \/ /\ continuation' = kept /\ Is(staged, ManifestRow(request))
              /\ stage' = staged
              /\ Dies /\ UNCHANGED manifest
           \/ /\ continuation' = kept /\ Is(staged, ManifestRow(request))
              /\ stage' = Missing /\ manifest' = staged
              /\ Answer(Append(Complete(ledger), Boundary(request)))
        /\ relied' = (relied \/ Unsynced(ledger) \/ Unsynced(continuation)
                             \/ Unsynced(stage))
        /\ UNCHANGED <<ledger, report, bundle, requests>>

\* A recovery that is done is only read back.
RecoverRepeats(request) ==
    /\ Pins(request) /\ Is(manifest, ManifestRow(request))
    /\ Valid
    /\ Answer(Append(Complete(ledger), Boundary(request)))
    /\ UNCHANGED <<files, requests, relied>>

-----------------------------------------------------------------------------
(* Retention *)

Referenced == {r \in Reports : Listed(Row("archive", r))}

\* The files of the receipt, in the order of their paths.
Sources ==
    [i \in DOMAIN SetToSeq(Referenced) |-> report[SetToSeq(Referenced)[i]]] \o
    (IF manifest = Missing THEN <<ledger>> ELSE <<continuation, ledger, manifest>>)

\* Nothing lies beside the files that the chain names.
NothingUnknown == \A r \in Reports : report[r] # Missing => r \in Referenced

Copies == [i \in 1 .. Len(Sources) + 1 |->
               IF i > Len(Sources) THEN Single(Row("receipt", Sources))
               ELSE Synced(Sources[i])]

\* The chain is sealed, and every file an earlier attempt has copied is exact.
Retainable ==
    /\ Valid /\ Sealed(Records) /\ NothingUnknown
    /\ bundle # Missing => \A i \in DOMAIN bundle.copies : SameBytes(bundle.copies[i], Copies[i])

Held == IF bundle = Missing THEN <<>> ELSE bundle.copies

RetainEvidence ==
    /\ Retainable /\ (bundle # Missing => ~bundle.published)
    /\ \/ /\ bundle' = [published |-> TRUE,
                        copies |-> Held \o SubSeq(Copies, Len(Held) + 1, Len(Copies))]
          /\ Answer(Records)
       \/ /\ \E i \in Len(Held) + 1 .. Len(Copies) :
                \E f \in Partial(Empty, [Copies[i] EXCEPT !.safe = 0]) :
                    bundle' = [published |-> FALSE,
                               copies |-> Append(Held \o SubSeq(Copies, Len(Held) + 1, i - 1), f)]
          /\ Dies
    /\ relied' = (\/ relied
                  \/ \E i \in DOMAIN Held : Unsynced(Held[i])
                  \/ \E i \in DOMAIN Sources : Unsynced(Sources[i]))
    /\ UNCHANGED <<ledger, continuation, stage, manifest, report, requests>>

-----------------------------------------------------------------------------
(* Loss of power *)

\* Whatever was not synced may be gone, from the end of the file backwards.
Survivors(f) ==
    IF f = Missing THEN {Missing}
    ELSE {[Cut(f, end) EXCEPT !.safe = end] : end \in f.safe .. f.end}
         \cup (IF f.safe = 0 THEN {Missing} ELSE {})

PowerLoss ==
    /\ Fault
    /\ PowerAnywhere \/ ~relied
    /\ ledger' \in Survivors(ledger)
    /\ continuation' \in Survivors(continuation)
    /\ stage' \in Survivors(stage)
    /\ manifest' \in Survivors(manifest)
    /\ report' \in [Reports -> UNION {Survivors(report[r]) : r \in Reports}]
    /\ \A r \in Reports : report'[r] \in Survivors(report[r])
    /\ IF bundle = Missing THEN bundle' = Missing
       ELSE \E cuts \in [DOMAIN bundle.copies -> {0, 1}] :
                bundle' = [bundle EXCEPT !.copies =
                    [i \in DOMAIN bundle.copies |->
                        IF cuts[i] = 1 THEN Synced(bundle.copies[i])
                        ELSE [Cut(bundle.copies[i], bundle.copies[i].safe) EXCEPT
                                  !.safe = bundle.copies[i].safe]]]
    /\ UNCHANGED <<requests, answered, relied>>

-----------------------------------------------------------------------------
LedgerInit ==
    /\ ledger = Missing /\ continuation = Missing /\ stage = Missing /\ manifest = Missing
    /\ report = [r \in Reports |-> Missing]
    /\ bundle = Missing
    /\ requests = {} /\ answered = {} /\ relied = FALSE /\ faults = 0

LedgerNext ==
    \/ \E o \in Owners : AppendEntry(o) \/ AppendRepeats(o) \/ RecoveryPreview(o)
    \/ \E r \in Reports : ArchiveReport(r) \/ ArchiveRepeats(r)
    \/ \E q \in Seals : SealTerminal(q) \/ SealRepeats(q)
    \/ \E request \in requests :
           RecoverRepeats(request) \/ \E o \in Owners : RecoverEvidence(request, o)
    \/ RetainEvidence
    \/ PowerLoss

LedgerSpec == LedgerInit /\ [][LedgerNext]_ledgerVars

-----------------------------------------------------------------------------
(* Properties *)

\* A hash that a caller was given stays in the chain, with all that precedes
\* it: neither a crash, nor a recovery, nor a loss of power takes back what
\* append, archive, seal or recover has answered (append_entry,
\* archive_script_ci_report, recover_evidence).
ChainsKept == \A chain \in answered : IsPrefix(chain, Records)

\* A ledger whose seal was answered never changes again (seal_terminal).
SealFinal == \A chain \in answered : Sealed(chain) => Records = chain

\* What is damaged beyond what the contract of recovery promises to repair.
BeyondRepair ==
    \/ ledger = Missing \/ Complete(ledger) = <<>>
    \/ continuation # Missing /\ (~Whole(continuation) \/ continuation.rows = <<>>)
    \/ stage # Missing /\ stage.end < 3

\* A ledger that was damaged once can be recovered, however often the recovery
\* was cut off: a preview is possible, or the request of the recovery under
\* way is still good (recovery_preview, recover_evidence).
Repairable ==
    \/ Valid \/ BeyondRepair
    \/ IF continuation = Missing THEN manifest = Missing /\ Damaged
       ELSE \E request \in requests : Pins(request) /\ Prepared(request)

\* A published bundle holds the sealed chain, byte for byte what the ledger
\* still is and every report it names (retain_evidence).
RetainedWhole ==
    bundle # Missing /\ bundle.published =>
        /\ Sealed(Records)
        /\ Len(bundle.copies) = Len(Copies)
        /\ \A i \in DOMAIN Copies : SameBytes(bundle.copies[i], Copies[i])

\* The three together: what was answered is kept, in the ledger, for good once
\* it is sealed, and in the bundle once that is published.
AnsweredKept == ChainsKept /\ SealFinal /\ RetainedWhole

-----------------------------------------------------------------------------
(* What makes them inductive. *)

\* The bytes of a file reach as far as its rows, and are durable up to a point.
Holds(f, rows) == f \in FileOf(rows) /\ f.safe <= f.end /\ Len(f.rows) = (f.end + 2) \div 3
Filed(f)  == Holds(f, ChainRow)
Formed(f) == f = Missing \/ Filed(f)

LedgerTypeOK ==
    /\ Formed(ledger) /\ (ledger # Missing => ledger.rows \in Seq(Evidence))
    /\ Formed(continuation) /\ Formed(stage) /\ Formed(manifest)
    /\ report \in [Reports -> File \cup {Missing}] /\ \A r \in Reports : Formed(report[r])
    /\ bundle # Missing =>
         /\ bundle \in Bundle
         /\ \A i \in DOMAIN bundle.copies : Holds(bundle.copies[i], ChainRow \cup Receipt)
    /\ requests \subseteq Request
    /\ answered \subseteq Seq(ChainRow)
    /\ relied \in BOOLEAN

\* Nothing follows a seal.
SealLast ==
    ledger # Missing => \A i \in 1 .. Len(ledger.rows) - 1 : ledger.rows[i].kind # "seal"

\* A continuation belongs to one request, which pins the ledger for good, and
\* holds the boundary before it is appended to.
Recovering ==
    /\ manifest # Missing => continuation # Missing
    /\ continuation # Missing =>
         \E request \in requests :
             /\ Pins(request)
             /\ IF manifest = Missing
                THEN continuation.rows \in {<<>>, <<Boundary(request)>>}
                ELSE /\ Is(manifest, ManifestRow(request))
                     /\ continuation.end >= 3 /\ continuation.rows[1] = Boundary(request)

\* A report is durable before a row names it.
Archived ==
    \A r \in Reports : \A f \in {ledger, continuation} :
        f # Missing /\ (\E i \in DOMAIN f.rows : f.rows[i] = Row("archive", r))
            => report[r] = Single(Row("report", r))

\* The rows that power cannot take.
Durable(f) == SubSeq(f.rows, 1, (f.safe + 1) \div 3)
DurableRecords ==
    (IF ledger = Missing THEN <<>> ELSE Durable(ledger)) \o
    (IF manifest = Missing THEN <<>> ELSE Durable(continuation))

\* While nobody has relied on more, what was answered and what a recovery rests
\* on is durable.
ReliedDurable ==
    ~relied =>
        /\ \A chain \in answered : IsPrefix(chain, DurableRecords)
        /\ continuation # Missing => ledger.safe = ledger.end
        /\ manifest # Missing => manifest.safe = manifest.end /\ continuation.safe >= 3

\* A bundle is begun when the chain is sealed and nothing is left to change it.
Bundled ==
    bundle # Missing =>
        /\ Sealed(Records) /\ NothingUnknown /\ Len(bundle.copies) <= Len(Copies)
        /\ ~relied =>
             /\ Active.safe = Active.end
             /\ bundle.published =>
                    \A i \in DOMAIN bundle.copies : bundle.copies[i].safe = bundle.copies[i].end

LedgerInv ==
    LedgerTypeOK /\ SealLast /\ Recovering /\ Archived /\ ReliedDurable /\ Bundled /\ AnsweredKept
=============================================================================
