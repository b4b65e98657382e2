--------------------------- MODULE TaskEndsProofs ---------------------------
(***************************************************************************)
(* The two ends of a Task, for all commits, histories, owners, reports and *)
(* seals: what the Janitor destroys can be got back, the remote branch goes *)
(* last, and its verdicts are true; what the ledger of the Task's evidence *)
(* has answered is kept, and what damages it can be repaired.              *)
(*                                                                         *)
(* The Janitor: what was admitted about HEAD stays true, because a merged  *)
(* pull request neither reopens nor moves and a published tip stays        *)
(* published (HeadSafe, PullSeen); every ref is removed by compare-and-    *)
(* swap with an OID that the run tied to HEAD or to the pull request       *)
(* (Window, RequestSafe, UnrefSafe, PushSafe); and Kent's work only ever   *)
(* shrinks once the path is gone (Order, Settled).                         *)
(*                                                                         *)
(* The ledger: the chain is what precedes the active file and that file.   *)
(* An operation extends the active file by at most a row (PutChain), and   *)
(* does not touch what an answer or the boundary of a recovery pins        *)
(* (Recovering); what was answered is durable while nobody has relied on   *)
(* more (ReliedDurable), so that a loss of power leaves a chain between    *)
(* what is durable and what there was (PowerChain).                        *)
(***************************************************************************)
EXTENDS Janitor, EvidenceLedger, SequenceTheorems, FiniteSetTheorems, TLAPS

\* A commit that can be got back after its branch is removed.
Safe(c) == IF Merged THEN pr.merged /\ c \in History[pr.head] ELSE c \in published

\* The places where HEAD has been found recoverable.
Admitted == (Before \cup After \cup {"partial", "removed"})
                \ {"admit", "clean", "recover"}

\* How Kent's pending work and the worktree relate.
Order ==
    /\ path = "ours" => registered
    /\ path = "ours" /\ attached => local # None
    /\ "path" \in native => path = "ours"
    /\ native # {} /\ "path" \notin native => path # "ours"
    /\ "registration" \in native => registered
    /\ "record" \in native => record = "registered"

\* HEAD is a commit from its admission on, and what origin shows was published.
Tipped ==
    /\ pc \in {"clean", "recover"} => head \in Commits
    /\ remote # None => remote \in published

\* What was found about HEAD stays so.
HeadSafe == pc \in Admitted => head \in Commits /\ Safe(head)

\* The witnessed pull request is still the one that was merged.
PullSeen == pc \in Admitted /\ Merged => pr.merged /\ prSeen.head = pr.head

\* What the runtime directory can hold once it is sealed, and once readmitted.
RuntimeSafe ==
    /\ pc \in {"session", "tip", "record", "readmit"} \cup RuntimeQuiet =>
          runtime \notin {"sealed", "tombstone"}
    /\ pc \in RuntimeQuiet =>
          /\ runtime # "foreign"
          /\ input.declared /\ input.retention => archive

\* After the last look at it the local branch stays at HEAD.
Window == pc \in Quiet /\ path = "ours" => attached /\ local = head

\* Kent removes the branch at a recoverable tip only.
RequestSafe == "branch" \in native => nativeOid \in Commits /\ Safe(nativeOid)

\* update-ref is given HEAD, the push the head of the pull request.
UnrefSafe == pc = "unref" => localOid = head
PushSafe  == pc \in {"remote_same", "push"} => Merged /\ remoteOid = prSeen.head

\* The worktree and its record are gone for good.
Gone == path # "ours" /\ record # "registered" /\ native \subseteq {"branch"}

\* What the places after the request know of it.
Settled ==
    /\ pc \in Before \cup {"preserved", "refused"} => effect = "none"
    /\ pc = "verify_record" => path # "ours" /\ native \subseteq {"record", "branch"}
    /\ pc \in {"same", "settle", "unref", "unref_read", "remote_read", "remote_same",
              "push", "push_read"} => Gone
    /\ effect = "completed" => Gone
    /\ pc = "partial" => effect = "completed"
    /\ pc = "post_record" => path # "ours" /\ native \subseteq {"record", "branch"}
    /\ pc \in {"post_local", "post_remote", "post_pr", "removed"} => Gone
    /\ pc \in {"post_record", "post_local", "post_remote", "post_pr", "removed"} =>
          (registered => path = "other")

\* The inductive strengthening.
Strengthening ==
    /\ TypeOK /\ Order /\ Tipped /\ HeadSafe /\ PullSeen /\ RuntimeSafe /\ Window
    /\ RequestSafe /\ UnrefSafe /\ PushSafe /\ Settled /\ NothingLost /\ RemoteLast

-----------------------------------------------------------------------------
\* Every step keeps the types but that of the history of removals.
LEMMA TypeStep ==
    Typed /\ [Next]_vars => Typed'
<1> SUFFICES ASSUME Typed, [Next]_vars
             PROVE  Typed'
    OBVIOUS
<1> USE JanitorAssumption DEF Typed, Failed, Tips, Before, RuntimeQuiet, After, Verdicts,
            tree, refs, outside, kent, seen, outcome, World, Looking
<1>1. CASE Admit BY <1>1 DEF Admit
<1>2. CASE Clean BY <1>2 DEF Clean
<1>3. CASE Recover BY <1>3 DEF Recover, Goto
<1>4. CASE AdmitBranch BY <1>4 DEF AdmitBranch, Check
<1>5. CASE AdmitRuntime BY <1>5 DEF AdmitRuntime, Check
<1>6. CASE Seal
    <2>1. closure' \in BOOLEAN
        BY <1>6, Zenon DEF Seal, Inputs
    <2> QED BY <2>1, <1>6 DEF Seal, Inputs, Runtimes
<1>7. CASE Sentinel
    <2>1. closure' \in BOOLEAN
        BY <1>7, Zenon DEF Sentinel, Inputs
    <2> QED BY <2>1, <1>7 DEF Sentinel, Inputs, Runtimes
<1>8. CASE SessionAway BY <1>8 DEF SessionAway, Check
<1>9. CASE WitnessTip BY <1>9 DEF WitnessTip
<1>10. CASE CaptureRecord BY <1>10 DEF CaptureRecord, Check
<1>11. CASE ReadmitRuntime BY <1>11 DEF ReadmitRuntime, Check
<1>12. CASE Witness1 BY <1>12 DEF Witness1, Check
<1>13. CASE Prove1 BY <1>13 DEF Prove1, Check
<1>14. CASE Identity BY <1>14 DEF Identity, Check
<1>15. CASE Witness2 BY <1>15 DEF Witness2, Check
<1>16. CASE Prove2 BY <1>16 DEF Prove2, Check
<1>17. CASE Native
    <2>1. native' \in SUBSET Requests /\ nativeOid' \in Tips
        BY <1>17 DEF Native, Goto, Requests
    <2>2. /\ pc' = "ack" /\ effect' = "attempted"
          /\ UNCHANGED <<tree, refs, outside, published, moves, run, seen, blocked>>
        BY <1>17, Zenon DEF Native, Goto
    <2> QED BY <2>1, <2>2
<1>18. CASE Ack BY <1>18 DEF Ack, Answers
<1>19. CASE Verify BY <1>19 DEF Verify, Check
<1>20. CASE VerifyRecord BY <1>20 DEF VerifyRecord
<1>21. CASE Same BY <1>21 DEF Same, Block
<1>22. CASE Settle BY <1>22 DEF Settle, Block
<1>23. CASE Unref
    <2>1. elsewhere' \in BOOLEAN
        BY <1>23, Zenon DEF Unref
    <2> QED BY <2>1, <1>23 DEF Unref
<1>24. CASE UnrefRead BY <1>24 DEF UnrefRead, Block
<1>25. CASE RemoteRead BY <1>25 DEF RemoteRead, Block
<1>26. CASE RemoteSame BY <1>26 DEF RemoteSame, Block
<1>27. CASE Push BY <1>27 DEF Push, Goto
<1>28. CASE PushRead BY <1>28 DEF PushRead, Block
<1>29. CASE PostPath BY <1>29 DEF PostPath, Check
<1>30. CASE PostRecord BY <1>30 DEF PostRecord, Check
<1>31. CASE PostLocal BY <1>31 DEF PostLocal, Check
<1>32. CASE PostRemote BY <1>32 DEF PostRemote, Check
<1>33. CASE PostPull BY <1>33 DEF PostPull, Check
<1>34. CASE Rerun
    <2>1. closure' \in BOOLEAN
        BY <1>34, Zenon DEF Rerun
    <2> QED BY <2>1, <1>34 DEF Rerun
<1>35. CASE KentRemovesPath
    <2>1. attached' \in BOOLEAN /\ dirty' \in BOOLEAN
        BY <1>35, Zenon DEF KentRemovesPath, Removing
    <2> QED BY <2>1, <1>35 DEF KentRemovesPath, Removing, Runtimes
<1>36. CASE KentRemovesRegistration
    <2>1. registered' \in BOOLEAN
        BY <1>36, Zenon DEF KentRemovesRegistration, Removing
    <2> QED BY <2>1, <1>36 DEF KentRemovesRegistration, Removing
<1>37. CASE KentRemovesRecord BY <1>37 DEF KentRemovesRecord, Removing
<1>38. CASE KentRemovesBranch BY <1>38 DEF KentRemovesBranch, Removing
<1>39. CASE WorkerCommits BY <1>39 DEF WorkerCommits, Move
<1>40. CASE WorkerSwitches BY <1>40 DEF WorkerSwitches, Move
<1>41. CASE WorkerEdits BY <1>41 DEF WorkerEdits, Move
<1>42. CASE Reenters BY <1>42 DEF Reenters, Move, Runtimes
<1>43. CASE SessionMoves BY <1>43 DEF SessionMoves, Move
<1>44. CASE Pushes BY <1>44 DEF Pushes, Move, Pulls
<1>45. CASE PullRequestMoves
    <2>1. \A b \in {"target", "other"} :
             (CHOOSE x \in {"target", "other"} : x # b) \in {"target", "other"}
        OBVIOUS
    <2>2. pr' \in Pulls BY <2>1, <1>45 DEF PullRequestMoves, Pulls
    <2> QED BY <2>2, <1>45 DEF PullRequestMoves, Move
<1>46. CASE BranchMoves
    <2>1. local' \in Tips /\ elsewhere' \in BOOLEAN
        BY <1>46, Zenon DEF BranchMoves, Move
    <2> QED BY <2>1, <1>46 DEF BranchMoves, Move
<1>47. CASE PathReused BY <1>47 DEF PathReused, Move
<1>48. CASE ArchiveDamaged
    <2>1. archive' \in BOOLEAN
        BY <1>48, Zenon DEF ArchiveDamaged, Move
    <2> QED BY <2>1, <1>48 DEF ArchiveDamaged, Move
<1>49. CASE UNCHANGED vars BY <1>49 DEF vars
<1> QED
    BY <1>1, <1>2, <1>3, <1>4, <1>5, <1>6, <1>7, <1>8, <1>9, <1>10,
       <1>11, <1>12, <1>13, <1>14, <1>15, <1>16, <1>17, <1>18, <1>19,
       <1>20, <1>21, <1>22, <1>23, <1>24, <1>25, <1>26, <1>27, <1>28,
       <1>29, <1>30, <1>31, <1>32, <1>33, <1>34, <1>35, <1>36, <1>37,
       <1>38, <1>39, <1>40, <1>41, <1>42, <1>43, <1>44, <1>45, <1>46,
       <1>47, <1>48, <1>49
       DEF Next, Admission, Deletion, Finish, Kent, Others

\* Every step keeps the type of the history of removals.
LEMMA TakenStep ==
    Typed /\ TakenOK /\ [Next]_vars => TakenOK'
<1> SUFFICES ASSUME Typed, TakenOK, [Next]_vars
             PROVE  TakenOK'
    OBVIOUS
<1> USE JanitorAssumption DEF Typed, TakenOK, tree, refs, outside, kent, seen, outcome,
            World, Looking
<1>1. CASE Admit BY <1>1 DEF Admit
<1>2. CASE Clean BY <1>2 DEF Clean
<1>3. CASE Recover BY <1>3 DEF Recover, Goto
<1>4. CASE AdmitBranch BY <1>4 DEF AdmitBranch, Check
<1>5. CASE AdmitRuntime BY <1>5 DEF AdmitRuntime, Check
<1>6. CASE Seal BY <1>6 DEF Seal
<1>7. CASE Sentinel BY <1>7 DEF Sentinel
<1>8. CASE SessionAway BY <1>8 DEF SessionAway, Check
<1>9. CASE WitnessTip BY <1>9 DEF WitnessTip
<1>10. CASE CaptureRecord BY <1>10 DEF CaptureRecord, Check
<1>11. CASE ReadmitRuntime BY <1>11 DEF ReadmitRuntime, Check
<1>12. CASE Witness1 BY <1>12 DEF Witness1, Check
<1>13. CASE Prove1 BY <1>13 DEF Prove1, Check
<1>14. CASE Identity BY <1>14 DEF Identity, Check
<1>15. CASE Witness2 BY <1>15 DEF Witness2, Check
<1>16. CASE Prove2 BY <1>16 DEF Prove2, Check
<1>17. CASE Native BY <1>17 DEF Native, Goto, Tips, Requests, Pulls
<1>18. CASE Ack BY <1>18 DEF Ack, Answers
<1>19. CASE Verify BY <1>19 DEF Verify, Check
<1>20. CASE VerifyRecord BY <1>20 DEF VerifyRecord
<1>21. CASE Same BY <1>21 DEF Same, Block
<1>22. CASE Settle BY <1>22 DEF Settle, Block
<1>23. CASE Unref BY <1>23 DEF Unref, Tips, Requests, Pulls
<1>24. CASE UnrefRead BY <1>24 DEF UnrefRead, Block
<1>25. CASE RemoteRead BY <1>25 DEF RemoteRead, Block
<1>26. CASE RemoteSame BY <1>26 DEF RemoteSame, Block
<1>27. CASE Push BY <1>27 DEF Push, Goto, Tips, Requests, Pulls
<1>28. CASE PushRead BY <1>28 DEF PushRead, Block
<1>29. CASE PostPath BY <1>29 DEF PostPath, Check
<1>30. CASE PostRecord BY <1>30 DEF PostRecord, Check
<1>31. CASE PostLocal BY <1>31 DEF PostLocal, Check
<1>32. CASE PostRemote BY <1>32 DEF PostRemote, Check
<1>33. CASE PostPull BY <1>33 DEF PostPull, Check
<1>34. CASE Rerun BY <1>34 DEF Rerun
<1>35. CASE KentRemovesPath BY <1>35 DEF KentRemovesPath, Removing
<1>36. CASE KentRemovesRegistration BY <1>36 DEF KentRemovesRegistration, Removing
<1>37. CASE KentRemovesRecord BY <1>37 DEF KentRemovesRecord, Removing
<1>38. CASE KentRemovesBranch BY <1>38 DEF KentRemovesBranch, Removing, Tips, Requests, Pulls
<1>39. CASE WorkerCommits BY <1>39 DEF WorkerCommits, Move
<1>40. CASE WorkerSwitches BY <1>40 DEF WorkerSwitches, Move
<1>41. CASE WorkerEdits BY <1>41 DEF WorkerEdits, Move
<1>42. CASE Reenters BY <1>42 DEF Reenters, Move
<1>43. CASE SessionMoves BY <1>43 DEF SessionMoves, Move
<1>44. CASE Pushes BY <1>44 DEF Pushes, Move
<1>45. CASE PullRequestMoves BY <1>45 DEF PullRequestMoves, Move
<1>46. CASE BranchMoves BY <1>46 DEF BranchMoves, Move
<1>47. CASE PathReused BY <1>47 DEF PathReused, Move
<1>48. CASE ArchiveDamaged BY <1>48 DEF ArchiveDamaged, Move
<1>49. CASE UNCHANGED vars BY <1>49 DEF vars
<1> QED
    BY <1>1, <1>2, <1>3, <1>4, <1>5, <1>6, <1>7, <1>8, <1>9, <1>10,
       <1>11, <1>12, <1>13, <1>14, <1>15, <1>16, <1>17, <1>18, <1>19,
       <1>20, <1>21, <1>22, <1>23, <1>24, <1>25, <1>26, <1>27, <1>28,
       <1>29, <1>30, <1>31, <1>32, <1>33, <1>34, <1>35, <1>36, <1>37,
       <1>38, <1>39, <1>40, <1>41, <1>42, <1>43, <1>44, <1>45, <1>46,
       <1>47, <1>48, <1>49
       DEF Next, Admission, Deletion, Finish, Kent, Others

\* Every step keeps the order of Kent's work.
LEMMA OrderStep ==
    TypeOK /\ Order /\ Settled /\ [Next]_vars => Order'
<1> SUFFICES ASSUME TypeOK, Order, Settled, [Next]_vars
             PROVE  Order'
    OBVIOUS
<1> USE JanitorAssumption DEF Order, Requests, Tips, TypeOK, Typed, Pulls, Settled, Gone,
            tree, refs, outside, kent, seen, outcome, World, Looking
<1>1. CASE Admit BY <1>1 DEF Admit
<1>2. CASE Clean BY <1>2 DEF Clean
<1>3. CASE Recover BY <1>3 DEF Recover, Goto
<1>4. CASE AdmitBranch BY <1>4 DEF AdmitBranch, Check
<1>5. CASE AdmitRuntime BY <1>5 DEF AdmitRuntime, Check
<1>6. CASE Seal BY <1>6 DEF Seal
<1>7. CASE Sentinel BY <1>7 DEF Sentinel
<1>8. CASE SessionAway BY <1>8 DEF SessionAway, Check
<1>9. CASE WitnessTip BY <1>9 DEF WitnessTip
<1>10. CASE CaptureRecord BY <1>10 DEF CaptureRecord, Check
<1>11. CASE ReadmitRuntime BY <1>11 DEF ReadmitRuntime, Check
<1>12. CASE Witness1 BY <1>12 DEF Witness1, Check
<1>13. CASE Prove1 BY <1>13 DEF Prove1, Check
<1>14. CASE Identity BY <1>14 DEF Identity, Check
<1>15. CASE Witness2 BY <1>15 DEF Witness2, Check
<1>16. CASE Prove2 BY <1>16 DEF Prove2, Check
<1>17. CASE Native BY <1>17 DEF Native, Goto
<1>18. CASE Ack BY <1>18 DEF Ack, Answers
<1>19. CASE Verify BY <1>19 DEF Verify, Check
<1>20. CASE VerifyRecord BY <1>20 DEF VerifyRecord
<1>21. CASE Same BY <1>21 DEF Same, Block
<1>22. CASE Settle BY <1>22 DEF Settle, Block
<1>23. CASE Unref BY <1>23 DEF Unref
<1>24. CASE UnrefRead BY <1>24 DEF UnrefRead, Block
<1>25. CASE RemoteRead BY <1>25 DEF RemoteRead, Block
<1>26. CASE RemoteSame BY <1>26 DEF RemoteSame, Block
<1>27. CASE Push BY <1>27 DEF Push, Goto
<1>28. CASE PushRead BY <1>28 DEF PushRead, Block
<1>29. CASE PostPath BY <1>29 DEF PostPath, Check
<1>30. CASE PostRecord BY <1>30 DEF PostRecord, Check
<1>31. CASE PostLocal BY <1>31 DEF PostLocal, Check
<1>32. CASE PostRemote BY <1>32 DEF PostRemote, Check
<1>33. CASE PostPull BY <1>33 DEF PostPull, Check
<1>34. CASE Rerun BY <1>34 DEF Rerun
<1>35. CASE KentRemovesPath BY <1>35 DEF KentRemovesPath, Removing
<1>36. CASE KentRemovesRegistration BY <1>36 DEF KentRemovesRegistration, Removing
<1>37. CASE KentRemovesRecord BY <1>37 DEF KentRemovesRecord, Removing
<1>38. CASE KentRemovesBranch BY <1>38 DEF KentRemovesBranch, Removing
<1>39. CASE WorkerCommits BY <1>39 DEF WorkerCommits, Move
<1>40. CASE WorkerSwitches BY <1>40 DEF WorkerSwitches, Move
<1>41. CASE WorkerEdits BY <1>41 DEF WorkerEdits, Move
<1>42. CASE Reenters BY <1>42 DEF Reenters, Move
<1>43. CASE SessionMoves BY <1>43 DEF SessionMoves, Move
<1>44. CASE Pushes BY <1>44 DEF Pushes, Move
<1>45. CASE PullRequestMoves BY <1>45 DEF PullRequestMoves, Move
<1>46. CASE BranchMoves BY <1>46 DEF BranchMoves, Move
<1>47. CASE PathReused BY <1>47 DEF PathReused, Move
<1>48. CASE ArchiveDamaged BY <1>48 DEF ArchiveDamaged, Move
<1>49. CASE UNCHANGED vars BY <1>49 DEF vars
<1> QED
    BY <1>1, <1>2, <1>3, <1>4, <1>5, <1>6, <1>7, <1>8, <1>9, <1>10,
       <1>11, <1>12, <1>13, <1>14, <1>15, <1>16, <1>17, <1>18, <1>19,
       <1>20, <1>21, <1>22, <1>23, <1>24, <1>25, <1>26, <1>27, <1>28,
       <1>29, <1>30, <1>31, <1>32, <1>33, <1>34, <1>35, <1>36, <1>37,
       <1>38, <1>39, <1>40, <1>41, <1>42, <1>43, <1>44, <1>45, <1>46,
       <1>47, <1>48, <1>49
       DEF Next, Admission, Deletion, Finish, Kent, Others

\* HEAD is a commit, and a tip at origin was published.
LEMMA TippedStep ==
    TypeOK /\ Order /\ Tipped /\ [Next]_vars => Tipped'
<1> SUFFICES ASSUME TypeOK, Order, Tipped, [Next]_vars
             PROVE  Tipped'
    OBVIOUS
<1> USE JanitorAssumption DEF Tipped, Failed, Tips, TypeOK, Typed, Order, Pulls, tree,
            refs, outside, kent, seen, outcome, World, Looking
<1>1. CASE Admit BY <1>1 DEF Admit
<1>2. CASE Clean BY <1>2 DEF Clean
<1>3. CASE Recover BY <1>3 DEF Recover, Goto
<1>4. CASE AdmitBranch BY <1>4 DEF AdmitBranch, Check
<1>5. CASE AdmitRuntime BY <1>5 DEF AdmitRuntime, Check
<1>6. CASE Seal BY <1>6 DEF Seal
<1>7. CASE Sentinel BY <1>7 DEF Sentinel
<1>8. CASE SessionAway BY <1>8 DEF SessionAway, Check
<1>9. CASE WitnessTip BY <1>9 DEF WitnessTip
<1>10. CASE CaptureRecord BY <1>10 DEF CaptureRecord, Check
<1>11. CASE ReadmitRuntime BY <1>11 DEF ReadmitRuntime, Check
<1>12. CASE Witness1 BY <1>12 DEF Witness1, Check
<1>13. CASE Prove1 BY <1>13 DEF Prove1, Check
<1>14. CASE Identity BY <1>14 DEF Identity, Check
<1>15. CASE Witness2 BY <1>15 DEF Witness2, Check
<1>16. CASE Prove2 BY <1>16 DEF Prove2, Check
<1>17. CASE Native BY <1>17 DEF Native, Goto
<1>18. CASE Ack BY <1>18 DEF Ack, Answers
<1>19. CASE Verify BY <1>19 DEF Verify, Check
<1>20. CASE VerifyRecord BY <1>20 DEF VerifyRecord
<1>21. CASE Same BY <1>21 DEF Same, Block
<1>22. CASE Settle BY <1>22 DEF Settle, Block
<1>23. CASE Unref BY <1>23 DEF Unref
<1>24. CASE UnrefRead BY <1>24 DEF UnrefRead, Block
<1>25. CASE RemoteRead BY <1>25 DEF RemoteRead, Block
<1>26. CASE RemoteSame BY <1>26 DEF RemoteSame, Block
<1>27. CASE Push BY <1>27 DEF Push, Goto
<1>28. CASE PushRead BY <1>28 DEF PushRead, Block
<1>29. CASE PostPath BY <1>29 DEF PostPath, Check
<1>30. CASE PostRecord BY <1>30 DEF PostRecord, Check
<1>31. CASE PostLocal BY <1>31 DEF PostLocal, Check
<1>32. CASE PostRemote BY <1>32 DEF PostRemote, Check
<1>33. CASE PostPull BY <1>33 DEF PostPull, Check
<1>34. CASE Rerun BY <1>34 DEF Rerun
<1>35. CASE KentRemovesPath BY <1>35 DEF KentRemovesPath, Removing
<1>36. CASE KentRemovesRegistration BY <1>36 DEF KentRemovesRegistration, Removing
<1>37. CASE KentRemovesRecord BY <1>37 DEF KentRemovesRecord, Removing
<1>38. CASE KentRemovesBranch BY <1>38 DEF KentRemovesBranch, Removing
<1>39. CASE WorkerCommits BY <1>39 DEF WorkerCommits, Move
<1>40. CASE WorkerSwitches BY <1>40 DEF WorkerSwitches, Move
<1>41. CASE WorkerEdits BY <1>41 DEF WorkerEdits, Move
<1>42. CASE Reenters BY <1>42 DEF Reenters, Move
<1>43. CASE SessionMoves BY <1>43 DEF SessionMoves, Move
<1>44. CASE Pushes BY <1>44 DEF Pushes, Move
<1>45. CASE PullRequestMoves BY <1>45 DEF PullRequestMoves, Move
<1>46. CASE BranchMoves BY <1>46 DEF BranchMoves, Move
<1>47. CASE PathReused BY <1>47 DEF PathReused, Move
<1>48. CASE ArchiveDamaged BY <1>48 DEF ArchiveDamaged, Move
<1>49. CASE UNCHANGED vars BY <1>49 DEF vars
<1> QED
    BY <1>1, <1>2, <1>3, <1>4, <1>5, <1>6, <1>7, <1>8, <1>9, <1>10,
       <1>11, <1>12, <1>13, <1>14, <1>15, <1>16, <1>17, <1>18, <1>19,
       <1>20, <1>21, <1>22, <1>23, <1>24, <1>25, <1>26, <1>27, <1>28,
       <1>29, <1>30, <1>31, <1>32, <1>33, <1>34, <1>35, <1>36, <1>37,
       <1>38, <1>39, <1>40, <1>41, <1>42, <1>43, <1>44, <1>45, <1>46,
       <1>47, <1>48, <1>49
       DEF Next, Admission, Deletion, Finish, Kent, Others

\* What was found about HEAD stays so.
LEMMA HeadSafeStep ==
    TypeOK /\ Tipped /\ HeadSafe /\ [Next]_vars => HeadSafe'
<1> SUFFICES ASSUME TypeOK, Tipped, HeadSafe, [Next]_vars
             PROVE  HeadSafe'
    OBVIOUS
<1> USE JanitorAssumption DEF HeadSafe, Tipped, Admitted, Safe, Merged, Published,
            Recoverable, ContainsHead, Failed, TypeOK, Typed, TakenOK,
            Tips, Runtimes, Requests, Pulls, Inputs, Before,
            RuntimeQuiet, Quiet, After, Verdicts, tree, refs, outside,
            kent, seen, outcome, World, Looking
<1>1. CASE Admit BY <1>1 DEF Admit
<1>2. CASE Clean BY <1>2 DEF Clean
<1>3. CASE Recover
    <2>1. CASE pc' # "branch" BY <2>1, <1>3 DEF Recover, Goto
    <2>2. CASE pc' = "branch" /\ Merged BY <2>2, <1>3 DEF Recover, Goto
    <2>3. CASE pc' = "branch" /\ ~Merged
        <3>1. remote = head /\ head \in Commits BY <2>3, <1>3 DEF Recover, Goto
        <3>2. head \in published BY <3>1
        <3> QED BY <2>3, <3>1, <3>2, <1>3 DEF Recover, Goto
    <2> QED BY <2>1, <2>2, <2>3
<1>4. CASE AdmitBranch BY <1>4 DEF AdmitBranch, Check
<1>5. CASE AdmitRuntime BY <1>5 DEF AdmitRuntime, Check
<1>6. CASE Seal BY <1>6 DEF Seal
<1>7. CASE Sentinel BY <1>7 DEF Sentinel
<1>8. CASE SessionAway BY <1>8 DEF SessionAway, Check
<1>9. CASE WitnessTip BY <1>9 DEF WitnessTip
<1>10. CASE CaptureRecord BY <1>10 DEF CaptureRecord, Check
<1>11. CASE ReadmitRuntime BY <1>11 DEF ReadmitRuntime, Check
<1>12. CASE Witness1 BY <1>12 DEF Witness1, Check
<1>13. CASE Prove1 BY <1>13 DEF Prove1, Check
<1>14. CASE Identity BY <1>14 DEF Identity, Check
<1>15. CASE Witness2 BY <1>15 DEF Witness2, Check
<1>16. CASE Prove2 BY <1>16 DEF Prove2, Check
<1>17. CASE Native BY <1>17 DEF Native, Goto
<1>18. CASE Ack BY <1>18 DEF Ack, Answers
<1>19. CASE Verify BY <1>19 DEF Verify, Check
<1>20. CASE VerifyRecord BY <1>20 DEF VerifyRecord
<1>21. CASE Same BY <1>21 DEF Same, Block
<1>22. CASE Settle BY <1>22 DEF Settle, Block
<1>23. CASE Unref BY <1>23 DEF Unref
<1>24. CASE UnrefRead BY <1>24 DEF UnrefRead, Block
<1>25. CASE RemoteRead BY <1>25 DEF RemoteRead, Block
<1>26. CASE RemoteSame BY <1>26 DEF RemoteSame, Block
<1>27. CASE Push BY <1>27 DEF Push, Goto
<1>28. CASE PushRead BY <1>28 DEF PushRead, Block
<1>29. CASE PostPath BY <1>29 DEF PostPath, Check
<1>30. CASE PostRecord BY <1>30 DEF PostRecord, Check
<1>31. CASE PostLocal BY <1>31 DEF PostLocal, Check
<1>32. CASE PostRemote BY <1>32 DEF PostRemote, Check
<1>33. CASE PostPull BY <1>33 DEF PostPull, Check
<1>34. CASE Rerun BY <1>34 DEF Rerun
<1>35. CASE KentRemovesPath BY <1>35 DEF KentRemovesPath, Removing
<1>36. CASE KentRemovesRegistration BY <1>36 DEF KentRemovesRegistration, Removing
<1>37. CASE KentRemovesRecord BY <1>37 DEF KentRemovesRecord, Removing
<1>38. CASE KentRemovesBranch BY <1>38 DEF KentRemovesBranch, Removing
<1>39. CASE WorkerCommits BY <1>39 DEF WorkerCommits, Move
<1>40. CASE WorkerSwitches BY <1>40 DEF WorkerSwitches, Move
<1>41. CASE WorkerEdits BY <1>41 DEF WorkerEdits, Move
<1>42. CASE Reenters BY <1>42 DEF Reenters, Move
<1>43. CASE SessionMoves BY <1>43 DEF SessionMoves, Move
<1>44. CASE Pushes BY <1>44 DEF Pushes, Move
<1>45. CASE PullRequestMoves BY <1>45 DEF PullRequestMoves, Move
<1>46. CASE BranchMoves BY <1>46 DEF BranchMoves, Move
<1>47. CASE PathReused BY <1>47 DEF PathReused, Move
<1>48. CASE ArchiveDamaged BY <1>48 DEF ArchiveDamaged, Move
<1>49. CASE UNCHANGED vars BY <1>49 DEF vars
<1> QED
    BY <1>1, <1>2, <1>3, <1>4, <1>5, <1>6, <1>7, <1>8, <1>9, <1>10,
       <1>11, <1>12, <1>13, <1>14, <1>15, <1>16, <1>17, <1>18, <1>19,
       <1>20, <1>21, <1>22, <1>23, <1>24, <1>25, <1>26, <1>27, <1>28,
       <1>29, <1>30, <1>31, <1>32, <1>33, <1>34, <1>35, <1>36, <1>37,
       <1>38, <1>39, <1>40, <1>41, <1>42, <1>43, <1>44, <1>45, <1>46,
       <1>47, <1>48, <1>49
       DEF Next, Admission, Deletion, Finish, Kent, Others

\* A merged pull request does not move.
LEMMA PullSeenStep ==
    TypeOK /\ PullSeen /\ [Next]_vars => PullSeen'
<1> SUFFICES ASSUME TypeOK, PullSeen, [Next]_vars
             PROVE  PullSeen'
    OBVIOUS
<1> USE JanitorAssumption DEF PullSeen, Admitted, Merged, Published, Recoverable,
            ContainsHead, Failed, TypeOK, Typed, TakenOK, Tips, Runtimes,
            Requests, Pulls, Inputs, Before, RuntimeQuiet, Quiet,
            After, Verdicts, tree, refs, outside, kent, seen, outcome,
            World, Looking
<1>1. CASE Admit BY <1>1 DEF Admit
<1>2. CASE Clean BY <1>2 DEF Clean
<1>3. CASE Recover BY <1>3 DEF Recover, Goto
<1>4. CASE AdmitBranch BY <1>4 DEF AdmitBranch, Check
<1>5. CASE AdmitRuntime BY <1>5 DEF AdmitRuntime, Check
<1>6. CASE Seal BY <1>6 DEF Seal
<1>7. CASE Sentinel BY <1>7 DEF Sentinel
<1>8. CASE SessionAway BY <1>8 DEF SessionAway, Check
<1>9. CASE WitnessTip BY <1>9 DEF WitnessTip
<1>10. CASE CaptureRecord BY <1>10 DEF CaptureRecord, Check
<1>11. CASE ReadmitRuntime BY <1>11 DEF ReadmitRuntime, Check
<1>12. CASE Witness1 BY <1>12 DEF Witness1, Check
<1>13. CASE Prove1 BY <1>13 DEF Prove1, Check
<1>14. CASE Identity BY <1>14 DEF Identity, Check
<1>15. CASE Witness2 BY <1>15 DEF Witness2, Check
<1>16. CASE Prove2 BY <1>16 DEF Prove2, Check
<1>17. CASE Native BY <1>17 DEF Native, Goto
<1>18. CASE Ack BY <1>18 DEF Ack, Answers
<1>19. CASE Verify BY <1>19 DEF Verify, Check
<1>20. CASE VerifyRecord BY <1>20 DEF VerifyRecord
<1>21. CASE Same BY <1>21 DEF Same, Block
<1>22. CASE Settle BY <1>22 DEF Settle, Block
<1>23. CASE Unref BY <1>23 DEF Unref
<1>24. CASE UnrefRead BY <1>24 DEF UnrefRead, Block
<1>25. CASE RemoteRead BY <1>25 DEF RemoteRead, Block
<1>26. CASE RemoteSame BY <1>26 DEF RemoteSame, Block
<1>27. CASE Push BY <1>27 DEF Push, Goto
<1>28. CASE PushRead BY <1>28 DEF PushRead, Block
<1>29. CASE PostPath BY <1>29 DEF PostPath, Check
<1>30. CASE PostRecord BY <1>30 DEF PostRecord, Check
<1>31. CASE PostLocal BY <1>31 DEF PostLocal, Check
<1>32. CASE PostRemote BY <1>32 DEF PostRemote, Check
<1>33. CASE PostPull BY <1>33 DEF PostPull, Check
<1>34. CASE Rerun BY <1>34 DEF Rerun
<1>35. CASE KentRemovesPath BY <1>35 DEF KentRemovesPath, Removing
<1>36. CASE KentRemovesRegistration BY <1>36 DEF KentRemovesRegistration, Removing
<1>37. CASE KentRemovesRecord BY <1>37 DEF KentRemovesRecord, Removing
<1>38. CASE KentRemovesBranch BY <1>38 DEF KentRemovesBranch, Removing
<1>39. CASE WorkerCommits BY <1>39 DEF WorkerCommits, Move
<1>40. CASE WorkerSwitches BY <1>40 DEF WorkerSwitches, Move
<1>41. CASE WorkerEdits BY <1>41 DEF WorkerEdits, Move
<1>42. CASE Reenters BY <1>42 DEF Reenters, Move
<1>43. CASE SessionMoves BY <1>43 DEF SessionMoves, Move
<1>44. CASE Pushes BY <1>44 DEF Pushes, Move
<1>45. CASE PullRequestMoves BY <1>45 DEF PullRequestMoves, Move
<1>46. CASE BranchMoves BY <1>46 DEF BranchMoves, Move
<1>47. CASE PathReused BY <1>47 DEF PathReused, Move
<1>48. CASE ArchiveDamaged BY <1>48 DEF ArchiveDamaged, Move
<1>49. CASE UNCHANGED vars BY <1>49 DEF vars
<1> QED
    BY <1>1, <1>2, <1>3, <1>4, <1>5, <1>6, <1>7, <1>8, <1>9, <1>10,
       <1>11, <1>12, <1>13, <1>14, <1>15, <1>16, <1>17, <1>18, <1>19,
       <1>20, <1>21, <1>22, <1>23, <1>24, <1>25, <1>26, <1>27, <1>28,
       <1>29, <1>30, <1>31, <1>32, <1>33, <1>34, <1>35, <1>36, <1>37,
       <1>38, <1>39, <1>40, <1>41, <1>42, <1>43, <1>44, <1>45, <1>46,
       <1>47, <1>48, <1>49
       DEF Next, Admission, Deletion, Finish, Kent, Others

\* Nobody adds runtime material after the readmission.
LEMMA RuntimeSafeStep ==
    TypeOK /\ RuntimeSafe /\ [Next]_vars => RuntimeSafe'
<1> SUFFICES ASSUME TypeOK, RuntimeSafe, [Next]_vars
             PROVE  RuntimeSafe'
    OBVIOUS
<1> USE JanitorAssumption DEF RuntimeSafe, RuntimeAdmitted, EvidenceAdmitted,
            RestoredRoot, Failed, TypeOK, Typed, TakenOK, Tips,
            Runtimes, Requests, Pulls, Inputs, Before, RuntimeQuiet,
            Quiet, After, Verdicts, tree, refs, outside, kent, seen,
            outcome, World, Looking
<1>1. CASE Admit BY <1>1 DEF Admit
<1>2. CASE Clean BY <1>2 DEF Clean
<1>3. CASE Recover BY <1>3 DEF Recover, Goto
<1>4. CASE AdmitBranch BY <1>4 DEF AdmitBranch, Check
<1>5. CASE AdmitRuntime BY <1>5 DEF AdmitRuntime, Check
<1>6. CASE Seal BY <1>6 DEF Seal
<1>7. CASE Sentinel BY <1>7 DEF Sentinel
<1>8. CASE SessionAway BY <1>8 DEF SessionAway, Check
<1>9. CASE WitnessTip BY <1>9 DEF WitnessTip
<1>10. CASE CaptureRecord BY <1>10 DEF CaptureRecord, Check
<1>11. CASE ReadmitRuntime BY <1>11 DEF ReadmitRuntime, Check
<1>12. CASE Witness1 BY <1>12 DEF Witness1, Check
<1>13. CASE Prove1 BY <1>13 DEF Prove1, Check
<1>14. CASE Identity BY <1>14 DEF Identity, Check
<1>15. CASE Witness2 BY <1>15 DEF Witness2, Check
<1>16. CASE Prove2 BY <1>16 DEF Prove2, Check
<1>17. CASE Native BY <1>17 DEF Native, Goto
<1>18. CASE Ack BY <1>18 DEF Ack, Answers
<1>19. CASE Verify BY <1>19 DEF Verify, Check
<1>20. CASE VerifyRecord BY <1>20 DEF VerifyRecord
<1>21. CASE Same BY <1>21 DEF Same, Block
<1>22. CASE Settle BY <1>22 DEF Settle, Block
<1>23. CASE Unref BY <1>23 DEF Unref
<1>24. CASE UnrefRead BY <1>24 DEF UnrefRead, Block
<1>25. CASE RemoteRead BY <1>25 DEF RemoteRead, Block
<1>26. CASE RemoteSame BY <1>26 DEF RemoteSame, Block
<1>27. CASE Push BY <1>27 DEF Push, Goto
<1>28. CASE PushRead BY <1>28 DEF PushRead, Block
<1>29. CASE PostPath BY <1>29 DEF PostPath, Check
<1>30. CASE PostRecord BY <1>30 DEF PostRecord, Check
<1>31. CASE PostLocal BY <1>31 DEF PostLocal, Check
<1>32. CASE PostRemote BY <1>32 DEF PostRemote, Check
<1>33. CASE PostPull BY <1>33 DEF PostPull, Check
<1>34. CASE Rerun BY <1>34 DEF Rerun
<1>35. CASE KentRemovesPath BY <1>35 DEF KentRemovesPath, Removing
<1>36. CASE KentRemovesRegistration BY <1>36 DEF KentRemovesRegistration, Removing
<1>37. CASE KentRemovesRecord BY <1>37 DEF KentRemovesRecord, Removing
<1>38. CASE KentRemovesBranch BY <1>38 DEF KentRemovesBranch, Removing
<1>39. CASE WorkerCommits BY <1>39 DEF WorkerCommits, Move
<1>40. CASE WorkerSwitches BY <1>40 DEF WorkerSwitches, Move
<1>41. CASE WorkerEdits BY <1>41 DEF WorkerEdits, Move
<1>42. CASE Reenters BY <1>42 DEF Reenters, Move
<1>43. CASE SessionMoves BY <1>43 DEF SessionMoves, Move
<1>44. CASE Pushes BY <1>44 DEF Pushes, Move
<1>45. CASE PullRequestMoves BY <1>45 DEF PullRequestMoves, Move
<1>46. CASE BranchMoves BY <1>46 DEF BranchMoves, Move
<1>47. CASE PathReused BY <1>47 DEF PathReused, Move
<1>48. CASE ArchiveDamaged BY <1>48 DEF ArchiveDamaged, Move
<1>49. CASE UNCHANGED vars BY <1>49 DEF vars
<1> QED
    BY <1>1, <1>2, <1>3, <1>4, <1>5, <1>6, <1>7, <1>8, <1>9, <1>10,
       <1>11, <1>12, <1>13, <1>14, <1>15, <1>16, <1>17, <1>18, <1>19,
       <1>20, <1>21, <1>22, <1>23, <1>24, <1>25, <1>26, <1>27, <1>28,
       <1>29, <1>30, <1>31, <1>32, <1>33, <1>34, <1>35, <1>36, <1>37,
       <1>38, <1>39, <1>40, <1>41, <1>42, <1>43, <1>44, <1>45, <1>46,
       <1>47, <1>48, <1>49
       DEF Next, Admission, Deletion, Finish, Kent, Others

\* Nobody moves the branch after the last look.
LEMMA WindowStep ==
    TypeOK /\ Order /\ Window /\ [Next]_vars => Window'
<1> SUFFICES ASSUME TypeOK, Order, Window, [Next]_vars
             PROVE  Window'
    OBVIOUS
<1> USE JanitorAssumption DEF Window, Order, Witness, BranchAdmitted, Quiet, Failed,
            tree, refs, outside, kent, seen, outcome, World, Looking
<1>1. CASE Admit BY <1>1 DEF Admit
<1>2. CASE Clean BY <1>2 DEF Clean
<1>3. CASE Recover BY <1>3 DEF Recover, Goto
<1>4. CASE AdmitBranch BY <1>4 DEF AdmitBranch, Check
<1>5. CASE AdmitRuntime BY <1>5 DEF AdmitRuntime, Check
<1>6. CASE Seal BY <1>6 DEF Seal
<1>7. CASE Sentinel BY <1>7 DEF Sentinel
<1>8. CASE SessionAway BY <1>8 DEF SessionAway, Check
<1>9. CASE WitnessTip BY <1>9 DEF WitnessTip
<1>10. CASE CaptureRecord BY <1>10 DEF CaptureRecord, Check
<1>11. CASE ReadmitRuntime BY <1>11 DEF ReadmitRuntime, Check
<1>12. CASE Witness1 BY <1>12 DEF Witness1, Check
<1>13. CASE Prove1 BY <1>13 DEF Prove1, Check
<1>14. CASE Identity BY <1>14 DEF Identity, Check
<1>15. CASE Witness2 BY <1>15 DEF Witness2, Check
<1>16. CASE Prove2 BY <1>16 DEF Prove2, Check
<1>17. CASE Native BY <1>17 DEF Native, Goto
<1>18. CASE Ack BY <1>18 DEF Ack, Answers
<1>19. CASE Verify BY <1>19 DEF Verify, Check
<1>20. CASE VerifyRecord BY <1>20 DEF VerifyRecord
<1>21. CASE Same BY <1>21 DEF Same, Block
<1>22. CASE Settle BY <1>22 DEF Settle, Block
<1>23. CASE Unref BY <1>23 DEF Unref
<1>24. CASE UnrefRead BY <1>24 DEF UnrefRead, Block
<1>25. CASE RemoteRead BY <1>25 DEF RemoteRead, Block
<1>26. CASE RemoteSame BY <1>26 DEF RemoteSame, Block
<1>27. CASE Push BY <1>27 DEF Push, Goto
<1>28. CASE PushRead BY <1>28 DEF PushRead, Block
<1>29. CASE PostPath BY <1>29 DEF PostPath, Check
<1>30. CASE PostRecord BY <1>30 DEF PostRecord, Check
<1>31. CASE PostLocal BY <1>31 DEF PostLocal, Check
<1>32. CASE PostRemote BY <1>32 DEF PostRemote, Check
<1>33. CASE PostPull BY <1>33 DEF PostPull, Check
<1>34. CASE Rerun BY <1>34 DEF Rerun
<1>35. CASE KentRemovesPath BY <1>35 DEF KentRemovesPath, Removing
<1>36. CASE KentRemovesRegistration BY <1>36 DEF KentRemovesRegistration, Removing
<1>37. CASE KentRemovesRecord BY <1>37 DEF KentRemovesRecord, Removing
<1>38. CASE KentRemovesBranch BY <1>38 DEF KentRemovesBranch, Removing
<1>39. CASE WorkerCommits BY <1>39 DEF WorkerCommits, Move
<1>40. CASE WorkerSwitches BY <1>40 DEF WorkerSwitches, Move
<1>41. CASE WorkerEdits BY <1>41 DEF WorkerEdits, Move
<1>42. CASE Reenters BY <1>42 DEF Reenters, Move
<1>43. CASE SessionMoves BY <1>43 DEF SessionMoves, Move
<1>44. CASE Pushes BY <1>44 DEF Pushes, Move
<1>45. CASE PullRequestMoves BY <1>45 DEF PullRequestMoves, Move
<1>46. CASE BranchMoves BY <1>46 DEF BranchMoves, Move
<1>47. CASE PathReused BY <1>47 DEF PathReused, Move
<1>48. CASE ArchiveDamaged BY <1>48 DEF ArchiveDamaged, Move
<1>49. CASE UNCHANGED vars BY <1>49 DEF vars
<1> QED
    BY <1>1, <1>2, <1>3, <1>4, <1>5, <1>6, <1>7, <1>8, <1>9, <1>10,
       <1>11, <1>12, <1>13, <1>14, <1>15, <1>16, <1>17, <1>18, <1>19,
       <1>20, <1>21, <1>22, <1>23, <1>24, <1>25, <1>26, <1>27, <1>28,
       <1>29, <1>30, <1>31, <1>32, <1>33, <1>34, <1>35, <1>36, <1>37,
       <1>38, <1>39, <1>40, <1>41, <1>42, <1>43, <1>44, <1>45, <1>46,
       <1>47, <1>48, <1>49
       DEF Next, Admission, Deletion, Finish, Kent, Others

\* The request is made for HEAD.
LEMMA RequestSafeStep ==
    TypeOK /\ HeadSafe /\ Window /\ RequestSafe /\ [Next]_vars => RequestSafe'
<1> SUFFICES ASSUME TypeOK, HeadSafe, Window, RequestSafe, [Next]_vars
             PROVE  RequestSafe'
    OBVIOUS
<1> USE JanitorAssumption DEF RequestSafe, HeadSafe, Window, Admitted, Safe, Merged,
            TypeOK, Typed, TakenOK, Tips, Runtimes, Requests, Pulls,
            Inputs, Before, RuntimeQuiet, Quiet, After, Verdicts, tree,
            refs, outside, kent, seen, outcome, World, Looking
<1>1. CASE Admit BY <1>1 DEF Admit
<1>2. CASE Clean BY <1>2 DEF Clean
<1>3. CASE Recover BY <1>3 DEF Recover, Goto
<1>4. CASE AdmitBranch BY <1>4 DEF AdmitBranch, Check
<1>5. CASE AdmitRuntime BY <1>5 DEF AdmitRuntime, Check
<1>6. CASE Seal BY <1>6 DEF Seal
<1>7. CASE Sentinel BY <1>7 DEF Sentinel
<1>8. CASE SessionAway BY <1>8 DEF SessionAway, Check
<1>9. CASE WitnessTip BY <1>9 DEF WitnessTip
<1>10. CASE CaptureRecord BY <1>10 DEF CaptureRecord, Check
<1>11. CASE ReadmitRuntime BY <1>11 DEF ReadmitRuntime, Check
<1>12. CASE Witness1 BY <1>12 DEF Witness1, Check
<1>13. CASE Prove1 BY <1>13 DEF Prove1, Check
<1>14. CASE Identity BY <1>14 DEF Identity, Check
<1>15. CASE Witness2 BY <1>15 DEF Witness2, Check
<1>16. CASE Prove2 BY <1>16 DEF Prove2, Check
<1>17. CASE Native BY <1>17 DEF Native, Goto
<1>18. CASE Ack BY <1>18 DEF Ack, Answers
<1>19. CASE Verify BY <1>19 DEF Verify, Check
<1>20. CASE VerifyRecord BY <1>20 DEF VerifyRecord
<1>21. CASE Same BY <1>21 DEF Same, Block
<1>22. CASE Settle BY <1>22 DEF Settle, Block
<1>23. CASE Unref BY <1>23 DEF Unref
<1>24. CASE UnrefRead BY <1>24 DEF UnrefRead, Block
<1>25. CASE RemoteRead BY <1>25 DEF RemoteRead, Block
<1>26. CASE RemoteSame BY <1>26 DEF RemoteSame, Block
<1>27. CASE Push BY <1>27 DEF Push, Goto
<1>28. CASE PushRead BY <1>28 DEF PushRead, Block
<1>29. CASE PostPath BY <1>29 DEF PostPath, Check
<1>30. CASE PostRecord BY <1>30 DEF PostRecord, Check
<1>31. CASE PostLocal BY <1>31 DEF PostLocal, Check
<1>32. CASE PostRemote BY <1>32 DEF PostRemote, Check
<1>33. CASE PostPull BY <1>33 DEF PostPull, Check
<1>34. CASE Rerun BY <1>34 DEF Rerun
<1>35. CASE KentRemovesPath BY <1>35 DEF KentRemovesPath, Removing
<1>36. CASE KentRemovesRegistration BY <1>36 DEF KentRemovesRegistration, Removing
<1>37. CASE KentRemovesRecord BY <1>37 DEF KentRemovesRecord, Removing
<1>38. CASE KentRemovesBranch BY <1>38 DEF KentRemovesBranch, Removing
<1>39. CASE WorkerCommits BY <1>39 DEF WorkerCommits, Move
<1>40. CASE WorkerSwitches BY <1>40 DEF WorkerSwitches, Move
<1>41. CASE WorkerEdits BY <1>41 DEF WorkerEdits, Move
<1>42. CASE Reenters BY <1>42 DEF Reenters, Move
<1>43. CASE SessionMoves BY <1>43 DEF SessionMoves, Move
<1>44. CASE Pushes BY <1>44 DEF Pushes, Move
<1>45. CASE PullRequestMoves BY <1>45 DEF PullRequestMoves, Move
<1>46. CASE BranchMoves BY <1>46 DEF BranchMoves, Move
<1>47. CASE PathReused BY <1>47 DEF PathReused, Move
<1>48. CASE ArchiveDamaged BY <1>48 DEF ArchiveDamaged, Move
<1>49. CASE UNCHANGED vars BY <1>49 DEF vars
<1> QED
    BY <1>1, <1>2, <1>3, <1>4, <1>5, <1>6, <1>7, <1>8, <1>9, <1>10,
       <1>11, <1>12, <1>13, <1>14, <1>15, <1>16, <1>17, <1>18, <1>19,
       <1>20, <1>21, <1>22, <1>23, <1>24, <1>25, <1>26, <1>27, <1>28,
       <1>29, <1>30, <1>31, <1>32, <1>33, <1>34, <1>35, <1>36, <1>37,
       <1>38, <1>39, <1>40, <1>41, <1>42, <1>43, <1>44, <1>45, <1>46,
       <1>47, <1>48, <1>49
       DEF Next, Admission, Deletion, Finish, Kent, Others

\* The local branch is read as HEAD before it is removed.
LEMMA UnrefSafeStep ==
    TypeOK /\ UnrefSafe /\ [Next]_vars => UnrefSafe'
<1> SUFFICES ASSUME TypeOK, UnrefSafe, [Next]_vars
             PROVE  UnrefSafe'
    OBVIOUS
<1> USE JanitorAssumption DEF UnrefSafe, Failed, tree, refs, outside, kent, seen,
            outcome, World, Looking
<1>1. CASE Admit BY <1>1 DEF Admit
<1>2. CASE Clean BY <1>2 DEF Clean
<1>3. CASE Recover BY <1>3 DEF Recover, Goto
<1>4. CASE AdmitBranch BY <1>4 DEF AdmitBranch, Check
<1>5. CASE AdmitRuntime BY <1>5 DEF AdmitRuntime, Check
<1>6. CASE Seal BY <1>6 DEF Seal
<1>7. CASE Sentinel BY <1>7 DEF Sentinel
<1>8. CASE SessionAway BY <1>8 DEF SessionAway, Check
<1>9. CASE WitnessTip BY <1>9 DEF WitnessTip
<1>10. CASE CaptureRecord BY <1>10 DEF CaptureRecord, Check
<1>11. CASE ReadmitRuntime BY <1>11 DEF ReadmitRuntime, Check
<1>12. CASE Witness1 BY <1>12 DEF Witness1, Check
<1>13. CASE Prove1 BY <1>13 DEF Prove1, Check
<1>14. CASE Identity BY <1>14 DEF Identity, Check
<1>15. CASE Witness2 BY <1>15 DEF Witness2, Check
<1>16. CASE Prove2 BY <1>16 DEF Prove2, Check
<1>17. CASE Native BY <1>17 DEF Native, Goto
<1>18. CASE Ack BY <1>18 DEF Ack, Answers
<1>19. CASE Verify BY <1>19 DEF Verify, Check
<1>20. CASE VerifyRecord BY <1>20 DEF VerifyRecord
<1>21. CASE Same BY <1>21 DEF Same, Block
<1>22. CASE Settle BY <1>22 DEF Settle, Block
<1>23. CASE Unref BY <1>23 DEF Unref
<1>24. CASE UnrefRead BY <1>24 DEF UnrefRead, Block
<1>25. CASE RemoteRead BY <1>25 DEF RemoteRead, Block
<1>26. CASE RemoteSame BY <1>26 DEF RemoteSame, Block
<1>27. CASE Push BY <1>27 DEF Push, Goto
<1>28. CASE PushRead BY <1>28 DEF PushRead, Block
<1>29. CASE PostPath BY <1>29 DEF PostPath, Check
<1>30. CASE PostRecord BY <1>30 DEF PostRecord, Check
<1>31. CASE PostLocal BY <1>31 DEF PostLocal, Check
<1>32. CASE PostRemote BY <1>32 DEF PostRemote, Check
<1>33. CASE PostPull BY <1>33 DEF PostPull, Check
<1>34. CASE Rerun BY <1>34 DEF Rerun
<1>35. CASE KentRemovesPath BY <1>35 DEF KentRemovesPath, Removing
<1>36. CASE KentRemovesRegistration BY <1>36 DEF KentRemovesRegistration, Removing
<1>37. CASE KentRemovesRecord BY <1>37 DEF KentRemovesRecord, Removing
<1>38. CASE KentRemovesBranch BY <1>38 DEF KentRemovesBranch, Removing
<1>39. CASE WorkerCommits BY <1>39 DEF WorkerCommits, Move
<1>40. CASE WorkerSwitches BY <1>40 DEF WorkerSwitches, Move
<1>41. CASE WorkerEdits BY <1>41 DEF WorkerEdits, Move
<1>42. CASE Reenters BY <1>42 DEF Reenters, Move
<1>43. CASE SessionMoves BY <1>43 DEF SessionMoves, Move
<1>44. CASE Pushes BY <1>44 DEF Pushes, Move
<1>45. CASE PullRequestMoves BY <1>45 DEF PullRequestMoves, Move
<1>46. CASE BranchMoves BY <1>46 DEF BranchMoves, Move
<1>47. CASE PathReused BY <1>47 DEF PathReused, Move
<1>48. CASE ArchiveDamaged BY <1>48 DEF ArchiveDamaged, Move
<1>49. CASE UNCHANGED vars BY <1>49 DEF vars
<1> QED
    BY <1>1, <1>2, <1>3, <1>4, <1>5, <1>6, <1>7, <1>8, <1>9, <1>10,
       <1>11, <1>12, <1>13, <1>14, <1>15, <1>16, <1>17, <1>18, <1>19,
       <1>20, <1>21, <1>22, <1>23, <1>24, <1>25, <1>26, <1>27, <1>28,
       <1>29, <1>30, <1>31, <1>32, <1>33, <1>34, <1>35, <1>36, <1>37,
       <1>38, <1>39, <1>40, <1>41, <1>42, <1>43, <1>44, <1>45, <1>46,
       <1>47, <1>48, <1>49
       DEF Next, Admission, Deletion, Finish, Kent, Others

\* The lease is the head of the pull request.
LEMMA PushSafeStep ==
    TypeOK /\ PushSafe /\ [Next]_vars => PushSafe'
<1> SUFFICES ASSUME TypeOK, PushSafe, [Next]_vars
             PROVE  PushSafe'
    OBVIOUS
<1> USE JanitorAssumption DEF PushSafe, TipUnchanged, Merged, Published, Failed, TypeOK,
            Typed, Inputs, tree, refs, outside, kent, seen, outcome,
            World, Looking
<1>1. CASE Admit BY <1>1 DEF Admit
<1>2. CASE Clean BY <1>2 DEF Clean
<1>3. CASE Recover BY <1>3 DEF Recover, Goto
<1>4. CASE AdmitBranch BY <1>4 DEF AdmitBranch, Check
<1>5. CASE AdmitRuntime BY <1>5 DEF AdmitRuntime, Check
<1>6. CASE Seal BY <1>6 DEF Seal
<1>7. CASE Sentinel BY <1>7 DEF Sentinel
<1>8. CASE SessionAway BY <1>8 DEF SessionAway, Check
<1>9. CASE WitnessTip BY <1>9 DEF WitnessTip
<1>10. CASE CaptureRecord BY <1>10 DEF CaptureRecord, Check
<1>11. CASE ReadmitRuntime BY <1>11 DEF ReadmitRuntime, Check
<1>12. CASE Witness1 BY <1>12 DEF Witness1, Check
<1>13. CASE Prove1 BY <1>13 DEF Prove1, Check
<1>14. CASE Identity BY <1>14 DEF Identity, Check
<1>15. CASE Witness2 BY <1>15 DEF Witness2, Check
<1>16. CASE Prove2 BY <1>16 DEF Prove2, Check
<1>17. CASE Native BY <1>17 DEF Native, Goto
<1>18. CASE Ack BY <1>18 DEF Ack, Answers
<1>19. CASE Verify BY <1>19 DEF Verify, Check
<1>20. CASE VerifyRecord BY <1>20 DEF VerifyRecord
<1>21. CASE Same BY <1>21 DEF Same, Block
<1>22. CASE Settle BY <1>22 DEF Settle, Block
<1>23. CASE Unref BY <1>23 DEF Unref
<1>24. CASE UnrefRead BY <1>24 DEF UnrefRead, Block
<1>25. CASE RemoteRead BY <1>25 DEF RemoteRead, Block
<1>26. CASE RemoteSame BY <1>26 DEF RemoteSame, Block
<1>27. CASE Push BY <1>27 DEF Push, Goto
<1>28. CASE PushRead BY <1>28 DEF PushRead, Block
<1>29. CASE PostPath BY <1>29 DEF PostPath, Check
<1>30. CASE PostRecord BY <1>30 DEF PostRecord, Check
<1>31. CASE PostLocal BY <1>31 DEF PostLocal, Check
<1>32. CASE PostRemote BY <1>32 DEF PostRemote, Check
<1>33. CASE PostPull BY <1>33 DEF PostPull, Check
<1>34. CASE Rerun BY <1>34 DEF Rerun
<1>35. CASE KentRemovesPath BY <1>35 DEF KentRemovesPath, Removing
<1>36. CASE KentRemovesRegistration BY <1>36 DEF KentRemovesRegistration, Removing
<1>37. CASE KentRemovesRecord BY <1>37 DEF KentRemovesRecord, Removing
<1>38. CASE KentRemovesBranch BY <1>38 DEF KentRemovesBranch, Removing
<1>39. CASE WorkerCommits BY <1>39 DEF WorkerCommits, Move
<1>40. CASE WorkerSwitches BY <1>40 DEF WorkerSwitches, Move
<1>41. CASE WorkerEdits BY <1>41 DEF WorkerEdits, Move
<1>42. CASE Reenters BY <1>42 DEF Reenters, Move
<1>43. CASE SessionMoves BY <1>43 DEF SessionMoves, Move
<1>44. CASE Pushes BY <1>44 DEF Pushes, Move
<1>45. CASE PullRequestMoves BY <1>45 DEF PullRequestMoves, Move
<1>46. CASE BranchMoves BY <1>46 DEF BranchMoves, Move
<1>47. CASE PathReused BY <1>47 DEF PathReused, Move
<1>48. CASE ArchiveDamaged BY <1>48 DEF ArchiveDamaged, Move
<1>49. CASE UNCHANGED vars BY <1>49 DEF vars
<1> QED
    BY <1>1, <1>2, <1>3, <1>4, <1>5, <1>6, <1>7, <1>8, <1>9, <1>10,
       <1>11, <1>12, <1>13, <1>14, <1>15, <1>16, <1>17, <1>18, <1>19,
       <1>20, <1>21, <1>22, <1>23, <1>24, <1>25, <1>26, <1>27, <1>28,
       <1>29, <1>30, <1>31, <1>32, <1>33, <1>34, <1>35, <1>36, <1>37,
       <1>38, <1>39, <1>40, <1>41, <1>42, <1>43, <1>44, <1>45, <1>46,
       <1>47, <1>48, <1>49
       DEF Next, Admission, Deletion, Finish, Kent, Others

\* Nothing is settled before it is gone for good.
LEMMA SettledStep ==
    TypeOK /\ Order /\ Settled /\ [Next]_vars => Settled'
<1> SUFFICES ASSUME TypeOK, Order, Settled, [Next]_vars
             PROVE  Settled'
    OBVIOUS
<1> USE JanitorAssumption DEF Settled, Gone, Order, RecordSettled, Failed, TypeOK, Typed,
            TakenOK, Tips, Runtimes, Requests, Pulls, Inputs, Before,
            RuntimeQuiet, Quiet, After, Verdicts, tree, refs, outside,
            kent, seen, outcome, World, Looking
<1>1. CASE Admit BY <1>1 DEF Admit
<1>2. CASE Clean BY <1>2 DEF Clean
<1>3. CASE Recover BY <1>3 DEF Recover, Goto
<1>4. CASE AdmitBranch BY <1>4 DEF AdmitBranch, Check
<1>5. CASE AdmitRuntime BY <1>5 DEF AdmitRuntime, Check
<1>6. CASE Seal BY <1>6 DEF Seal
<1>7. CASE Sentinel BY <1>7 DEF Sentinel
<1>8. CASE SessionAway BY <1>8 DEF SessionAway, Check
<1>9. CASE WitnessTip BY <1>9 DEF WitnessTip
<1>10. CASE CaptureRecord BY <1>10 DEF CaptureRecord, Check
<1>11. CASE ReadmitRuntime BY <1>11 DEF ReadmitRuntime, Check
<1>12. CASE Witness1 BY <1>12 DEF Witness1, Check
<1>13. CASE Prove1 BY <1>13 DEF Prove1, Check
<1>14. CASE Identity BY <1>14 DEF Identity, Check
<1>15. CASE Witness2 BY <1>15 DEF Witness2, Check
<1>16. CASE Prove2 BY <1>16 DEF Prove2, Check
<1>17. CASE Native BY <1>17 DEF Native, Goto
<1>18. CASE Ack BY <1>18 DEF Ack, Answers
<1>19. CASE Verify BY <1>19 DEF Verify, Check
<1>20. CASE VerifyRecord BY <1>20 DEF VerifyRecord
<1>21. CASE Same BY <1>21 DEF Same, Block
<1>22. CASE Settle BY <1>22 DEF Settle, Block
<1>23. CASE Unref BY <1>23 DEF Unref
<1>24. CASE UnrefRead BY <1>24 DEF UnrefRead, Block
<1>25. CASE RemoteRead BY <1>25 DEF RemoteRead, Block
<1>26. CASE RemoteSame BY <1>26 DEF RemoteSame, Block
<1>27. CASE Push BY <1>27 DEF Push, Goto
<1>28. CASE PushRead BY <1>28 DEF PushRead, Block
<1>29. CASE PostPath BY <1>29 DEF PostPath, Check
<1>30. CASE PostRecord BY <1>30 DEF PostRecord, Check
<1>31. CASE PostLocal BY <1>31 DEF PostLocal, Check
<1>32. CASE PostRemote BY <1>32 DEF PostRemote, Check
<1>33. CASE PostPull BY <1>33 DEF PostPull, Check
<1>34. CASE Rerun BY <1>34 DEF Rerun
<1>35. CASE KentRemovesPath BY <1>35 DEF KentRemovesPath, Removing
<1>36. CASE KentRemovesRegistration BY <1>36 DEF KentRemovesRegistration, Removing
<1>37. CASE KentRemovesRecord BY <1>37 DEF KentRemovesRecord, Removing
<1>38. CASE KentRemovesBranch BY <1>38 DEF KentRemovesBranch, Removing
<1>39. CASE WorkerCommits BY <1>39 DEF WorkerCommits, Move
<1>40. CASE WorkerSwitches BY <1>40 DEF WorkerSwitches, Move
<1>41. CASE WorkerEdits BY <1>41 DEF WorkerEdits, Move
<1>42. CASE Reenters BY <1>42 DEF Reenters, Move
<1>43. CASE SessionMoves BY <1>43 DEF SessionMoves, Move
<1>44. CASE Pushes BY <1>44 DEF Pushes, Move
<1>45. CASE PullRequestMoves BY <1>45 DEF PullRequestMoves, Move
<1>46. CASE BranchMoves BY <1>46 DEF BranchMoves, Move
<1>47. CASE PathReused BY <1>47 DEF PathReused, Move
<1>48. CASE ArchiveDamaged BY <1>48 DEF ArchiveDamaged, Move
<1>49. CASE UNCHANGED vars BY <1>49 DEF vars
<1> QED
    BY <1>1, <1>2, <1>3, <1>4, <1>5, <1>6, <1>7, <1>8, <1>9, <1>10,
       <1>11, <1>12, <1>13, <1>14, <1>15, <1>16, <1>17, <1>18, <1>19,
       <1>20, <1>21, <1>22, <1>23, <1>24, <1>25, <1>26, <1>27, <1>28,
       <1>29, <1>30, <1>31, <1>32, <1>33, <1>34, <1>35, <1>36, <1>37,
       <1>38, <1>39, <1>40, <1>41, <1>42, <1>43, <1>44, <1>45, <1>46,
       <1>47, <1>48, <1>49
       DEF Next, Admission, Deletion, Finish, Kent, Others

\* Every removal is of something recoverable.
LEMMA NothingLostStep ==
    TypeOK /\ HeadSafe /\ PullSeen /\ RuntimeSafe /\ RequestSafe /\ UnrefSafe /\ PushSafe
    /\ NothingLost /\ [Next]_vars => NothingLost'
<1> SUFFICES ASSUME TypeOK, HeadSafe, PullSeen, RuntimeSafe, RequestSafe, UnrefSafe, PushSafe, NothingLost, [Next]_vars
             PROVE  NothingLost'
    OBVIOUS
<1> USE JanitorAssumption DEF NothingLost, HeadSafe, PullSeen, RuntimeSafe, RequestSafe,
            UnrefSafe, PushSafe, UnrefDeletes, LeaseHolds, Admitted,
            Safe, Merged, TypeOK, Typed, TakenOK, Tips, Runtimes,
            Requests, Pulls, Inputs, Before, RuntimeQuiet, Quiet,
            After, Verdicts, tree, refs, outside, kent, seen, outcome,
            World, Looking
<1>1. CASE Admit BY <1>1 DEF Admit
<1>2. CASE Clean BY <1>2 DEF Clean
<1>3. CASE Recover BY <1>3 DEF Recover, Goto
<1>4. CASE AdmitBranch BY <1>4 DEF AdmitBranch, Check
<1>5. CASE AdmitRuntime BY <1>5 DEF AdmitRuntime, Check
<1>6. CASE Seal BY <1>6 DEF Seal
<1>7. CASE Sentinel BY <1>7 DEF Sentinel
<1>8. CASE SessionAway BY <1>8 DEF SessionAway, Check
<1>9. CASE WitnessTip BY <1>9 DEF WitnessTip
<1>10. CASE CaptureRecord BY <1>10 DEF CaptureRecord, Check
<1>11. CASE ReadmitRuntime BY <1>11 DEF ReadmitRuntime, Check
<1>12. CASE Witness1 BY <1>12 DEF Witness1, Check
<1>13. CASE Prove1 BY <1>13 DEF Prove1, Check
<1>14. CASE Identity BY <1>14 DEF Identity, Check
<1>15. CASE Witness2 BY <1>15 DEF Witness2, Check
<1>16. CASE Prove2 BY <1>16 DEF Prove2, Check
<1>17. CASE Native BY <1>17 DEF Native, Goto
<1>18. CASE Ack BY <1>18 DEF Ack, Answers
<1>19. CASE Verify BY <1>19 DEF Verify, Check
<1>20. CASE VerifyRecord BY <1>20 DEF VerifyRecord
<1>21. CASE Same BY <1>21 DEF Same, Block
<1>22. CASE Settle BY <1>22 DEF Settle, Block
<1>23. CASE Unref BY <1>23 DEF Unref
<1>24. CASE UnrefRead BY <1>24 DEF UnrefRead, Block
<1>25. CASE RemoteRead BY <1>25 DEF RemoteRead, Block
<1>26. CASE RemoteSame BY <1>26 DEF RemoteSame, Block
<1>27. CASE Push BY <1>27 DEF Push, Goto
<1>28. CASE PushRead BY <1>28 DEF PushRead, Block
<1>29. CASE PostPath BY <1>29 DEF PostPath, Check
<1>30. CASE PostRecord BY <1>30 DEF PostRecord, Check
<1>31. CASE PostLocal BY <1>31 DEF PostLocal, Check
<1>32. CASE PostRemote BY <1>32 DEF PostRemote, Check
<1>33. CASE PostPull BY <1>33 DEF PostPull, Check
<1>34. CASE Rerun BY <1>34 DEF Rerun
<1>35. CASE KentRemovesPath BY <1>35 DEF KentRemovesPath, Removing
<1>36. CASE KentRemovesRegistration BY <1>36 DEF KentRemovesRegistration, Removing
<1>37. CASE KentRemovesRecord BY <1>37 DEF KentRemovesRecord, Removing
<1>38. CASE KentRemovesBranch BY <1>38 DEF KentRemovesBranch, Removing
<1>39. CASE WorkerCommits BY <1>39 DEF WorkerCommits, Move
<1>40. CASE WorkerSwitches BY <1>40 DEF WorkerSwitches, Move
<1>41. CASE WorkerEdits BY <1>41 DEF WorkerEdits, Move
<1>42. CASE Reenters BY <1>42 DEF Reenters, Move
<1>43. CASE SessionMoves BY <1>43 DEF SessionMoves, Move
<1>44. CASE Pushes BY <1>44 DEF Pushes, Move
<1>45. CASE PullRequestMoves BY <1>45 DEF PullRequestMoves, Move
<1>46. CASE BranchMoves BY <1>46 DEF BranchMoves, Move
<1>47. CASE PathReused BY <1>47 DEF PathReused, Move
<1>48. CASE ArchiveDamaged BY <1>48 DEF ArchiveDamaged, Move
<1>49. CASE UNCHANGED vars BY <1>49 DEF vars
<1> QED
    BY <1>1, <1>2, <1>3, <1>4, <1>5, <1>6, <1>7, <1>8, <1>9, <1>10,
       <1>11, <1>12, <1>13, <1>14, <1>15, <1>16, <1>17, <1>18, <1>19,
       <1>20, <1>21, <1>22, <1>23, <1>24, <1>25, <1>26, <1>27, <1>28,
       <1>29, <1>30, <1>31, <1>32, <1>33, <1>34, <1>35, <1>36, <1>37,
       <1>38, <1>39, <1>40, <1>41, <1>42, <1>43, <1>44, <1>45, <1>46,
       <1>47, <1>48, <1>49
       DEF Next, Admission, Deletion, Finish, Kent, Others

\* The remote branch is removed at the head of the pull request and last.
LEMMA RemoteLastStep ==
    TypeOK /\ Order /\ PullSeen /\ PushSafe /\ Settled /\ RemoteLast /\ [Next]_vars
    => RemoteLast'
<1> SUFFICES ASSUME TypeOK, Order, PullSeen, PushSafe, Settled, RemoteLast, [Next]_vars
             PROVE  RemoteLast'
    OBVIOUS
<1> USE JanitorAssumption DEF RemoteLast, PullSeen, PushSafe, Settled, Gone, Order,
            LeaseHolds, Admitted, Merged, TypeOK, Typed, TakenOK, Tips,
            Runtimes, Requests, Pulls, Inputs, Before, RuntimeQuiet,
            Quiet, After, Verdicts, tree, refs, outside, kent, seen,
            outcome, World, Looking
<1>1. CASE Admit BY <1>1 DEF Admit
<1>2. CASE Clean BY <1>2 DEF Clean
<1>3. CASE Recover BY <1>3 DEF Recover, Goto
<1>4. CASE AdmitBranch BY <1>4 DEF AdmitBranch, Check
<1>5. CASE AdmitRuntime BY <1>5 DEF AdmitRuntime, Check
<1>6. CASE Seal BY <1>6 DEF Seal
<1>7. CASE Sentinel BY <1>7 DEF Sentinel
<1>8. CASE SessionAway BY <1>8 DEF SessionAway, Check
<1>9. CASE WitnessTip BY <1>9 DEF WitnessTip
<1>10. CASE CaptureRecord BY <1>10 DEF CaptureRecord, Check
<1>11. CASE ReadmitRuntime BY <1>11 DEF ReadmitRuntime, Check
<1>12. CASE Witness1 BY <1>12 DEF Witness1, Check
<1>13. CASE Prove1 BY <1>13 DEF Prove1, Check
<1>14. CASE Identity BY <1>14 DEF Identity, Check
<1>15. CASE Witness2 BY <1>15 DEF Witness2, Check
<1>16. CASE Prove2 BY <1>16 DEF Prove2, Check
<1>17. CASE Native
    <2>1. CASE UNCHANGED <<kent, taken>> BY <2>1, <1>17 DEF Native, Goto
    <2>2. CASE path = "ours"
        <3>1. \A t \in taken : t.what # "remote" BY <2>2
        <3>2. \A t \in taken' : t.what # "remote" BY <3>1, <1>17 DEF Native, Goto
        <3> QED BY <3>2
    <2> QED BY <2>1, <2>2, <1>17 DEF Native
<1>18. CASE Ack BY <1>18 DEF Ack, Answers
<1>19. CASE Verify BY <1>19 DEF Verify, Check
<1>20. CASE VerifyRecord BY <1>20 DEF VerifyRecord
<1>21. CASE Same BY <1>21 DEF Same, Block
<1>22. CASE Settle BY <1>22 DEF Settle, Block
<1>23. CASE Unref BY <1>23 DEF Unref
<1>24. CASE UnrefRead BY <1>24 DEF UnrefRead, Block
<1>25. CASE RemoteRead BY <1>25 DEF RemoteRead, Block
<1>26. CASE RemoteSame BY <1>26 DEF RemoteSame, Block
<1>27. CASE Push BY <1>27 DEF Push, Goto
<1>28. CASE PushRead BY <1>28 DEF PushRead, Block
<1>29. CASE PostPath BY <1>29 DEF PostPath, Check
<1>30. CASE PostRecord BY <1>30 DEF PostRecord, Check
<1>31. CASE PostLocal BY <1>31 DEF PostLocal, Check
<1>32. CASE PostRemote BY <1>32 DEF PostRemote, Check
<1>33. CASE PostPull BY <1>33 DEF PostPull, Check
<1>34. CASE Rerun BY <1>34 DEF Rerun
<1>35. CASE KentRemovesPath BY <1>35 DEF KentRemovesPath, Removing
<1>36. CASE KentRemovesRegistration BY <1>36 DEF KentRemovesRegistration, Removing
<1>37. CASE KentRemovesRecord BY <1>37 DEF KentRemovesRecord, Removing
<1>38. CASE KentRemovesBranch BY <1>38 DEF KentRemovesBranch, Removing
<1>39. CASE WorkerCommits BY <1>39 DEF WorkerCommits, Move
<1>40. CASE WorkerSwitches BY <1>40 DEF WorkerSwitches, Move
<1>41. CASE WorkerEdits BY <1>41 DEF WorkerEdits, Move
<1>42. CASE Reenters BY <1>42 DEF Reenters, Move
<1>43. CASE SessionMoves BY <1>43 DEF SessionMoves, Move
<1>44. CASE Pushes BY <1>44 DEF Pushes, Move
<1>45. CASE PullRequestMoves BY <1>45 DEF PullRequestMoves, Move
<1>46. CASE BranchMoves BY <1>46 DEF BranchMoves, Move
<1>47. CASE PathReused BY <1>47 DEF PathReused, Move
<1>48. CASE ArchiveDamaged BY <1>48 DEF ArchiveDamaged, Move
<1>49. CASE UNCHANGED vars BY <1>49 DEF vars
<1> QED
    BY <1>1, <1>2, <1>3, <1>4, <1>5, <1>6, <1>7, <1>8, <1>9, <1>10,
       <1>11, <1>12, <1>13, <1>14, <1>15, <1>16, <1>17, <1>18, <1>19,
       <1>20, <1>21, <1>22, <1>23, <1>24, <1>25, <1>26, <1>27, <1>28,
       <1>29, <1>30, <1>31, <1>32, <1>33, <1>34, <1>35, <1>36, <1>37,
       <1>38, <1>39, <1>40, <1>41, <1>42, <1>43, <1>44, <1>45, <1>46,
       <1>47, <1>48, <1>49
       DEF Next, Admission, Deletion, Finish, Kent, Others
-----------------------------------------------------------------------------
\* The initial states have the right types.
LEMMA TypeAtInit == Init => TypeOK
<1> SUFFICES ASSUME Init PROVE TypeOK
    OBVIOUS
<1> USE JanitorAssumption DEF Init
<1>1. /\ registered \in BOOLEAN /\ attached \in BOOLEAN /\ dirty \in BOOLEAN
      /\ elsewhere \in BOOLEAN /\ inside \in BOOLEAN /\ closure \in BOOLEAN
    BY Zenon
<1>2. input \in Inputs /\ archive \in BOOLEAN
    BY DEF Inputs
<1>3. /\ published \subseteq Commits
      /\ local \in Tips /\ remote \in Tips /\ runtime \in Runtimes
    BY DEF Tips, Runtimes
<1>4. /\ path = "ours" /\ record = "registered" /\ pr \in Pulls /\ prSeen \in Pulls
      /\ native = {} /\ nativeOid = None /\ pc = "admit" /\ run = 1 /\ head = None
      /\ remoteOid = None /\ localOid = None /\ effect = "none" /\ blocked = "no"
      /\ taken = {} /\ moves = 0
    BY Zenon
<1> HIDE DEF Init
<1> QED
    BY <1>1, <1>2, <1>3, <1>4 DEF TypeOK, Typed, TakenOK, Tips, Before

\* Type correctness, for all constants.
THEOREM TypeCorrect == Spec => []TypeOK
<1>1. TypeOK /\ [Next]_vars => TypeOK'
    BY TypeStep, TakenStep DEF TypeOK
<1> QED BY TypeAtInit, <1>1, PTL DEF Spec

\* The strengthening holds initially, ...
LEMMA StrengtheningInit == Init /\ TypeOK => Strengthening
<1> SUFFICES ASSUME Init, TypeOK PROVE Strengthening
    OBVIOUS
<1> USE JanitorAssumption DEF Init
<1>1. Order BY DEF Order
<1>2. Tipped BY DEF Tipped
<1>3. HeadSafe /\ PullSeen BY DEF HeadSafe, PullSeen, Admitted
<1>4. RuntimeSafe /\ Window BY DEF RuntimeSafe, RuntimeQuiet, Window, Quiet
<1>5. RequestSafe /\ UnrefSafe /\ PushSafe BY DEF RequestSafe, UnrefSafe, PushSafe
<1>6. Settled BY DEF Settled, Gone
<1>7. NothingLost /\ RemoteLast BY DEF NothingLost, RemoteLast
<1> QED BY <1>1, <1>2, <1>3, <1>4, <1>5, <1>6, <1>7 DEF Strengthening

\* ... every step keeps it, ...
LEMMA StrengtheningStep == Strengthening /\ [Next]_vars => Strengthening'
<1> SUFFICES ASSUME Strengthening, [Next]_vars PROVE Strengthening'
    OBVIOUS
<1>1. TypeOK' BY TypeStep, TakenStep DEF Strengthening, TypeOK
<1>2. Order' /\ Tipped' BY OrderStep, TippedStep DEF Strengthening
<1>3. HeadSafe' /\ PullSeen' BY HeadSafeStep, PullSeenStep DEF Strengthening
<1>4. RuntimeSafe' /\ Window' BY RuntimeSafeStep, WindowStep DEF Strengthening
<1>5. RequestSafe' /\ UnrefSafe' /\ PushSafe'
    BY RequestSafeStep, UnrefSafeStep, PushSafeStep DEF Strengthening
<1>6. Settled' BY SettledStep DEF Strengthening
<1>7. NothingLost' /\ RemoteLast' BY NothingLostStep, RemoteLastStep DEF Strengthening
<1> QED BY <1>1, <1>2, <1>3, <1>4, <1>5, <1>6, <1>7 DEF Strengthening

\* ... and it makes every verdict true.
LEMMA StrengtheningVerdict == Strengthening => VerdictHonest
<1> SUFFICES ASSUME Strengthening PROVE VerdictHonest
    OBVIOUS
<1>1. pc \in {"preserved", "refused"} => effect = "none"
    BY DEF Strengthening, Settled
<1>2. pc \in {"partial", "removed"} => Gone
    BY DEF Strengthening, Settled
<1>3. pc = "removed" => /\ registered => path = "other"
                        /\ head \in Commits /\ Safe(head)
    BY DEF Strengthening, Settled, HeadSafe, Admitted
<1> QED BY <1>1, <1>2, <1>3 DEF VerdictHonest, Gone, Safe, Merged, Published

\* The inductive invariant: what the janitor has read is still true of what only
\* it may change, and its steps are done in order.
THEOREM Inductive == Spec => []Strengthening
<1>1. Init => Strengthening
    BY StrengtheningInit, TypeAtInit
<1> QED BY <1>1, StrengtheningStep, PTL DEF Spec

\* Whatever a removed branch pointed at is in the merged pull request or was
\* published, and no worktree is given up with foreign or unretained evidence:
\* for all commits, histories, moves of other people, delays of Kent and reruns.
THEOREM NothingLostAlways == Spec => []NothingLost
<1>1. Strengthening => NothingLost BY DEF Strengthening
<1> QED BY Inductive, <1>1, PTL

\* The remote branch is removed after everything else and at the pull request's head.
THEOREM RemoteLastAlways == Spec => []RemoteLast
<1>1. Strengthening => RemoteLast BY DEF Strengthening
<1> QED BY Inductive, <1>1, PTL

\* Done, preserved and removed are said only when they are so.
THEOREM VerdictsHonest == Spec => []VerdictHonest
<1> QED BY Inductive, StrengtheningVerdict, PTL

-----------------------------------------------------------------------------
(* The ledger of the evidence. *)

-----------------------------------------------------------------------------
(* Sequences, as far as chains need them. *)

\* s is the beginning of t, row by row.
Begins(s, t) == Len(s) <= Len(t) /\ \A i \in 1 .. Len(s) : s[i] = t[i]

LEMMA PrefixRows ==
    ASSUME NEW S, NEW s \in Seq(S), NEW t \in Seq(S)
    PROVE  IsPrefix(s, t) <=> Begins(s, t)
<1>1. SubSeq(s, 1, Len(s)) = s
  BY SubSeqFull
<1>2. ASSUME Len(s) <= Len(t)
      PROVE  /\ SubSeq(t, 1, Len(s)) \in Seq(S) /\ Len(SubSeq(t, 1, Len(s))) = Len(s)
             /\ \A i \in 1 .. Len(s) : SubSeq(t, 1, Len(s))[i] = t[i]
  <2>1. Len(s) \in Nat /\ Len(t) \in Nat
    BY LenProperties
  <2>2. \A i \in 1 .. Len(s) : t[i] \in S
    BY <1>2, <2>1, ElementOfSeq
  <2>3. /\ SubSeq(t, 1, Len(s)) \in Seq(S)
        /\ Len(SubSeq(t, 1, Len(s))) = IF 1 <= Len(s) THEN Len(s) - 1 + 1 ELSE 0
        /\ \A i \in 1 .. Len(s) - 1 + 1 : SubSeq(t, 1, Len(s))[i] = t[1 + i - 1]
    BY <2>1, <2>2, SubSeqProperties
  <2>4. QED
    BY <2>1, <2>3
<1>3. IsPrefix(s, t) => Begins(s, t)
  BY <1>1, <1>2 DEF IsPrefix, Begins
<1>4. Begins(s, t) => IsPrefix(s, t)
  <2>1. SUFFICES ASSUME Begins(s, t) PROVE s = SubSeq(t, 1, Len(s))
    BY <1>1 DEF IsPrefix, Begins
  <2>2. QED
    BY <1>2, <2>1, SeqEqual DEF Begins
<1>5. QED
  BY <1>3, <1>4

LEMMA BeginsOrder ==
    ASSUME NEW S, NEW s \in Seq(S), NEW t \in Seq(S), NEW u \in Seq(S)
    PROVE  /\ Begins(s, s)
           /\ Begins(s, t) /\ Begins(t, u) => Begins(s, u)
           /\ Begins(s, t) /\ Len(t) <= Len(s) => s = t
<1>1. Len(s) \in Nat /\ Len(t) \in Nat /\ Len(u) \in Nat
  BY LenProperties
<1>2. Begins(s, t) /\ Len(t) <= Len(s) => s = t
  BY <1>1, SeqEqual DEF Begins
<1>3. Begins(s, s)
  BY <1>1 DEF Begins
<1>4. ASSUME Begins(s, t), Begins(t, u) PROVE Begins(s, u)
  BY <1>1, <1>4 DEF Begins
<1>5. QED
  BY <1>2, <1>3, <1>4

LEMMA FirstRows ==
    ASSUME NEW S, NEW t \in Seq(S), NEW n \in 0 .. Len(t)
    PROVE  /\ SubSeq(t, 1, n) \in Seq(S) /\ Len(SubSeq(t, 1, n)) = n
           /\ \A i \in 1 .. n : SubSeq(t, 1, n)[i] = t[i]
<1>1. Len(t) \in Nat /\ n \in Int
  BY LenProperties
<1>2. \A i \in 1 .. n : t[i] \in S
  BY <1>1, ElementOfSeq
<1>3. /\ SubSeq(t, 1, n) \in Seq(S)
      /\ Len(SubSeq(t, 1, n)) = IF 1 <= n THEN n - 1 + 1 ELSE 0
      /\ \A i \in 1 .. n - 1 + 1 : SubSeq(t, 1, n)[i] = t[1 + i - 1]
  BY <1>1, <1>2, SubSeqProperties
<1>4. QED
  BY <1>1, <1>3

LEMMA OneRow ==
    ASSUME NEW S, NEW x \in S
    PROVE  <<x>> \in Seq(S) /\ Len(<<x>>) = 1 /\ <<x>>[1] = x /\ <<>> \in Seq(S)
           /\ Append(<<>>, x) = <<x>>
OBVIOUS

-----------------------------------------------------------------------------
(* Files: what is complete of them, and what is left of them. *)

LEMMA Thirds ==
    ASSUME NEW e \in Nat, NEW d \in Nat, d <= e
    PROVE  /\ (e + 2) \div 3 \in Nat /\ (e + 1) \div 3 \in Nat
           /\ (e + 1) \div 3 <= (e + 2) \div 3
           /\ e % 3 = 1 => (e + 1) \div 3 = (e + 2) \div 3 - 1
           /\ e % 3 # 1 => (e + 1) \div 3 = (e + 2) \div 3
           /\ (d + 2) \div 3 <= (e + 2) \div 3
           /\ (d + 1) \div 3 <= (e + 1) \div 3
           /\ (d + 1) \div 3 <= (d + 2) \div 3
OBVIOUS

LEMMA HeldRows ==
    ASSUME NEW R, NEW f, Holds(f, R)
    PROVE  /\ f.rows \in Seq(R) /\ f.end \in Nat /\ f.safe \in Nat /\ f.safe <= f.end
           /\ Complete(f) \in Seq(R) /\ Len(Complete(f)) = (f.end + 1) \div 3
           /\ Begins(Complete(f), f.rows)
           /\ Durable(f) \in Seq(R) /\ Len(Durable(f)) = (f.safe + 1) \div 3
           /\ Begins(Durable(f), Complete(f))
           /\ ~Torn(f) => Complete(f) = f.rows
           /\ Torn(f) => Len(Complete(f)) = Len(f.rows) - 1
           /\ f.safe = f.end => Durable(f) = Complete(f)
<1>1. /\ f.rows \in Seq(R) /\ f.end \in Nat /\ f.safe \in Nat /\ f.safe <= f.end
      /\ Len(f.rows) = (f.end + 2) \div 3
  BY DEF Holds, FileOf
<1>2. /\ (f.end + 1) \div 3 \in 0 .. Len(f.rows) /\ (f.safe + 1) \div 3 \in 0 .. Len(f.rows)
      /\ (f.safe + 1) \div 3 <= (f.end + 1) \div 3
      /\ ~Torn(f) => (f.end + 1) \div 3 = Len(f.rows)
      /\ Torn(f) => (f.end + 1) \div 3 = Len(f.rows) - 1
  <2>1. /\ (f.end + 2) \div 3 \in Nat /\ (f.end + 1) \div 3 \in Nat
        /\ (f.end + 1) \div 3 <= (f.end + 2) \div 3
        /\ f.end % 3 = 1 => (f.end + 1) \div 3 = (f.end + 2) \div 3 - 1
        /\ f.end % 3 # 1 => (f.end + 1) \div 3 = (f.end + 2) \div 3
        /\ (f.safe + 1) \div 3 <= (f.end + 1) \div 3
        /\ (f.safe + 1) \div 3 \in Nat
    <3> DEFINE e == f.end
               d == f.safe
    <3>1. e \in Nat /\ d \in Nat /\ d <= e
      BY <1>1
    <3> HIDE DEF e, d
    <3>2. /\ (e + 2) \div 3 \in Nat /\ (e + 1) \div 3 \in Nat
          /\ (e + 1) \div 3 <= (e + 2) \div 3
          /\ e % 3 = 1 => (e + 1) \div 3 = (e + 2) \div 3 - 1
          /\ e % 3 # 1 => (e + 1) \div 3 = (e + 2) \div 3
          /\ (d + 1) \div 3 <= (e + 1) \div 3
          /\ (d + 1) \div 3 \in Nat
      BY <3>1
    <3>3. QED
      BY <3>2 DEF e, d
  <2>2. QED
    BY <1>1, <2>1 DEF Torn
<1>3. /\ Complete(f) \in Seq(R) /\ Len(Complete(f)) = (f.end + 1) \div 3
      /\ \A i \in 1 .. (f.end + 1) \div 3 : Complete(f)[i] = f.rows[i]
  BY <1>1, <1>2, FirstRows DEF Complete
<1>4. /\ Durable(f) \in Seq(R) /\ Len(Durable(f)) = (f.safe + 1) \div 3
      /\ \A i \in 1 .. (f.safe + 1) \div 3 : Durable(f)[i] = f.rows[i]
  BY <1>1, <1>2, FirstRows DEF Durable
<1>5. Begins(Complete(f), f.rows) /\ Begins(Durable(f), Complete(f))
  BY <1>1, <1>2, <1>3, <1>4 DEF Begins
<1>6. ~Torn(f) => Complete(f) = f.rows
  BY <1>1, <1>2, <1>3, SeqEqual
<1>7. f.safe = f.end => Durable(f) = Complete(f)
  BY DEF Durable, Complete
<1>8. QED
  BY <1>1, <1>2, <1>3, <1>4, <1>5, <1>6, <1>7

LEMMA CompleteRows ==
    ASSUME NEW f, Filed(f)
    PROVE  /\ f.rows \in Seq(ChainRow) /\ f.end \in Nat /\ f.safe \in Nat /\ f.safe <= f.end
           /\ Complete(f) \in Seq(ChainRow) /\ Len(Complete(f)) = (f.end + 1) \div 3
           /\ Begins(Complete(f), f.rows)
           /\ Durable(f) \in Seq(ChainRow) /\ Len(Durable(f)) = (f.safe + 1) \div 3
           /\ Begins(Durable(f), Complete(f))
           /\ ~Torn(f) => Complete(f) = f.rows
           /\ Torn(f) => Len(Complete(f)) = Len(f.rows) - 1
           /\ f.safe = f.end => Durable(f) = Complete(f)
BY HeldRows DEF Filed

LEMMA HeldOf ==
    ASSUME NEW R, NEW rows \in Seq(R), NEW end \in Nat, NEW safe \in 0 .. end,
           Len(rows) = (end + 2) \div 3
    PROVE  Holds([rows |-> rows, end |-> end, safe |-> safe], R)
BY DEF Holds, FileOf

\* The same, where the parts are expressions.
LEMMA HeldIs ==
    ASSUME NEW R, NEW g, NEW rows, NEW end, NEW safe,
           g = [rows |-> rows, end |-> end, safe |-> safe],
           rows \in Seq(R), end \in Nat, safe \in Nat, safe <= end,
           Len(rows) = (end + 2) \div 3
    PROVE  Holds(g, R) /\ g.rows = rows /\ g.end = end /\ g.safe = safe
BY HeldOf

LEMMA FiledIs ==
    ASSUME NEW g, NEW rows, NEW end, NEW safe,
           g = [rows |-> rows, end |-> end, safe |-> safe],
           rows \in Seq(ChainRow), end \in Nat, safe \in Nat, safe <= end,
           Len(rows) = (end + 2) \div 3
    PROVE  Filed(g) /\ g.rows = rows /\ g.end = end /\ g.safe = safe
BY HeldIs DEF Filed

LEMMA HeldCut ==
    ASSUME NEW R, NEW f, Holds(f, R), NEW e \in 0 .. f.end, NEW g, g.rows = Cut(f, e).rows, g.end = e,
           g.safe \in 0 .. e, g = [rows |-> g.rows, end |-> g.end, safe |-> g.safe]
    PROVE  /\ Holds(g, R)
           /\ Begins(g.rows, f.rows) /\ Begins(Complete(g), Complete(f))
           /\ g.safe = f.safe => Durable(g) = Durable(f)
           /\ e = f.end => g.rows = f.rows
<1>1. /\ f.rows \in Seq(R) /\ f.end \in Nat /\ f.safe \in Nat /\ f.safe <= f.end
      /\ Len(f.rows) = (f.end + 2) \div 3
      /\ Complete(f) \in Seq(R) /\ Len(Complete(f)) = (f.end + 1) \div 3
      /\ Begins(Complete(f), f.rows)
  BY HeldRows DEF Holds
<1>2. e \in Nat /\ e <= f.end
  BY <1>1
<1>3. /\ (e + 2) \div 3 \in 0 .. Len(f.rows) /\ (e + 1) \div 3 <= (f.end + 1) \div 3
      /\ (e + 1) \div 3 <= (e + 2) \div 3
  BY <1>1, <1>2, Thirds
<1>4. g.rows = SubSeq(f.rows, 1, (e + 2) \div 3)
  BY DEF Cut
<1>5. /\ g.rows \in Seq(R) /\ Len(g.rows) = (e + 2) \div 3
      /\ \A i \in 1 .. (e + 2) \div 3 : g.rows[i] = f.rows[i]
  <2> DEFINE n == (e + 2) \div 3
             rows == f.rows
  <2>1. n \in 0 .. Len(rows) /\ rows \in Seq(R)
    BY <1>1, <1>3
  <2> HIDE DEF n, rows
  <2>2. /\ SubSeq(rows, 1, n) \in Seq(R) /\ Len(SubSeq(rows, 1, n)) = n
        /\ \A i \in 1 .. n : SubSeq(rows, 1, n)[i] = rows[i]
    BY <2>1, FirstRows
  <2>3. QED
    BY <1>4, <2>2 DEF n, rows
<1>6. Holds(g, R)
  BY <1>2, <1>5, HeldOf
<1>7. /\ Complete(g) \in Seq(R) /\ Len(Complete(g)) = (e + 1) \div 3
      /\ Begins(Complete(g), g.rows)
      /\ Durable(g) \in Seq(R) /\ Len(Durable(g)) = (g.safe + 1) \div 3
      /\ Begins(Durable(g), Complete(g))
  BY <1>6, HeldRows
<1>8. Begins(g.rows, f.rows)
  BY <1>1, <1>3, <1>5 DEF Begins
<1>9. Begins(Complete(g), Complete(f))
  <2>1. (e + 1) \div 3 \in Nat
    BY <1>2, Thirds
  <2>2. \A i \in 1 .. (e + 1) \div 3 : Complete(g)[i] = g.rows[i]
    BY <1>7 DEF Begins
  <2>3. \A i \in 1 .. (f.end + 1) \div 3 : Complete(f)[i] = f.rows[i]
    BY <1>1 DEF Begins
  <2>4. \A i \in 1 .. (e + 1) \div 3 : Complete(g)[i] = Complete(f)[i]
    <3> DEFINE n == (e + 1) \div 3
               m == (e + 2) \div 3
               k == (f.end + 1) \div 3
    <3>1. n \in Nat /\ n <= m /\ n <= k /\ m \in Nat /\ k \in Nat
      BY <1>1, <1>2, <1>3, <2>1, LenProperties
    <3> HIDE DEF n, m, k
    <3>2. QED
      BY <3>1, <1>5, <2>2, <2>3 DEF n, m, k
  <2>5. QED
    BY <1>1, <1>3, <1>7, <2>1, <2>4 DEF Begins
<1>10. ASSUME g.safe = f.safe PROVE Durable(g) = Durable(f)
  <2>1. /\ Durable(f) \in Seq(R) /\ Len(Durable(f)) = (f.safe + 1) \div 3
        /\ Begins(Durable(f), Complete(f))
    BY HeldRows
  <2>2. \A i \in 1 .. Len(Durable(g)) : Durable(g)[i] = Durable(f)[i]
    <3>1. Len(Durable(g)) \in Nat /\ Len(Durable(f)) = Len(Durable(g))
      BY <1>7, <1>10, <2>1, LenProperties
    <3>2. SUFFICES ASSUME NEW i \in 1 .. Len(Durable(g)) PROVE Durable(g)[i] = Durable(f)[i]
      OBVIOUS
    <3>3. Durable(g)[i] = Complete(g)[i] /\ Durable(f)[i] = Complete(f)[i] /\ i <= Len(Complete(g))
      BY <1>7, <2>1, <3>1 DEF Begins
    <3>4. Len(Complete(g)) \in Nat
      BY <1>7, LenProperties
    <3>5. Complete(g)[i] = Complete(f)[i]
      BY <1>9, <3>3, <3>4, <3>1 DEF Begins
    <3>6. QED
      BY <3>3, <3>5
  <2>3. QED
    BY <1>7, <1>10, <2>1, <2>2, SeqEqual
<1>11. e = f.end => g.rows = f.rows
  BY <1>1, <1>4, SubSeqFull
<1>12. QED
  BY <1>6, <1>8, <1>9, <1>10, <1>11

LEMMA CutRows ==
    ASSUME NEW f, Filed(f), NEW e \in 0 .. f.end, NEW g, g.rows = Cut(f, e).rows, g.end = e,
           g.safe \in 0 .. e, g = [rows |-> g.rows, end |-> g.end, safe |-> g.safe]
    PROVE  /\ Filed(g)
           /\ Begins(g.rows, f.rows) /\ Begins(Complete(g), Complete(f))
           /\ g.safe = f.safe => Durable(g) = Durable(f)
           /\ e = f.end => g.rows = f.rows
BY HeldCut DEF Filed

\* A file that is not torn, and one row more.
LEMMA WithRows ==
    ASSUME NEW f, Filed(f), ~Torn(f), NEW row \in ChainRow, NEW g, g = With(f, row)
    PROVE  /\ Filed(g) /\ g = [rows |-> g.rows, end |-> g.end, safe |-> f.safe]
           /\ g.rows = Append(f.rows, row) /\ g.end = 3 * (Len(f.rows) + 1) /\ g.end > f.end
           /\ Complete(g) = g.rows /\ Complete(f) = f.rows
           /\ Begins(f.rows, g.rows) /\ Len(g.rows) = Len(f.rows) + 1
<1>1. /\ f.rows \in Seq(ChainRow) /\ f.end \in Nat /\ f.safe \in Nat /\ f.safe <= f.end
      /\ Len(f.rows) = (f.end + 2) \div 3 /\ Len(f.rows) \in Nat /\ Complete(f) = f.rows
  BY CompleteRows, LenProperties DEF Filed, Holds, File
<1>2. g = [rows |-> Append(f.rows, row), end |-> 3 * (Len(f.rows) + 1), safe |-> f.safe]
  BY <1>1 DEF With
<1>3. /\ Append(f.rows, row) \in Seq(ChainRow) /\ Len(Append(f.rows, row)) = Len(f.rows) + 1
      /\ \A i \in 1 .. Len(f.rows) : Append(f.rows, row)[i] = f.rows[i]
  BY <1>1, AppendProperties
<1>4. 3 * (Len(f.rows) + 1) > f.end
  <2> DEFINE n == f.end
             m == Len(f.rows)
  <2>1. n \in Nat /\ m = (n + 2) \div 3
    BY <1>1
  <2> HIDE DEF n, m
  <2>2. 3 * (m + 1) > n
    BY <2>1
  <2>3. QED
    BY <2>2 DEF n, m
<1>5. (3 * (Len(f.rows) + 1) + 2) \div 3 = Len(f.rows) + 1 /\ (3 * (Len(f.rows) + 1)) % 3 # 1
  <2> DEFINE m == Len(f.rows)
  <2>1. m \in Nat
    BY <1>1
  <2> HIDE DEF m
  <2>2. (3 * (m + 1) + 2) \div 3 = m + 1 /\ (3 * (m + 1)) % 3 # 1
    BY <2>1
  <2>3. QED
    BY <2>2 DEF m
<1>6. Filed(g) /\ g.rows = Append(f.rows, row) /\ g.end = 3 * (Len(f.rows) + 1) /\ g.safe = f.safe
  <2> DEFINE rows == Append(f.rows, row)
             end == 3 * (Len(f.rows) + 1)
             safe == f.safe
  <2>1. /\ g = [rows |-> rows, end |-> end, safe |-> safe]
        /\ rows \in Seq(ChainRow) /\ end \in Nat /\ safe \in Nat /\ safe <= end
        /\ Len(rows) = (end + 2) \div 3
    <3> DEFINE m == Len(f.rows)
    <3>1. m \in Nat /\ end = 3 * (m + 1) /\ Len(rows) = m + 1 /\ (3 * (m + 1) + 2) \div 3 = m + 1
      BY <1>1, <1>3, <1>5
    <3>2. g = [rows |-> rows, end |-> end, safe |-> safe]
      BY <1>2
    <3>3. rows \in Seq(ChainRow) /\ safe \in Nat
      BY <1>1, <1>3
    <3>4. safe <= end
      <4> DEFINE n == f.end
      <4>1. n \in Nat /\ safe <= n /\ n < end
        BY <1>1, <1>4
      <4>2. end \in Nat
        BY <3>1
      <4> HIDE DEF n, end, safe
      <4>3. QED
        BY <3>3, <4>1, <4>2
    <3> HIDE DEF m, rows, end, safe
    <3>5. QED
      BY <3>1, <3>2, <3>3, <3>4
  <2> HIDE DEF rows, end, safe
  <2>2. Filed(g) /\ g.rows = rows /\ g.end = end /\ g.safe = safe
    BY <2>1, FiledIs
  <2>3. QED
    BY <2>2 DEF rows, end, safe
<1>7. ~Torn(g)
  BY <1>5, <1>6 DEF Torn
<1>8. Complete(g) = g.rows
  BY <1>6, <1>7, CompleteRows
<1>9. Begins(f.rows, g.rows)
  BY <1>1, <1>3, <1>6 DEF Begins
<1>10. g = [rows |-> g.rows, end |-> g.end, safe |-> f.safe]
  BY <1>2, <1>6
<1>11. QED
  BY <1>1, <1>3, <1>4, <1>6, <1>8, <1>9, <1>10

\* What a process leaves that dies while it appends.
LEMMA PartialRows ==
    ASSUME NEW f, Filed(f), ~Torn(f), NEW row \in ChainRow, NEW g \in Partial(f, With(f, row))
    PROVE  /\ Filed(g) /\ g.safe = f.safe /\ g.end >= f.end /\ Durable(g) = Durable(f)
           /\ g.rows \in {f.rows, Append(f.rows, row)}
           /\ Complete(g) \in {f.rows, Append(f.rows, row)}
           /\ g.rows = f.rows => Complete(g) = f.rows
           /\ Torn(g) => Complete(g) = f.rows
<1> DEFINE h == With(f, row)
<1>1. /\ f.rows \in Seq(ChainRow) /\ f.end \in Nat /\ f.safe \in Nat /\ f.safe <= f.end
      /\ Len(f.rows) = (f.end + 2) \div 3 /\ Len(f.rows) \in Nat /\ Complete(f) = f.rows
  BY CompleteRows, LenProperties DEF Filed, Holds, File
<1>2. /\ Filed(h) /\ h.safe = f.safe /\ h.end = 3 * (Len(f.rows) + 1)
      /\ h.rows = Append(f.rows, row) /\ h.end > f.end
      /\ Len(h.rows) = Len(f.rows) + 1 /\ Complete(h) = h.rows
      /\ Begins(f.rows, h.rows)
  BY WithRows
<1>3. PICK e \in f.end .. h.end : g = Cut(h, e)
  BY DEF Partial
<1> HIDE DEF h
<1>4. h.end \in Nat /\ e \in 0 .. h.end /\ f.safe <= e /\ h.rows \in Seq(ChainRow)
  <2>1. h.end \in Nat /\ h.rows \in Seq(ChainRow)
    BY <1>2 DEF Filed, Holds, File, FileOf
  <2>2. e \in 0 .. h.end /\ f.safe <= e
    <3> DEFINE n == f.end
               d == f.safe
               m == h.end
    <3>1. n \in Nat /\ d \in Nat /\ d <= n /\ m \in Nat /\ e \in n .. m
      BY <1>1, <1>3, <2>1
    <3> HIDE DEF n, d, m
    <3>2. e \in 0 .. m /\ d <= e
      BY <3>1
    <3>3. QED
      BY <3>2 DEF n, d, m
  <2>3. QED
    BY <2>1, <2>2
<1>5. Cut(h, e) = [rows |-> Cut(h, e).rows, end |-> e, safe |-> f.safe]
  <2>1. (IF h.safe < e THEN h.safe ELSE e) = f.safe
    <3> DEFINE d == f.safe
    <3>1. d \in Nat /\ e \in Nat /\ d <= e /\ h.safe = d
      BY <1>1, <1>2, <1>4
    <3> HIDE DEF d
    <3>2. QED
      BY <3>1 DEF d
  <2>2. QED
    BY <2>1 DEF Cut
<1>6. /\ g.end = e /\ g.safe = f.safe /\ g.rows = Cut(h, e).rows
      /\ g = [rows |-> g.rows, end |-> g.end, safe |-> g.safe] /\ g.safe = h.safe /\ g.safe \in 0 .. e
  <2>1. /\ g.end = e /\ g.safe = f.safe /\ g.rows = Cut(h, e).rows
    BY <1>3, <1>5
  <2>2. g = [rows |-> g.rows, end |-> g.end, safe |-> g.safe]
    BY <1>3, <1>5, <2>1
  <2>3. f.safe \in 0 .. e
    BY <1>1, <1>4
  <2>4. QED
    BY <1>2, <2>1, <2>2, <2>3
<1>7. /\ Filed(g) /\ Begins(g.rows, h.rows) /\ Durable(g) = Durable(h)
  BY <1>2, <1>4, <1>6, CutRows
<1>8. /\ g.rows \in Seq(ChainRow) /\ Len(g.rows) = (e + 2) \div 3
      /\ Complete(g) \in Seq(ChainRow) /\ Len(Complete(g)) = (e + 1) \div 3
      /\ Begins(Complete(g), g.rows)
      /\ Torn(g) => Len(Complete(g)) = Len(g.rows) - 1
  BY <1>6, <1>7, CompleteRows DEF Filed, Holds, File
<1>9. /\ (e + 2) \div 3 \in Len(f.rows) .. Len(f.rows) + 1
      /\ (e + 1) \div 3 \in Len(f.rows) .. Len(f.rows) + 1
  <2> DEFINE n == f.end
             m == Len(f.rows)
  <2>1. n \in Nat /\ m = (n + 2) \div 3 /\ n % 3 # 1 /\ e \in n .. 3 * (m + 1)
    BY <1>1, <1>2, <1>3 DEF Torn
  <2> HIDE DEF n, m
  <2>2. (e + 2) \div 3 \in m .. m + 1 /\ (e + 1) \div 3 \in m .. m + 1
    BY <2>1
  <2>3. QED
    BY <2>2 DEF n, m
<1>10. \A s \in Seq(ChainRow) : Begins(s, h.rows) /\ Len(s) \in Len(f.rows) .. Len(f.rows) + 1
          => s \in {f.rows, h.rows}
  <2>1. SUFFICES ASSUME NEW s \in Seq(ChainRow), Begins(s, h.rows),
                        Len(s) \in Len(f.rows) .. Len(f.rows) + 1
                 PROVE  s \in {f.rows, h.rows}
    OBVIOUS
  <2>2. CASE Len(s) = Len(h.rows)
    BY <1>4, <2>1, <2>2, SeqEqual DEF Begins
  <2>3. CASE Len(s) = Len(f.rows)
    <3>1. \A i \in 1 .. Len(s) : s[i] = f.rows[i]
      BY <1>2, <2>1, <2>3 DEF Begins
    <3>2. QED
      BY <1>1, <2>1, <2>3, <3>1, SeqEqual
  <2>4. QED
    BY <1>1, <1>2, <2>1, <2>2, <2>3
<1>11. g.rows \in {f.rows, h.rows} /\ Complete(g) \in {f.rows, h.rows}
  <2>1. Begins(Complete(g), h.rows)
    BY <1>4, <1>7, <1>8, BeginsOrder
  <2>2. QED
    BY <1>7, <1>8, <1>9, <1>10, <2>1
<1>12. Durable(h) = Durable(f)
  <2>1. /\ Durable(f) \in Seq(ChainRow) /\ Durable(h) \in Seq(ChainRow)
        /\ Len(Durable(f)) = (f.safe + 1) \div 3 /\ Len(Durable(h)) = (f.safe + 1) \div 3
        /\ Begins(Durable(f), f.rows) /\ Begins(Durable(h), h.rows)
    BY <1>1, <1>2, CompleteRows
  <2>2. Len(Durable(f)) <= Len(f.rows) /\ Len(Durable(f)) \in Nat
    BY <2>1, LenProperties DEF Begins
  <2>3. \A i \in 1 .. Len(Durable(f)) : Durable(f)[i] = Durable(h)[i]
    BY <1>1, <1>2, <2>1, <2>2 DEF Begins
  <2>4. QED
    BY <2>1, <2>3, SeqEqual
<1>13. g.end >= f.end
  BY <1>1, <1>3, <1>6
<1>14. g.rows = f.rows => Complete(g) = f.rows
  BY <1>1, <1>2, <1>8, <1>11 DEF Begins
<1>15. Torn(g) => Complete(g) = f.rows
  BY <1>1, <1>2, <1>8, <1>11
<1>16. QED
  BY <1>2, <1>6, <1>7, <1>11, <1>12, <1>13, <1>14, <1>15

LEMMA SyncedRows ==
    ASSUME NEW f, Filed(f)
    PROVE  /\ Filed(Synced(f)) /\ Synced(f).rows = f.rows /\ Synced(f).end = f.end
           /\ Synced(f).safe = f.end
           /\ Complete(Synced(f)) = Complete(f) /\ Durable(Synced(f)) = Complete(f)
           /\ f.safe = f.end => Synced(f) = f
<1>1. f \in File /\ f = [rows |-> f.rows, end |-> f.end, safe |-> f.safe]
  BY DEF Filed, Holds, File, FileOf
<1>2. Synced(f) = [rows |-> f.rows, end |-> f.end, safe |-> f.end]
  BY <1>1 DEF Synced
<1>3. /\ Synced(f).rows = f.rows /\ Synced(f).end = f.end /\ Synced(f).safe = f.end
      /\ f.safe = f.end => Synced(f) = f
  BY <1>1, <1>2
<1>4. Filed(Synced(f))
  BY <1>1, <1>2, <1>3 DEF Filed, Holds, File, FileOf
<1>5. QED
  BY <1>3, <1>4 DEF Complete, Durable

\* What power leaves of a file.
LEMMA SurvivorRows ==
    ASSUME NEW f, Filed(f), NEW g \in Survivors(f), g # Missing
    PROVE  /\ Filed(g) /\ g.end \in f.safe .. f.end /\ g.safe = g.end
           /\ Begins(g.rows, f.rows) /\ Begins(Complete(g), Complete(f))
           /\ Durable(g) = Complete(g) /\ Begins(Durable(f), Complete(g))
           /\ f.safe = f.end => g = f
<1>0. f # Missing
  BY LedgerAssumption DEF Filed, Holds, File
<1>1. PICK e \in f.safe .. f.end : g = [Cut(f, e) EXCEPT !.safe = e]
  BY <1>0 DEF Survivors
<1>2. /\ f.rows \in Seq(ChainRow) /\ f.end \in Nat /\ f.safe \in Nat /\ f.safe <= f.end
      /\ f = [rows |-> f.rows, end |-> f.end, safe |-> f.safe]
  BY CompleteRows DEF Filed, Holds, File, FileOf
<1>3. /\ g = [rows |-> SubSeq(f.rows, 1, (e + 2) \div 3), end |-> e, safe |-> e]
      /\ Cut(f, e).rows = SubSeq(f.rows, 1, (e + 2) \div 3)
  BY <1>1 DEF Cut
<1>4. /\ g.rows = Cut(f, e).rows /\ g.end = e /\ g.safe = e /\ e \in 0 .. f.end
      /\ g = [rows |-> g.rows, end |-> g.end, safe |-> g.safe] /\ g.safe \in 0 .. e
  <2>1. e \in 0 .. f.end
    <3> DEFINE n == f.end
               d == f.safe
    <3>1. n \in Nat /\ d \in Nat /\ d <= n /\ e \in d .. n
      BY <1>1, <1>2
    <3> HIDE DEF n, d
    <3>2. e \in 0 .. n
      BY <3>1
    <3>3. QED
      BY <3>2 DEF n
  <2>2. g.rows = Cut(f, e).rows /\ g.end = e /\ g.safe = e
    BY <1>3
  <2>3. g = [rows |-> g.rows, end |-> g.end, safe |-> g.safe]
    BY <1>3, <2>2
  <2>4. QED
    BY <1>2, <2>1, <2>2, <2>3
<1>5. Filed(g) /\ Begins(g.rows, f.rows) /\ Begins(Complete(g), Complete(f))
      /\ (e = f.end => g.rows = f.rows)
  BY <1>4, CutRows
<1>6. /\ Complete(g) \in Seq(ChainRow) /\ Len(Complete(g)) = (e + 1) \div 3
      /\ Durable(g) = Complete(g)
      /\ Durable(f) \in Seq(ChainRow) /\ Len(Durable(f)) = (f.safe + 1) \div 3
      /\ Begins(Durable(f), Complete(f)) /\ Complete(f) \in Seq(ChainRow)
  BY <1>4, <1>5, CompleteRows
<1>7. (f.safe + 1) \div 3 <= (e + 1) \div 3 /\ (f.safe + 1) \div 3 \in Nat /\ (e + 1) \div 3 \in Nat
  <2> DEFINE d == f.safe
  <2>1. d \in Nat /\ e \in Nat /\ d <= e
    BY <1>1, <1>2
  <2> HIDE DEF d
  <2>2. (d + 1) \div 3 <= (e + 1) \div 3 /\ (d + 1) \div 3 \in Nat /\ (e + 1) \div 3 \in Nat
    BY <2>1
  <2>3. QED
    BY <2>2 DEF d
<1>8. Begins(Durable(f), Complete(g))
  BY <1>5, <1>6, <1>7 DEF Begins
<1>9. f.safe = f.end => g = f
  BY <1>1, <1>2, <1>4, <1>5
<1>10. QED
  BY <1>1, <1>4, <1>5, <1>6, <1>8, <1>9

LEMMA SingleRow ==
    ASSUME NEW row \in ChainRow
    PROVE  /\ Filed(Single(row)) /\ Filed(Empty) /\ ~Torn(Empty) /\ Empty.rows = <<>>
           /\ Empty.safe = 0 /\ Empty.end = 0
           /\ Single(row).rows = <<row>> /\ Single(row).end = 3 /\ Single(row).safe = 3
           /\ Complete(Single(row)) = <<row>> /\ Synced(Single(row)) = Single(row)
<1>1. Single(row) = [rows |-> <<row>>, end |-> 3, safe |-> 3]
  BY DEF Single
<1>0. <<row>> \in Seq(ChainRow) /\ Len(<<row>>) = 1 /\ (3 + 2) \div 3 = 1
  BY OneRow
<1>2. Filed(Single(row)) /\ Single(row).rows = <<row>> /\ Single(row).end = 3 /\ Single(row).safe = 3
  <2> DEFINE rows == <<row>>
             end == 3
             safe == 3
  <2>1. /\ rows \in Seq(ChainRow) /\ Len(rows) = (end + 2) \div 3 /\ Single(row) = [rows |-> rows, end |-> end, safe |-> safe]
        /\ end \in Nat /\ safe \in Nat /\ safe <= end
    BY <1>0, <1>1
  <2> HIDE DEF rows, end, safe
  <2>2. Filed(Single(row)) /\ Single(row).rows = rows /\ Single(row).end = end /\ Single(row).safe = safe
    BY <2>1, FiledIs
  <2>3. QED
    BY <2>2 DEF rows, end, safe
<1>3. Filed(Empty)
  <2> DEFINE rows == <<>>
  <2> DEFINE end == 0
  <2>1. /\ rows \in Seq(ChainRow) /\ Len(rows) = (end + 2) \div 3 /\ Empty = [rows |-> rows, end |-> end, safe |-> end]
        /\ end \in Nat /\ end <= end
    BY DEF Empty
  <2> HIDE DEF rows, end
  <2>2. QED
    BY <2>1, FiledIs
<1>4. ~Torn(Single(row)) /\ ~Torn(Empty)
  BY <1>2 DEF Torn, Empty
<1>5. Complete(Single(row)) = <<row>>
  BY <1>2, <1>4, CompleteRows
<1>6. Synced(Single(row)) = Single(row)
  BY <1>1 DEF Synced
<1>7. QED
  BY <1>2, <1>3, <1>4, <1>5, <1>6 DEF Empty

LEMMA PublishingRow ==
    ASSUME NEW row \in ChainRow, NEW g \in Publishing(row)
    PROVE  Filed(g) /\ g.rows \in {<<>>, <<row>>} /\ g.safe = 0
<1> DEFINE h == [Single(row) EXCEPT !.safe = 0]
<1>1. h = [rows |-> <<row>>, end |-> 3, safe |-> 0]
  BY DEF Single
<1> HIDE DEF h
<1>2. Filed(h) /\ h.rows = <<row>> /\ h.end = 3 /\ h.safe = 0
  <2> DEFINE rows == <<row>>
             end == 3
             safe == 0
  <2>1. /\ rows \in Seq(ChainRow) /\ Len(rows) = (end + 2) \div 3 /\ h = [rows |-> rows, end |-> end, safe |-> safe]
        /\ end \in Nat /\ safe \in Nat /\ safe <= end
    BY <1>1, OneRow
  <2> HIDE DEF rows, end, safe
  <2>2. Filed(h) /\ h.rows = rows /\ h.end = end /\ h.safe = safe
    BY <2>1, FiledIs
  <2>3. QED
    BY <2>2 DEF rows, end, safe
<1>3. PICK e \in 0 .. 3 : g = Cut(h, e)
  <2>1. PICK e \in Empty.end .. h.end : g = Cut(h, e)
    BY DEF Publishing, Partial, h
  <2>2. QED
    BY <1>2, <2>1 DEF Empty
<1>4. /\ g = [rows |-> g.rows, end |-> g.end, safe |-> g.safe] /\ g.end = e /\ g.safe = 0
      /\ g.rows = Cut(h, e).rows /\ g.rows = SubSeq(<<row>>, 1, (e + 2) \div 3)
  BY <1>2, <1>3 DEF Cut
<1>5. Filed(g)
  <2>1. e \in 0 .. h.end /\ g.safe \in 0 .. e
    BY <1>2, <1>3, <1>4
  <2>2. QED
    BY <1>2, <1>4, <2>1, CutRows
<1>6. (e + 2) \div 3 \in {0, 1}
  BY <1>3
<1>7. SubSeq(<<row>>, 1, 0) = <<>> /\ SubSeq(<<row>>, 1, 1) = <<row>>
  <2> DEFINE rows == <<row>>
  <2>1. rows \in Seq(ChainRow) /\ Len(rows) = 1
    BY OneRow
  <2> HIDE DEF rows
  <2>2. SubSeq(rows, 1, 0) = <<>> /\ SubSeq(rows, 1, 1) = rows
    BY <2>1, FirstRows, SubSeqFull, EmptySeq
  <2>3. QED
    BY <2>2 DEF rows
<1>8. QED
  BY <1>4, <1>5, <1>6, <1>7

-----------------------------------------------------------------------------
(* A chain: what comes before the active file, and that file. *)

LEMMA JoinRows ==
    ASSUME NEW S, NEW b \in Seq(S), NEW s \in Seq(S), NEW t \in Seq(S)
    PROVE  /\ b \o s \in Seq(S) /\ Len(b \o s) = Len(b) + Len(s)
           /\ \A i \in 1 .. Len(b \o s) : (b \o s)[i] = IF i <= Len(b) THEN b[i] ELSE s[i - Len(b)]
           /\ Begins(s, t) => Begins(b \o s, b \o t)
           /\ Begins(b, b \o s)
           /\ <<>> \o s = s /\ s \o <<>> = s
<1>1. /\ b \o s \in Seq(S) /\ Len(b \o s) = Len(b) + Len(s)
      /\ \A i \in 1 .. Len(b \o s) : (b \o s)[i] = IF i <= Len(b) THEN b[i] ELSE s[i - Len(b)]
      /\ b \o t \in Seq(S) /\ Len(b \o t) = Len(b) + Len(t)
      /\ \A i \in 1 .. Len(b \o t) : (b \o t)[i] = IF i <= Len(b) THEN b[i] ELSE t[i - Len(b)]
  BY ConcatProperties
<1>2. Len(b) \in Nat /\ Len(s) \in Nat /\ Len(t) \in Nat
  BY LenProperties
<1>3. Begins(s, t) => Begins(b \o s, b \o t)
  BY <1>1, <1>2 DEF Begins
<1>4. Begins(b, b \o s)
  BY <1>1, <1>2 DEF Begins
<1>6. <<>> \o s = s /\ s \o <<>> = s
  BY ConcatEmptySeq
<1>7. QED
  BY <1>1, <1>3, <1>4, <1>6

LEMMA AppendRows ==
    ASSUME NEW S, NEW s \in Seq(S), NEW row \in S
    PROVE  /\ Append(s, row) \in Seq(S) /\ Len(Append(s, row)) = Len(s) + 1 /\ Len(s) \in Nat
           /\ \A i \in 1 .. Len(s) : Append(s, row)[i] = s[i]
           /\ Append(s, row)[Len(s) + 1] = row
           /\ Begins(s, Append(s, row))
           /\ Append(s, row) # <<>> /\ Last(Append(s, row)) = row
<1>1. /\ Append(s, row) \in Seq(S) /\ Len(Append(s, row)) = Len(s) + 1 /\ Len(s) \in Nat
      /\ \A i \in 1 .. Len(s) : Append(s, row)[i] = s[i]
      /\ Append(s, row)[Len(s) + 1] = row
  BY AppendProperties, LenProperties
<1>2. QED
  BY <1>1, EmptySeq DEF Begins, Last

\* What comes before the active file, whole and durable.
Earlier == IF manifest = Missing THEN <<>> ELSE Complete(ledger)
EarlierDurable == IF manifest = Missing THEN <<>> ELSE Durable(ledger)

\* The file that the next row is written to.
Target == IF ledger = Missing THEN Empty ELSE Active

Shape ==
    /\ ledger # Missing => Filed(ledger)
    /\ continuation # Missing => Filed(continuation) /\ ledger # Missing
    /\ manifest # Missing => continuation # Missing

LEMMA Shaped == ASSUME LedgerInv PROVE Shape
BY DEF LedgerInv, LedgerTypeOK, Formed, Shape, Recovering, Pins, Damaged

LEMMA Chains ==
    ASSUME Shape
    PROVE  /\ Records \in Seq(ChainRow) /\ DurableRecords \in Seq(ChainRow)
           /\ Earlier \in Seq(ChainRow) /\ EarlierDurable \in Seq(ChainRow)
           /\ Records = Earlier \o (IF Active = Missing THEN <<>> ELSE Complete(Active))
           /\ DurableRecords = EarlierDurable \o (IF Active = Missing THEN <<>> ELSE Durable(Active))
           /\ Active # Missing => Filed(Active)
           /\ (continuation # Missing => ledger.safe = ledger.end)
                => EarlierDurable = Earlier /\ Begins(DurableRecords, Records)
<1>1. <<>> \in Seq(ChainRow) /\ Begins(<<>>, <<>>)
  BY EmptySeq, BeginsOrder
<1>2. \A f : Filed(f) => /\ Complete(f) \in Seq(ChainRow) /\ Durable(f) \in Seq(ChainRow)
                         /\ Begins(Durable(f), Complete(f))
                         /\ f.safe = f.end => Durable(f) = Complete(f)
  BY CompleteRows
<1>3. Earlier \in Seq(ChainRow) /\ EarlierDurable \in Seq(ChainRow)
  BY <1>1, <1>2 DEF Shape, Earlier, EarlierDurable
<1>4. Active # Missing => Filed(Active)
  BY DEF Shape, Active
<1> DEFINE a == IF Active = Missing THEN <<>> ELSE Complete(Active)
           d == IF Active = Missing THEN <<>> ELSE Durable(Active)
<1>5. a \in Seq(ChainRow) /\ d \in Seq(ChainRow) /\ Begins(d, a)
  BY <1>1, <1>2, <1>4
<1>6. Records = Earlier \o a
  <2>1. CASE manifest = Missing
    BY <2>1, <1>1, <1>2, <1>5, JoinRows DEF Records, Earlier, Active, Shape
  <2>2. CASE manifest # Missing
    BY <2>2, <1>2 DEF Records, Earlier, Active, Shape
  <2>3. QED
    BY <2>1, <2>2
<1>7. DurableRecords = EarlierDurable \o d
  <2>1. CASE manifest = Missing
    BY <2>1, <1>1, <1>2, <1>5, JoinRows DEF DurableRecords, EarlierDurable, Active, Shape
  <2>2. CASE manifest # Missing
    BY <2>2, <1>2 DEF DurableRecords, EarlierDurable, Active, Shape
  <2>3. QED
    BY <2>1, <2>2
<1>8. (continuation # Missing => ledger.safe = ledger.end) => EarlierDurable = Earlier
  BY <1>2 DEF Shape, Earlier, EarlierDurable
<1> HIDE DEF a, d
<1>9. Earlier \o a \in Seq(ChainRow) /\ EarlierDurable \o d \in Seq(ChainRow)
      /\ Begins(Earlier \o d, Earlier \o a)
  BY <1>3, <1>5, JoinRows, ConcatProperties
<1>10. QED
  BY <1>3, <1>4, <1>6, <1>7, <1>8, <1>9 DEF a, d

\* What can be appended to: the ledger while nothing is recovered, or the
\* continuation of the one recovery.
LEMMA Appendable ==
    ASSUME LedgerInv, Openable
    PROVE  /\ Filed(Target) /\ ~Torn(Target)
           /\ Records = Earlier \o Target.rows
           /\ DurableRecords = EarlierDurable \o Durable(Target)
           /\ manifest = Missing => continuation = Missing
           /\ ledger # Missing => Target = Active /\ Active # Missing
           /\ manifest # Missing =>
                /\ ledger # Missing /\ continuation # Missing /\ Target = continuation
                /\ Target.rows # <<>>
<1>1. Shape
  BY Shaped
<1>2. ASSUME ledger = Missing
      PROVE  manifest = Missing /\ continuation = Missing /\ Target = Empty /\ Active = Missing
  BY <1>1, <1>2 DEF Shape, Target, Active
<1>3. ASSUME ledger # Missing
      PROVE  Valid /\ Target = Active /\ Active # Missing
  BY <1>1, <1>3 DEF Shape, Target, Active, Openable
<1>4. ASSUME manifest # Missing
      PROVE  /\ ledger # Missing /\ continuation # Missing /\ Target = continuation
             /\ Target.rows # <<>> /\ Whole(continuation)
  BY <1>1, <1>3, <1>4 DEF Shape, Active, Valid, Spliced
<1>5. ASSUME manifest = Missing
      PROVE  continuation = Missing
  BY <1>2, <1>3, <1>5 DEF Valid
<1>6. Filed(Target)
  BY <1>1, <1>2, <1>3, Chains, SingleRow DEF Target, Empty, Filed, Holds, FileOf
<1>7. ~Torn(Target)
  <2>1. CASE ledger = Missing
    BY <1>2, <2>1 DEF Empty, Torn
  <2>2. CASE ledger # Missing /\ manifest = Missing
    BY <1>3, <2>2 DEF Valid, Active
  <2>3. CASE manifest # Missing
    BY <1>4, <2>3 DEF Whole, Torn
  <2>4. QED
    BY <2>1, <2>2, <2>3
<1>8. Complete(Target) = Target.rows
  BY <1>6, <1>7, CompleteRows
<1>9. Records = Earlier \o Target.rows /\ DurableRecords = EarlierDurable \o Durable(Target)
  <2>1. CASE ledger = Missing
    <3>1. Target.rows = <<>> /\ Durable(Target) = <<>>
      BY <1>2, <2>1 DEF Empty, Durable
    <3>2. QED
      BY <1>1, <1>2, <2>1, <3>1, Chains
  <2>2. CASE ledger # Missing
    BY <1>1, <1>3, <1>8, <2>2, Chains
  <2>3. QED
    BY <2>1, <2>2
<1>10. QED
  BY <1>3, <1>4, <1>5, <1>6, <1>7, <1>9

-----------------------------------------------------------------------------
(* A row that is written. *)

\* The chain itself, whatever is written.
LEMMA PutChain ==
    ASSUME LedgerInv, Openable, NEW row \in Evidence, NEW g, Filed(g),
           g.rows \in {Target.rows, Append(Target.rows, row)},
           Complete(g) \in {Target.rows, Append(Target.rows, row)},
           Begins(Durable(Target), Durable(g)),
           Put(g), manifest' = manifest
    PROVE  /\ Records' \in Seq(ChainRow) /\ DurableRecords' \in Seq(ChainRow)
           /\ Records' = Earlier \o Complete(g) /\ DurableRecords' = EarlierDurable \o Durable(g)
           /\ Records' \in {Records, Append(Records, row)}
           /\ Begins(Records, Records') /\ Begins(DurableRecords, DurableRecords')
           /\ Complete(g) = Target.rows => Records' = Records
           /\ Complete(g) = Append(Target.rows, row) => Records' = Append(Records, row)
<1>1. /\ Filed(Target) /\ Records = Earlier \o Target.rows
      /\ DurableRecords = EarlierDurable \o Durable(Target)
      /\ manifest = Missing => continuation = Missing
      /\ manifest # Missing => ledger # Missing /\ continuation # Missing
  BY Appendable
<1>2. row \in ChainRow /\ g # Missing
  BY LedgerAssumption DEF ChainRow, Filed, Holds, File
<1>3. /\ Complete(g) \in Seq(ChainRow) /\ Durable(g) \in Seq(ChainRow)
      /\ Target.rows \in Seq(ChainRow) /\ Durable(Target) \in Seq(ChainRow)
  BY <1>1, CompleteRows
<1>4. Earlier \in Seq(ChainRow) /\ EarlierDurable \in Seq(ChainRow)
  BY Shaped, Chains
<1>5. Records' = Earlier \o Complete(g) /\ DurableRecords' = EarlierDurable \o Durable(g)
  <2>1. CASE manifest = Missing
    <3>1. ledger' = g /\ continuation' = Missing /\ manifest' = Missing
      BY <1>1, <2>1 DEF Put
    <3>2. Records' = Complete(g) \o <<>> /\ DurableRecords' = Durable(g) \o <<>>
      BY <1>2, <3>1 DEF Records, DurableRecords
    <3>3. Earlier = <<>> /\ EarlierDurable = <<>>
      BY <2>1 DEF Earlier, EarlierDurable
    <3>4. QED
      BY <1>3, <3>2, <3>3, ConcatEmptySeq
  <2>2. CASE manifest # Missing
    <3>1. ledger' = ledger /\ continuation' = g /\ manifest' = manifest
      BY <2>2 DEF Put
    <3>2. QED
      BY <1>1, <1>2, <2>2, <3>1 DEF Records, DurableRecords, Earlier, EarlierDurable
  <2>3. QED
    BY <2>1, <2>2
<1>6. Append(Records, row) = Earlier \o Append(Target.rows, row)
  <2> DEFINE b == Earlier
             s == Target.rows
  <2>1. b \in Seq(ChainRow) /\ s \in Seq(ChainRow) /\ row \in ChainRow
    BY <1>2, <1>3, <1>4
  <2> HIDE DEF b, s
  <2>2. Append(b \o s, row) = b \o Append(s, row)
    <3>1. <<row>> \in Seq(ChainRow) /\ b \o s \in Seq(ChainRow)
      BY <2>1, OneRow, ConcatProperties
    <3>2. Append(s, row) = s \o <<row>> /\ Append(b \o s, row) = (b \o s) \o <<row>>
      BY <2>1, <3>1, AppendIsConcat
    <3>3. QED
      BY <2>1, <3>1, <3>2, ConcatAssociative
  <2>3. QED
    BY <1>1, <2>2 DEF b, s
<1>7. /\ Complete(g) = Target.rows => Records' = Records
      /\ Complete(g) = Append(Target.rows, row) => Records' = Append(Records, row)
  BY <1>1, <1>5, <1>6
<1>8. Records \in Seq(ChainRow) /\ Records' \in Seq(ChainRow) /\ DurableRecords' \in Seq(ChainRow)
  BY <1>1, <1>3, <1>4, <1>5, ConcatProperties
<1>9. Begins(Records, Records')
  <2>1. Begins(Records, Records) /\ Begins(Records, Append(Records, row))
    <3> DEFINE s == Records
    <3>1. s \in Seq(ChainRow)
      BY <1>8
    <3> HIDE DEF s
    <3>2. Begins(s, s) /\ Begins(s, Append(s, row))
      BY <1>2, <3>1, BeginsOrder, AppendRows
    <3>3. QED
      BY <3>2 DEF s
  <2>2. QED
    BY <1>7, <2>1
<1>10. Begins(DurableRecords, DurableRecords')
  <2> DEFINE b == EarlierDurable
             s == Durable(Target)
             t == Durable(g)
  <2>1. b \in Seq(ChainRow) /\ s \in Seq(ChainRow) /\ t \in Seq(ChainRow) /\ Begins(s, t)
    BY <1>3, <1>4
  <2> HIDE DEF b, s, t
  <2>2. Begins(b \o s, b \o t)
    BY <2>1, JoinRows
  <2>3. QED
    BY <1>1, <1>5, <2>2 DEF b, s, t
<1>11. QED
  BY <1>5, <1>7, <1>8, <1>9, <1>10

\* Whether a chain may still grow, nothing is bundled and nothing sealed.
LEMMA Unsealed ==
    ASSUME LedgerInv, ~Sealed(Records)
    PROVE  bundle = Missing /\ \A chain \in answered : ~Sealed(chain)
BY DEF LedgerInv, AnsweredKept, SealFinal, Bundled

\* What the invariant says of the chain and of the file that is written.
LEMMA PutStep ==
    ASSUME LedgerInv, Openable, ~Sealed(Records), NEW row \in Evidence, NEW g, Filed(g),
           g.rows \in {Target.rows, Append(Target.rows, row)},
           Complete(g) \in {Target.rows, Append(Target.rows, row)},
           Begins(Durable(Target), Durable(g)), g.end >= Target.end, g.safe >= Target.safe,
           Put(g), UNCHANGED <<stage, manifest, requests, bundle, relied>>
    PROVE  /\ Formed(ledger)' /\ (ledger' # Missing => ledger'.rows \in Seq(Evidence))
           /\ Formed(continuation)' /\ Formed(stage)' /\ Formed(manifest)'
           /\ SealLast' /\ Recovering'
           /\ ~relied' => /\ continuation' # Missing => ledger'.safe = ledger'.end
                          /\ manifest' # Missing =>
                               manifest'.safe = manifest'.end /\ continuation'.safe >= 3
<1>1. /\ Filed(Target) /\ Records = Earlier \o Target.rows
      /\ manifest = Missing => continuation = Missing
      /\ manifest # Missing => /\ ledger # Missing /\ continuation # Missing
                               /\ Target = continuation /\ Target.rows # <<>>
      /\ ledger # Missing => Target = Active
  BY Appendable
<1>2. row \in ChainRow /\ g # Missing
  BY LedgerAssumption DEF ChainRow, Filed, Holds, File
<1>3. LedgerTypeOK /\ SealLast /\ Recovering /\ ReliedDurable
  BY DEF LedgerInv
<1>4. ASSUME manifest = Missing
      PROVE  /\ ledger' = g /\ continuation' = Missing /\ manifest' = Missing
             /\ ledger'.rows \in Seq(Evidence) /\ SealLast'
  <2>1. ledger' = g /\ continuation' = Missing /\ manifest' = Missing
    BY <1>1, <1>4 DEF Put
  <2>2. Target.rows \in Seq(Evidence)
    <3>1. CASE ledger = Missing
      BY <3>1, EmptySeq DEF Target, Empty
    <3>2. CASE ledger # Missing
      BY <1>1, <1>3, <1>4, <3>2 DEF Active, LedgerTypeOK
    <3>3. QED
      BY <3>1, <3>2
  <2>3. Append(Target.rows, row) \in Seq(Evidence)
    BY <2>2, AppendProperties
  <2>4. Records = Target.rows
    BY <1>1, <1>4, <2>2, ConcatEmptySeq DEF Earlier
  <2>5. \A i \in 1 .. Len(Target.rows) : Target.rows[i].kind # "seal"
    <3>1. Len(Target.rows) \in Nat /\ (Target.rows = <<>> <=> Len(Target.rows) = 0)
      BY <2>2, LenProperties, EmptySeq
    <3>2. SUFFICES ASSUME NEW i \in 1 .. Len(Target.rows) PROVE Target.rows[i].kind # "seal"
      OBVIOUS
    <3>3. ledger # Missing /\ Target = ledger
      BY <1>1, <1>4, <3>1 DEF Target, Empty, Active
    <3>4. CASE i = Len(Target.rows)
      BY <2>4, <3>1, <3>4 DEF Sealed, Last
    <3>5. CASE i # Len(Target.rows)
      BY <1>3, <3>1, <3>3, <3>5 DEF SealLast
    <3>6. QED
      BY <3>4, <3>5
  <2>6. \A i \in 1 .. Len(g.rows) - 1 : g.rows[i].kind # "seal"
    BY <2>2, <2>5, AppendProperties, LenProperties
  <2>7. QED
    BY <2>1, <2>2, <2>3, <2>6 DEF SealLast
<1>5. ASSUME manifest # Missing
      PROVE  ledger' = ledger /\ continuation' = g /\ manifest' = manifest
  BY <1>5 DEF Put
<1>6. /\ Formed(ledger)' /\ (ledger' # Missing => ledger'.rows \in Seq(Evidence))
      /\ Formed(continuation)' /\ Formed(stage)' /\ Formed(manifest)'
  BY <1>3, <1>4, <1>5 DEF LedgerTypeOK, Formed
<1>7. SealLast'
  BY <1>3, <1>4, <1>5 DEF SealLast
<1>8. Recovering'
  <2>1. CASE manifest = Missing
    BY <1>4, <2>1 DEF Recovering
  <2>2. CASE manifest # Missing
    <3>1. PICK request \in requests :
             /\ Pins(request) /\ Is(manifest, ManifestRow(request))
             /\ continuation.end >= 3 /\ continuation.rows[1] = Boundary(request)
      BY <1>1, <1>3, <2>2 DEF Recovering
    <3>2. Pins(request)' /\ Is(manifest, ManifestRow(request))'
      BY <1>5, <2>2, <3>1 DEF Pins, Damaged, RequestOf
    <3>3. g.end >= 3
      <4> DEFINE m == g.end
                 n == Target.end
      <4>1. m \in Nat /\ n \in Nat /\ m >= n /\ n >= 3
        BY <1>1, <2>2, <3>1 DEF Filed, Holds, File, FileOf
      <4> HIDE DEF m, n
      <4>2. m >= 3
        BY <4>1
      <4>3. QED
        BY <4>2 DEF m
    <3>4. g.rows[1] = Boundary(request)
      <4>1. Target.rows \in Seq(ChainRow) /\ Target.rows # <<>> /\ Target.rows[1] = Boundary(request)
        BY <1>1, <2>2, <3>1, CompleteRows
      <4>2. Len(Target.rows) \in Nat /\ Len(Target.rows) # 0
        BY <4>1, LenProperties, EmptySeq
      <4>3. 1 \in 1 .. Len(Target.rows)
        BY <4>2
      <4>4. Append(Target.rows, row)[1] = Target.rows[1]
        BY <1>2, <4>1, <4>3, AppendProperties
      <4>5. QED
        BY <4>1, <4>4
    <3>5. QED
      BY <1>2, <1>5, <2>2, <3>2, <3>3, <3>4 DEF Recovering, Boundary
  <2>3. QED
    BY <2>1, <2>2
<1>9. ASSUME ~relied'
      PROVE  /\ continuation' # Missing => ledger'.safe = ledger'.end
             /\ manifest' # Missing => manifest'.safe = manifest'.end /\ continuation'.safe >= 3
  <2>1. CASE manifest = Missing
    BY <1>4, <2>1
  <2>2. CASE manifest # Missing
    <3>1. ledger.safe = ledger.end /\ manifest.safe = manifest.end /\ continuation.safe >= 3
      BY <1>1, <1>3, <1>9, <2>2 DEF ReliedDurable
    <3>2. g.safe >= 3
      <4> DEFINE m == g.safe
                 n == Target.safe
      <4>1. m \in Nat /\ n \in Nat /\ m >= n /\ n >= 3
        BY <1>1, <2>2, <3>1 DEF Filed, Holds, File, FileOf
      <4> HIDE DEF m, n
      <4>2. m >= 3
        BY <4>1
      <4>3. QED
        BY <4>2 DEF m
    <3>3. QED
      BY <1>5, <2>2, <3>1, <3>2
  <2>3. QED
    BY <2>1, <2>2
<1>10. QED
  BY <1>6, <1>7, <1>8, <1>9

-----------------------------------------------------------------------------
(* What is answered stays in the chain. *)

LEMMA AnswersKept ==
    ASSUME LedgerInv, NEW c \in Seq(ChainRow), answered' \subseteq answered \cup {c},
           Records \in Seq(ChainRow), Records' \in Seq(ChainRow), DurableRecords \in Seq(ChainRow),
           DurableRecords' \in Seq(ChainRow),
           Begins(Records, Records'), Begins(c, Records'),
           Sealed(c) => c = Records',
           \A chain \in answered : Sealed(chain) => Records' = Records,
           ~relied' => ~relied /\ Begins(DurableRecords, DurableRecords') /\ Begins(c, DurableRecords')
    PROVE  /\ answered' \subseteq Seq(ChainRow) /\ ChainsKept' /\ SealFinal'
           /\ ~relied' => \A chain \in answered' : IsPrefix(chain, DurableRecords')
<1>1. /\ answered \subseteq Seq(ChainRow)
      /\ \A chain \in answered : /\ IsPrefix(chain, Records)
                                 /\ Sealed(chain) => Records = chain
                                 /\ ~relied => IsPrefix(chain, DurableRecords)
  BY DEF LedgerInv, LedgerTypeOK, AnsweredKept, ChainsKept, SealFinal, ReliedDurable
<1>2. answered' \subseteq Seq(ChainRow)
  BY <1>1
<1>3. ASSUME NEW chain \in answered' PROVE IsPrefix(chain, Records')
  <2>1. chain \in Seq(ChainRow)
    BY <1>2, <1>3
  <2>2. Begins(chain, Records')
    <3>1. CASE chain = c
      BY <3>1
    <3>2. CASE chain \in answered
      <4>1. Begins(chain, Records)
        BY <1>1, <2>1, <3>2, PrefixRows
      <4>2. QED
        BY <2>1, <4>1, BeginsOrder
    <3>3. QED
      BY <1>3, <3>1, <3>2
  <2>3. QED
    BY <2>1, <2>2, PrefixRows
<1>4. ASSUME NEW chain \in answered', Sealed(chain) PROVE Records' = chain
  BY <1>1, <1>4
<1>5. ASSUME ~relied', NEW chain \in answered' PROVE IsPrefix(chain, DurableRecords')
  <2>1. chain \in Seq(ChainRow)
    BY <1>2, <1>5
  <2>2. Begins(chain, DurableRecords')
    <3>1. CASE chain = c
      BY <1>5, <3>1
    <3>2. CASE chain \in answered
      <4>1. Begins(chain, DurableRecords)
        BY <1>1, <1>5, <2>1, <3>2, PrefixRows
      <4>2. QED
        BY <1>5, <2>1, <4>1, BeginsOrder
    <3>3. QED
      BY <1>5, <3>1, <3>2
  <2>3. QED
    BY <2>1, <2>2, PrefixRows
<1>6. ChainsKept'
  BY <1>3 DEF ChainsKept
<1>7. SealFinal'
  <2>1. SUFFICES ASSUME NEW chain \in answered', Sealed(chain)' PROVE Records' = chain
    BY DEF SealFinal
  <2>2. Sealed(chain)
    BY <2>1 DEF Sealed
  <2>3. QED
    BY <1>4, <2>1, <2>2
<1>8. QED
  BY <1>2, <1>5, <1>6, <1>7

LEMMA Wrote ==
    ASSUME LedgerInv, Openable, ~Sealed(Records), NEW row \in Evidence, NEW g, Filed(g),
           g.rows \in {Target.rows, Append(Target.rows, row)},
           Complete(g) \in {Target.rows, Append(Target.rows, row)},
           Begins(Durable(Target), Durable(g)), g.end >= Target.end, g.safe >= Target.safe,
           Put(g), UNCHANGED <<stage, manifest, requests, bundle, relied>>,
           NEW c \in Seq(ChainRow), answered' \subseteq answered \cup {c},
           Begins(c, Records'), Sealed(c) => c = Records',
           ~relied => Begins(c, DurableRecords'),
           report' \in [Reports -> File \cup {Missing}],
           \A r \in Reports :
               /\ Formed(report'[r])
               /\ report[r] = Single(Row("report", r)) => report'[r] = Single(Row("report", r))
               /\ g.rows # Target.rows /\ row = Row("archive", r)
                    => report'[r] = Single(Row("report", r))
    PROVE  LedgerInv'
<1>1. /\ Formed(ledger)' /\ (ledger' # Missing => ledger'.rows \in Seq(Evidence))
      /\ Formed(continuation)' /\ Formed(stage)' /\ Formed(manifest)'
      /\ SealLast' /\ Recovering'
      /\ ~relied' => /\ continuation' # Missing => ledger'.safe = ledger'.end
                     /\ manifest' # Missing =>
                          manifest'.safe = manifest'.end /\ continuation'.safe >= 3
  BY PutStep
<1>2. /\ Records' \in Seq(ChainRow) /\ DurableRecords' \in Seq(ChainRow)
      /\ Begins(Records, Records') /\ Begins(DurableRecords, DurableRecords')
  BY PutChain
<1>3. Records \in Seq(ChainRow) /\ DurableRecords \in Seq(ChainRow)
  BY Shaped, Chains
<1>4. bundle = Missing /\ \A chain \in answered : ~Sealed(chain)
  BY Unsealed
<1>5. /\ answered' \subseteq Seq(ChainRow) /\ ChainsKept' /\ SealFinal'
      /\ ~relied' => \A chain \in answered' : IsPrefix(chain, DurableRecords')
  <2>1. ~relied' => ~relied /\ Begins(DurableRecords, DurableRecords') /\ Begins(c, DurableRecords')
    BY <1>2
  <2>2. \A chain \in answered : Sealed(chain) => Records' = Records
    BY <1>4
  <2>3. QED
    BY <1>2, <1>3, <2>1, <2>2, AnswersKept
<1>6. Bundled' /\ RetainedWhole'
  BY <1>4 DEF Bundled, RetainedWhole
<1>7. LedgerTypeOK'
  <2>1. requests \subseteq Request /\ relied \in BOOLEAN
    BY DEF LedgerInv, LedgerTypeOK
  <2>2. \A r \in Reports : Formed(report[r])'
    BY DEF Formed
  <2>3. QED
    BY <1>1, <1>4, <1>5, <2>1, <2>2 DEF LedgerTypeOK
<1>8. ReliedDurable'
  BY <1>1, <1>5 DEF ReliedDurable
<1>9. Archived'
  <2>1. SUFFICES ASSUME NEW r \in Reports, NEW f \in {ledger', continuation'}, f # Missing,
                        NEW i \in DOMAIN f.rows, f.rows[i] = Row("archive", r)
                 PROVE  report'[r] = Single(Row("report", r))
    BY DEF Archived, Row, Single
  <2>2. ASSUME NEW h \in {ledger, continuation}, h # Missing,
               NEW j \in DOMAIN h.rows, h.rows[j] = Row("archive", r)
        PROVE  report'[r] = Single(Row("report", r))
    BY <2>2 DEF LedgerInv, Archived
  <2>3. f \in {g, ledger, continuation}
    BY <2>1 DEF Put
  <2>4. CASE f # g
    BY <2>1, <2>2, <2>3, <2>4
  <2>5. CASE f = g
    <3>1. Filed(Target) /\ (Target # Empty => Target \in {ledger, continuation} /\ Target # Missing)
      BY Appendable DEF Target, Active
    <3>2. Target.rows \in Seq(ChainRow) /\ row \in ChainRow
      BY <3>1, CompleteRows DEF ChainRow
    <3>3. \A j \in 1 .. Len(Target.rows) : Target.rows[j] # Row("archive", r)
                                           \/ report'[r] = Single(Row("report", r))
      <4>1. DOMAIN Target.rows = 1 .. Len(Target.rows)
        BY <3>2, LenProperties
      <4>2. CASE Target = Empty
        BY <4>2 DEF Empty
      <4>3. CASE Target # Empty
        BY <2>2, <3>1, <4>1, <4>3
      <4>4. QED
        BY <4>2, <4>3
    <3>4. CASE g.rows = Target.rows
      BY <2>1, <2>5, <3>2, <3>3, <3>4, LenProperties
    <3>5. CASE g.rows # Target.rows
      <4>1. g.rows = Append(Target.rows, row)
        BY <3>5
      <4>2. /\ Append(Target.rows, row) \in Seq(ChainRow)
            /\ Len(Append(Target.rows, row)) = Len(Target.rows) + 1 /\ Len(Target.rows) \in Nat
            /\ \A j \in 1 .. Len(Target.rows) : Append(Target.rows, row)[j] = Target.rows[j]
            /\ Append(Target.rows, row)[Len(Target.rows) + 1] = row
        BY <3>2, AppendRows
      <4>3. i \in 1 .. Len(Target.rows) + 1
        BY <2>1, <2>5, <4>1, <4>2, LenProperties
      <4>4. CASE i = Len(Target.rows) + 1
        BY <2>1, <2>5, <3>5, <4>1, <4>2, <4>4
      <4>5. CASE i \in 1 .. Len(Target.rows)
        BY <2>1, <2>5, <3>3, <4>1, <4>2, <4>5
      <4>6. QED
        BY <4>2, <4>3, <4>4, <4>5
    <3>6. QED
      BY <3>4, <3>5
  <2>6. QED
    BY <2>4, <2>5
<1>10. QED
  BY <1>1, <1>5, <1>6, <1>7, <1>8, <1>9 DEF LedgerInv, AnsweredKept

-----------------------------------------------------------------------------
(* The three ways a file is written. *)

\* Nobody has relied on more than is durable, so a synced file makes the chain durable.
LEMMA SyncedChain ==
    ASSUME LedgerInv, Openable, NEW row \in Evidence, NEW g, Filed(g),
           g.rows \in {Target.rows, Append(Target.rows, row)},
           Complete(g) \in {Target.rows, Append(Target.rows, row)},
           Begins(Durable(Target), Durable(g)),
           Put(g), manifest' = manifest, g.safe = g.end, ~relied
    PROVE  DurableRecords' = Records'
<1>1. Records' = Earlier \o Complete(g) /\ DurableRecords' = EarlierDurable \o Durable(g)
  BY PutChain
<1>2. Durable(g) = Complete(g)
  BY CompleteRows
<1>3. continuation # Missing => ledger.safe = ledger.end
  BY DEF LedgerInv, ReliedDurable
<1>4. EarlierDurable = Earlier
  BY <1>3, Shaped, Chains
<1>5. QED
  BY <1>1, <1>2, <1>4

LEMMA SyncedAppend ==
    ASSUME NEW f, Filed(f), ~Torn(f), NEW row \in ChainRow, NEW g, g = Synced(With(f, row))
    PROVE  /\ Filed(g) /\ g.rows = Append(f.rows, row) /\ Complete(g) = Append(f.rows, row)
           /\ Begins(Durable(f), Durable(g)) /\ g.end >= f.end /\ g.safe >= f.safe
           /\ g.safe = g.end
<1> DEFINE h == With(f, row)
<1>1. /\ Filed(h) /\ h.rows = Append(f.rows, row) /\ h.end > f.end /\ Complete(h) = h.rows
      /\ Complete(f) = f.rows /\ Begins(f.rows, h.rows)
  BY WithRows
<1> HIDE DEF h
<1>2. /\ Filed(g) /\ g.rows = h.rows /\ g.end = h.end /\ g.safe = h.end
      /\ Complete(g) = Complete(h) /\ Durable(g) = Complete(h)
  BY <1>1, SyncedRows DEF h
<1>3. /\ f.rows \in Seq(ChainRow) /\ h.rows \in Seq(ChainRow) /\ Durable(f) \in Seq(ChainRow)
      /\ Begins(Durable(f), f.rows)
  BY <1>1, CompleteRows
<1>4. Begins(Durable(f), h.rows)
  BY <1>1, <1>3, BeginsOrder
<1>5. g.end >= f.end /\ g.safe >= f.safe
  <2> DEFINE a == g.end
             b == f.end
             d == f.safe
             e == g.safe
  <2>1. a \in Nat /\ b \in Nat /\ d \in Nat /\ d <= b /\ a > b /\ e = a
    BY <1>1, <1>2, CompleteRows DEF Filed, Holds, File, FileOf
  <2> HIDE DEF a, b, d, e
  <2>2. a >= b /\ e >= d
    BY <2>1
  <2>3. QED
    BY <2>2 DEF a, b, d, e
<1>6. QED
  BY <1>1, <1>2, <1>4, <1>5

LEMMA NoRow ==
    ASSUME NEW s \in Seq(ChainRow)
    PROVE  <<>> \in Seq(ChainRow) /\ ~Sealed(<<>>) /\ Begins(<<>>, s)
BY EmptySeq, LenProperties DEF Sealed, Begins

\* A process dies that has written this much of a row.
LEMMA DiedWriting ==
    ASSUME LedgerInv, Openable, ~Sealed(Records), NEW row \in Evidence, NEW g, Filed(g),
           g.rows \in {Target.rows, Append(Target.rows, row)},
           Complete(g) \in {Target.rows, Append(Target.rows, row)},
           Begins(Durable(Target), Durable(g)), g.end >= Target.end, g.safe >= Target.safe,
           Put(g), UNCHANGED <<stage, manifest, requests, bundle, relied, answered>>,
           report' \in [Reports -> File \cup {Missing}],
           \A r \in Reports :
               /\ Formed(report'[r])
               /\ report[r] = Single(Row("report", r)) => report'[r] = Single(Row("report", r))
               /\ g.rows # Target.rows /\ row = Row("archive", r)
                    => report'[r] = Single(Row("report", r))
    PROVE  LedgerInv'
<1>1. Records' \in Seq(ChainRow) /\ DurableRecords' \in Seq(ChainRow)
  BY PutChain
<1> DEFINE c == <<>>
<1>2. /\ c \in Seq(ChainRow) /\ ~Sealed(c) /\ Begins(c, Records') /\ Begins(c, DurableRecords')
      /\ answered' \subseteq answered \cup {c}
  BY <1>1, NoRow
<1> HIDE DEF c
<1>3. QED
  BY <1>2, Wrote

LEMMA Committed ==
    ASSUME LedgerInv, Openable, ~Sealed(Records), NEW row \in Evidence, Commit(Target, row),
           UNCHANGED <<stage, manifest, requests, bundle, relied>>,
           report' \in [Reports -> File \cup {Missing}],
           \A r \in Reports :
               /\ Formed(report'[r])
               /\ report[r] = Single(Row("report", r)) => report'[r] = Single(Row("report", r))
               /\ row = Row("archive", r) => report'[r] = Single(Row("report", r))
    PROVE  LedgerInv'
<1>1. Filed(Target) /\ ~Torn(Target)
  BY Appendable
<1>2. row \in ChainRow
  BY DEF ChainRow
<1>3. CASE Put(Synced(With(Target, row))) /\ Answer(Append(Records, row))
  <2>1. PICK g : g = Synced(With(Target, row))
    OBVIOUS
  <2>2. /\ Filed(g) /\ g.rows = Append(Target.rows, row) /\ Complete(g) = Append(Target.rows, row)
        /\ Begins(Durable(Target), Durable(g)) /\ g.end >= Target.end /\ g.safe >= Target.safe
        /\ g.safe = g.end
    BY <1>1, <1>2, <2>1, SyncedAppend
  <2>3. Put(g) /\ manifest' = manifest
    BY <1>3, <2>1
  <2>4. Records' = Append(Records, row) /\ Records' \in Seq(ChainRow)
    BY <2>2, <2>3, PutChain
  <2>5. ~relied => DurableRecords' = Records'
    BY <2>2, <2>3, SyncedChain
  <2>6. PICK c : c = Append(Records, row)
    OBVIOUS
  <2>7. /\ c \in Seq(ChainRow) /\ answered' \subseteq answered \cup {c} /\ c = Records'
        /\ Begins(c, Records') /\ (~relied => Begins(c, DurableRecords'))
    BY <1>3, <2>4, <2>5, <2>6, BeginsOrder DEF Answer
  <2>8. QED
    BY <2>2, <2>3, <2>7, Wrote
<1>4. CASE \E g \in Partial(Target, With(Target, row)) : Put(g) /\ Dies
  <2>1. PICK g \in Partial(Target, With(Target, row)) : Put(g) /\ Dies
    BY <1>4
  <2>2. /\ Filed(g) /\ g.safe = Target.safe /\ g.end >= Target.end /\ Durable(g) = Durable(Target)
        /\ g.rows \in {Target.rows, Append(Target.rows, row)}
        /\ Complete(g) \in {Target.rows, Append(Target.rows, row)}
    BY <1>1, <1>2, PartialRows
  <2>3. g.safe >= Target.safe /\ Begins(Durable(Target), Durable(g))
    BY <1>1, <2>2, CompleteRows, BeginsOrder
  <2>4. answered' = answered
    BY <2>1 DEF Dies
  <2>5. QED
    BY <2>1, <2>2, <2>3, <2>4, DiedWriting
<1>5. QED
  BY <1>3, <1>4 DEF Commit

\* The file is synced as it is.
LEMMA SyncedTarget ==
    ASSUME LedgerInv, Valid, NEW g, g = Synced(Active)
    PROVE  /\ Openable /\ Target = Active
           /\ Filed(g) /\ g.rows = Target.rows /\ Complete(g) = Target.rows
           /\ Begins(Durable(Target), Durable(g)) /\ g.end >= Target.end /\ g.safe >= Target.safe
           /\ g.safe = g.end
<1>1. Openable /\ Target = Active
  <2>1. ledger # Missing
    BY Shaped DEF Valid, Spliced, Shape
  <2>2. QED
    BY <2>1, Appendable DEF Openable
<1>2. Filed(Target) /\ ~Torn(Target)
  BY <1>1, Appendable
<1>3. /\ Filed(g) /\ g.rows = Target.rows /\ g.end = Target.end /\ g.safe = Target.end
      /\ Complete(g) = Complete(Target) /\ Durable(g) = Complete(Target)
  BY <1>1, <1>2, SyncedRows
<1>4. /\ Complete(Target) = Target.rows /\ Begins(Durable(Target), Complete(Target))
      /\ Target.end \in Nat /\ Target.safe \in Nat /\ Target.safe <= Target.end
  BY <1>2, CompleteRows
<1>5. QED
  BY <1>1, <1>3, <1>4

LEMMA Repeated ==
    ASSUME LedgerInv, Valid, ~Sealed(Records), NEW row \in Evidence, row.kind # "seal", Listed(row),
           Put(Synced(Active)), Answer(SubSeq(Records, 1, Where(row))),
           UNCHANGED <<stage, manifest, requests, bundle, relied>>,
           report' \in [Reports -> File \cup {Missing}],
           \A r \in Reports :
               /\ Formed(report'[r])
               /\ report[r] = Single(Row("report", r)) => report'[r] = Single(Row("report", r))
    PROVE  LedgerInv'
<1>1. PICK g : g = Synced(Active)
  OBVIOUS
<1>2. /\ Openable /\ Target = Active
      /\ Filed(g) /\ g.rows = Target.rows /\ Complete(g) = Target.rows
      /\ Begins(Durable(Target), Durable(g)) /\ g.end >= Target.end /\ g.safe >= Target.safe
      /\ g.safe = g.end
  BY <1>1, SyncedTarget
<1>3. Put(g) /\ manifest' = manifest
  BY <1>1
<1>4. Records' = Records /\ Records' \in Seq(ChainRow)
  BY <1>2, <1>3, PutChain
<1>5. ~relied => DurableRecords' = Records'
  BY <1>2, <1>3, SyncedChain
<1>6. PICK n : n = Where(row)
  OBVIOUS
<1>7. PICK s : s = Records
  OBVIOUS
<1>8. s \in Seq(ChainRow) /\ n \in 1 .. Len(s) /\ s[n] = row /\ Len(s) \in Nat
  <2>1. n \in DOMAIN s /\ s[n] = row
    BY <1>6, <1>7 DEF Where, Listed
  <2>2. QED
    BY <1>4, <1>7, <2>1, LenProperties
<1>9. PICK c : c = SubSeq(s, 1, n)
  OBVIOUS
<1>10. /\ c \in Seq(ChainRow) /\ Len(c) = n /\ \A i \in 1 .. n : c[i] = s[i]
  BY <1>8, <1>9, FirstRows
<1>11. Begins(c, s) /\ ~Sealed(c)
  BY <1>8, <1>10 DEF Begins, Sealed, Last
<1>12. answered' \subseteq answered \cup {c}
  BY <1>6, <1>7, <1>9 DEF Answer
<1>13. Begins(c, Records') /\ (~relied => Begins(c, DurableRecords'))
  BY <1>4, <1>5, <1>7, <1>11
<1>14. QED
  BY <1>2, <1>3, <1>10, <1>11, <1>12, <1>13, Wrote

-----------------------------------------------------------------------------
(* The operations that write a row. *)

LEMMA ReportsStay ==
    ASSUME LedgerInv, report' = report
    PROVE  /\ report' \in [Reports -> File \cup {Missing}]
           /\ \A r \in Reports :
                 /\ Formed(report'[r])
                 /\ report[r] = Single(Row("report", r)) => report'[r] = Single(Row("report", r))
BY DEF LedgerInv, LedgerTypeOK

LEMMA AppendEntryStep ==
    ASSUME LedgerInv, NEW owner \in Owners, AppendEntry(owner)
    PROVE  LedgerInv'
<1> DEFINE row == Row("entry", owner)
<1>1. row \in Evidence /\ \A r \in Reports : row # Row("archive", r)
  BY DEF Row, Evidence
<1>2. /\ Openable /\ ~Sealed(Records) /\ Commit(Target, row) /\ report' = report
      /\ UNCHANGED <<stage, manifest, requests, bundle, relied>>
  BY DEF AppendEntry, Target
<1> HIDE DEF row
<1>3. QED
  BY <1>1, <1>2, ReportsStay, Committed

LEMMA AppendRepeatsStep ==
    ASSUME LedgerInv, NEW owner \in Owners, AppendRepeats(owner)
    PROVE  LedgerInv'
<1> DEFINE row == Row("entry", owner)
<1>1. row \in Evidence /\ row.kind # "seal"
  BY DEF Row, Evidence
<1>2. /\ Valid /\ ~Sealed(Records) /\ Listed(row) /\ report' = report
      /\ Put(Synced(Active)) /\ Answer(SubSeq(Records, 1, Where(row)))
      /\ UNCHANGED <<stage, manifest, requests, bundle, relied>>
  BY DEF AppendRepeats
<1> HIDE DEF row
<1>3. QED
  BY <1>1, <1>2, ReportsStay, Repeated

LEMMA SealTerminalStep ==
    ASSUME LedgerInv, NEW q \in Seals, SealTerminal(q)
    PROVE  LedgerInv'
<1> DEFINE row == Row("seal", q)
<1>1. row \in Evidence /\ \A r \in Reports : row # Row("archive", r)
  BY DEF Row, Evidence
<1>2. /\ Valid /\ ~Sealed(Records) /\ report' = report
      /\ UNCHANGED <<stage, manifest, requests, bundle, relied>>
      /\ Commit(Active, row) \/ (Put(Synced(Active)) /\ Dies)
  BY DEF SealTerminal, Sealed
<1>3. PICK g : g = Synced(Active)
  OBVIOUS
<1>4. /\ Openable /\ Target = Active
      /\ Filed(g) /\ g.rows = Target.rows /\ Complete(g) = Target.rows
      /\ Begins(Durable(Target), Durable(g)) /\ g.end >= Target.end /\ g.safe >= Target.safe
  BY <1>2, <1>3, SyncedTarget
<1> HIDE DEF row
<1>5. CASE Commit(Active, row)
  BY <1>1, <1>2, <1>4, <1>5, ReportsStay, Committed
<1>6. CASE Put(Synced(Active)) /\ Dies
  <2>1. Put(g) /\ answered' = answered
    BY <1>3, <1>6 DEF Dies
  <2>2. QED
    BY <1>1, <1>2, <1>4, <2>1, ReportsStay, DiedWriting
<1>7. QED
  BY <1>2, <1>5, <1>6

\* A report in the inventory is exactly its one published row.
LEMMA ReportRow ==
    ASSUME NEW r \in Reports
    PROVE  /\ Row("report", r) \in ChainRow
           /\ Filed(Single(Row("report", r))) /\ Formed(Single(Row("report", r)))
           /\ Single(Row("report", r)) \in File
<1>1. Row("report", r) \in ChainRow
  BY DEF Row, ChainRow
<1>2. QED
  BY <1>1, SingleRow DEF Formed, Filed, Holds, File

LEMMA ArchiveReportStep ==
    ASSUME LedgerInv, NEW r \in Reports, ArchiveReport(r)
    PROVE  LedgerInv'
<1> DEFINE row == Row("archive", r)
<1>1. row \in Evidence /\ \A q \in Reports : row = Row("archive", q) => q = r
  BY DEF Row, Evidence
<1>2. /\ Valid /\ ~Sealed(Records)
      /\ UNCHANGED <<stage, manifest, requests, bundle, relied>>
      /\ \/ /\ report[r] = Missing
            /\ \E f \in Publishing(Row("report", r)) : report' = [report EXCEPT ![r] = f]
            /\ Dies /\ UNCHANGED <<ledger, continuation>>
         \/ /\ report' = [report EXCEPT ![r] = Single(Row("report", r))]
            /\ Commit(Active, row)
  BY DEF ArchiveReport
<1>3. /\ report \in [Reports -> File \cup {Missing}] /\ \A q \in Reports : Formed(report[q])
  BY DEF LedgerInv, LedgerTypeOK
<1>4. Openable /\ Target = Active /\ Filed(Target) /\ ~Torn(Target) /\ Active # Missing
  <2>1. PICK g : g = Synced(Active)
    OBVIOUS
  <2>2. Openable /\ Target = Active
    BY <1>2, <2>1, SyncedTarget
  <2>3. QED
    BY <2>2, Appendable, LedgerAssumption DEF Filed, Holds, File
<1> HIDE DEF row
<1>5. CASE /\ report' = [report EXCEPT ![r] = Single(Row("report", r))]
           /\ Commit(Active, row)
  <2>1. /\ report' \in [Reports -> File \cup {Missing}]
        /\ \A q \in Reports :
             /\ Formed(report'[q])
             /\ report[q] = Single(Row("report", q)) => report'[q] = Single(Row("report", q))
             /\ row = Row("archive", q) => report'[q] = Single(Row("report", q))
    BY <1>1, <1>3, <1>5, ReportRow
  <2>2. QED
    BY <1>1, <1>2, <1>4, <1>5, <2>1, Committed
<1>6. CASE /\ report[r] = Missing
           /\ \E f \in Publishing(Row("report", r)) : report' = [report EXCEPT ![r] = f]
           /\ Dies /\ UNCHANGED <<ledger, continuation>>
  <2>1. PICK f \in Publishing(Row("report", r)) : report' = [report EXCEPT ![r] = f]
    BY <1>6
  <2>2. Filed(f) /\ f \in File
    BY ReportRow, PublishingRow DEF Filed, Holds, File
  <2>3. Missing # Single(Row("report", r))
    BY ReportRow, LedgerAssumption
  <2>4. /\ report' \in [Reports -> File \cup {Missing}]
        /\ \A q \in Reports :
             /\ Formed(report'[q])
             /\ report[q] = Single(Row("report", q)) => report'[q] = Single(Row("report", q))
    BY <1>3, <1>6, <2>1, <2>2, <2>3 DEF Formed
  <2>5. PICK g : g = Active
    OBVIOUS
  <2>6. /\ Filed(g) /\ g.rows = Target.rows /\ Complete(g) = Target.rows
        /\ Begins(Durable(Target), Durable(g)) /\ g.end >= Target.end /\ g.safe >= Target.safe
    BY <1>4, <2>5, CompleteRows, BeginsOrder
  <2>7. Put(g)
    BY <1>6, <2>5 DEF Put, Active
  <2>8. answered' = answered
    BY <1>6 DEF Dies
  <2>9. QED
    BY <1>1, <1>2, <1>4, <2>4, <2>6, <2>7, <2>8, DiedWriting
<1>7. QED
  BY <1>2, <1>5, <1>6

LEMMA ArchiveRepeatsStep ==
    ASSUME LedgerInv, NEW r \in Reports, ArchiveRepeats(r)
    PROVE  LedgerInv'
<1> DEFINE row == Row("archive", r)
<1>1. row \in Evidence /\ row.kind # "seal"
  BY DEF Row, Evidence
<1>2. /\ Valid /\ ~Sealed(Records) /\ InventoryWhole /\ Listed(row)
      /\ report' = [report EXCEPT ![r] = Synced(@)]
      /\ Put(Synced(Active)) /\ Answer(SubSeq(Records, 1, Where(row)))
      /\ UNCHANGED <<stage, manifest, requests, bundle, relied>>
  BY DEF ArchiveRepeats
<1>3. /\ report \in [Reports -> File \cup {Missing}] /\ \A q \in Reports : Formed(report[q])
  BY DEF LedgerInv, LedgerTypeOK
<1>4. report[r] # Missing /\ Filed(report[r])
  BY <1>2, <1>3 DEF InventoryWhole, Formed
<1>5. PICK f : f = Synced(report[r])
  OBVIOUS
<1>6. Filed(f) /\ f \in File /\ report' = [report EXCEPT ![r] = f]
  BY <1>2, <1>4, <1>5, SyncedRows DEF Filed, Holds, File
<1>7. report[r] = Single(Row("report", r)) => f = Single(Row("report", r))
  BY <1>5, ReportRow, SingleRow
<1> HIDE DEF row
<1>8. /\ report' \in [Reports -> File \cup {Missing}]
      /\ \A q \in Reports :
           /\ Formed(report'[q])
           /\ report[q] = Single(Row("report", q)) => report'[q] = Single(Row("report", q))
  BY <1>3, <1>6, <1>7 DEF Formed
<1>9. QED
  BY <1>1, <1>2, <1>8, Repeated

-----------------------------------------------------------------------------
(* The operations that only answer. *)

LEMMA FilesStay ==
    ASSUME LedgerInv, UNCHANGED files, requests \subseteq requests', requests' \subseteq Request,
           relied' \in BOOLEAN, ~relied' => ~relied,
           NEW c \in Seq(ChainRow), answered' \subseteq answered \cup {c},
           Begins(c, Records), Sealed(c) => c = Records,
           ~relied' => Begins(c, DurableRecords)
    PROVE  LedgerInv'
<1>1. /\ ledger' = ledger /\ continuation' = continuation /\ stage' = stage
      /\ manifest' = manifest /\ report' = report /\ bundle' = bundle
  BY DEF files
<1>2. Records' = Records /\ DurableRecords' = DurableRecords /\ Active' = Active
      /\ Copies' = Copies /\ NothingUnknown' = NothingUnknown
  BY <1>1 DEF Records, DurableRecords, Active, Copies, Sources, NothingUnknown, Referenced, Listed
<1>3. Records \in Seq(ChainRow) /\ DurableRecords \in Seq(ChainRow)
  BY Shaped, Chains
<1>4. /\ answered' \subseteq Seq(ChainRow) /\ ChainsKept' /\ SealFinal'
      /\ ~relied' => \A chain \in answered' : IsPrefix(chain, DurableRecords')
  BY <1>2, <1>3, BeginsOrder, AnswersKept
<1>5. LedgerTypeOK'
  BY <1>1, <1>4 DEF LedgerInv, LedgerTypeOK, Formed
<1>6. SealLast' /\ Archived'
  BY <1>1 DEF LedgerInv, SealLast, Archived
<1>7. Recovering'
  <2>1. \A request : Pins(request) => Pins(request)'
    BY <1>1 DEF Pins, Damaged, RequestOf
  <2>2. QED
    BY <1>1, <2>1 DEF LedgerInv, Recovering
<1>8. ReliedDurable'
  BY <1>1, <1>4 DEF LedgerInv, ReliedDurable
<1>9. Sealed(Records)' <=> Sealed(Records)
  BY <1>2 DEF Sealed
<1>10. Bundled'
  BY <1>1, <1>2, <1>9 DEF LedgerInv, Bundled
<1>11. RetainedWhole'
  BY <1>1, <1>2, <1>9 DEF LedgerInv, AnsweredKept, RetainedWhole
<1>12. QED
  BY <1>4, <1>5, <1>6, <1>7, <1>8, <1>10, <1>11 DEF LedgerInv, AnsweredKept

LEMMA LedgerTyped ==
    ASSUME LedgerInv
    PROVE  /\ requests \subseteq Request /\ relied \in BOOLEAN
           /\ ledger # Missing => Filed(ledger) /\ ledger.rows \in Seq(Evidence)
           /\ continuation # Missing => Filed(continuation)
           /\ stage # Missing => Filed(stage)
           /\ manifest # Missing => Filed(manifest)
BY DEF LedgerInv, LedgerTypeOK, Formed

\* A file that is not unsynced is durable to its end.
LEMMA NotUnsynced ==
    ASSUME NEW R, NEW f, Holds(f, R), f # Missing, ~Unsynced(f)
    PROVE  f.safe = f.end
<1> DEFINE a == f.safe
           b == f.end
<1>1. a \in Nat /\ b \in Nat /\ a <= b /\ ~(a < b)
  BY DEF Holds, FileOf, Unsynced
<1> HIDE DEF a, b
<1>2. a = b
  BY <1>1
<1>3. QED
  BY <1>2 DEF a, b

LEMMA SealRepeatsStep ==
    ASSUME LedgerInv, NEW q \in Seals, SealRepeats(q)
    PROVE  LedgerInv'
<1>1. /\ Valid /\ Answer(Records) /\ UNCHANGED files /\ requests' = requests
      /\ relied' = (relied \/ Unsynced(Active))
  BY DEF SealRepeats
<1>2. Records \in Seq(ChainRow) /\ DurableRecords \in Seq(ChainRow)
  BY Shaped, Chains
<1>3. Active # Missing /\ Filed(Active)
  BY <1>1, Shaped, Chains DEF Valid, Spliced, Active
<1>4. ASSUME ~relied' PROVE DurableRecords = Records
  <2>1. ~relied /\ ~Unsynced(Active)
    BY <1>1, <1>4
  <2>2. Active.safe = Active.end
    BY <1>3, <2>1, NotUnsynced DEF Filed
  <2>3. Durable(Active) = Complete(Active)
    BY <1>3, <2>2, CompleteRows
  <2>4. continuation # Missing => ledger.safe = ledger.end
    BY <2>1 DEF LedgerInv, ReliedDurable
  <2>5. QED
    BY <1>3, <2>3, <2>4, Shaped, Chains
<1>5. PICK c : c = Records
  OBVIOUS
<1>6. /\ c \in Seq(ChainRow) /\ answered' \subseteq answered \cup {c} /\ Begins(c, Records)
      /\ ~relied' => Begins(c, DurableRecords)
  BY <1>1, <1>2, <1>4, <1>5, BeginsOrder DEF Answer
<1>7. relied' \in BOOLEAN /\ (~relied' => ~relied)
  BY <1>1, LedgerTyped
<1>8. requests \subseteq requests' /\ requests' \subseteq Request
  BY <1>1, LedgerTyped
<1>9. QED
  BY <1>1, <1>5, <1>6, <1>7, <1>8, FilesStay

LEMMA RecoveryPreviewStep ==
    ASSUME LedgerInv, NEW owner \in Owners, RecoveryPreview(owner)
    PROVE  LedgerInv'
<1>1. /\ Damaged /\ requests' = requests \cup {RequestOf(owner)}
      /\ UNCHANGED files /\ answered' = answered /\ relied' = relied
  BY DEF RecoveryPreview
<1>2. RequestOf(owner) \in Request
  BY <1>1, LedgerTyped, CompleteRows DEF Damaged, RequestOf, Request
<1>3. Records \in Seq(ChainRow) /\ DurableRecords \in Seq(ChainRow)
  BY Shaped, Chains
<1> DEFINE c == <<>>
<1>4. /\ c \in Seq(ChainRow) /\ ~Sealed(c) /\ Begins(c, Records) /\ Begins(c, DurableRecords)
      /\ answered' \subseteq answered \cup {c}
  BY <1>1, <1>3, NoRow
<1> HIDE DEF c
<1>5. requests \subseteq requests' /\ requests' \subseteq Request /\ relied' \in BOOLEAN
  BY <1>1, <1>2, LedgerTyped
<1>6. QED
  BY <1>1, <1>4, <1>5, FilesStay

\* The recovery that is under way or done is that of one request.
LEMMA BoundaryRow ==
    ASSUME NEW request \in Request
    PROVE  /\ Boundary(request) \in ChainRow /\ ManifestRow(request) \in ChainRow
           /\ Boundary(request).kind = "boundary"
           /\ \A other : ManifestRow(other) = ManifestRow(request) => other = request
           /\ \A r \in Reports : Boundary(request) # Row("archive", r)
BY DEF Boundary, ManifestRow, Row, ChainRow

LEMMA RecoverRepeatsStep ==
    ASSUME LedgerInv, NEW request \in requests, RecoverRepeats(request)
    PROVE  LedgerInv'
<1>1. /\ Pins(request) /\ Is(manifest, ManifestRow(request)) /\ Valid
      /\ Answer(Append(Complete(ledger), Boundary(request)))
      /\ UNCHANGED files /\ requests' = requests /\ relied' = relied
  BY DEF RecoverRepeats
<1>2. requests \subseteq Request /\ request \in Request
  BY LedgerTyped
<1>3. manifest # Missing /\ continuation # Missing /\ ledger # Missing
  BY <1>1, Shaped DEF Is, Shape
<1>4. PICK other \in requests :
         /\ Is(manifest, ManifestRow(other)) /\ continuation.end >= 3
         /\ continuation.rows[1] = Boundary(other)
  BY <1>3 DEF LedgerInv, Recovering
<1>5. other = request
  <2>1. <<ManifestRow(request)>> = <<ManifestRow(other)>>
    BY <1>1, <1>4 DEF Is
  <2>2. QED
    BY <1>2, <2>1, BoundaryRow
<1>6. Filed(continuation) /\ Filed(ledger) /\ continuation.rows # <<>> /\ ~Torn(continuation)
  BY <1>1, <1>3, LedgerTyped DEF Valid, Spliced, Whole, Torn
<1>7. PICK b, x : b = Complete(ledger) /\ x = Complete(continuation)
  OBVIOUS
<1>8. PICK row : row = Boundary(request)
  OBVIOUS
<1>9. /\ b \in Seq(ChainRow) /\ x \in Seq(ChainRow) /\ x # <<>> /\ x[1] = row /\ row \in ChainRow
      /\ row.kind = "boundary"
  BY <1>2, <1>4, <1>5, <1>6, <1>7, <1>8, CompleteRows, BoundaryRow
<1>10. /\ <<row>> \in Seq(ChainRow) /\ Begins(<<row>>, x)
  <2>1. Len(x) \in Nat /\ Len(x) # 0
    BY <1>9, LenProperties, EmptySeq
  <2>2. <<row>> \in Seq(ChainRow) /\ Len(<<row>>) = 1 /\ <<row>>[1] = row
    BY <1>9, OneRow
  <2>3. QED
    BY <1>9, <2>1, <2>2 DEF Begins
<1>11. PICK c : c = Append(b, row)
  OBVIOUS
<1>12. /\ c \in Seq(ChainRow) /\ c = b \o <<row>> /\ ~Sealed(c)
  <2>1. c \in Seq(ChainRow) /\ Last(c) = row
    BY <1>9, <1>11, AppendRows
  <2>2. c = b \o <<row>>
    BY <1>9, <1>11, AppendIsConcat
  <2>3. QED
    BY <1>9, <2>1, <2>2 DEF Sealed
<1>13. Begins(c, b \o x)
  BY <1>9, <1>10, <1>12, JoinRows
<1>14. Records = b \o x
  BY <1>3, <1>7 DEF Records
<1>15. ASSUME ~relied PROVE Begins(c, DurableRecords)
  <2>1. ledger.safe = ledger.end /\ continuation.safe >= 3
    BY <1>3, <1>15 DEF LedgerInv, ReliedDurable
  <2>2. PICK d : d = Durable(continuation)
    OBVIOUS
  <2>3. /\ Durable(ledger) = b /\ d \in Seq(ChainRow) /\ Begins(d, x)
        /\ Len(d) = (continuation.safe + 1) \div 3
    BY <1>6, <1>7, <2>1, <2>2, CompleteRows
  <2>4. (continuation.safe + 1) \div 3 >= 1
    <3> DEFINE n == continuation.safe
    <3>1. n \in Nat /\ n >= 3
      BY <1>6, <2>1, CompleteRows
    <3> HIDE DEF n
    <3>2. (n + 1) \div 3 >= 1
      BY <3>1
    <3>3. QED
      BY <3>2 DEF n
  <2>5. Begins(<<row>>, d)
    <3>1. Len(d) \in Nat /\ Len(d) >= 1
      BY <2>3, <2>4, LenProperties
    <3>2. d[1] = row
      BY <1>9, <2>3, <3>1 DEF Begins
    <3>3. Len(<<row>>) = 1 /\ <<row>>[1] = row
      BY <1>9, OneRow
    <3>4. QED
      BY <3>1, <3>2, <3>3 DEF Begins
  <2>6. DurableRecords = b \o d
    BY <1>3, <2>2, <2>3 DEF DurableRecords
  <2>7. QED
    BY <1>9, <1>10, <1>12, <2>3, <2>5, <2>6, JoinRows
<1>16. answered' \subseteq answered \cup {c} /\ relied' \in BOOLEAN
       /\ requests \subseteq requests' /\ requests' \subseteq Request
  BY <1>1, <1>2, <1>7, <1>8, <1>11, LedgerTyped DEF Answer
<1>17. QED
  BY <1>1, <1>12, <1>13, <1>14, <1>15, <1>16, FilesStay

\* The chain that is recovered holds nothing that is settled.
LEMMA RecoveredChain ==
    ASSUME LedgerInv, manifest = Missing, Damaged
    PROVE  /\ Records = Complete(ledger) /\ Records \in Seq(ChainRow) /\ ~Sealed(Records)
           /\ DurableRecords = Durable(ledger) /\ Filed(ledger)
           /\ bundle = Missing /\ \A chain \in answered : ~Sealed(chain)
<1>1. Filed(ledger) /\ ledger # Missing
  BY LedgerTyped DEF Damaged
<1>2. PICK s : s = Complete(ledger)
  OBVIOUS
<1>3. /\ s \in Seq(ChainRow) /\ s # <<>> /\ Durable(ledger) \in Seq(ChainRow)
      /\ \A i \in DOMAIN s : s[i].kind \notin Settling
  BY <1>1, <1>2, CompleteRows DEF Damaged
<1>4. Records = s /\ DurableRecords = Durable(ledger)
  BY <1>1, <1>2, <1>3, ConcatEmptySeq DEF Records, DurableRecords
<1>5. ~Sealed(s)
  <2>1. Len(s) \in Nat /\ Len(s) # 0 /\ DOMAIN s = 1 .. Len(s)
    BY <1>3, LenProperties, EmptySeq
  <2>2. Last(s).kind \notin Settling
    BY <1>3, <2>1 DEF Last
  <2>3. QED
    BY <2>2 DEF Sealed, Settling
<1>6. ~Sealed(Records)
  BY <1>4, <1>5
<1>7. QED
  BY <1>1, <1>2, <1>3, <1>4, <1>6, Unsealed

LEMMA RecoverEvidenceStep ==
    ASSUME LedgerInv, NEW request \in requests, NEW owner \in Owners,
           RecoverEvidence(request, owner)
    PROVE  LedgerInv'
<1> DEFINE kept == IF continuation = Missing THEN Single(Boundary(request)) ELSE continuation
           staged == IF stage = Missing THEN Single(ManifestRow(request)) ELSE stage
<1>1. /\ Pins(request) /\ manifest = Missing
      /\ continuation # Missing => Prepared(request)
      /\ \/ /\ continuation = Missing
            /\ continuation' \in Publishing(Boundary(request))
            /\ Dies /\ UNCHANGED <<stage, manifest>>
         \/ /\ continuation' = kept /\ stage = Missing
            /\ stage' \in Publishing(ManifestRow(request))
            /\ Dies /\ UNCHANGED manifest
         \/ /\ continuation' = kept /\ Is(staged, ManifestRow(request))
            /\ stage' = staged
            /\ Dies /\ UNCHANGED manifest
         \/ /\ continuation' = kept /\ Is(staged, ManifestRow(request))
            /\ stage' = Missing /\ manifest' = staged
            /\ Answer(Append(Complete(ledger), Boundary(request)))
      /\ relied' = (relied \/ Unsynced(ledger) \/ Unsynced(continuation) \/ Unsynced(stage))
      /\ ledger' = ledger /\ report' = report /\ bundle' = bundle /\ requests' = requests
  BY DEF RecoverEvidence
<1>2. request \in Request /\ Damaged /\ ledger # Missing
  BY <1>1, LedgerTyped DEF Pins, Damaged
<1>3. /\ Records = Complete(ledger) /\ Records \in Seq(ChainRow) /\ ~Sealed(Records)
      /\ DurableRecords = Durable(ledger) /\ Filed(ledger)
      /\ bundle = Missing /\ \A chain \in answered : ~Sealed(chain)
  BY <1>1, <1>2, RecoveredChain
<1>4. PICK row : row = Boundary(request)
  OBVIOUS
<1>5. PICK named : named = ManifestRow(request)
  OBVIOUS
<1>6. /\ row \in ChainRow /\ named \in ChainRow /\ row.kind = "boundary"
      /\ \A r \in Reports : row # Row("archive", r)
  BY <1>2, <1>4, <1>5, BoundaryRow
<1>7. PICK k, t : k = kept /\ t = staged
  OBVIOUS
<1>8. /\ Filed(k) /\ k # Missing /\ k.rows = <<row>> /\ k.end = 3 /\ k.safe <= 3
      /\ Complete(k) = <<row>>
  <2>1. CASE continuation = Missing
    <3>1. k = Single(row)
      BY <1>4, <1>7, <2>1
    <3>2. Filed(k) /\ k.rows = <<row>> /\ k.end = 3 /\ k.safe = 3 /\ Complete(k) = <<row>>
      BY <1>6, <3>1, SingleRow
    <3>3. k # Missing
      BY <3>2, LedgerAssumption DEF Filed, Holds, File
    <3>4. QED
      BY <3>2, <3>3
  <2>2. CASE continuation # Missing
    <3>1. k = continuation /\ k # Missing /\ Is(k, row) /\ Filed(k)
      BY <1>1, <1>4, <1>7, <2>2, LedgerTyped DEF Prepared
    <3>2. ~Torn(k)
      BY <3>1 DEF Is, Torn
    <3>3. Complete(k) = k.rows /\ k.safe <= k.end
      BY <3>1, <3>2, CompleteRows
    <3>4. QED
      BY <3>1, <3>3 DEF Is
  <2>3. QED
    BY <2>1, <2>2
<1>9. /\ Filed(t) /\ t # Missing
  <2>1. CASE stage = Missing
    BY <1>5, <1>6, <1>7, <2>1, SingleRow, LedgerAssumption DEF Filed, Holds, File
  <2>2. CASE stage # Missing
    BY <1>7, <2>2, LedgerTyped
  <2>3. QED
    BY <2>1, <2>2
<1>10. ASSUME ~relied'
       PROVE  /\ ~relied /\ ledger.safe = ledger.end /\ k.safe = 3 /\ t.safe = t.end
  <2>1. ~relied /\ ~Unsynced(ledger) /\ ~Unsynced(continuation) /\ ~Unsynced(stage)
    BY <1>1, <1>10
  <2>2. ledger.safe = ledger.end
    BY <1>2, <1>3, <2>1, NotUnsynced DEF Filed
  <2>3. k.safe = 3
    <3>1. CASE continuation = Missing
      BY <1>4, <1>6, <1>7, <3>1, SingleRow
    <3>2. CASE continuation # Missing
      BY <1>7, <1>8, <2>1, <3>2, NotUnsynced DEF Filed
    <3>3. QED
      BY <3>1, <3>2
  <2>4. t.safe = t.end
    <3>1. CASE stage = Missing
      BY <1>5, <1>6, <1>7, <3>1, SingleRow
    <3>2. CASE stage # Missing
      BY <1>7, <1>9, <2>1, <3>2, NotUnsynced DEF Filed
    <3>3. QED
      BY <3>1, <3>2
  <2>5. QED
    BY <2>1, <2>2, <2>3, <2>4
<1> HIDE DEF kept, staged
\* What every one of the four ways leaves.
<1>11. PICK b : b = Complete(ledger)
  OBVIOUS
<1>12. /\ Formed(continuation)' /\ Formed(stage)' /\ Formed(manifest)'
       /\ continuation' # Missing
       /\ \/ /\ manifest' = Missing /\ answered' = answered
             /\ continuation'.rows \in {<<>>, <<row>>}
          \/ /\ manifest' = t /\ Is(t, named) /\ continuation' = k
             /\ answered' = answered \cup {Append(b, row)}
  <2>1. CASE /\ continuation = Missing
             /\ continuation' \in Publishing(Boundary(request))
             /\ Dies /\ UNCHANGED <<stage, manifest>>
    <3>1. Filed(continuation') /\ continuation'.rows \in {<<>>, <<row>>}
      BY <1>4, <1>6, <2>1, PublishingRow
    <3>2. continuation' # Missing
      BY <3>1, LedgerAssumption DEF Filed, Holds, File
    <3>3. Formed(stage)' /\ Formed(manifest)' /\ Formed(continuation)'
      BY <1>1, <2>1, <3>1, LedgerTyped DEF Formed
    <3>4. QED
      BY <1>1, <2>1, <3>1, <3>2, <3>3 DEF Dies
  <2>2. CASE /\ continuation' = kept /\ stage = Missing
             /\ stage' \in Publishing(ManifestRow(request))
             /\ Dies /\ UNCHANGED manifest
    <3>1. Filed(stage')
      BY <1>5, <1>6, <2>2, PublishingRow
    <3>2. QED
      BY <1>1, <1>7, <1>8, <2>2, <3>1 DEF Dies, Formed
  <2>3. CASE /\ continuation' = kept /\ Is(staged, ManifestRow(request))
             /\ stage' = staged
             /\ Dies /\ UNCHANGED manifest
    BY <1>1, <1>7, <1>8, <1>9, <2>3 DEF Dies, Formed
  <2>4. CASE /\ continuation' = kept /\ Is(staged, ManifestRow(request))
             /\ stage' = Missing /\ manifest' = staged
             /\ Answer(Append(Complete(ledger), Boundary(request)))
    BY <1>4, <1>5, <1>7, <1>8, <1>9, <1>11, <2>4 DEF Answer, Formed
  <2>5. QED
    BY <1>1, <2>1, <2>2, <2>3, <2>4
<1>13. PICK c : c = IF manifest' = Missing THEN <<>> ELSE Append(b, row)
  OBVIOUS
<1>14. b \in Seq(ChainRow) /\ Append(b, row) \in Seq(ChainRow) /\ Last(Append(b, row)) = row
       /\ Append(b, row) = b \o <<row>> /\ Begins(b, Append(b, row)) /\ <<>> \in Seq(ChainRow)
  BY <1>3, <1>6, <1>11, AppendRows, AppendIsConcat, EmptySeq
<1>15. c \in Seq(ChainRow) /\ ~Sealed(c) /\ answered' \subseteq answered \cup {c}
  <2>1. ~Sealed(<<>>)
    BY DEF Sealed
  <2>2. ~Sealed(Append(b, row))
    BY <1>6, <1>14 DEF Sealed
  <2>3. QED
    BY <1>9, <1>12, <1>13, <1>14, <2>1, <2>2
<1>16. Records' = IF manifest' = Missing THEN b ELSE Append(b, row)
  <2>1. ledger' # Missing /\ Complete(ledger)' = b
    BY <1>1, <1>2, <1>11
  <2>2. CASE manifest' = Missing
    BY <1>14, <2>1, <2>2, ConcatEmptySeq DEF Records
  <2>3. CASE manifest' # Missing
    <3>1. continuation' = k
      BY <1>12, <2>3
    <3>2. Complete(continuation)' = <<row>>
      BY <1>8, <3>1
    <3>3. QED
      BY <1>12, <1>14, <2>1, <2>3, <3>2 DEF Records
  <2>4. QED
    BY <2>2, <2>3
<1>17. ASSUME ~relied' PROVE DurableRecords' = Records'
  <2>1. ledger' # Missing /\ Durable(ledger)' = b
    BY <1>1, <1>2, <1>3, <1>10, <1>11, <1>17, CompleteRows
  <2>2. CASE manifest' = Missing
    BY <1>14, <1>16, <2>1, <2>2, ConcatEmptySeq DEF DurableRecords
  <2>3. CASE manifest' # Missing
    <3>1. continuation' = k
      BY <1>12, <2>3
    <3>2. Durable(continuation)' = <<row>>
      BY <1>8, <1>10, <1>17, <3>1, CompleteRows
    <3>3. QED
      BY <1>14, <1>16, <2>1, <2>3, <3>2 DEF DurableRecords
  <2>4. QED
    BY <2>2, <2>3
<1>18. Records' \in Seq(ChainRow) /\ Begins(Records, Records') /\ Begins(c, Records')
  <2>1. Begins(b, b) /\ Begins(Append(b, row), Append(b, row)) /\ Begins(<<>>, b)
    BY <1>14, BeginsOrder, NoRow
  <2>2. QED
    BY <1>3, <1>11, <1>13, <1>14, <1>16, <2>1
<1>19. DurableRecords \in Seq(ChainRow) /\ DurableRecords' \in Seq(ChainRow)
  <2>1. DurableRecords \in Seq(ChainRow)
    BY Shaped, Chains
  <2>2. Formed(ledger)' /\ Durable(ledger)' = Durable(ledger) /\ Durable(ledger) \in Seq(ChainRow)
    BY <1>1, <1>3, CompleteRows DEF Formed
  <2>3. CASE manifest' = Missing
    BY <1>1, <1>2, <1>14, <2>2, <2>3, ConcatProperties DEF DurableRecords
  <2>4. CASE manifest' # Missing
    <3>1. Durable(continuation)' \in Seq(ChainRow)
      BY <1>8, <1>12, <2>4, CompleteRows
    <3>2. QED
      BY <1>1, <1>2, <2>2, <2>4, <3>1, ConcatProperties DEF DurableRecords
  <2>5. QED
    BY <2>1, <2>3, <2>4
<1>20. /\ answered' \subseteq Seq(ChainRow) /\ ChainsKept' /\ SealFinal'
       /\ ~relied' => \A chain \in answered' : IsPrefix(chain, DurableRecords')
  <2>1. \A chain \in answered : Sealed(chain) => Records' = Records
    BY <1>3
  <2>2. ~relied' => ~relied /\ Begins(DurableRecords, DurableRecords') /\ Begins(c, DurableRecords')
    <3>1. SUFFICES ASSUME ~relied'
                   PROVE  ~relied /\ Begins(DurableRecords, DurableRecords') /\ Begins(c, DurableRecords')
      OBVIOUS
    <3>2. DurableRecords = b /\ Records = b
      BY <1>3, <1>10, <1>11, <3>1, CompleteRows
    <3>3. QED
      BY <1>10, <1>17, <1>18, <3>1, <3>2
  <2>3. QED
    BY <1>3, <1>15, <1>18, <1>19, <2>1, <2>2, AnswersKept
<1>21. Recovering'
  <2>1. Pins(request)'
    BY <1>1 DEF Pins, Damaged, RequestOf
  <2>2. CASE manifest' = Missing
    BY <1>1, <1>4, <1>12, <2>1, <2>2, <1>9 DEF Recovering, Boundary
  <2>3. CASE manifest' # Missing
    <3>1. manifest' = t /\ Is(t, named) /\ continuation' = k
      BY <1>12, <2>3
    <3>2. k.end >= 3 /\ k.rows[1] = row
      BY <1>6, <1>8, OneRow
    <3>3. Is(manifest, ManifestRow(request))'
      BY <1>5, <3>1 DEF Is, ManifestRow
    <3>4. QED
      BY <1>1, <1>4, <1>12, <2>1, <2>3, <3>1, <3>2, <3>3 DEF Recovering, Boundary
  <2>4. QED
    BY <2>2, <2>3
<1>22. Archived'
  <2>1. SUFFICES ASSUME NEW r \in Reports, NEW f \in {ledger', continuation'}, f # Missing,
                        NEW i \in DOMAIN f.rows, f.rows[i] = Row("archive", r)
                 PROVE  report'[r] = Single(Row("report", r))
    BY DEF Archived, Row, Single
  <2>2. f # continuation'
    <3>1. continuation'.rows \in {<<>>, <<row>>}
      BY <1>8, <1>12
    <3>2. \A j \in DOMAIN continuation'.rows : continuation'.rows[j] # Row("archive", r)
      <4>1. CASE continuation'.rows = <<>>
        BY <4>1
      <4>2. CASE continuation'.rows = <<row>>
        BY <1>6, <4>2
      <4>3. QED
        BY <3>1, <4>1, <4>2
    <3>3. QED
      BY <2>1, <3>2
  <2>3. QED
    BY <1>1, <2>1, <2>2 DEF LedgerInv, Archived
<1>23. ReliedDurable'
  <2>1. SUFFICES ASSUME ~relied'
                 PROVE  /\ continuation' # Missing => ledger'.safe = ledger'.end
                        /\ manifest' # Missing =>
                             manifest'.safe = manifest'.end /\ continuation'.safe >= 3
    BY <1>20 DEF ReliedDurable
  <2>2. QED
    BY <1>1, <1>10, <1>12, <2>1
<1>24. LedgerTypeOK'
  <2>1. relied' \in BOOLEAN
    BY <1>1, LedgerTyped
  <2>2. QED
    BY <1>1, <1>3, <1>12, <1>20, <2>1 DEF LedgerInv, LedgerTypeOK, Formed
<1>25. SealLast'
  BY <1>1 DEF LedgerInv, SealLast
<1>26. Bundled' /\ RetainedWhole'
  BY <1>1, <1>3 DEF Bundled, RetainedWhole
<1>27. QED
  BY <1>20, <1>21, <1>22, <1>23, <1>24, <1>25, <1>26 DEF LedgerInv, AnsweredKept

-----------------------------------------------------------------------------
(* What is retained. *)

LEMMA SomeOrder ==
    ASSUME NEW S, IsFiniteSet(S)
    PROVE  Cardinality(S) \in Nat /\ SetToSeq(S) \in [1 .. Cardinality(S) -> S]
<1>1. Cardinality(S) \in Nat /\ ExistsBijection(1 .. Cardinality(S), S)
  BY FS_CardinalityType
<1>2. \E f \in [1 .. Cardinality(S) -> S] : IsInjective(f)
  BY <1>1 DEF ExistsBijection, Bijection, Injection, IsInjective
<1>3. QED
  BY <1>1, <1>2 DEF SetToSeq

LEMMA ReferencedFinite ==
    ASSUME LedgerInv
    PROVE  IsFiniteSet(Referenced)
<1>1. PICK s : s = Records
  OBVIOUS
<1>2. s \in Seq(ChainRow) /\ Len(s) \in Nat /\ DOMAIN s = 1 .. Len(s)
  BY <1>1, Shaped, Chains, LenProperties
<1> DEFINE D == {i \in 1 .. Len(s) : \E r \in Reports : s[i] = Row("archive", r)}
           f == [i \in D |-> s[i].by]
<1>3. IsFiniteSet(D)
  <2>1. IsFiniteSet(1 .. Len(s))
    BY <1>2, FS_Interval
  <2>2. D \in SUBSET (1 .. Len(s))
    OBVIOUS
  <2>3. QED
    BY <2>1, <2>2, FS_Subset
<1>4. Referenced = {r \in Reports : \E i \in 1 .. Len(s) : s[i] = Row("archive", r)}
  BY <1>1, <1>2 DEF Referenced, Listed
<1>5. \A r : Row("archive", r).by = r
  BY DEF Row
<1>6. f \in Surjection(D, Referenced)
  <2>1. f \in [D -> Referenced]
    BY <1>4, <1>5
  <2>2. \A r \in Referenced : \E i \in D : f[i] = r
    BY <1>4, <1>5
  <2>3. QED
    BY <2>1, <2>2 DEF Surjection
<1> HIDE DEF D, f
<1>7. QED
  BY <1>3, <1>6, FS_Surjection

\* A report that a row names is there, published and durable.
LEMMA ReferencedReports ==
    ASSUME LedgerInv, NEW r \in Referenced
    PROVE  r \in Reports /\ report[r] = Single(Row("report", r)) /\ Filed(report[r])
<1>1. r \in Reports /\ Listed(Row("archive", r))
  BY DEF Referenced
<1>2. PICK i \in DOMAIN Records : Records[i] = Row("archive", r)
  BY <1>1 DEF Listed
<1>3. \E f \in {ledger, continuation} :
         f # Missing /\ \E j \in DOMAIN f.rows : f.rows[j] = Row("archive", r)
  <2>1. \A f : Filed(f) => /\ f.rows \in Seq(ChainRow) /\ Complete(f) \in Seq(ChainRow)
                           /\ Begins(Complete(f), f.rows)
    BY CompleteRows
  <2>2. \A f : Filed(f) => \A j \in 1 .. Len(Complete(f)) :
                             j \in DOMAIN f.rows /\ f.rows[j] = Complete(f)[j]
    <3>1. SUFFICES ASSUME NEW f, Filed(f), NEW j \in 1 .. Len(Complete(f))
                   PROVE  j \in DOMAIN f.rows /\ f.rows[j] = Complete(f)[j]
      OBVIOUS
    <3>2. PICK s, t : s = f.rows /\ t = Complete(f)
      OBVIOUS
    <3>3. s \in Seq(ChainRow) /\ t \in Seq(ChainRow) /\ Begins(t, s)
      BY <2>1, <3>1, <3>2
    <3>4. Len(s) \in Nat /\ Len(t) \in Nat /\ DOMAIN s = 1 .. Len(s)
      BY <3>3, LenProperties
    <3>5. QED
      BY <3>1, <3>2, <3>3, <3>4 DEF Begins
  <2>3. PICK b, a : /\ b = Earlier
                    /\ a = IF Active = Missing THEN <<>> ELSE Complete(Active)
    OBVIOUS
  <2>4. /\ b \in Seq(ChainRow) /\ a \in Seq(ChainRow) /\ Records = b \o a
        /\ Active # Missing => Filed(Active)
    BY <2>1, <2>3, Shaped, Chains, EmptySeq
  <2>5. /\ Len(b) \in Nat /\ Len(a) \in Nat /\ i \in 1 .. Len(b) + Len(a)
        /\ (b \o a)[i] = IF i <= Len(b) THEN b[i] ELSE a[i - Len(b)]
    BY <1>2, <2>4, LenProperties, ConcatProperties
  <2>6. CASE i <= Len(b)
    <3>1. b # <<>> /\ i \in 1 .. Len(b)
      BY <2>5, <2>6, EmptySeq
    <3>2. manifest # Missing /\ b = Complete(ledger) /\ Filed(ledger) /\ ledger # Missing
      BY <2>3, <3>1, Shaped DEF Earlier, Shape
    <3>3. QED
      BY <1>2, <2>2, <2>4, <2>5, <2>6, <3>1, <3>2
  <2>7. CASE ~(i <= Len(b))
    <3>1. i - Len(b) \in 1 .. Len(a) /\ a # <<>>
      BY <2>5, <2>7, EmptySeq
    <3>2. Active # Missing /\ a = Complete(Active) /\ Filed(Active) /\ Active \in {ledger, continuation}
      BY <2>3, <2>4, <3>1 DEF Active
    <3>3. QED
      BY <1>2, <2>2, <2>4, <2>5, <2>7, <3>1, <3>2
  <2>8. QED
    BY <2>6, <2>7
<1>4. report[r] = Single(Row("report", r))
  BY <1>1, <1>3 DEF LedgerInv, Archived
<1>5. QED
  BY <1>1, <1>4, ReportRow

LEMMA SourcesKnown ==
    ASSUME LedgerInv, ledger # Missing
    PROVE  /\ Sources \in Seq(File) /\ Len(Sources) \in Nat
           /\ \A i \in 1 .. Len(Sources) : Filed(Sources[i])
           /\ \E i \in 1 .. Len(Sources) : Sources[i] = Active
<1> DEFINE n == Cardinality(Referenced)
           named == [i \in DOMAIN SetToSeq(Referenced) |-> report[SetToSeq(Referenced)[i]]]
           own == IF manifest = Missing THEN <<ledger>> ELSE <<continuation, ledger, manifest>>
<1>1. n \in Nat /\ SetToSeq(Referenced) \in [1 .. n -> Referenced]
  BY ReferencedFinite, SomeOrder
<1> DEFINE Kept == {f \in File : Filed(f)}
<1>2. \A f : Filed(f) => f \in Kept
  BY DEF Filed, Holds, File
<1>3. \A r \in Referenced : report[r] \in Kept
  BY <1>2, ReferencedReports
<1>4. named \in Seq(Kept) /\ Len(named) = n
  <2>1. named \in [1 .. n -> Kept]
    BY <1>1, <1>3
  <2>2. QED
    BY <1>1, <2>1, LenProperties, SeqDef
<1>5. /\ ledger \in Kept /\ (manifest # Missing => continuation \in Kept /\ manifest \in Kept)
  BY <1>2, LedgerTyped, Shaped DEF Shape
<1>6. own \in Seq(Kept) /\ Len(own) >= 1 /\ Len(own) \in Nat /\ own[1] = Active
  <2>1. CASE manifest = Missing
    BY <1>5, <2>1 DEF Active
  <2>2. CASE manifest # Missing
    <3> DEFINE three == <<continuation, ledger, manifest>>
    <3>1. three \in Seq(Kept) /\ Len(three) = 3 /\ three[1] = continuation
      BY <1>5, <2>2
    <3>2. own = three /\ Active = continuation
      BY <2>2 DEF Active
    <3> HIDE DEF three, own
    <3>3. QED
      BY <3>1, <3>2
  <2>3. QED
    BY <2>1, <2>2
<1>7. Sources = named \o own
  BY DEF Sources
<1> HIDE DEF n, named, own, Kept
<1>8. /\ named \o own \in Seq(Kept) /\ Len(named \o own) = Len(named) + Len(own)
      /\ (named \o own)[n + 1] = own[1]
  <2>1. /\ named \o own \in Seq(Kept) /\ Len(named \o own) = Len(named) + Len(own)
        /\ \A i \in 1 .. Len(named) + Len(own) :
             (named \o own)[i] = IF i <= Len(named) THEN named[i] ELSE own[i - Len(named)]
    BY <1>4, <1>6, ConcatProperties
  <2>2. PICK x, l, o : x = named \o own /\ l = Len(named) /\ o = Len(own)
    OBVIOUS
  <2>3. /\ l \in Nat /\ o \in Nat /\ o >= 1 /\ l = n
        /\ \A i \in 1 .. l + o : x[i] = IF i <= l THEN named[i] ELSE own[i - l]
    BY <1>1, <1>4, <1>6, <2>1, <2>2
  <2>4. x[l + 1] = own[1]
    BY <2>3
  <2>5. QED
    BY <2>1, <2>2, <2>3, <2>4
<1>9. Sources \in Seq(Kept) /\ Len(Sources) \in Nat /\ n + 1 \in 1 .. Len(Sources)
      /\ Sources[n + 1] = Active
  BY <1>1, <1>4, <1>6, <1>7, <1>8
<1>10. \A i \in 1 .. Len(Sources) : Sources[i] \in Kept
  BY <1>9, ElementOfSeq
<1>11. Seq(Kept) \subseteq Seq(File)
  BY SeqMonotonic DEF Kept
<1>12. QED
  BY <1>9, <1>10, <1>11 DEF Kept

LEMMA CopiesKnown ==
    ASSUME LedgerInv, ledger # Missing
    PROVE  /\ Copies \in Seq(Copy) /\ Len(Copies) \in Nat
           /\ \A i \in 1 .. Len(Copies) :
                Holds(Copies[i], ChainRow \cup Receipt) /\ Copies[i].safe = Copies[i].end
<1> DEFINE R == ChainRow \cup Receipt
<1>1. PICK s, m : s = Sources /\ m = Len(Sources)
  OBVIOUS
<1>2. s \in Seq(File) /\ m \in Nat /\ \A i \in 1 .. m : Filed(s[i])
  BY <1>1, SourcesKnown
<1>3. Copies = [i \in 1 .. m + 1 |-> IF i > m THEN Single(Row("receipt", s)) ELSE Synced(s[i])]
  BY <1>1 DEF Copies
<1>4. \A i \in 1 .. m : Holds(Synced(s[i]), R) /\ Synced(s[i]).safe = Synced(s[i]).end
  <2>1. SUFFICES ASSUME NEW f, Filed(f)
                 PROVE  Holds(Synced(f), R) /\ Synced(f).safe = Synced(f).end
    BY <1>2
  <2>2. Filed(Synced(f)) /\ Synced(f).safe = Synced(f).end
    BY <2>1, SyncedRows
  <2>3. Seq(ChainRow) \subseteq Seq(R)
    BY SeqMonotonic
  <2>4. QED
    BY <2>2, <2>3 DEF Filed, Holds, FileOf
<1>5. Holds(Single(Row("receipt", s)), R) /\ Single(Row("receipt", s)).safe = Single(Row("receipt", s)).end
  <2>1. PICK row : row = Row("receipt", s)
    OBVIOUS
  <2>2. row \in R
    BY <1>2, <2>1 DEF Row, Receipt
  <2> DEFINE rows == <<row>>
             end == 3
  <2>3. /\ rows \in Seq(R) /\ Len(rows) = (end + 2) \div 3
        /\ Single(row) = [rows |-> rows, end |-> end, safe |-> end]
        /\ end \in Nat /\ end <= end
    BY <2>2 DEF Single
  <2> HIDE DEF rows, end
  <2>4. Holds(Single(row), R) /\ Single(row).end = end /\ Single(row).safe = end
    BY <2>3, HeldIs
  <2>5. QED
    BY <2>1, <2>4
<1>6. \A i \in 1 .. m + 1 : Holds(Copies[i], R) /\ Copies[i].safe = Copies[i].end
  <2>1. SUFFICES ASSUME NEW i \in 1 .. m + 1 PROVE Holds(Copies[i], R) /\ Copies[i].safe = Copies[i].end
    OBVIOUS
  <2>2. CASE i > m
    BY <1>3, <1>5, <2>1, <2>2
  <2>3. CASE ~(i > m)
    <3>1. i \in 1 .. m /\ Copies[i] = Synced(s[i])
      BY <1>2, <1>3, <2>1, <2>3
    <3>2. QED
      BY <1>4, <3>1
  <2>4. QED
    BY <2>2, <2>3
<1>7. Copies \in [1 .. m + 1 -> FileOf(R)]
  <2>1. \A i \in 1 .. m + 1 : Copies[i] \in FileOf(R)
    BY <1>6 DEF Holds
  <2>2. QED
    BY <1>3, <2>1
<1>8. Copies \in Seq(Copy) /\ Len(Copies) = m + 1
  <2> DEFINE k == m + 1
             S == FileOf(R)
  <2>0. k \in Nat
    BY <1>2
  <2>1. Copies \in [1 .. k -> S]
    BY <1>7
  <2> HIDE DEF k, S
  <2>2. Copies \in Seq(S)
    BY <2>0, <2>1, SeqDef
  <2>3. Len(Copies) = k
    BY <2>0, <2>1, <2>2, LenProperties
  <2>4. QED
    BY <2>2, <2>3 DEF k, S, Copy
<1>9. \A i \in 1 .. Len(Copies) : Holds(Copies[i], R) /\ Copies[i].safe = Copies[i].end
  BY <1>6, <1>8
<1>10. Len(Copies) \in Nat
  BY <1>2, <1>8
<1>11. QED
  BY <1>8, <1>9, <1>10

\* The copies that are held, and the rest as they have to be.
LEMMA CopiesRest ==
    ASSUME NEW S, NEW h \in Seq(S), NEW c \in Seq(S), NEW n \in Nat, Len(h) <= n, n <= Len(c)
    PROVE  /\ h \o SubSeq(c, Len(h) + 1, n) \in Seq(S)
           /\ Len(h \o SubSeq(c, Len(h) + 1, n)) = n
           /\ \A i \in 1 .. n :
                (h \o SubSeq(c, Len(h) + 1, n))[i] = IF i <= Len(h) THEN h[i] ELSE c[i]
<1>1. Len(h) \in Nat /\ Len(c) \in Nat
  BY LenProperties
<1>2. \A i \in Len(h) + 1 .. n : c[i] \in S
  BY <1>1, ElementOfSeq
<1>3. /\ SubSeq(c, Len(h) + 1, n) \in Seq(S)
      /\ Len(SubSeq(c, Len(h) + 1, n)) = IF Len(h) + 1 <= n THEN n - (Len(h) + 1) + 1 ELSE 0
      /\ \A i \in 1 .. n - (Len(h) + 1) + 1 : SubSeq(c, Len(h) + 1, n)[i] = c[Len(h) + 1 + i - 1]
  BY <1>1, <1>2, SubSeqProperties
<1>4. PICK t, l : t = SubSeq(c, Len(h) + 1, n) /\ l = Len(h)
  OBVIOUS
<1>5. /\ t \in Seq(S) /\ l \in Nat /\ l <= n /\ Len(t) = n - l
      /\ \A i \in 1 .. n - l : t[i] = c[l + i]
  BY <1>1, <1>3, <1>4
<1>6. /\ h \o t \in Seq(S) /\ Len(h \o t) = l + Len(t)
      /\ \A i \in 1 .. l + Len(t) : (h \o t)[i] = IF i <= l THEN h[i] ELSE t[i - l]
  BY <1>4, <1>5, ConcatProperties
<1>7. \A i \in 1 .. n : (h \o t)[i] = IF i <= l THEN h[i] ELSE c[i]
  BY <1>5, <1>6
<1>8. QED
  BY <1>4, <1>5, <1>6, <1>7

LEMMA RestFills ==
    ASSUME NEW S, NEW h \in Seq(S), NEW c \in Seq(S), NEW n \in Nat, Len(h) <= n, n <= Len(c),
           NEW t, t = h \o SubSeq(c, Len(h) + 1, n)
    PROVE  /\ t \in Seq(S) /\ Len(t) = n
           /\ \A i \in 1 .. n : t[i] = IF i <= Len(h) THEN h[i] ELSE c[i]
<1>1. /\ h \o SubSeq(c, Len(h) + 1, n) \in Seq(S)
      /\ Len(h \o SubSeq(c, Len(h) + 1, n)) = n
      /\ \A i \in 1 .. n :
           (h \o SubSeq(c, Len(h) + 1, n))[i] = IF i <= Len(h) THEN h[i] ELSE c[i]
  BY CopiesRest
<1>2. QED
  BY <1>1

\* What a process leaves of a copy.
LEMMA CopyBegun ==
    ASSUME NEW R, NEW c, Holds(c, R), NEW f \in Partial(Empty, [c EXCEPT !.safe = 0])
    PROVE  Holds(f, R)
<1>1. /\ c.rows \in Seq(R) /\ c.end \in Nat /\ Len(c.rows) = (c.end + 2) \div 3
      /\ c = [rows |-> c.rows, end |-> c.end, safe |-> c.safe]
  BY DEF Holds, FileOf
<1>2. PICK h : h = [c EXCEPT !.safe = 0]
  OBVIOUS
<1>3. h = [rows |-> c.rows, end |-> c.end, safe |-> 0]
  BY <1>1, <1>2
<1>4. Holds(h, R) /\ h.rows = c.rows /\ h.end = c.end /\ h.safe = 0
  <2> DEFINE rows == c.rows
             end == c.end
             safe == 0
  <2>1. rows \in Seq(R) /\ end \in Nat /\ safe \in Nat /\ safe <= end /\ Len(rows) = (end + 2) \div 3
        /\ h = [rows |-> rows, end |-> end, safe |-> safe]
    BY <1>1, <1>3
  <2> HIDE DEF rows, end, safe
  <2>2. Holds(h, R) /\ h.rows = rows /\ h.end = end /\ h.safe = safe
    BY <2>1, HeldIs
  <2>3. QED
    BY <2>2 DEF rows, end, safe
<1>5. PICK e \in 0 .. h.end : f = Cut(h, e)
  BY <1>2 DEF Partial, Empty
<1>6. e \in Nat
  BY <1>1, <1>4, <1>5
<1>7. /\ f = [rows |-> f.rows, end |-> f.end, safe |-> f.safe] /\ f.rows = Cut(h, e).rows /\ f.end = e
      /\ f.safe \in {0, e}
  BY <1>4, <1>5 DEF Cut
<1>8. f.safe \in 0 .. e
  BY <1>6, <1>7
<1>9. QED
  BY <1>4, <1>5, <1>7, <1>8, HeldCut

LEMMA RetainEvidenceStep ==
    ASSUME LedgerInv, RetainEvidence
    PROVE  LedgerInv'
<1> DEFINE R == ChainRow \cup Receipt
<1>1. /\ Retainable /\ (bundle # Missing => ~bundle.published)
      /\ \/ /\ bundle' = [published |-> TRUE,
                          copies |-> Held \o SubSeq(Copies, Len(Held) + 1, Len(Copies))]
            /\ Answer(Records)
         \/ /\ \E i \in Len(Held) + 1 .. Len(Copies) :
                  \E f \in Partial(Empty, [Copies[i] EXCEPT !.safe = 0]) :
                      bundle' = [published |-> FALSE,
                                 copies |-> Append(Held \o SubSeq(Copies, Len(Held) + 1, i - 1), f)]
            /\ Dies
      /\ relied' = (\/ relied
                    \/ \E i \in DOMAIN Held : Unsynced(Held[i])
                    \/ \E i \in DOMAIN Sources : Unsynced(Sources[i]))
      /\ UNCHANGED <<ledger, continuation, stage, manifest, report, requests>>
  BY DEF RetainEvidence
<1>2. /\ Valid /\ Sealed(Records) /\ NothingUnknown
      /\ bundle # Missing => \A i \in DOMAIN bundle.copies : SameBytes(bundle.copies[i], Copies[i])
  BY <1>1 DEF Retainable
<1>3. ledger # Missing /\ Active # Missing /\ Filed(Active)
  BY <1>2, Shaped, Chains DEF Valid, Spliced, Shape, Active
<1>4. PICK c, h : c = Copies /\ h = Held
  OBVIOUS
<1>5. /\ c \in Seq(Copy) /\ Len(c) \in Nat
      /\ \A i \in 1 .. Len(c) : Holds(c[i], R) /\ c[i].safe = c[i].end
  BY <1>3, <1>4, CopiesKnown
<1>6. /\ h \in Seq(Copy) /\ Len(h) \in Nat /\ Len(h) <= Len(c)
      /\ \A i \in 1 .. Len(h) : Holds(h[i], R) /\ SameBytes(h[i], c[i])
  <2>1. CASE bundle = Missing
    BY <1>4, <1>5, <2>1, EmptySeq DEF Held
  <2>2. CASE bundle # Missing
    <3>1. /\ h = bundle.copies /\ bundle \in Bundle
          /\ \A i \in DOMAIN h : Holds(h[i], R) /\ SameBytes(h[i], c[i])
          /\ Len(h) <= Len(c)
      BY <1>2, <1>4, <2>2 DEF Held, LedgerInv, LedgerTypeOK, Bundled
    <3>2. h \in Seq(Copy)
      BY <3>1 DEF Bundle
    <3>3. QED
      BY <3>1, <3>2, LenProperties
  <2>3. QED
    BY <2>1, <2>2
<1>15. h \in Seq(Copy) /\ c \in Seq(Copy)
  BY <1>5, <1>6
<1>16. ASSUME NEW n \in Nat, Len(h) <= n, n <= Len(c), NEW t, t = h \o SubSeq(c, Len(h) + 1, n)
       PROVE  /\ t \in Seq(Copy) /\ Len(t) = n
              /\ \A i \in 1 .. n : t[i] = IF i <= Len(h) THEN h[i] ELSE c[i]
  BY <1>15, <1>16, RestFills
\* The chain is what it was.
<1>7. Records' = Records /\ DurableRecords' = DurableRecords /\ Active' = Active
      /\ Copies' = c /\ NothingUnknown'
  BY <1>1, <1>2, <1>4 DEF Records, DurableRecords, Active, Copies, Sources, NothingUnknown,
       Referenced, Listed
<1>8. Records \in Seq(ChainRow) /\ DurableRecords \in Seq(ChainRow)
  BY Shaped, Chains
<1>9. ASSUME ~relied'
      PROVE  /\ ~relied /\ Active.safe = Active.end /\ DurableRecords = Records
             /\ \A i \in 1 .. Len(h) : h[i].safe = h[i].end
  <2>1. /\ ~relied /\ \A i \in DOMAIN h : ~Unsynced(h[i])
        /\ \A i \in DOMAIN Sources : ~Unsynced(Sources[i])
    BY <1>1, <1>4, <1>9
  <2>2. PICK s : s = Sources
    OBVIOUS
  <2>3. s \in Seq(File) /\ \E i \in 1 .. Len(s) : s[i] = Active
    BY <1>3, <2>2, SourcesKnown
  <2>4. ~Unsynced(Active)
    BY <2>1, <2>2, <2>3, LenProperties
  <2>5. Active.safe = Active.end
    BY <1>3, <2>4, NotUnsynced DEF Filed
  <2>6. Durable(Active) = Complete(Active)
    BY <1>3, <2>5, CompleteRows
  <2>7. continuation # Missing => ledger.safe = ledger.end
    BY <2>1 DEF LedgerInv, ReliedDurable
  <2>8. DurableRecords = Records
    BY <1>3, <2>6, <2>7, Shaped, Chains
  <2>9. \A i \in 1 .. Len(h) : h[i].safe = h[i].end
    <3>1. SUFFICES ASSUME NEW i \in 1 .. Len(h) PROVE h[i].safe = h[i].end
      OBVIOUS
    <3>2. i \in DOMAIN h /\ Holds(h[i], R)
      BY <1>6, <3>1, LenProperties
    <3>3. PICK x : x = h[i]
      OBVIOUS
    <3>4. Holds(x, R) /\ ~Unsynced(x)
      BY <2>1, <3>2, <3>3
    <3>5. x # Missing
      BY <3>4, LedgerAssumption DEF Holds, Copy
    <3>6. QED
      BY <3>3, <3>4, <3>5, NotUnsynced
  <2>10. QED
    BY <2>1, <2>5, <2>8, <2>9
<1>10. PICK a : a = Records
  OBVIOUS
<1>11. ASSUME NEW new \in Seq(Copy), NEW done \in BOOLEAN,
              bundle' = [published |-> done, copies |-> new],
              \A i \in DOMAIN new : Holds(new[i], R),
              Len(new) <= Len(c),
              answered' \subseteq answered \cup {a},
              done => /\ Len(new) = Len(c)
                      /\ \A i \in 1 .. Len(c) :
                                new[i] = IF i <= Len(h) THEN h[i] ELSE c[i]
       PROVE  LedgerInv'
  <2>1. /\ bundle' \in Bundle /\ bundle' # Missing /\ bundle'.copies = new
        /\ bundle'.published = done
    BY <1>11, LedgerAssumption DEF Bundle
  <2>2. /\ a \in Seq(ChainRow) /\ Begins(a, Records') /\ (Sealed(a) => a = Records')
        /\ ~relied' => Begins(a, DurableRecords')
    BY <1>7, <1>8, <1>9, <1>10, BeginsOrder
  <2>3. /\ answered' \subseteq Seq(ChainRow) /\ ChainsKept' /\ SealFinal'
        /\ ~relied' => \A chain \in answered' : IsPrefix(chain, DurableRecords')
    <3>1. ~relied' => ~relied /\ Begins(DurableRecords, DurableRecords') /\ Begins(a, DurableRecords')
      BY <1>7, <1>8, <1>9, <2>2, BeginsOrder
    <3>2. Begins(Records, Records')
      BY <1>7, <1>8, BeginsOrder
    <3>3. QED
      BY <1>7, <1>8, <1>11, <2>2, <3>1, <3>2, AnswersKept
  <2>4. Sealed(Records)'
    BY <1>2, <1>7 DEF Sealed
  <2>5. LedgerTypeOK'
    <3>1. relied' \in BOOLEAN
      BY <1>1, LedgerTyped
    <3>2. QED
      BY <1>1, <1>11, <2>1, <2>3, <3>1 DEF LedgerInv, LedgerTypeOK, Formed
  <2>6. SealLast' /\ Archived'
    BY <1>1 DEF LedgerInv, SealLast, Archived
  <2>7. Recovering'
    <3>1. \A request : Pins(request) => Pins(request)'
      BY <1>1 DEF Pins, Damaged, RequestOf
    <3>2. QED
      BY <1>1, <3>1 DEF LedgerInv, Recovering
  <2>8. ReliedDurable'
    BY <1>1, <1>9, <2>3 DEF LedgerInv, ReliedDurable
  <2>9. RetainedWhole'
    <3>1. SUFFICES ASSUME done
                   PROVE  /\ Len(new) = Len(c)
                          /\ \A i \in DOMAIN c : SameBytes(new[i], c[i])
      BY <1>7, <2>1, <2>4 DEF RetainedWhole, SameBytes
    <3>2. SUFFICES ASSUME NEW i \in 1 .. Len(c) PROVE SameBytes(new[i], c[i])
      BY <1>5, <1>11, <3>1, LenProperties
    <3>3. CASE i <= Len(h)
      BY <1>6, <1>11, <3>1, <3>2, <3>3
    <3>4. CASE ~(i <= Len(h))
      BY <1>11, <3>1, <3>2, <3>4 DEF SameBytes
    <3>5. QED
      BY <3>3, <3>4
  <2>10. Bundled'
    <3>1. ASSUME ~relied', done, NEW i \in DOMAIN new PROVE new[i].safe = new[i].end
      <4>1. i \in 1 .. Len(c)
        BY <1>11, <3>1, LenProperties
      <4>2. CASE i <= Len(h)
        BY <1>6, <1>9, <1>11, <3>1, <4>1, <4>2
      <4>3. CASE ~(i <= Len(h))
        BY <1>5, <1>11, <3>1, <4>1, <4>3
      <4>4. QED
        BY <4>2, <4>3
    <3>2. QED
      BY <1>7, <1>9, <1>11, <2>1, <2>4, <3>1 DEF Bundled
  <2>11. QED
    BY <2>3, <2>5, <2>6, <2>7, <2>8, <2>9, <2>10 DEF LedgerInv, AnsweredKept
<1>12. CASE /\ bundle' = [published |-> TRUE,
                          copies |-> Held \o SubSeq(Copies, Len(Held) + 1, Len(Copies))]
            /\ Answer(Records)
  <2>1. PICK new : new = h \o SubSeq(c, Len(h) + 1, Len(c))
    OBVIOUS
  <2>0. /\ h \in Seq(Copy) /\ c \in Seq(Copy)
        /\ Len(c) \in Nat /\ Len(h) <= Len(c) /\ Len(c) <= Len(c)
    BY <1>5, <1>6
  <2>2. /\ new \in Seq(Copy) /\ Len(new) = Len(c)
        /\ \A i \in 1 .. Len(c) : new[i] = IF i <= Len(h) THEN h[i] ELSE c[i]
    BY <2>0, <2>1, RestFills
  <2>3. \A i \in DOMAIN new : Holds(new[i], R)
    <3>1. SUFFICES ASSUME NEW i \in 1 .. Len(c) PROVE Holds(new[i], R)
      BY <2>2, LenProperties
    <3>2. CASE i <= Len(h)
      <4>1. i \in 1 .. Len(h) /\ new[i] = h[i]
        BY <1>6, <2>2, <3>1, <3>2
      <4>2. Holds(h[i], R)
        BY <1>6, <4>1
      <4>3. QED
        BY <4>1, <4>2
    <3>3. CASE ~(i <= Len(h))
      BY <1>5, <2>2, <3>1, <3>3
    <3>4. QED
      BY <3>2, <3>3
  <2>4. bundle' = [published |-> TRUE, copies |-> new] /\ answered' \subseteq answered \cup {a}
    BY <1>4, <1>10, <1>12, <2>1 DEF Answer
  <2>5. Len(new) <= Len(c)
    BY <1>5, <2>2
  <2>6. QED
    BY <1>11, <2>2, <2>3, <2>4, <2>5
<1>13. CASE /\ \E i \in Len(Held) + 1 .. Len(Copies) :
                  \E f \in Partial(Empty, [Copies[i] EXCEPT !.safe = 0]) :
                      bundle' = [published |-> FALSE,
                                 copies |-> Append(Held \o SubSeq(Copies, Len(Held) + 1, i - 1), f)]
            /\ Dies
  <2>0. PICK i \in Len(h) + 1 .. Len(c) : \E f \in Partial(Empty, [c[i] EXCEPT !.safe = 0]) :
            bundle' = [published |-> FALSE,
                       copies |-> Append(h \o SubSeq(c, Len(h) + 1, i - 1), f)]
    BY <1>4, <1>13
  <2>1. PICK f \in Partial(Empty, [c[i] EXCEPT !.safe = 0]) :
            bundle' = [published |-> FALSE,
                       copies |-> Append(h \o SubSeq(c, Len(h) + 1, i - 1), f)]
    BY <2>0
  <2>2. i \in 1 .. Len(c) /\ i - 1 \in Nat /\ Len(h) <= i - 1 /\ i - 1 <= Len(c)
    <3>1. PICK l, m : l = Len(h) /\ m = Len(c)
      OBVIOUS
    <3>2. l \in Nat /\ m \in Nat /\ i \in l + 1 .. m
      BY <1>5, <1>6, <2>0, <3>1
    <3>3. i \in 1 .. m /\ i - 1 \in Nat /\ l <= i - 1 /\ i - 1 <= m
      BY <3>2
    <3>4. QED
      BY <3>1, <3>3
  <2>3. PICK t : t = h \o SubSeq(c, Len(h) + 1, i - 1)
    OBVIOUS
  <2>4. PICK n : n = i - 1
    OBVIOUS
  <2>5. /\ t \in Seq(Copy) /\ Len(t) = n
        /\ \A j \in 1 .. n : t[j] = IF j <= Len(h) THEN h[j] ELSE c[j]
    <3>1. /\ h \in Seq(Copy) /\ c \in Seq(Copy) /\ n \in Nat /\ Len(h) <= n /\ n <= Len(c)
          /\ t = h \o SubSeq(c, Len(h) + 1, n)
      <4>1. h \in Seq(Copy) /\ c \in Seq(Copy)
        BY <1>5, <1>6
      <4>2. n \in Nat /\ Len(h) <= n /\ n <= Len(c)
        BY <2>2, <2>4
      <4>3. t = h \o SubSeq(c, Len(h) + 1, n)
        BY <2>3, <2>4, Zenon
      <4>4. QED
        BY <4>1, <4>2, <4>3
    <3>2. QED
      BY <3>1, <1>16
  <2>6. Holds(f, R) /\ f \in Copy
    BY <1>5, <2>1, <2>2, CopyBegun DEF Holds, Copy
  <2>7. PICK new : new = Append(t, f)
    OBVIOUS
  <2>8. /\ new \in Seq(Copy) /\ Len(new) = n + 1 /\ new[n + 1] = f
        /\ \A j \in 1 .. n : new[j] = t[j]
    BY <2>5, <2>6, <2>7, AppendProperties
  <2>9. \A j \in DOMAIN new : Holds(new[j], R)
    <3>1. SUFFICES ASSUME NEW j \in 1 .. n + 1 PROVE Holds(new[j], R)
      BY <2>8, LenProperties
    <3>2. CASE j = n + 1
      BY <2>6, <2>8, <3>2
    <3>3. CASE j # n + 1 /\ j <= Len(h)
      <4>1. j \in 1 .. n /\ j \in 1 .. Len(h)
        BY <1>6, <2>2, <2>4, <3>1, <3>3
      <4>2. new[j] = h[j] /\ Holds(h[j], R)
        BY <1>6, <2>5, <2>8, <3>3, <4>1
      <4>3. QED
        BY <4>2
    <3>4. CASE j # n + 1 /\ ~(j <= Len(h))
      <4>1. j \in 1 .. n /\ j \in 1 .. Len(c)
        BY <1>5, <1>6, <2>2, <2>4, <3>1, <3>4
      <4>2. new[j] = c[j] /\ Holds(c[j], R)
        BY <1>5, <2>5, <2>8, <3>4, <4>1
      <4>3. QED
        BY <4>2
    <3>5. QED
      BY <3>2, <3>3, <3>4
  <2>10. Len(new) <= Len(c)
    BY <1>5, <2>2, <2>4, <2>8
  <2>11. answered' \subseteq answered \cup {a}
    BY <1>13 DEF Dies
  <2>12. QED
    BY <1>11, <2>1, <2>3, <2>7, <2>8, <2>9, <2>10, <2>11
<1>14. QED
  BY <1>1, <1>12, <1>13

-----------------------------------------------------------------------------
(* Loss of power. *)

LEMMA PowerFile ==
    ASSUME NEW f, Formed(f), NEW g \in Survivors(f)
    PROVE  /\ Formed(g) /\ (f = Missing => g = Missing)
           /\ f # Missing /\ f.safe # 0 => g # Missing
           /\ f # Missing /\ f.safe = f.end /\ f.end # 0 => g = f
           /\ g # Missing =>
                /\ f # Missing /\ Filed(f) /\ Filed(g) /\ g.end \in f.safe .. f.end /\ g.safe = g.end
                /\ Begins(g.rows, f.rows) /\ Begins(Complete(g), Complete(f))
                /\ Durable(g) = Complete(g) /\ Begins(Durable(f), Complete(g))
<1>1. CASE f = Missing
  BY <1>1 DEF Survivors, Formed
<1>2. CASE f # Missing
  <2>1. Filed(f)
    BY <1>2 DEF Formed
  <2>2. f.safe # 0 => g # Missing
    <3>1. SUFFICES ASSUME f.safe # 0, g = Missing PROVE FALSE
      OBVIOUS
    <3>2. PICK e \in f.safe .. f.end : g = [Cut(f, e) EXCEPT !.safe = e]
      BY <1>2, <3>1 DEF Survivors
    <3>3. e \in 0 .. f.end
      <4> DEFINE a == f.safe
                 b == f.end
      <4>1. a \in Nat /\ b \in Nat /\ e \in a .. b
        BY <2>1, <3>2, CompleteRows
      <4> HIDE DEF a, b
      <4>2. e \in 0 .. b
        BY <4>1
      <4>3. QED
        BY <4>2 DEF b
    <3>4. PICK h : h = [Cut(f, e) EXCEPT !.safe = e]
      OBVIOUS
    <3>5. /\ h.rows = Cut(f, e).rows /\ h.end = e /\ h.safe = e
          /\ h = [rows |-> h.rows, end |-> h.end, safe |-> h.safe]
      BY <3>4 DEF Cut
    <3>6. h.safe \in 0 .. e
      BY <3>3, <3>5, <2>1, CompleteRows
    <3>7. Filed(h)
      BY <2>1, <3>3, <3>5, <3>6, CutRows
    <3>8. QED
      BY <3>1, <3>2, <3>4, <3>7, LedgerAssumption DEF Filed, Holds, File
  <2>3. CASE g = Missing
    BY <1>2, <2>1, <2>2, <2>3 DEF Formed
  <2>4. CASE g # Missing
    BY <1>2, <2>1, <2>4, SurvivorRows DEF Formed
  <2>5. QED
    BY <2>3, <2>4
<1>3. QED
  BY <1>1, <1>2

\* Elements decide what a sequence is of.
LEMMA SeqOfElements ==
    ASSUME NEW S, NEW T, NEW s \in Seq(S), \A i \in 1 .. Len(s) : s[i] \in T
    PROVE  s \in Seq(T)
BY LenProperties, SeqDef

LEMMA PowerCopy ==
    ASSUME NEW R, NEW c, Holds(c, R),
           NEW g \in {Synced(c), [Cut(c, c.safe) EXCEPT !.safe = c.safe]}
    PROVE  /\ Holds(g, R) /\ g.safe = g.end
           /\ c.safe = c.end => SameBytes(g, c)
<1>1. /\ c.rows \in Seq(R) /\ c.end \in Nat /\ c.safe \in Nat /\ c.safe <= c.end
      /\ Len(c.rows) = (c.end + 2) \div 3
      /\ c = [rows |-> c.rows, end |-> c.end, safe |-> c.safe]
  BY DEF Holds, FileOf
<1>2. CASE g = Synced(c)
  <2>1. g = [rows |-> c.rows, end |-> c.end, safe |-> c.end]
    BY <1>1, <1>2 DEF Synced
  <2>2. g.rows = c.rows /\ g.end = c.end /\ g.safe = c.end
    BY <2>1
  <2>3. g.end <= g.end
    BY <1>1, <2>2
  <2>4. Holds(g, R)
    BY <1>1, <2>1, <2>2, <2>3 DEF Holds, FileOf
  <2>5. QED
    BY <2>2, <2>4 DEF SameBytes
<1>3. CASE g = [Cut(c, c.safe) EXCEPT !.safe = c.safe]
  <2>1. PICK e : e = c.safe
    OBVIOUS
  <2>2. /\ g.rows = Cut(c, e).rows /\ g.end = e /\ g.safe = e
        /\ g = [rows |-> g.rows, end |-> g.end, safe |-> g.safe]
    BY <1>3, <2>1 DEF Cut
  <2>3. e \in 0 .. c.end /\ g.safe \in 0 .. e
    <3> DEFINE b == c.end
    <3>1. b \in Nat /\ e \in Nat /\ e <= b
      BY <1>1, <2>1
    <3> HIDE DEF b
    <3>2. e \in 0 .. b /\ e \in 0 .. e
      BY <3>1
    <3>3. QED
      BY <2>2, <3>2 DEF b
  <2>4. Holds(g, R) /\ (e = c.end => g.rows = c.rows)
    BY <2>2, <2>3, HeldCut
  <2>5. QED
    BY <2>1, <2>2, <2>4 DEF SameBytes
<1>4. QED
  BY <1>2, <1>3

\* What power leaves of the files of a chain that nobody relied on undurably.
LEMMA PowerFiles ==
    ASSUME LedgerInv, ~relied, PowerLoss
    PROVE  /\ Formed(ledger)' /\ Formed(continuation)' /\ Formed(stage)' /\ Formed(manifest)'
           /\ ledger' \in Survivors(ledger) /\ continuation' \in Survivors(continuation)
           /\ ledger = Missing => ledger' = Missing
           /\ continuation = Missing => continuation' = Missing
           /\ continuation # Missing => ledger' = ledger
           /\ manifest' = manifest
           /\ manifest # Missing =>
                /\ continuation' # Missing /\ continuation'.end >= 3
                /\ continuation'.rows[1] = continuation.rows[1]
<1>1. /\ ledger' \in Survivors(ledger) /\ continuation' \in Survivors(continuation)
      /\ stage' \in Survivors(stage) /\ manifest' \in Survivors(manifest)
  BY DEF PowerLoss
<1>2. Formed(ledger) /\ Formed(continuation) /\ Formed(stage) /\ Formed(manifest)
  BY DEF LedgerInv, LedgerTypeOK
<1>3. /\ Formed(ledger') /\ Formed(continuation') /\ Formed(stage') /\ Formed(manifest')
      /\ ledger = Missing => ledger' = Missing
      /\ continuation = Missing => continuation' = Missing
      /\ manifest = Missing => manifest' = Missing
  BY <1>1, <1>2, PowerFile
<1>4. ASSUME continuation # Missing PROVE ledger' = ledger
  <2>1. PICK request \in requests : Pins(request)
    BY <1>4 DEF LedgerInv, Recovering
  <2>2. ledger # Missing /\ ledger.end # 0
    BY <2>1 DEF Pins, Damaged, Torn
  <2>3. ledger.safe = ledger.end
    BY <1>4 DEF LedgerInv, ReliedDurable
  <2>4. QED
    BY <1>1, <1>2, <2>2, <2>3, PowerFile
<1>5. ASSUME manifest # Missing
      PROVE  /\ manifest' = manifest /\ continuation' # Missing /\ continuation'.end >= 3
             /\ continuation'.rows[1] = continuation.rows[1]
  <2>1. PICK request \in requests : /\ Is(manifest, ManifestRow(request)) /\ continuation # Missing
                                    /\ continuation.end >= 3
    BY <1>5 DEF LedgerInv, Recovering
  <2>2. manifest.safe = manifest.end /\ continuation.safe >= 3
    BY <1>5 DEF LedgerInv, ReliedDurable
  <2>3. manifest.end # 0
    BY <2>1 DEF Is
  <2>4. manifest' = manifest
    BY <1>1, <1>2, <1>5, <2>2, <2>3, PowerFile
  <2>5. PICK f, g : f = continuation /\ g = continuation'
    OBVIOUS
  <2>6. Filed(f) /\ f # Missing /\ g \in Survivors(f) /\ f.safe >= 3 /\ Formed(f)
    BY <1>1, <1>2, <2>1, <2>2, <2>5 DEF Formed
  <2>7. f.safe \in Nat /\ f.safe # 0 /\ f.end \in Nat
    BY <2>6, CompleteRows
  <2>8. /\ g # Missing /\ Filed(g) /\ g.end \in f.safe .. f.end /\ Begins(g.rows, f.rows)
    BY <2>6, <2>7, PowerFile
  <2>9. g.end >= 3
    <3> DEFINE a == f.safe
               b == f.end
               e == g.end
    <3>1. a \in Nat /\ b \in Nat /\ e \in a .. b /\ a >= 3
      BY <2>6, <2>7, <2>8
    <3> HIDE DEF a, b, e
    <3>2. e >= 3
      BY <3>1
    <3>3. QED
      BY <3>2 DEF e
  <2>10. g.rows[1] = f.rows[1]
    <3>1. PICK s, t, e : s = g.rows /\ t = f.rows /\ e = g.end
      OBVIOUS
    <3>2. Len(s) = (e + 2) \div 3 /\ e \in Nat /\ e >= 3
      BY <2>8, <2>9, <3>1 DEF Filed, Holds, FileOf
    <3>3. 1 \in 1 .. Len(s)
      BY <3>2
    <3>4. QED
      BY <2>8, <3>1, <3>3 DEF Begins
  <2>11. QED
    BY <2>4, <2>5, <2>8, <2>9, <2>10
<1>6. QED
  BY <1>1, <1>3, <1>4, <1>5 DEF Formed

\* Power leaves of the chain at least what was durable, and adds nothing.
LEMMA PowerChain ==
    ASSUME LedgerInv, ~relied, PowerLoss
    PROVE  /\ Records' \in Seq(ChainRow) /\ DurableRecords' = Records'
           /\ Begins(DurableRecords, Records') /\ Begins(Records', Records)
<1>1. /\ Formed(ledger)' /\ Formed(continuation)'
      /\ ledger' \in Survivors(ledger) /\ continuation' \in Survivors(continuation)
      /\ ledger = Missing => ledger' = Missing
      /\ continuation = Missing => continuation' = Missing
      /\ continuation # Missing => ledger' = ledger
      /\ manifest' = manifest
      /\ manifest # Missing => continuation' # Missing
  BY PowerFiles
<1>2. Shape /\ Formed(ledger) /\ Formed(continuation)
      /\ (continuation # Missing => ledger.safe = ledger.end)
  BY Shaped DEF LedgerInv, LedgerTypeOK, ReliedDurable
<1>3. \A f : Filed(f) => /\ Complete(f) \in Seq(ChainRow) /\ Durable(f) \in Seq(ChainRow)
                         /\ f.safe = f.end => Durable(f) = Complete(f)
  BY CompleteRows
<1>4. <<>> \in Seq(ChainRow) /\ \A s \in Seq(ChainRow) : Begins(s, s) /\ Begins(<<>>, s) /\ s \o <<>> = s
  BY NoRow, BeginsOrder, EmptySeq, ConcatEmptySeq
<1>5. CASE manifest = Missing
  <2>1. PICK f, g : f = ledger /\ g = ledger'
    OBVIOUS
  <2>2. /\ Records = IF f = Missing THEN <<>> ELSE Complete(f)
        /\ DurableRecords = IF f = Missing THEN <<>> ELSE Durable(f)
        /\ Records' = IF g = Missing THEN <<>> ELSE Complete(g)
        /\ DurableRecords' = IF g = Missing THEN <<>> ELSE Durable(g)
    <3>1. f # Missing => Complete(f) \o <<>> = Complete(f) /\ Durable(f) \o <<>> = Durable(f)
      BY <1>2, <1>3, <1>4, <2>1 DEF Formed
    <3>2. g # Missing => Complete(g) \o <<>> = Complete(g) /\ Durable(g) \o <<>> = Durable(g)
      BY <1>1, <1>3, <1>4, <2>1 DEF Formed
    <3>3. <<>> \o <<>> = <<>>
      BY <1>4
    <3>4. Records = (IF f = Missing THEN <<>> ELSE Complete(f)) \o <<>>
          /\ DurableRecords = (IF f = Missing THEN <<>> ELSE Durable(f)) \o <<>>
      BY <1>5, <2>1 DEF Records, DurableRecords
    <3>5. Records' = (IF g = Missing THEN <<>> ELSE Complete(g)) \o <<>>
          /\ DurableRecords' = (IF g = Missing THEN <<>> ELSE Durable(g)) \o <<>>
      BY <1>1, <1>5, <2>1 DEF Records, DurableRecords
    <3>6. QED
      BY <3>1, <3>2, <3>3, <3>4, <3>5
  <2>3. Formed(f) /\ g \in Survivors(f)
    BY <1>1, <1>2, <2>1
  <2>4. CASE g # Missing
    <3>1. /\ f # Missing /\ Filed(f) /\ Filed(g) /\ Begins(Complete(g), Complete(f))
          /\ Durable(g) = Complete(g) /\ Begins(Durable(f), Complete(g))
      BY <2>3, <2>4, PowerFile
    <3>2. QED
      BY <1>3, <2>2, <2>4, <3>1
  <2>5. CASE g = Missing
    <3>1. f = Missing \/ (f.safe = 0 /\ Filed(f))
      BY <2>3, <2>5, PowerFile DEF Formed
    <3>2. f # Missing => Durable(f) = <<>> /\ Complete(f) \in Seq(ChainRow)
      <4>1. SUFFICES ASSUME f # Missing PROVE Durable(f) = <<>> /\ Complete(f) \in Seq(ChainRow)
        OBVIOUS
      <4>2. Filed(f) /\ f.safe = 0
        BY <3>1, <4>1
      <4>3. Durable(f) \in Seq(ChainRow) /\ Len(Durable(f)) = (f.safe + 1) \div 3
        BY <4>2, CompleteRows
      <4>4. Len(Durable(f)) = 0
        BY <4>2, <4>3
      <4>5. QED
        BY <1>3, <4>2, <4>3, <4>4, EmptySeq
    <3>3. QED
      BY <1>4, <2>2, <2>5, <3>2
  <2>6. QED
    BY <2>4, <2>5
<1>6. CASE manifest # Missing
  <2>1. PICK f, g, l : f = continuation /\ g = continuation' /\ l = ledger
    OBVIOUS
  <2>2. f # Missing /\ Filed(f) /\ g # Missing /\ Filed(l) /\ l # Missing /\ l.safe = l.end
    BY <1>1, <1>2, <1>6, <2>1 DEF Shape
  <2>3. /\ Filed(g) /\ Begins(Complete(g), Complete(f))
        /\ Durable(g) = Complete(g) /\ Begins(Durable(f), Complete(g))
    BY <1>1, <1>2, <2>1, <2>2, PowerFile
  <2>4. PICK b, s, d, t : b = Complete(l) /\ s = Complete(f) /\ d = Durable(f) /\ t = Complete(g)
    OBVIOUS
  <2>5. /\ b \in Seq(ChainRow) /\ s \in Seq(ChainRow) /\ d \in Seq(ChainRow) /\ t \in Seq(ChainRow)
        /\ Durable(l) = b /\ Durable(g) = t /\ Begins(t, s) /\ Begins(d, t)
    BY <1>3, <2>2, <2>3, <2>4
  <2>6. Records = b \o s /\ DurableRecords = b \o d
    BY <1>6, <2>1, <2>2, <2>4, <2>5 DEF Records, DurableRecords
  <2>7. Records' = b \o t /\ DurableRecords' = b \o t
    BY <1>1, <1>6, <2>1, <2>2, <2>4, <2>5 DEF Records, DurableRecords
  <2>8. b \o t \in Seq(ChainRow) /\ Begins(b \o t, b \o s) /\ Begins(b \o d, b \o t)
    BY <2>5, JoinRows
  <2>9. QED
    BY <2>6, <2>7, <2>8
<1>7. QED
  BY <1>5, <1>6

\* Nothing of a bundled chain can be lost.
LEMMA PowerBundled ==
    ASSUME LedgerInv, ~relied, PowerLoss, bundle # Missing
    PROVE  /\ Records' = Records /\ Active' = Active /\ Copies' = Copies
           /\ NothingUnknown' /\ Sealed(Records)' /\ ledger # Missing
<1>1. /\ Sealed(Records) /\ NothingUnknown /\ Active.safe = Active.end
  BY DEF LedgerInv, Bundled
<1>2. /\ ledger' \in Survivors(ledger) /\ continuation' \in Survivors(continuation)
      /\ continuation # Missing => ledger' = ledger
      /\ manifest' = manifest
  BY PowerFiles
<1>3. Formed(ledger) /\ Formed(continuation) /\ Shape
  BY Shaped DEF LedgerInv, LedgerTypeOK
<1>4. Records # <<>>
  BY <1>1 DEF Sealed
<1>5. ASSUME NEW f, Filed(f), Complete(f) # <<>> PROVE f.end # 0
  <2>1. Complete(f) \in Seq(ChainRow) /\ Len(Complete(f)) = (f.end + 1) \div 3
    BY <1>5, CompleteRows
  <2>2. f.end = 0 => Len(Complete(f)) = 0
    BY <2>1
  <2>3. QED
    BY <1>5, <2>1, <2>2, EmptySeq
<1>6. ledger # Missing /\ ledger' = ledger /\ (manifest # Missing => continuation' = continuation)
  <2>1. CASE manifest = Missing
    <3>1. Active = ledger
      BY <2>1 DEF Active
    <3>2. ledger # Missing
      <4>1. ledger = Missing => Records = <<>>
        BY <2>1, ConcatEmptySeq, EmptySeq DEF Records
      <4>2. QED
        BY <1>4, <4>1
    <3>3. Filed(ledger) /\ Complete(ledger) \in Seq(ChainRow)
      BY <1>3, <3>2, CompleteRows DEF Formed
    <3>4. Records = Complete(ledger)
      BY <2>1, <3>2, <3>3, ConcatEmptySeq DEF Records
    <3>5. ledger.end # 0
      BY <1>4, <1>5, <3>3, <3>4
    <3>6. ledger' = ledger
      BY <1>1, <1>2, <1>3, <3>1, <3>2, <3>5, PowerFile
    <3>7. QED
      BY <2>1, <3>2, <3>6
  <2>2. CASE manifest # Missing
    <3>1. continuation # Missing /\ ledger # Missing /\ Active = continuation
      BY <1>3, <2>2 DEF Shape, Active
    <3>2. continuation.end # 0
      BY <2>2 DEF LedgerInv, Recovering
    <3>3. continuation' = continuation
      BY <1>1, <1>2, <1>3, <3>1, <3>2, PowerFile
    <3>4. QED
      BY <1>2, <3>1, <3>3
  <2>3. QED
    BY <2>1, <2>2
<1>7. Records' = Records
  BY <1>2, <1>6 DEF Records
<1>8. Referenced' = Referenced
  BY <1>7 DEF Referenced, Listed
<1>9. report' = report
  <2>1. /\ report' \in [Reports -> UNION {Survivors(report[r]) : r \in Reports}]
        /\ \A r \in Reports : report'[r] \in Survivors(report[r])
    BY DEF PowerLoss
  <2>2. report \in [Reports -> File \cup {Missing}] /\ \A r \in Reports : Formed(report[r])
    BY DEF LedgerInv, LedgerTypeOK
  <2>3. ASSUME NEW r \in Reports PROVE report'[r] = report[r]
    <3>1. CASE r \in Referenced
      <4>1. report[r] = Single(Row("report", r)) /\ Filed(report[r])
        BY <3>1, ReferencedReports
      <4>2. report[r].safe = 3 /\ report[r].end = 3
        BY <4>1 DEF Single
      <4>3. report[r] # Missing
        BY <4>1, LedgerAssumption DEF Filed, Holds, File
      <4>4. PICK f, g : f = report[r] /\ g = report'[r]
        OBVIOUS
      <4>5. Formed(f) /\ g \in Survivors(f) /\ f # Missing /\ f.safe = f.end /\ f.end # 0
        BY <2>1, <2>2, <4>2, <4>3, <4>4
      <4>6. QED
        BY <4>4, <4>5, PowerFile
    <3>2. CASE r \notin Referenced
      <4>1. report[r] = Missing
        BY <1>1, <3>2 DEF NothingUnknown
      <4>2. QED
        BY <2>1, <4>1 DEF Survivors
    <3>3. QED
      BY <3>1, <3>2
  <2>4. QED
    BY <2>1, <2>2, <2>3
<1>10. Sources' = Sources
  BY <1>2, <1>6, <1>8, <1>9 DEF Sources
<1>11. Copies' = Copies
  BY <1>10 DEF Copies
<1>12. Active' = Active
  BY <1>2, <1>6 DEF Active
<1>13. NothingUnknown'
  BY <1>1, <1>8, <1>9 DEF NothingUnknown
<1>14. Sealed(Records)'
  BY <1>1, <1>7 DEF Sealed
<1>15. QED
  BY <1>6, <1>7, <1>11, <1>12, <1>13, <1>14

LEMMA PowerLossStep ==
    ASSUME LedgerInv, ~PowerAnywhere, PowerLoss
    PROVE  LedgerInv'
<1> DEFINE R == ChainRow \cup Receipt
<1>1. /\ ~relied /\ relied' = relied /\ requests' = requests /\ answered' = answered
      /\ report' \in [Reports -> UNION {Survivors(report[r]) : r \in Reports}]
      /\ \A r \in Reports : report'[r] \in Survivors(report[r])
      /\ IF bundle = Missing THEN bundle' = Missing
         ELSE \E cuts \in [DOMAIN bundle.copies -> {0, 1}] :
                  bundle' = [bundle EXCEPT !.copies =
                      [i \in DOMAIN bundle.copies |->
                          IF cuts[i] = 1 THEN Synced(bundle.copies[i])
                          ELSE [Cut(bundle.copies[i], bundle.copies[i].safe) EXCEPT
                                    !.safe = bundle.copies[i].safe]]]
  BY DEF PowerLoss
<1>2. /\ Formed(ledger)' /\ Formed(continuation)' /\ Formed(stage)' /\ Formed(manifest)'
      /\ ledger' \in Survivors(ledger) /\ continuation' \in Survivors(continuation)
      /\ ledger = Missing => ledger' = Missing
      /\ continuation = Missing => continuation' = Missing
      /\ continuation # Missing => ledger' = ledger
      /\ manifest' = manifest
      /\ manifest # Missing =>
           /\ continuation' # Missing /\ continuation'.end >= 3
           /\ continuation'.rows[1] = continuation.rows[1]
  BY <1>1, PowerFiles
<1>3. /\ Records' \in Seq(ChainRow) /\ DurableRecords' = Records'
      /\ Begins(DurableRecords, Records') /\ Begins(Records', Records)
  BY <1>1, PowerChain
<1>4. Formed(ledger) /\ Formed(continuation) /\ Shape
      /\ (continuation # Missing => ledger.safe = ledger.end)
      /\ \A r \in Reports : Formed(report[r])
  BY <1>1, Shaped DEF LedgerInv, LedgerTypeOK, ReliedDurable
<1>5. Records \in Seq(ChainRow) /\ DurableRecords \in Seq(ChainRow) /\ Begins(DurableRecords, Records)
  BY <1>4, Chains
\* What was answered was durable.
<1>6. /\ answered' \subseteq Seq(ChainRow) /\ ChainsKept' /\ SealFinal'
      /\ \A chain \in answered' : IsPrefix(chain, DurableRecords')
  <2>1. /\ answered \subseteq Seq(ChainRow)
        /\ \A chain \in answered : /\ IsPrefix(chain, DurableRecords)
                                   /\ Sealed(chain) => Records = chain
    BY <1>1 DEF LedgerInv, LedgerTypeOK, AnsweredKept, SealFinal, ReliedDurable
  <2>2. ASSUME NEW chain \in answered
        PROVE  /\ chain \in Seq(ChainRow) /\ Begins(chain, DurableRecords)
               /\ Begins(chain, Records') /\ IsPrefix(chain, Records')
               /\ Sealed(chain) => Records' = chain
    <3>1. chain \in Seq(ChainRow) /\ Begins(chain, DurableRecords)
      BY <1>5, <2>1, <2>2, PrefixRows
    <3>2. Begins(chain, Records')
      BY <1>3, <1>5, <3>1, BeginsOrder
    <3>3. IsPrefix(chain, Records')
      BY <1>3, <3>1, <3>2, PrefixRows
    <3>4. ASSUME Sealed(chain) PROVE Records' = chain
      <4>1. PICK s : s = Records'
        OBVIOUS
      <4>2. s \in Seq(ChainRow) /\ Begins(chain, s) /\ Begins(s, chain)
        BY <1>3, <2>1, <2>2, <3>2, <3>4, <4>1
      <4>3. Len(s) <= Len(chain)
        BY <4>2 DEF Begins
      <4>4. QED
        BY <3>1, <4>1, <4>2, <4>3, BeginsOrder
    <3>5. QED
      BY <3>1, <3>2, <3>3, <3>4
  <2>3. ChainsKept'
    BY <1>1, <2>2 DEF ChainsKept
  <2>4. SealFinal'
    <3>1. SUFFICES ASSUME NEW chain \in answered, Sealed(chain)' PROVE Records' = chain
      BY <1>1 DEF SealFinal
    <3>2. Sealed(chain)
      BY <3>1 DEF Sealed
    <3>3. QED
      BY <2>2, <3>1, <3>2
  <2>5. QED
    BY <1>1, <1>3, <2>1, <2>2, <2>3, <2>4
<1>7. /\ ledger' # Missing => /\ ledger # Missing /\ Begins(ledger'.rows, ledger.rows)
                              /\ ledger'.rows \in Seq(ChainRow) /\ ledger.rows \in Seq(ChainRow)
                              /\ ledger'.safe = ledger'.end
      /\ continuation' # Missing =>
            /\ continuation # Missing /\ Begins(continuation'.rows, continuation.rows)
            /\ continuation'.rows \in Seq(ChainRow) /\ continuation.rows \in Seq(ChainRow)
            /\ continuation'.safe = continuation'.end
  <2>1. ASSUME NEW f, NEW g, Formed(f), g \in Survivors(f), g # Missing
        PROVE  /\ f # Missing /\ Begins(g.rows, f.rows) /\ g.rows \in Seq(ChainRow)
               /\ f.rows \in Seq(ChainRow) /\ g.safe = g.end
    BY <2>1, PowerFile, CompleteRows
  <2>2. QED
    BY <1>2, <1>4, <2>1
<1>8. ledger' # Missing => ledger'.rows \in Seq(Evidence)
  <2>1. SUFFICES ASSUME ledger' # Missing PROVE ledger'.rows \in Seq(Evidence)
    OBVIOUS
  <2>2. PICK s, t : s = ledger'.rows /\ t = ledger.rows
    OBVIOUS
  <2>3. s \in Seq(ChainRow) /\ t \in Seq(Evidence) /\ Begins(s, t)
    BY <1>7, <2>1, <2>2, LedgerTyped
  <2>4. \A i \in 1 .. Len(s) : s[i] \in Evidence
    BY <2>3, LenProperties, ElementOfSeq DEF Begins
  <2>5. QED
    BY <2>2, <2>3, <2>4, SeqOfElements
<1>9. SealLast'
  <2>1. SUFFICES ASSUME ledger' # Missing, NEW i \in 1 .. Len(ledger'.rows) - 1
                 PROVE  ledger'.rows[i].kind # "seal"
    BY DEF SealLast
  <2>2. PICK s, t : s = ledger'.rows /\ t = ledger.rows
    OBVIOUS
  <2>3. /\ s \in Seq(ChainRow) /\ t \in Seq(ChainRow) /\ Begins(s, t)
        /\ \A j \in 1 .. Len(t) - 1 : t[j].kind # "seal"
    BY <1>7, <2>1, <2>2 DEF LedgerInv, SealLast
  <2>4. i \in 1 .. Len(t) - 1 /\ i \in 1 .. Len(s)
    BY <2>1, <2>2, <2>3, LenProperties DEF Begins
  <2>5. QED
    BY <2>2, <2>3, <2>4 DEF Begins
<1>10. Recovering'
  <2>1. CASE continuation' = Missing
    BY <1>2, <2>1 DEF Recovering
  <2>2. CASE continuation' # Missing
    <3>1. continuation # Missing /\ ledger' = ledger
      BY <1>2, <1>7, <2>2
    <3>2. PICK request \in requests :
             /\ Pins(request)
             /\ IF manifest = Missing
                THEN continuation.rows \in {<<>>, <<Boundary(request)>>}
                ELSE /\ Is(manifest, ManifestRow(request))
                     /\ continuation.end >= 3 /\ continuation.rows[1] = Boundary(request)
      BY <3>1 DEF LedgerInv, Recovering
    <3>3. Pins(request)'
      BY <3>1, <3>2 DEF Pins, Damaged, RequestOf
    <3>4. CASE manifest = Missing
      <4>1. PICK s, t, row : s = continuation'.rows /\ t = continuation.rows /\ row = Boundary(request)
        OBVIOUS
      <4>2. s \in Seq(ChainRow) /\ Begins(s, t) /\ t \in {<<>>, <<row>>}
        BY <1>7, <2>2, <3>2, <3>4, <4>1
      <4>3. s \in {<<>>, <<row>>}
        <5>1. Len(s) \in Nat /\ (Len(s) = 0 => s = <<>>)
          BY <4>2, LenProperties, EmptySeq
        <5>2. Len(t) \in {0, 1} /\ (Len(t) = 1 => t = <<row>> /\ t[1] = row)
          BY <4>2
        <5>3. Len(s) = 0 \/ (Len(s) = 1 /\ Len(t) = 1 /\ s[1] = row)
          BY <4>2, <5>1, <5>2 DEF Begins
        <5>4. Len(s) = 1 /\ s[1] = row => s = <<row>>
          BY <4>2
        <5>5. QED
          BY <5>1, <5>3, <5>4
      <4>4. continuation'.rows \in {<<>>, <<Boundary(request)>>}
        BY <4>1, <4>3
      <4>5. QED
        BY <1>1, <1>2, <3>2, <3>3, <3>4, <4>4 DEF Recovering, Boundary
    <3>5. CASE manifest # Missing
      BY <1>1, <1>2, <3>2, <3>3, <3>5 DEF Recovering, Boundary, Is, ManifestRow
    <3>6. QED
      BY <3>4, <3>5
  <2>3. QED
    BY <2>1, <2>2
<1>11. Archived'
  <2>1. SUFFICES ASSUME NEW r \in Reports, NEW f \in {ledger', continuation'}, f # Missing,
                        NEW i \in DOMAIN f.rows, f.rows[i] = Row("archive", r)
                 PROVE  report'[r] = Single(Row("report", r))
    BY DEF Archived, Row, Single
  <2>2. PICK h \in {ledger, continuation} :
           h # Missing /\ Begins(f.rows, h.rows) /\ f.rows \in Seq(ChainRow) /\ h.rows \in Seq(ChainRow)
    BY <1>7, <2>1
  <2>3. PICK s, t : s = f.rows /\ t = h.rows
    OBVIOUS
  <2>4. i \in DOMAIN t /\ t[i] = Row("archive", r)
    BY <2>1, <2>2, <2>3, LenProperties DEF Begins
  <2>5. report[r] = Single(Row("report", r))
    BY <2>2, <2>3, <2>4 DEF LedgerInv, Archived
  <2>6. PICK x, y : x = report[r] /\ y = report'[r]
    OBVIOUS
  <2>7. x.safe = 3 /\ x.end = 3 /\ x # Missing /\ Formed(x) /\ y \in Survivors(x)
    <3>1. Formed(x) /\ y \in Survivors(x)
      BY <1>1, <1>4, <2>6
    <3>2. x.safe = 3 /\ x.end = 3
      BY <2>5, <2>6 DEF Single
    <3>3. x # Missing
      BY <2>5, <2>6, ReportRow, LedgerAssumption
    <3>4. QED
      BY <3>1, <3>2, <3>3
  <2>8. y = x
    BY <2>7, PowerFile
  <2>9. QED
    BY <2>5, <2>6, <2>8
<1>12. ReliedDurable'
  <2>1. continuation' # Missing => ledger'.safe = ledger'.end
    BY <1>2, <1>4, <1>7
  <2>2. manifest' # Missing => manifest'.safe = manifest'.end /\ continuation'.safe >= 3
    BY <1>1, <1>2, <1>7 DEF LedgerInv, ReliedDurable
  <2>3. QED
    BY <1>6, <2>1, <2>2 DEF ReliedDurable
<1>13. report' \in [Reports -> File \cup {Missing}] /\ \A r \in Reports : Formed(report'[r])
  <2>1. \A r \in Reports : Formed(report'[r])
    BY <1>1, <1>4, PowerFile
  <2>2. \A r \in Reports : report'[r] \in File \cup {Missing}
    BY <2>1 DEF Formed, Filed, Holds, File
  <2>3. QED
    BY <1>1, <2>1, <2>2
<1>14. CASE bundle = Missing
  <2>1. bundle' = Missing
    BY <1>1, <1>14
  <2>2. Bundled' /\ RetainedWhole'
    BY <2>1 DEF Bundled, RetainedWhole
  <2>3. LedgerTypeOK'
    BY <1>1, <1>2, <1>6, <1>8, <1>13, <2>1, LedgerTyped DEF LedgerTypeOK, Formed
  <2>4. QED
    BY <1>6, <1>9, <1>10, <1>11, <1>12, <2>2, <2>3 DEF LedgerInv, AnsweredKept
<1>15. CASE bundle # Missing
  <2>1. /\ Records' = Records /\ Active' = Active /\ Copies' = Copies
        /\ NothingUnknown' /\ Sealed(Records)' /\ ledger # Missing
    BY <1>1, <1>15, PowerBundled
  <2>2. PICK c, h : c = Copies /\ h = bundle.copies
    OBVIOUS
  <2>3. c \in Seq(Copy) /\ Len(c) \in Nat
    BY <2>1, <2>2, CopiesKnown
  <2>4. /\ h \in Seq(Copy) /\ Len(h) <= Len(c) /\ bundle \in Bundle
        /\ \A i \in DOMAIN h : Holds(h[i], R)
        /\ bundle.published => /\ Len(h) = Len(c)
                               /\ \A i \in DOMAIN c : SameBytes(h[i], c[i])
                               /\ \A i \in DOMAIN h : h[i].safe = h[i].end
        /\ Active.safe = Active.end
    BY <1>1, <1>15, <2>2 DEF LedgerInv, LedgerTypeOK, Bundled, Bundle, AnsweredKept, RetainedWhole
  <2>5. PICK cuts \in [DOMAIN h -> {0, 1}] :
           bundle' = [bundle EXCEPT !.copies =
               [i \in DOMAIN h |->
                   IF cuts[i] = 1 THEN Synced(h[i])
                   ELSE [Cut(h[i], h[i].safe) EXCEPT !.safe = h[i].safe]]]
    BY <1>1, <1>15, <2>2
  <2>6. PICK new : new = [i \in DOMAIN h |->
                   IF cuts[i] = 1 THEN Synced(h[i])
                   ELSE [Cut(h[i], h[i].safe) EXCEPT !.safe = h[i].safe]]
    OBVIOUS
  <2>7. /\ DOMAIN new = DOMAIN h
        /\ \A i \in DOMAIN h : /\ Holds(new[i], R) /\ new[i].safe = new[i].end
                               /\ h[i].safe = h[i].end => SameBytes(new[i], h[i])
    <3>1. DOMAIN new = DOMAIN h
      BY <2>6
    <3>2. SUFFICES ASSUME NEW i \in DOMAIN h
                   PROVE  /\ Holds(new[i], R) /\ new[i].safe = new[i].end
                          /\ h[i].safe = h[i].end => SameBytes(new[i], h[i])
      BY <3>1
    <3>3. PICK x, y : x = h[i] /\ y = new[i]
      OBVIOUS
    <3>4. Holds(x, R) /\ y \in {Synced(x), [Cut(x, x.safe) EXCEPT !.safe = x.safe]}
      BY <2>4, <2>6, <3>2, <3>3
    <3>5. Holds(y, R) /\ y.safe = y.end /\ (x.safe = x.end => SameBytes(y, x))
      <4> HIDE DEF R
      <4>1. CASE y = Synced(x)
        BY <3>4, <4>1, PowerCopy
      <4>2. CASE y = [Cut(x, x.safe) EXCEPT !.safe = x.safe]
        BY <3>4, <4>2, PowerCopy
      <4>3. QED
        BY <3>4, <4>1, <4>2
    <3>6. QED
      BY <3>3, <3>5
  <2>8. new \in Seq(Copy) /\ Len(new) = Len(h)
    <3>1. PICK n \in Nat : n = Len(h)
      BY <2>4, LenProperties
    <3>2. new \in [1 .. n -> Copy]
      <4>1. DOMAIN h = 1 .. n
        BY <2>4, <3>1, LenProperties
      <4>2. \A i \in 1 .. n : new[i] \in Copy
        BY <2>7, <4>1 DEF Holds, Copy
      <4>3. QED
        BY <2>6, <4>1, <4>2
    <3>3. QED
      BY <3>1, <3>2, LenProperties, SeqDef
  <2>9. bundle' = [published |-> bundle.published, copies |-> new] /\ bundle.published \in BOOLEAN
    BY <2>4, <2>5, <2>6 DEF Bundle
  <2>10. /\ bundle' \in Bundle /\ bundle' # Missing /\ bundle'.copies = new
         /\ bundle'.published = bundle.published
    BY <2>8, <2>9, LedgerAssumption DEF Bundle
  <2>11. LedgerTypeOK'
    BY <1>1, <1>2, <1>6, <1>8, <1>13, <2>7, <2>10, LedgerTyped DEF LedgerTypeOK, Formed
  <2>12. Bundled'
    BY <2>1, <2>2, <2>4, <2>7, <2>8, <2>10 DEF Bundled
  <2>13. RetainedWhole'
    <3>1. SUFFICES ASSUME bundle.published
                   PROVE  Len(new) = Len(c) /\ \A i \in DOMAIN c : SameBytes(new[i], c[i])
      BY <2>1, <2>2, <2>10 DEF RetainedWhole, SameBytes
    <3>2. \A i \in DOMAIN c : i \in DOMAIN h
      BY <2>3, <2>4, <3>1, LenProperties
    <3>3. QED
      BY <2>4, <2>7, <2>8, <3>1, <3>2 DEF SameBytes
  <2>14. QED
    BY <1>6, <1>9, <1>10, <1>11, <1>12, <2>11, <2>12, <2>13 DEF LedgerInv, AnsweredKept
<1>16. QED
  BY <1>14, <1>15

-----------------------------------------------------------------------------
LEMMA LedgerInitially ==
    ASSUME LedgerInit
    PROVE  LedgerInv
<1>1. Records = <<>>
  BY ConcatEmptySeq, EmptySeq DEF LedgerInit, Records
<1>2. LedgerTypeOK /\ SealLast /\ Recovering /\ Archived /\ ReliedDurable /\ Bundled
  BY DEF LedgerInit, LedgerTypeOK, Formed, SealLast, Recovering, Archived, ReliedDurable, Bundled
<1>3. AnsweredKept
  BY DEF LedgerInit, AnsweredKept, ChainsKept, SealFinal, RetainedWhole
<1>4. QED
  BY <1>2, <1>3 DEF LedgerInv

\* The invariant of the ledger survives every operation and every fault, as
\* long as power is not lost after somebody relied on bytes that were not synced.
THEOREM LedgerInductive ==
    ASSUME LedgerInv, ~PowerAnywhere, [LedgerNext]_ledgerVars
    PROVE  LedgerInv'
<1>1. CASE LedgerNext
  <2>1. CASE \E o \in Owners : AppendEntry(o) \/ AppendRepeats(o) \/ RecoveryPreview(o)
    BY <2>1, AppendEntryStep, AppendRepeatsStep, RecoveryPreviewStep
  <2>2. CASE \E r \in Reports : ArchiveReport(r) \/ ArchiveRepeats(r)
    BY <2>2, ArchiveReportStep, ArchiveRepeatsStep
  <2>3. CASE \E q \in Seals : SealTerminal(q) \/ SealRepeats(q)
    BY <2>3, SealTerminalStep, SealRepeatsStep
  <2>4. CASE \E request \in requests :
                 RecoverRepeats(request) \/ \E o \in Owners : RecoverEvidence(request, o)
    BY <2>4, RecoverRepeatsStep, RecoverEvidenceStep
  <2>5. CASE RetainEvidence
    BY <2>5, RetainEvidenceStep
  <2>6. CASE PowerLoss
    BY <2>6, PowerLossStep
  <2>7. QED
    BY <1>1, <2>1, <2>2, <2>3, <2>4, <2>5, <2>6 DEF LedgerNext
<1>2. CASE UNCHANGED ledgerVars
  <2>1. UNCHANGED files /\ requests' = requests /\ answered' = answered /\ relied' = relied
    BY <1>2 DEF ledgerVars, files
  <2> DEFINE c == <<>>
  <2>2. /\ c \in Seq(ChainRow) /\ ~Sealed(c) /\ Begins(c, Records) /\ Begins(c, DurableRecords)
        /\ answered' \subseteq answered \cup {c}
    BY <2>1, NoRow, Shaped, Chains
  <2> HIDE DEF c
  <2>3. requests \subseteq requests' /\ requests' \subseteq Request /\ relied' \in BOOLEAN
    BY <2>1, LedgerTyped
  <2>4. QED
    BY <2>1, <2>2, <2>3, FilesStay
<1>3. QED
  BY <1>1, <1>2

\* A ledger that is damaged can be recovered, in every state of the invariant.
LEMMA DamageRecoverable ==
    ASSUME LedgerInv
    PROVE  Repairable
<1>1. SUFFICES ASSUME ~Valid, ~BeyondRepair
               PROVE  IF continuation = Missing THEN manifest = Missing /\ Damaged
                      ELSE \E request \in requests : Pins(request) /\ Prepared(request)
  BY DEF Repairable
<1>2. /\ ledger # Missing /\ Complete(ledger) # <<>> /\ Filed(ledger) /\ ledger.rows \in Seq(Evidence)
      /\ continuation # Missing => Whole(continuation) /\ continuation.rows # <<>>
  BY <1>1, LedgerTyped DEF BeyondRepair
<1>3. CASE continuation = Missing
  <2>1. manifest = Missing
    BY <1>3 DEF LedgerInv, Recovering
  <2>2. Torn(ledger)
    BY <1>1, <1>2, <1>3, <2>1 DEF Valid
  <2>3. PICK s, t : s = Complete(ledger) /\ t = ledger.rows
    OBVIOUS
  <2>4. /\ s \in Seq(ChainRow) /\ t \in Seq(Evidence) /\ Begins(s, t) /\ Len(s) = Len(t) - 1
        /\ \A i \in 1 .. Len(t) - 1 : t[i].kind # "seal"
    BY <1>2, <2>2, <2>3, CompleteRows DEF LedgerInv, SealLast
  <2>5. \A i \in DOMAIN s : s[i].kind \notin Settling
    <3>1. SUFFICES ASSUME NEW i \in 1 .. Len(s) PROVE s[i].kind \notin Settling
      BY <2>4, LenProperties
    <3>2. i \in 1 .. Len(t) - 1 /\ i \in 1 .. Len(t) /\ s[i] = t[i]
      BY <2>4, <3>1, LenProperties DEF Begins
    <3>3. t[i] \in Evidence /\ t[i].kind # "seal"
      BY <2>4, <3>2, ElementOfSeq
    <3>4. QED
      BY <3>2, <3>3 DEF Evidence, Settling
  <2>6. QED
    BY <1>2, <1>3, <2>1, <2>2, <2>3, <2>5 DEF Damaged
<1>4. CASE continuation # Missing
  <2>1. PICK request \in requests :
           /\ Pins(request)
           /\ IF manifest = Missing
              THEN continuation.rows \in {<<>>, <<Boundary(request)>>}
              ELSE /\ Is(manifest, ManifestRow(request))
                   /\ continuation.end >= 3 /\ continuation.rows[1] = Boundary(request)
    BY <1>4 DEF LedgerInv, Recovering
  <2>2. CASE manifest # Missing
    BY <1>1, <1>2, <1>4, <2>1, <2>2 DEF Valid, Spliced
  <2>3. CASE manifest = Missing
    <3>1. PICK f, row : f = continuation /\ row = Boundary(request)
      OBVIOUS
    <3>2. f.rows = <<row>> /\ Filed(f) /\ Whole(f) /\ f # Missing
      BY <1>2, <1>4, <2>1, <2>3, <3>1, LedgerTyped
    <3>3. f.end = 3
      <4>1. PICK e : e = f.end
        OBVIOUS
      <4>2. e \in Nat /\ (e + 2) \div 3 = Len(<<row>>) /\ e % 3 = 0
        BY <3>2, <4>1, CompleteRows DEF Filed, Holds, Whole
      <4>3. Len(<<row>>) = 1
        OBVIOUS
      <4>4. e = 3
        BY <4>2, <4>3
      <4>5. QED
        BY <4>1, <4>4
    <3>4. QED
      BY <1>4, <2>1, <3>1, <3>2, <3>3 DEF Prepared, Is
  <2>4. QED
    BY <2>2, <2>3
<1>5. QED
  BY <1>3, <1>4

\* The invariant holds from the first row to the retained bundle.
THEOREM LedgerInvariant == ~PowerAnywhere /\ LedgerSpec => []LedgerInv
<1>1. SUFFICES ASSUME ~PowerAnywhere PROVE LedgerSpec => []LedgerInv
  OBVIOUS
<1>2. LedgerInit => LedgerInv
  BY LedgerInitially
<1>3. LedgerInv /\ [LedgerNext]_ledgerVars => LedgerInv'
  BY <1>1, LedgerInductive
<1>4. QED
  BY <1>2, <1>3, PTL DEF LedgerSpec

\* Property AnsweredKept: a hash that append, archive, seal or recover has
\* answered stays in the chain, an answered seal is final, and a published
\* bundle is what was sealed, whoever dies and whenever power is lost before
\* anybody relies on bytes that were not synced (workflow-evidence-ledger).
THEOREM LedgerKept == ~PowerAnywhere /\ LedgerSpec => []AnsweredKept
<1>1. LedgerInv => AnsweredKept
  BY DEF LedgerInv
<1>2. QED
  BY <1>1, LedgerInvariant, PTL

\* Property Repairable: a damaged ledger can be recovered, however often its
\* recovery was cut off (recovery_preview, recover_evidence).
THEOREM DamageRepairable == ~PowerAnywhere /\ LedgerSpec => []Repairable
<1>1. LedgerInv => Repairable
  BY DamageRecoverable
<1>2. QED
  BY <1>1, LedgerInvariant, PTL
=============================================================================
